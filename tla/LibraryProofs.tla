---------------------------- MODULE LibraryProofs ----------------------------
(***************************************************************************)
(* The parts that share no state with the rest or with each other, which   *)
(* MCLibrary runs together.                                                *)
(*   - Recursion over finite sets, which the folds of the models are, and  *)
(*     Keep, which two readers and a search are made of: lemmas.           *)
(*   - CAP documents: composer, validator and parser agree, for all sets   *)
(*     of required elements and all texts.                                 *)
(*   - The retry engine: type correctness, the honesty of its totals and   *)
(*     the refinement of DeliveryContract, for every number of retries and *)
(*     all sets of ids and workers, however late the workers report.       *)
(*   - The audit log: its capacity, correlation ids that stay those of one *)
(*     alert, and queries that find the newest entries.                    *)
(*   - SAME headers: a whole one is read back, a torn one refused, for     *)
(*     every number of areas.                                              *)
(*   - The mesh fallback: its window holds the latest reports, and its     *)
(*     decision is theirs.                                                 *)
(*   - The audit database: a reset is all or nothing, whatever runs meet.  *)
(*   - Zones: the crossing test is sound, and recipients are found through *)
(*     the box, for polygons of every number of vertices.                  *)
(***************************************************************************)
EXTENDS MCLibrary, SequenceTheorems, FiniteSetTheorems, WellFoundedInduction, TLAPS

----------------------------------------------------------------------------
(***************************************************************************)
(* Recursion over finite sets, as the folds of the community modules do    *)
(* it.  A property of every stage of a recursion is proved by looking at   *)
(* the first stage without it.                                             *)
(***************************************************************************)

\* A set of natural numbers has a least element.
LEMMA LeastNumber ==
  ASSUME NEW S \in SUBSET Nat, S # {}
  PROVE  \E m \in S : \A n \in S : m <= n
<1> DEFINE R == OpToRel(<, Nat)
<1>1. IsWellFoundedOn(R, Nat)
    BY NatLessThanWellFounded, Zenon
<1>2. \A x, y \in Nat : x < y => <<x, y>> \in R
    BY DEF OpToRel
<1> HIDE DEF R
<1>3. PICK m \in S : \A n \in S : ~(<<n, m>> \in R)
    BY <1>1, WFMin
<1>4. \A n \in S : ~(n < m)
    BY <1>2, <1>3
<1>5. QED BY <1>4

\* What holds of no element and, if of n elements, of n + 1, holds of all.
LEMMA EveryStage ==
  ASSUME NEW n \in Nat, NEW Fits, 0 \in Fits,
         \A k \in 0 .. n - 1 : k \in Fits => k + 1 \in Fits
  PROVE  n \in Fits
<1> SUFFICES ASSUME n \notin Fits PROVE FALSE
    OBVIOUS
<1> DEFINE Bad == {k \in 0 .. n : k \notin Fits}
<1>1. Bad \in SUBSET Nat /\ Bad # {}
    OBVIOUS
<1>2. PICK m \in Bad : \A k \in Bad : m <= k
    BY <1>1, LeastNumber
<1>3. m # 0 /\ m - 1 \in 0 .. n - 1 /\ (m - 1) + 1 = m
    OBVIOUS
<1>4. m - 1 \notin Bad
    BY <1>2, <1>3
<1>5. QED BY <1>3, <1>4

\* One element less, or more.
LEMMA OneLess ==
  ASSUME NEW S, IsFiniteSet(S), NEW x \in S
  PROVE  /\ IsFiniteSet(S \ {x}) /\ Cardinality(S) \in Nat \ {0}
         /\ Cardinality(S \ {x}) = Cardinality(S) - 1
<1>1. Cardinality(S) \in Nat /\ Cardinality(S) # 0
    BY FS_CardinalityType, FS_EmptySet
<1>2. QED BY <1>1, FS_RemoveElement

\* What holds of no elements and, if of a set less one element, of the set,
\* holds of every finite set.
LEMMA EverySubset ==
  ASSUME NEW S, IsFiniteSet(S), NEW Fits, {} \in Fits,
         \A s \in SUBSET S : s # {} /\ (\A x \in s : s \ {x} \in Fits) => s \in Fits
  PROVE  \A s \in SUBSET S : s \in Fits
<1> DEFINE Sizes == {n \in Nat : \A s \in SUBSET S : Cardinality(s) <= n => s \in Fits}
<1>1. \A s \in SUBSET S : IsFiniteSet(s) /\ Cardinality(s) \in Nat
    BY FS_Subset, FS_CardinalityType
<1>2. 0 \in Sizes
  <2>1. ASSUME NEW s \in SUBSET S, Cardinality(s) <= 0 PROVE s \in Fits
    <3>1. s = {}
        BY <1>1, <2>1, FS_EmptySet
    <3>2. QED BY <3>1
  <2>2. QED BY <2>1
<1>3. ASSUME NEW n \in Nat, n \in Sizes PROVE n + 1 \in Sizes
  <2>1. ASSUME NEW s \in SUBSET S, Cardinality(s) <= n + 1 PROVE s \in Fits
    <3>1. ASSUME NEW x \in s PROVE s \ {x} \in Fits
      <4>1. s \ {x} \in SUBSET S /\ Cardinality(s \ {x}) <= n
          BY <1>1, <2>1, OneLess
      <4>2. QED BY <1>3, <4>1
    <3>2. QED BY <3>1
  <2>2. QED BY <2>1
<1> HIDE DEF Sizes
<1>4. ASSUME NEW s \in SUBSET S PROVE s \in Fits
  <2>1. Cardinality(s) \in Nat /\ Cardinality(s) <= Cardinality(s)
      BY <1>1
  <2>2. \A k \in 0 .. Cardinality(s) - 1 : k \in Sizes => k + 1 \in Sizes
      BY <1>3, <2>1
  <2>3. Cardinality(s) \in Sizes
      BY <1>2, <2>1, <2>2, EveryStage
  <2>4. QED BY <2>1, <2>3 DEF Sizes
<1>5. QED BY <1>4

\* Subsets of S of at most n elements, and the recursions over them.
UpTo(S, n) == {s \in SUBSET S : Cardinality(s) <= n}
StagesTo(S, T, base, c, step, n) ==
  {it \in [UpTo(S, n) -> T] :
     \A s \in UpTo(S, n) : it[s] = IF s = {} THEN base ELSE step[<<c[s], it[s \ {c[s]}]>>]}

Recursions(S, T, base, c, step) ==
  {it \in [SUBSET S -> T] :
     \A s \in SUBSET S : it[s] = IF s = {} THEN base ELSE step[<<c[s], it[s \ {c[s]}]>>]}

\* A recursion over the subsets of a finite set that chooses an element of each
\* is the function it says it is.
LEMMA RecursionDefined ==
  ASSUME NEW S, IsFiniteSet(S), NEW T, NEW base \in T, NEW c,
         NEW step \in [S \X T -> T],
         \A s \in SUBSET S : s # {} => c[s] \in s
  PROVE  Recursions(S, T, base, c, step) # {}
<1> DEFINE Fits == {n \in Nat : StagesTo(S, T, base, c, step, n) # {}}
<1>1. \A s \in SUBSET S : IsFiniteSet(s) /\ Cardinality(s) \in Nat
                          /\ Cardinality(s) <= Cardinality(S)
    BY FS_Subset, FS_CardinalityType
<1>2. \A s \in SUBSET S : s # {} =>
        /\ c[s] \in s /\ s \ {c[s]} \in SUBSET S
        /\ Cardinality(s \ {c[s]}) = Cardinality(s) - 1
    BY <1>1, OneLess
<1>3. 0 \in Fits
  <2> DEFINE it == [s \in UpTo(S, 0) |-> base]
  <2>1. \A s \in UpTo(S, 0) : s = {}
      BY <1>1, FS_EmptySet DEF UpTo
  <2>2. it \in StagesTo(S, T, base, c, step, 0)
      BY <2>1 DEF StagesTo
  <2>3. QED BY <2>2
<1>4. ASSUME NEW n \in Nat, n \in Fits PROVE n + 1 \in Fits
  <2>1. PICK old : old \in StagesTo(S, T, base, c, step, n)
      BY <1>4
  <2>2. old \in [UpTo(S, n) -> T]
        /\ \A s \in UpTo(S, n) :
             old[s] = IF s = {} THEN base ELSE step[<<c[s], old[s \ {c[s]}]>>]
      BY <2>1 DEF StagesTo
  <2> DEFINE it == [s \in UpTo(S, n + 1) |->
                     IF s = {} THEN base ELSE step[<<c[s], old[s \ {c[s]}]>>]]
  <2>3. ASSUME NEW s \in UpTo(S, n + 1), s # {}
        PROVE  /\ c[s] \in S /\ s \ {c[s]} \in UpTo(S, n) /\ s \ {c[s]} \in UpTo(S, n + 1)
    <3>1. s \in SUBSET S /\ Cardinality(s) \in Nat /\ Cardinality(s) <= n + 1
        BY <1>1 DEF UpTo
    <3>2. Cardinality(s \ {c[s]}) = Cardinality(s) - 1 /\ c[s] \in s
        BY <1>2, <2>3, <3>1
    <3>3. QED BY <3>1, <3>2 DEF UpTo
  <2>4. it \in [UpTo(S, n + 1) -> T]
    <3>1. ASSUME NEW s \in UpTo(S, n + 1), s # {} PROVE step[<<c[s], old[s \ {c[s]}]>>] \in T
        BY <2>2, <2>3, <3>1
    <3>2. QED BY <3>1
  <2>5. \A s \in UpTo(S, n) : s \in UpTo(S, n + 1) /\ old[s] = it[s]
    <3>1. \A s \in UpTo(S, n) : s \in UpTo(S, n + 1)
        BY <1>1 DEF UpTo
    <3>2. QED BY <2>2, <3>1
  <2>6. ASSUME NEW s \in UpTo(S, n + 1)
        PROVE  it[s] = IF s = {} THEN base ELSE step[<<c[s], it[s \ {c[s]}]>>]
      BY <2>3, <2>5
  <2> HIDE DEF it
  <2>7. it \in StagesTo(S, T, base, c, step, n + 1)
      BY <2>4, <2>6 DEF StagesTo
  <2>8. QED BY <2>7
<1> HIDE DEF Fits
<1>5. Cardinality(S) \in Nat
    BY FS_CardinalityType
<1>6. Cardinality(S) \in Fits
  <2>1. \A k \in 0 .. Cardinality(S) - 1 : k \in Fits => k + 1 \in Fits
      BY <1>4, <1>5
  <2>2. QED BY <1>3, <1>5, <2>1, EveryStage
<1>7. UpTo(S, Cardinality(S)) = SUBSET S
    BY <1>1 DEF UpTo
<1>8. PICK it : it \in StagesTo(S, T, base, c, step, Cardinality(S))
    BY <1>6 DEF Fits
<1>9. it \in [SUBSET S -> T]
      /\ \A s \in SUBSET S :
           it[s] = IF s = {} THEN base ELSE step[<<c[s], it[s \ {c[s]}]>>]
    BY <1>7, <1>8 DEF StagesTo
<1>10. QED BY <1>9 DEF Recursions

\* The sum of what f has for the elements of a set, in the order of the fold.
SumOver(f, S) == FoldFunctionOnSet(LAMBDA r, sum : r + sum, 0, f, S)

SumStage(f, S) ==
  CHOOSE it : it = [s \in SUBSET S |->
                      IF s = {} THEN 0
                      ELSE f[CHOOSE x \in s : TRUE] + it[s \ {CHOOSE x \in s : TRUE}]]

\* A sum is the last stage of its recursion.
LEMMA SumIsStage == ASSUME NEW S, NEW f PROVE SumOver(f, S) = SumStage(f, S)[S]
BY DEF SumOver, SumStage, FoldFunctionOnSet, MapThenFoldSet

Summable(f, S) == IsFiniteSet(S) /\ \A x \in S : f[x] \in Int

\* it has the sums of f over the subsets of S.
Sums(it, f, S) ==
  /\ it \in [SUBSET S -> Int] /\ SumOver(f, S) = it[S] /\ it[{}] = 0
  /\ \A s \in SUBSET S : \A x \in s : it[s] = f[x] + it[s \ {x}]

FirstSums(it, f, S) ==
  /\ it \in [SUBSET S -> Int] /\ SumOver(f, S) = it[S] /\ it[{}] = 0
  /\ \A s \in SUBSET S : s # {} => \E x \in s : it[s] = f[x] + it[s \ {x}]

\* The sum's recursion.
LEMMA SumDefined ==
  ASSUME NEW S, NEW f, Summable(f, S)
  PROVE  FirstSums(SumStage(f, S), f, S)
<1>0. IsFiniteSet(S) /\ \A x \in S : f[x] \in Int
    BY DEF Summable
<1> DEFINE c == [s \in SUBSET S |-> CHOOSE x \in s : TRUE]
           step == [p \in S \X Int |-> f[p[1]] + p[2]]
<1>1. \A s \in SUBSET S : c[s] = CHOOSE x \in s : TRUE
    OBVIOUS
<1>2. \A s \in SUBSET S : s # {} => (CHOOSE x \in s : TRUE) \in s
    OBVIOUS
<1>3. \A s \in SUBSET S : s # {} => c[s] \in s
    BY <1>1, <1>2
<1>4. step \in [S \X Int -> Int] /\ \A x \in S, n \in Int : step[<<x, n>>] = f[x] + n
    BY <1>0
<1> HIDE DEF c, step
<1>5a. 0 \in Int /\ IsFiniteSet(S)
    BY <1>0
<1>5b. step \in [S \X Int -> Int]
    BY <1>4
<1>5c. Recursions(S, Int, 0, c, step) # {}
    BY <1>3, <1>5a, <1>5b, RecursionDefined, Zenon
<1>5. PICK it \in [SUBSET S -> Int] :
        \A s \in SUBSET S : it[s] = IF s = {} THEN 0 ELSE step[<<c[s], it[s \ {c[s]}]>>]
    BY <1>5c DEF Recursions
<1>6. ASSUME NEW s \in SUBSET S, s # {}
      PROVE  it[s] = f[c[s]] + it[s \ {c[s]}]
  <2>1. it[s] = step[<<c[s], it[s \ {c[s]}]>>]
      BY <1>5, <1>6
  <2>2. c[s] \in S /\ s \ {c[s]} \in SUBSET S
      BY <1>3, <1>6
  <2>3. it[s \ {c[s]}] \in Int
      BY <2>2
  <2>4. QED BY <1>4, <2>1, <2>2, <2>3
<1>7. it[{}] = 0
    BY <1>5
<1>8. it = [s \in SUBSET S |->
              IF s = {} THEN 0
              ELSE f[CHOOSE x \in s : TRUE] + it[s \ {CHOOSE x \in s : TRUE}]]
    BY <1>1, <1>6, <1>7
<1>9. SumStage(f, S) = [s \in SUBSET S |->
              IF s = {} THEN 0
              ELSE f[CHOOSE x \in s : TRUE] + SumStage(f, S)[s \ {CHOOSE x \in s : TRUE}]]
    BY <1>8 DEF SumStage
<1> DEFINE Fits == {s \in SUBSET S : SumStage(f, S)[s] \in Int}
<1>10. SumStage(f, S)[{}] = 0
    BY <1>9
<1>11. ASSUME NEW s \in SUBSET S, s # {}
       PROVE  c[s] \in s /\ SumStage(f, S)[s] = f[c[s]] + SumStage(f, S)[s \ {c[s]}]
  <2>1. SumStage(f, S)[s] = f[CHOOSE x \in s : TRUE] + SumStage(f, S)[s \ {CHOOSE x \in s : TRUE}]
      BY <1>9, <1>11
  <2>2. QED BY <1>1, <1>3, <1>11, <2>1
<1>12. \A s \in SUBSET S : s \in Fits
  <2>1. {} \in Fits
      BY <1>10
  <2>2. ASSUME NEW s \in SUBSET S, s # {}, \A x \in s : s \ {x} \in Fits
        PROVE  s \in Fits
    <3>1. f[c[s]] \in Int
        BY <1>0, <1>11, <2>2
    <3>2. SumStage(f, S)[s \ {c[s]}] \in Int
        BY <1>11, <2>2
    <3>3. SumStage(f, S)[s] = f[c[s]] + SumStage(f, S)[s \ {c[s]}]
        BY <1>11, <2>2
    <3>4. SumStage(f, S)[s] \in Int
        BY <3>1, <3>2, <3>3
    <3>5. QED BY <3>4
  <2> HIDE DEF Fits
  <2>3. QED BY <1>0, <2>1, <2>2, EverySubset
<1>13. DOMAIN SumStage(f, S) = SUBSET S
    BY <1>9
<1>14. SumStage(f, S) \in [SUBSET S -> Int]
  <2>1. SumStage(f, S) = [s \in SUBSET S |-> SumStage(f, S)[s]]
      BY <1>9
  <2>2. QED BY <1>12, <2>1
<1>15. QED BY <1>10, <1>11, <1>14, SumIsStage DEF FirstSums

\* It does not matter in which order a sum is taken.
LEMMA SumAdds ==
  ASSUME NEW S, NEW f, Summable(f, S) PROVE \E it : Sums(it, f, S)
<1>1. PICK it : FirstSums(it, f, S)
    BY SumDefined
<1>2. /\ it \in [SUBSET S -> Int] /\ SumOver(f, S) = it[S] /\ it[{}] = 0
      /\ \A s \in SUBSET S : s # {} => \E x \in s : it[s] = f[x] + it[s \ {x}]
    BY <1>1 DEF FirstSums
<1>0. IsFiniteSet(S) /\ \A x \in S : f[x] \in Int
    BY DEF Summable
<1> DEFINE Fits == {s \in SUBSET S : \A x \in s : it[s] = f[x] + it[s \ {x}]}
<1>3. ASSUME NEW s \in SUBSET S, s # {}, \A x \in s : s \ {x} \in Fits
      PROVE  s \in Fits
  <2>1. PICK y \in s : it[s] = f[y] + it[s \ {y}]
      BY <1>2, <1>3
  <2>2. ASSUME NEW x \in s, x # y PROVE it[s] = f[x] + it[s \ {x}]
    <3>1. it[s \ {y}] = f[x] + it[(s \ {y}) \ {x}]
        BY <1>3, <2>2
    <3>2. it[s \ {x}] = f[y] + it[(s \ {x}) \ {y}]
        BY <1>3, <2>2
    <3>3. (s \ {y}) \ {x} = (s \ {x}) \ {y}
        OBVIOUS
    <3>4. PICK a \in Int, b \in Int, r \in Int :
            a = f[x] /\ b = f[y] /\ r = it[(s \ {x}) \ {y}]
        BY <1>0, <1>2
    <3>5. it[s] = b + (a + r)
        BY <2>1, <3>1, <3>3, <3>4
    <3>6. it[s \ {x}] = b + r
        BY <3>2, <3>4
    <3>7. b + (a + r) = a + (b + r)
        OBVIOUS
    <3>8. QED BY <3>4, <3>5, <3>6, <3>7
  <2>3. QED BY <2>1, <2>2
<1>4. {} \in Fits
    OBVIOUS
<1> HIDE DEF Fits
<1>5. \A s \in SUBSET S : s \in Fits
    BY <1>0, <1>3, <1>4, EverySubset
<1>6. \A s \in SUBSET S : \A x \in s : it[s] = f[x] + it[s \ {x}]
    BY <1>5 DEF Fits
<1>7. Sums(it, f, S)
    BY <1>2, <1>6 DEF Sums
<1>8. QED BY <1>7

\* The sum over a set and the one over its image, of values that go with it.
LEMMA SumCarried ==
  ASSUME NEW S, NEW f, Summable(f, S),
         NEW U, IsFiniteSet(U), NEW g, NEW to \in [S -> U],
         \A y \in U : \E x \in S : y = to[x],
         \A x, y \in S : to[x] = to[y] => x = y,
         \A x \in S : g[to[x]] = f[x]
  PROVE  SumOver(f, S) = SumOver(g, U)
<1>0. IsFiniteSet(S) /\ \A x \in S : f[x] \in Int
    BY DEF Summable
<1>1a. PICK it : Sums(it, f, S)
    BY SumAdds
<1>1. /\ it \in [SUBSET S -> Int] /\ SumOver(f, S) = it[S] /\ it[{}] = 0
      /\ \A s \in SUBSET S : \A x \in s : it[s] = f[x] + it[s \ {x}]
    BY <1>1a DEF Sums
<1>2. Summable(g, U)
    BY <1>0 DEF Summable
<1>3a. PICK iu : Sums(iu, g, U)
    BY <1>2, SumAdds
<1>3. /\ iu \in [SUBSET U -> Int] /\ SumOver(g, U) = iu[U] /\ iu[{}] = 0
      /\ \A s \in SUBSET U : \A x \in s : iu[s] = g[x] + iu[s \ {x}]
    BY <1>3a DEF Sums
<1> DEFINE Fits == {s \in SUBSET S : it[s] = iu[{to[x] : x \in s}]}
<1>6. ASSUME NEW s \in SUBSET S, s # {}, \A x \in s : s \ {x} \in Fits
      PROVE  s \in Fits
  <2>1. PICK x \in s : TRUE
      BY <1>6
  <2>2. {to[y] : y \in s} \in SUBSET U /\ to[x] \in {to[y] : y \in s}
      OBVIOUS
  <2>3. {to[y] : y \in s \ {x}} = {to[y] : y \in s} \ {to[x]}
      OBVIOUS
  <2>4. iu[{to[y] : y \in s}] = g[to[x]] + iu[{to[y] : y \in s} \ {to[x]}]
      BY <1>3, <2>2
  <2>5. it[s] = f[x] + it[s \ {x}]
      BY <1>1
  <2>6. it[s \ {x}] = iu[{to[y] : y \in s \ {x}}]
      BY <1>6
  <2>7. g[to[x]] = f[x]
      OBVIOUS
  <2>8. it[s] = iu[{to[y] : y \in s}]
      BY <2>3, <2>4, <2>5, <2>6, <2>7
  <2>9. QED BY <2>8
<1>7. {} \in Fits
  <2>1. {to[x] : x \in {}} = {}
      OBVIOUS
  <2>2. QED BY <1>1, <1>3, <2>1
<1>8. S \in Fits
  <2> HIDE DEF Fits
  <2>1. QED BY <1>0, <1>6, <1>7, EverySubset
<1>9. {to[x] : x \in S} = U
    OBVIOUS
<1>10. it[S] = iu[U]
    BY <1>8, <1>9
<1>11. QED BY <1>1, <1>3, <1>10

\* What every term is below or above bounds the sum.
LEMMA SumBounds ==
  ASSUME NEW S, NEW f, Summable(f, S), NEW t \in Int
  PROVE  /\ (\A x \in S : f[x] < t) => SumOver(f, S) + Cardinality(S) <= t * Cardinality(S)
         /\ (\A x \in S : f[x] >= t) => SumOver(f, S) >= t * Cardinality(S)
         /\ SumOver(f, S) \in Int
<1>0. IsFiniteSet(S) /\ \A x \in S : f[x] \in Int
    BY DEF Summable
<1>1a. PICK it : Sums(it, f, S)
    BY SumAdds
<1>1. /\ it \in [SUBSET S -> Int] /\ SumOver(f, S) = it[S] /\ it[{}] = 0
      /\ \A s \in SUBSET S : \A x \in s : it[s] = f[x] + it[s \ {x}]
    BY <1>1a DEF Sums
<1> DEFINE Low == {s \in SUBSET S : it[s] + Cardinality(s) <= t * Cardinality(s)}
           High == {s \in SUBSET S : it[s] >= t * Cardinality(s)}
<1>3. ASSUME NEW s \in SUBSET S, NEW x \in s
      PROVE  /\ s \ {x} \in SUBSET S /\ it[s] = f[x] + it[s \ {x}] /\ it[s] \in Int
             /\ it[s \ {x}] \in Int /\ f[x] \in Int
             /\ Cardinality(s) \in Int /\ Cardinality(s \ {x}) = Cardinality(s) - 1
             /\ t * Cardinality(s) = t * Cardinality(s \ {x}) + t
             /\ t * Cardinality(s \ {x}) \in Int
  <2>1. IsFiniteSet(s)
      BY <1>0, FS_Subset
  <2>2. Cardinality(s) \in Int /\ Cardinality(s \ {x}) = Cardinality(s) - 1
      BY <2>1, OneLess
  <2>3. PICK k \in Int : k = Cardinality(s \ {x}) /\ Cardinality(s) = k + 1
      BY <2>2
  <2>4. t * (k + 1) = t * k + t /\ t * k \in Int
      OBVIOUS
  <2>5. s \ {x} \in SUBSET S
      OBVIOUS
  <2>6. QED BY <1>0, <1>1, <2>2, <2>3, <2>4, <2>5
<1>4. Cardinality({}) = 0 /\ t * 0 = 0 /\ {} \in SUBSET S
    BY FS_EmptySet
<1>5. {} \in Low /\ {} \in High
    BY <1>1, <1>4
<1>6. ASSUME \A x \in S : f[x] < t PROVE S \in Low
  <2>1. ASSUME NEW s \in SUBSET S, s # {}, \A x \in s : s \ {x} \in Low
        PROVE  s \in Low
    <3>1. PICK x \in s : TRUE
        BY <2>1
    <3>2. it[s \ {x}] + Cardinality(s \ {x}) <= t * Cardinality(s \ {x}) /\ f[x] < t
        BY <1>6, <2>1
    <3>3. QED BY <1>3, <3>2
  <2> HIDE DEF Low
  <2>2. QED BY <1>0, <1>5, <2>1, EverySubset
<1>7. ASSUME \A x \in S : f[x] >= t PROVE S \in High
  <2>1. ASSUME NEW s \in SUBSET S, s # {}, \A x \in s : s \ {x} \in High
        PROVE  s \in High
    <3>1. PICK x \in s : TRUE
        BY <2>1
    <3>2. it[s \ {x}] >= t * Cardinality(s \ {x}) /\ f[x] >= t
        BY <1>7, <2>1
    <3>3. QED BY <1>3, <3>2
  <2> HIDE DEF High
  <2>2. QED BY <1>0, <1>5, <2>1, EverySubset
<1>8. SumOver(f, S) = it[S] /\ it[S] \in Int
    BY <1>1
<1>9. QED BY <1>6, <1>7, <1>8

\* A set and its image, one to one, are of a size.
LEMMA SameSize ==
  ASSUME NEW S, IsFiniteSet(S), NEW U, NEW to \in [S -> U],
         \A y \in U : \E x \in S : y = to[x],
         \A x, y \in S : to[x] = to[y] => x = y
  PROVE  IsFiniteSet(U) /\ Cardinality(U) = Cardinality(S)
<1>1. to \in Bijection(S, U)
    BY DEF Bijection, Injection, Surjection, IsInjective
<1>2. ExistsBijection(S, U)
    BY <1>1 DEF ExistsBijection
<1>3. QED BY <1>2, FS_Bijection

----------------------------------------------------------------------------
(***************************************************************************)
(* Keep.  What is kept of a sequence has the rank, among what is wanted of *)
(* it, that its place has.                                                 *)
(***************************************************************************)
\* The places up to m where seq has something wanted.
Places(seq, wanted, m) == {i \in 1 .. m : seq[i] \in wanted}
Rank(seq, wanted, i) == Cardinality(Places(seq, wanted, i))

\* kept is what is wanted of the first m of seq, in its order.
KeptOf(kept, T, seq, wanted, m) ==
  /\ kept \in Seq(T \cap wanted) /\ Len(kept) = Rank(seq, wanted, m)
  /\ \A i \in Places(seq, wanted, m) :
       Rank(seq, wanted, i) \in 1 .. Len(kept) /\ kept[Rank(seq, wanted, i)] = seq[i]
  /\ \A k \in 1 .. Len(kept) : \E i \in Places(seq, wanted, m) : k = Rank(seq, wanted, i)

\* Ranks count the places.
LEMMA RankStep ==
  ASSUME NEW seq, NEW wanted, NEW m \in Nat
  PROVE  /\ IsFiniteSet(Places(seq, wanted, m)) /\ Rank(seq, wanted, m) \in Nat
         /\ Rank(seq, wanted, 0) = 0
         /\ Places(seq, wanted, m) \subseteq Places(seq, wanted, m + 1)
         /\ seq[m + 1] \in wanted =>
              /\ Places(seq, wanted, m + 1) = Places(seq, wanted, m) \cup {m + 1}
              /\ Rank(seq, wanted, m + 1) = Rank(seq, wanted, m) + 1
         /\ seq[m + 1] \notin wanted =>
              /\ Places(seq, wanted, m + 1) = Places(seq, wanted, m)
              /\ Rank(seq, wanted, m + 1) = Rank(seq, wanted, m)
<1>1. IsFiniteSet(Places(seq, wanted, m))
  <2>1. IsFiniteSet(1 .. m) /\ Places(seq, wanted, m) \subseteq 1 .. m
      BY FS_Interval DEF Places
  <2>2. QED BY <2>1, FS_Subset
<1>2. Rank(seq, wanted, m) \in Nat
    BY <1>1, FS_CardinalityType DEF Rank
<1>3. Rank(seq, wanted, 0) = 0
  <2>1. Places(seq, wanted, 0) = {}
      BY DEF Places
  <2>2. QED BY <2>1, FS_EmptySet DEF Rank
<1>4. Places(seq, wanted, m) \subseteq Places(seq, wanted, m + 1)
    BY DEF Places
<1>5. ASSUME seq[m + 1] \in wanted
      PROVE  /\ Places(seq, wanted, m + 1) = Places(seq, wanted, m) \cup {m + 1}
             /\ Rank(seq, wanted, m + 1) = Rank(seq, wanted, m) + 1
  <2>1. Places(seq, wanted, m + 1) = Places(seq, wanted, m) \cup {m + 1}
      BY <1>5 DEF Places
  <2>2. m + 1 \notin Places(seq, wanted, m)
      BY DEF Places
  <2>3. QED BY <1>1, <2>1, <2>2, FS_AddElement DEF Rank
<1>6. ASSUME seq[m + 1] \notin wanted
      PROVE  /\ Places(seq, wanted, m + 1) = Places(seq, wanted, m)
             /\ Rank(seq, wanted, m + 1) = Rank(seq, wanted, m)
  <2>1. Places(seq, wanted, m + 1) = Places(seq, wanted, m)
      BY <1>6 DEF Places
  <2>2. QED BY <2>1 DEF Rank
<1>7. QED BY <1>1, <1>2, <1>3, <1>4, <1>5, <1>6

KeepStage(seq, wanted) ==
  CHOOSE it : it = [s \in SUBSET DOMAIN seq |->
                      IF s = {} THEN <<>>
                      ELSE IF seq[Max(s)] \in wanted
                           THEN Append(it[s \ {Max(s)}], seq[Max(s)])
                           ELSE it[s \ {Max(s)}]]

\* What is kept of a sequence is the last stage of the loop.
LEMMA KeepIsStage ==
  ASSUME NEW seq, NEW wanted PROVE Keep(seq, wanted) = KeepStage(seq, wanted)[DOMAIN seq]
BY DEF Keep, KeepStage, FoldLeft, MapThenFoldSet

\* The greatest of a finite set of numbers is one of them.
LEMMA GreatestNumber ==
  ASSUME NEW n \in Nat, NEW s \in SUBSET (1 .. n), s # {}
  PROVE  Max(s) \in s /\ \A y \in s : Max(s) >= y
<1>1. \E x \in s : \A y \in s : x >= y
  <2> DEFINE Over == {n - y : y \in s}
  <2>1. Over \in SUBSET Nat /\ Over # {}
    <3>1. \A y \in s : n - y \in Nat
        OBVIOUS
    <3>2. QED BY <3>1
  <2>2. PICK m \in Over : \A k \in Over : m <= k
      BY <2>1, LeastNumber
  <2>3. PICK x \in s : m = n - x
      BY <2>2
  <2>4. \A y \in s : n - y \in Over
      OBVIOUS
  <2>5. ASSUME NEW y \in s PROVE x >= y
    <3>1. y \in Int /\ x \in Int
        OBVIOUS
    <3>2. m <= n - y
        BY <2>2, <2>4
    <3>3. n - x <= n - y
        BY <2>3, <3>2
    <3>4. QED BY <3>1, <3>3
  <2>6. QED BY <2>5
<1>2. QED BY <1>1 DEF Max

\* The loop's stages.
LEMMA KeepDefined ==
  ASSUME NEW T, NEW seq \in Seq(T), NEW wanted
  PROVE  /\ KeepStage(seq, wanted)[1 .. 0] = <<>>
         /\ \A m \in 0 .. Len(seq) - 1 :
              KeepStage(seq, wanted)[1 .. m + 1] =
                IF seq[m + 1] \in wanted
                THEN Append(KeepStage(seq, wanted)[1 .. m], seq[m + 1])
                ELSE KeepStage(seq, wanted)[1 .. m]
<1>1. PICK n \in Nat : n = Len(seq) /\ DOMAIN seq = 1 .. n
    BY LenProperties
<1>2. \A i \in 1 .. n : seq[i] \in T
    BY <1>1
<1> DEFINE c == [s \in SUBSET (1 .. n) |-> Max(s)]
           step == [p \in (1 .. n) \X Seq(T) |->
                      IF seq[p[1]] \in wanted THEN Append(p[2], seq[p[1]]) ELSE p[2]]
<1>3. \A s \in SUBSET (1 .. n) : c[s] = Max(s)
    OBVIOUS
<1>4. \A s \in SUBSET (1 .. n) : s # {} => c[s] \in s
    BY <1>3, GreatestNumber
<1>5. step \in [(1 .. n) \X Seq(T) -> Seq(T)]
  <2>1. ASSUME NEW i \in 1 .. n, NEW q \in Seq(T) PROVE Append(q, seq[i]) \in Seq(T)
      BY <1>2, AppendProperties
  <2>2. QED BY <2>1
<1>6. \A i \in 1 .. n, q \in Seq(T) :
        step[<<i, q>>] = IF seq[i] \in wanted THEN Append(q, seq[i]) ELSE q
    OBVIOUS
<1>7. IsFiniteSet(1 .. n) /\ <<>> \in Seq(T)
    BY FS_Interval, EmptySeq
<1> HIDE DEF c, step
<1>8. Recursions(1 .. n, Seq(T), <<>>, c, step) # {}
    BY <1>4, <1>5, <1>7, RecursionDefined, Zenon
<1>9. PICK it \in [SUBSET (1 .. n) -> Seq(T)] :
        \A s \in SUBSET (1 .. n) :
          it[s] = IF s = {} THEN <<>> ELSE step[<<c[s], it[s \ {c[s]}]>>]
    BY <1>8 DEF Recursions
<1>10. ASSUME NEW s \in SUBSET (1 .. n), s # {}
       PROVE  it[s] = IF seq[Max(s)] \in wanted
                      THEN Append(it[s \ {Max(s)}], seq[Max(s)])
                      ELSE it[s \ {Max(s)}]
  <2>1. it[s] = step[<<c[s], it[s \ {c[s]}]>>]
      BY <1>9, <1>10
  <2>2. c[s] \in 1 .. n /\ s \ {c[s]} \in SUBSET (1 .. n)
      BY <1>4, <1>10
  <2>3. it[s \ {c[s]}] \in Seq(T)
      BY <2>2
  <2>4. QED BY <1>3, <1>6, <2>1, <2>2, <2>3
<1>11. it[{}] = <<>>
    BY <1>9
<1>12. it = [s \in SUBSET DOMAIN seq |->
                      IF s = {} THEN <<>>
                      ELSE IF seq[Max(s)] \in wanted
                           THEN Append(it[s \ {Max(s)}], seq[Max(s)])
                           ELSE it[s \ {Max(s)}]]
    BY <1>1, <1>10, <1>11
<1>13. PICK st : st = KeepStage(seq, wanted)
    OBVIOUS
<1>14. st = [s \in SUBSET DOMAIN seq |->
                      IF s = {} THEN <<>>
                      ELSE IF seq[Max(s)] \in wanted
                           THEN Append(st[s \ {Max(s)}], seq[Max(s)])
                           ELSE st[s \ {Max(s)}]]
    BY <1>12, <1>13 DEF KeepStage
<1>15. st[1 .. 0] = <<>>
  <2>1. 1 .. 0 = {} /\ {} \in SUBSET DOMAIN seq
      OBVIOUS
  <2>2. QED BY <1>14, <2>1
<1>16. ASSUME NEW m \in 0 .. n - 1
       PROVE  st[1 .. m + 1] = IF seq[m + 1] \in wanted
                               THEN Append(st[1 .. m], seq[m + 1]) ELSE st[1 .. m]
  <2>1. PICK s \in SUBSET (1 .. n) : s = 1 .. m + 1
      OBVIOUS
  <2>2. m + 1 \in s
      BY <2>1
  <2>3. Max(s) = m + 1
    <3>1. PICK x \in s : x = Max(s) /\ \A y \in s : x >= y
      <4>1. s # {}
          BY <2>2
      <4>2. Max(s) \in s /\ \A y \in s : Max(s) >= y
          BY <4>1, GreatestNumber
      <4>3. QED BY <4>2
    <3>2. x \in 1 .. m + 1 /\ x >= m + 1
        BY <2>1, <2>2, <3>1
    <3>3. QED BY <3>1, <3>2
  <2>4. s \ {m + 1} = 1 .. m
      BY <2>1
  <2>5. st[s] = IF seq[Max(s)] \in wanted
                THEN Append(st[s \ {Max(s)}], seq[Max(s)]) ELSE st[s \ {Max(s)}]
    <3>1. s # {} /\ s \in SUBSET DOMAIN seq
        BY <1>1, <2>2
    <3>2. QED BY <1>14, <3>1
  <2>6. QED BY <2>1, <2>3, <2>4, <2>5
<1>17. QED BY <1>1, <1>13, <1>15, <1>16

\* What is kept is what is wanted, each in its order.
LEMMA KeepProperties ==
  ASSUME NEW T, NEW seq \in Seq(T), NEW wanted
  PROVE  KeptOf(Keep(seq, wanted), T, seq, wanted, Len(seq))
<1>1. PICK n \in Nat : n = Len(seq) /\ DOMAIN seq = 1 .. n
    BY LenProperties
<1>2. PICK st : st = KeepStage(seq, wanted)
    OBVIOUS
<1>3. /\ st[1 .. 0] = <<>>
      /\ \A m \in 0 .. n - 1 : st[1 .. m + 1] =
           IF seq[m + 1] \in wanted THEN Append(st[1 .. m], seq[m + 1]) ELSE st[1 .. m]
    BY <1>1, <1>2, KeepDefined
<1>4. \A i \in 1 .. n : seq[i] \in T
    BY <1>1
<1> DEFINE Fits == {m \in Nat : KeptOf(st[1 .. m], T, seq, wanted, m)}
<1>5. 0 \in Fits
  <2>1. st[1 .. 0] \in Seq(T \cap wanted) /\ Len(st[1 .. 0]) = 0
      BY <1>3, EmptySeq
  <2>2. Places(seq, wanted, 0) = {}
      BY DEF Places
  <2>3. Rank(seq, wanted, 0) = 0
      BY RankStep
  <2>4. QED BY <2>1, <2>2, <2>3 DEF KeptOf
<1>6. ASSUME NEW m \in 0 .. n - 1, m \in Fits PROVE m + 1 \in Fits
  <2>1. PICK old : old = st[1 .. m]
      OBVIOUS
  <2>2. PICK r \in Nat : r = Rank(seq, wanted, m)
      BY RankStep
  <2>3. /\ old \in Seq(T \cap wanted) /\ Len(old) = r
        /\ \A i \in Places(seq, wanted, m) :
             Rank(seq, wanted, i) \in 1 .. r /\ old[Rank(seq, wanted, i)] = seq[i]
        /\ \A k \in 1 .. r : \E i \in Places(seq, wanted, m) : k = Rank(seq, wanted, i)
      BY <1>6, <2>1, <2>2 DEF KeptOf
  <2>4. CASE seq[m + 1] \in wanted
    <3>1. PICK new : new = Append(old, seq[m + 1])
        OBVIOUS
    <3>2. seq[m + 1] \in T \cap wanted
        BY <1>4, <2>4
    <3>3. /\ new \in Seq(T \cap wanted) /\ Len(new) = r + 1 /\ new[r + 1] = seq[m + 1]
          /\ \A k \in 1 .. r : new[k] = old[k]
        BY <2>3, <3>1, <3>2, AppendProperties
    <3>4. /\ Places(seq, wanted, m + 1) = Places(seq, wanted, m) \cup {m + 1}
          /\ Rank(seq, wanted, m + 1) = r + 1
        BY <2>2, <2>4, RankStep
    <3>5. ASSUME NEW i \in Places(seq, wanted, m + 1)
          PROVE  Rank(seq, wanted, i) \in 1 .. r + 1 /\ new[Rank(seq, wanted, i)] = seq[i]
      <4>1. CASE i = m + 1
          BY <3>3, <3>4, <4>1
      <4>2. CASE i \in Places(seq, wanted, m)
          BY <2>3, <3>3, <4>2
      <4>3. QED BY <3>4, <4>1, <4>2
    <3>6. ASSUME NEW k \in 1 .. r + 1
          PROVE  \E i \in Places(seq, wanted, m + 1) : k = Rank(seq, wanted, i)
      <4>1. CASE k = r + 1
          BY <3>4, <4>1
      <4>2. CASE k \in 1 .. r
          BY <2>3, <3>4, <4>2
      <4>3. QED BY <4>1, <4>2
    <3>7. KeptOf(new, T, seq, wanted, m + 1)
        BY <3>3, <3>4, <3>5, <3>6 DEF KeptOf
    <3>8. st[1 .. m + 1] = new
        BY <1>3, <2>1, <2>4, <3>1
    <3>9. QED BY <3>7, <3>8
  <2>5. CASE seq[m + 1] \notin wanted
    <3>1. /\ Places(seq, wanted, m + 1) = Places(seq, wanted, m)
          /\ Rank(seq, wanted, m + 1) = r
        BY <2>2, <2>5, RankStep
    <3>2. KeptOf(old, T, seq, wanted, m + 1)
        BY <2>3, <3>1 DEF KeptOf
    <3>3. st[1 .. m + 1] = old
        BY <1>3, <2>1, <2>5
    <3>4. QED BY <3>2, <3>3
  <2>6. QED BY <2>4, <2>5
<1> HIDE DEF Fits
<1>7. n \in Fits
    BY <1>5, <1>6, EveryStage
<1>8. QED BY <1>1, <1>2, <1>7, KeepIsStage DEF Fits

\* A later place has a higher rank.
LEMMA RanksGrow ==
  ASSUME NEW seq, NEW wanted, NEW i \in Nat, NEW j \in Nat, i < j, seq[j] \in wanted
  PROVE  Rank(seq, wanted, i) < Rank(seq, wanted, j)
<1>1. /\ IsFiniteSet(Places(seq, wanted, j)) /\ j \in Places(seq, wanted, j)
      /\ Rank(seq, wanted, j) \in Nat
    BY RankStep DEF Places
<1>2. /\ IsFiniteSet(Places(seq, wanted, j) \ {j})
      /\ Cardinality(Places(seq, wanted, j) \ {j}) = Rank(seq, wanted, j) - 1
    BY <1>1, OneLess DEF Rank
<1>3. Places(seq, wanted, i) \subseteq Places(seq, wanted, j) \ {j}
    BY DEF Places
<1>4. Rank(seq, wanted, i) <= Rank(seq, wanted, j) - 1
    BY <1>2, <1>3, FS_Subset DEF Rank
<1>5. Rank(seq, wanted, i) \in Nat
    BY RankStep
<1>6. QED BY <1>1, <1>4, <1>5

\* The places after one of them.
LEMMA PlacesAfter ==
  ASSUME NEW seq, NEW wanted, NEW n \in Nat, NEW p \in 1 .. n
  PROVE  Cardinality({k \in Places(seq, wanted, n) : k > p})
           = Rank(seq, wanted, n) - Rank(seq, wanted, p)
<1> DEFINE after == {k \in Places(seq, wanted, n) : k > p}
<1>1. IsFiniteSet(Places(seq, wanted, n)) /\ IsFiniteSet(Places(seq, wanted, p))
      /\ Rank(seq, wanted, n) \in Nat /\ Rank(seq, wanted, p) \in Nat
    BY RankStep
<1>2. IsFiniteSet(after)
    BY <1>1, FS_Subset
<1>3. Places(seq, wanted, p) \cup after = Places(seq, wanted, n)
    BY DEF Places
<1>4. Places(seq, wanted, p) \cap after = {}
    BY DEF Places
<1> HIDE DEF after
<1>5. Cardinality(after) \in Nat
    BY <1>2, FS_CardinalityType
<1>6. Cardinality(Places(seq, wanted, p) \cup after) =
        Cardinality(Places(seq, wanted, p)) + Cardinality(after)
          - Cardinality(Places(seq, wanted, p) \cap after)
    BY <1>1, <1>2, FS_Union
<1>7. Rank(seq, wanted, n) = Rank(seq, wanted, p) + Cardinality(after) - 0
    BY <1>3, <1>4, <1>6, FS_EmptySet DEF Rank
<1>8. Cardinality(after) = Rank(seq, wanted, n) - Rank(seq, wanted, p)
    BY <1>1, <1>5, <1>7
<1>9. QED BY <1>8 DEF after

\* All that is wanted is kept as it is.
LEMMA KeepAllOf ==
  ASSUME NEW T, NEW seq \in Seq(T), NEW wanted, \A i \in 1 .. Len(seq) : seq[i] \in wanted
  PROVE  Keep(seq, wanted) = seq
<1>1. PICK n \in Nat : n = Len(seq)
    BY LenProperties
<1>2. \A i \in 0 .. n : Places(seq, wanted, i) = 1 .. i
    BY <1>1 DEF Places
<1>3. \A i \in 0 .. n : Rank(seq, wanted, i) = i
  <2>1. ASSUME NEW i \in 0 .. n PROVE Cardinality(1 .. i) = i
      BY FS_Interval
  <2>2. QED BY <1>2, <2>1 DEF Rank
<1>4. PICK kept \in Seq(T) : kept = Keep(seq, wanted) /\ KeptOf(kept, T, seq, wanted, n)
  <2>1. KeptOf(Keep(seq, wanted), T, seq, wanted, n)
      BY <1>1, KeepProperties
  <2>2. Keep(seq, wanted) \in Seq(T \cap wanted)
      BY <2>1 DEF KeptOf
  <2>3. Keep(seq, wanted) \in Seq(T)
    <3>1. \A a \in T \cap wanted : a \in T
        OBVIOUS
    <3>2. QED BY <2>2, <3>1, SeqMonotonic
  <2>4. QED BY <2>1, <2>3
<1>5. Len(kept) = n /\ \A i \in 1 .. n : kept[i] = seq[i]
    BY <1>2, <1>3, <1>4 DEF KeptOf
<1>6. QED BY <1>1, <1>4, <1>5, SeqEqual

----------------------------------------------------------------------------
(***************************************************************************)
(* CAP documents.                                                          *)
(***************************************************************************)
Answered ==
  /\ answer \in {"preview", "ready", "refused"} =>
       payload \in Payloads /\ Writable(payload) /\ doc = Compose(payload)
  /\ answer = "accepted" => doc \in Documents
  /\ answer \in {"ready", "accepted"} => Valid(doc)

LEMMA AnsweredAlways == Spec => []Answered
<1>1. Init => Answered
  BY DEF Init, Answered
<1>2. Answered /\ [Next]_vars => Answered'
  <2> SUFFICES ASSUME Answered, [Next]_vars PROVE Answered'
    OBVIOUS
  <2>1. ASSUME NEW p \in Payloads, Fail(p) PROVE Answered'
    BY <2>1 DEF Fail, Answered
  <2>2. ASSUME NEW p \in Payloads, Preview(p) PROVE Answered'
    BY <2>2 DEF Preview, Answered
  <2>3. ASSUME NEW p \in Payloads, Submit(p) PROVE Answered'
    BY <2>3 DEF Submit, Answered
  <2>4. ASSUME NEW d \in Documents, Import(d) PROVE Answered'
    BY <2>4 DEF Import, Answered
  <2>5. CASE NextRequest
    BY <2>5 DEF NextRequest, Answered
  <2>6. CASE UNCHANGED vars
    BY <2>6 DEF vars, Answered
  <2> QED
    BY <2>1, <2>2, <2>3, <2>4, <2>5, <2>6 DEF Next
<1> QED
  BY <1>1, <1>2, PTL DEF Spec

----------------------------------------------------------------------------
(***************************************************************************)
(* Documents of the composer.                                              *)
(***************************************************************************)
\* A text in a composed document is found where validator and parser look.
LEMMA SubRead ==
  ASSUME NEW t \in Text, NEW default
  PROVE  /\ Find(Sub(t)) = t
         /\ ReadText(Sub(t), default) =
              IF Strip(t) = "empty" THEN default ELSE Strip(t)
         /\ Strip(t) = "unlisted" <=> t = "unlisted"
  BY DEF Text, Find, Sub, ReadText, Strip, Absent

LEMMA ComposedInfo ==
  ASSUME NEW p
  PROVE  LET infos == Compose(p).infos IN
         /\ infos.cap # <<>> /\ DOMAIN infos.cap = {1}
         /\ infos.cap[1].fields = [f \in InfoFields |-> Sub(p.info[f])]
         /\ InfosOf(Compose(p)) = infos.cap
  BY DEF Compose, InfosOf

\* The validator's complaints about a composed document.
LEMMA ComposedErrors ==
  ASSUME NEW p \in Payload, Writable(p)
  PROVE  Errors(Compose(p)) =
           {<<0, f>> : f \in {g \in AlertListed : p.fields[g] = "unlisted"}}
           \cup {<<1, f>> : f \in {g \in InfoListed : p.info[g] = "unlisted"}}
<1> DEFINE d == Compose(p)
<1>1. \A f \in AlertFields : p.fields[f] \in Text
  BY DEF Payload, Writable
<1>2. \A f \in InfoFields : p.info[f] \in Text
  BY DEF Payload, Writable
<1>3. Faults(d.fields, AlertFields, AlertListed) =
        {g \in AlertListed : p.fields[g] = "unlisted"}
  <2>1. \A f \in AlertFields :
          Find(d.fields[f]) = IF f = "identifier" THEN Identifier(p.fields[f])
                              ELSE p.fields[f]
    BY <1>1, SubRead DEF Compose, Identifier, Text
  <2>2. \A f \in AlertFields : Find(d.fields[f]) # Absent
    BY <1>1, <2>1 DEF Identifier, Text, Absent
  <2>3. \A f \in AlertListed :
          Strip(Find(d.fields[f])) = "unlisted" <=> p.fields[f] = "unlisted"
    BY <1>1, <2>1, SubRead, IdentifierAssumption DEF AlertFields
  <2> HIDE DEF d
  <2> QED
    BY <2>2, <2>3 DEF Faults
<1>4. Faults(d.infos.cap[1].fields, InfoFields, InfoListed) =
        {g \in InfoListed : p.info[g] = "unlisted"}
  <2>1. \A f \in InfoFields : Find(d.infos.cap[1].fields[f]) = p.info[f]
    <3>1. d.infos.cap[1].fields = [f \in InfoFields |-> Sub(p.info[f])]
      BY ComposedInfo
    <3> HIDE DEF d
    <3> QED
      BY <3>1, <1>2, SubRead
  <2>2. \A f \in InfoFields : Find(d.infos.cap[1].fields[f]) # Absent
    BY <1>2, <2>1 DEF Text, Absent
  <2>3. \A f \in InfoListed :
          Strip(Find(d.infos.cap[1].fields[f])) = "unlisted" <=> p.info[f] = "unlisted"
    BY <1>2, <2>1, SubRead DEF InfoFields
  <2> HIDE DEF d
  <2> QED
    BY <2>2, <2>3 DEF Faults
<1>5. d.root = "alert" /\ InfosOf(d) = d.infos.cap /\ d.infos.cap # <<>>
      /\ DOMAIN d.infos.cap = {1}
  BY ComposedInfo DEF Compose
<1> HIDE DEF d
<1>6. Errors(d) = {<<0, f>> : f \in Faults(d.fields, AlertFields, AlertListed)}
                  \cup {<<1, f>> : f \in Faults(d.infos.cap[1].fields, InfoFields, InfoListed)}
  BY <1>5 DEF Errors
<1> QED
  BY <1>3, <1>4, <1>6 DEF d

\* What the parser reads in a composed document.
LEMMA ComposedRead ==
  ASSUME NEW p \in Payload, Writable(p)
  PROVE  LET alert == Read(Compose(p))
             said(t, default) ==
               IF Strip(t) = "empty" THEN default ELSE Strip(t) IN
         /\ DOMAIN alert.infos = {1}
         /\ \A f \in AlertFields \ {"identifier"} :
              alert.fields[f] = said(p.fields[f], Default(f))
         /\ p.fields["identifier"] = "empty" => alert.fields["identifier"] = "listed"
         /\ \A f \in InfoFields : alert.infos[1].fields[f] = said(p.info[f], "empty")
<1>1. \A f \in AlertFields : p.fields[f] \in Text
  BY DEF Payload, Writable
<1>2. \A f \in InfoFields : p.info[f] \in Text
  BY DEF Payload, Writable
<1>3. /\ DOMAIN Compose(p).infos.cap = {1}
      /\ Compose(p).infos.cap[1].fields = [f \in InfoFields |-> Sub(p.info[f])]
  BY ComposedInfo
<1>4. /\ DOMAIN Read(Compose(p)).infos = {1}
      /\ Read(Compose(p)).infos[1] = ReadInfo(Compose(p).infos.cap[1])
  BY <1>3 DEF Read
<1>5. \A f \in AlertFields \ {"identifier"} :
        Read(Compose(p)).fields[f] = ReadText(Sub(p.fields[f]), Default(f))
  BY DEF Read, Compose
<1>6. Read(Compose(p)).fields["identifier"] =
        ReadText(Sub(Identifier(p.fields["identifier"])), Default("identifier"))
  BY IdentifierAssumption DEF Read, Compose, AlertFields
<1>7. p.fields["identifier"] = "empty" => Read(Compose(p)).fields["identifier"] = "listed"
  BY <1>6, SubRead DEF Identifier, Text, Strip
<1>8. \A f \in InfoFields :
        Read(Compose(p)).infos[1].fields[f] = ReadText(Sub(p.info[f]), "empty")
  BY <1>3, <1>4 DEF ReadInfo
<1> QED
  BY <1>1, <1>2, <1>4, <1>5, <1>7, <1>8, SubRead

\* The validator warns of the areas that the parser does not find.
LEMMA ComposedAreas ==
  ASSUME NEW p \in Payload
  PROVE  Warnings(Compose(p)) = {} <=> Read(Compose(p)).infos[1].areas
<1>1. /\ InfosOf(Compose(p)) = Compose(p).infos.cap
      /\ DOMAIN Compose(p).infos.cap = {1}
  BY ComposedInfo
<1>2. Compose(p).infos.cap[1].areas = [cap |-> p.areas, bare |-> FALSE]
  BY DEF Compose
<1>3. Warnings(Compose(p)) = {i \in {1} : ~p.areas}
  BY <1>1, <1>2 DEF Warnings
<1>4. Read(Compose(p)).infos[1].areas = p.areas
  BY <1>1, <1>2 DEF Read, ReadInfo
<1>5. p.areas \in BOOLEAN
  BY DEF Payload
<1> QED
  BY <1>3, <1>4, <1>5

\* Composer, validator and parser agree on what an author wrote, whatever
\* elements and texts there are (composer.py:50-98, validator.py:56-91,
\* parser.py:107-153).
THEOREM ComposedAlertsReadBack == Spec => []ComposedReadsBack
<1>1. Answered => ComposedReadsBack
  <2> SUFFICES ASSUME Answered, answer \in {"preview", "ready", "refused"}
               PROVE  ComposedReadsBack
    BY DEF ComposedReadsBack
  <2>1. payload \in Payload /\ Writable(payload) /\ doc = Compose(payload)
    BY InputsAssumption DEF Answered
  <2> QED
    BY <2>1, ComposedErrors, ComposedRead, ComposedAreas DEF ComposedReadsBack
<1> QED
  BY <1>1, AnsweredAlways, PTL

----------------------------------------------------------------------------
(***************************************************************************)
(* Documents of any origin.                                                *)
(***************************************************************************)
LEMMA ComposeType ==
  ASSUME NEW p \in Payload, Writable(p)
  PROVE  Compose(p) \in Document
<1> DEFINE alert == [f \in AlertFields |->
                       Sub(IF f = "identifier" THEN Identifier(p.fields[f]) ELSE p.fields[f])]
           info == [fields |-> [f \in InfoFields |-> Sub(p.info[f])],
                    areas |-> [cap |-> p.areas, bare |-> FALSE]]
<1>1. \A t \in Text : Sub(t) \in Child /\ Identifier(t) \in Text
  BY DEF Sub, Child, Identifier, Text
<1>2. alert \in [AlertFields -> Child]
  BY <1>1 DEF Payload, Writable
<1>3. info \in Info
  BY <1>1 DEF Payload, Writable, Info
<1>4. Compose(p) = [root |-> "alert", fields |-> alert, infos |-> [cap |-> <<info>>, bare |-> <<>>]]
  BY DEF Compose
<1> HIDE DEF alert, info
<1> QED
  BY <1>2, <1>3, <1>4 DEF Document

\* An element of a block without faults reads as something allowed.
LEMMA FaultlessReads ==
  ASSUME NEW required, NEW listed, listed \subseteq required,
         NEW fields \in [required -> Child], Uniform(fields),
         Faults(fields, required, listed) = {},
         NEW f \in listed, NEW default
  PROVE  ReadText(fields[f], default) \in {"listed", default}
<1>1. fields[f].cap \in Text \cup {Absent} /\ fields[f].bare = Absent
  BY DEF Child, Uniform
<1>2. Find(fields[f]) # Absent /\ Strip(Find(fields[f])) # "unlisted"
  BY DEF Faults
<1> QED
  BY <1>1, <1>2 DEF Find, ReadText, Strip, Text, Absent

\* A valid document has no faults in any of its blocks.
LEMMA NoFaults ==
  ASSUME NEW d, Valid(d)
  PROVE  /\ InfosOf(d) # <<>>
         /\ Faults(d.fields, AlertFields, AlertListed) = {}
         /\ \A i \in DOMAIN InfosOf(d) :
              Faults(InfosOf(d)[i].fields, InfoFields, InfoListed) = {}
<1> DEFINE here == Faults(d.fields, AlertFields, AlertListed)
           below(i) == Faults(InfosOf(d)[i].fields, InfoFields, InfoListed)
<1>1. /\ (IF InfosOf(d) = <<>> THEN {<<0, "info">>} ELSE {}) = {}
      /\ {<<0, f>> : f \in here} = {}
      /\ UNION {{<<i, f>> : f \in below(i)} : i \in DOMAIN InfosOf(d)} = {}
  BY DEF Valid, Errors
<1> HIDE DEF here, below
<1>2. InfosOf(d) # <<>> /\ here = {}
  BY <1>1
<1>3. ASSUME NEW i \in DOMAIN InfosOf(d) PROVE below(i) = {}
  <2>1. {<<i, f>> : f \in below(i)} = {}
    BY <1>1
  <2> QED
    BY <2>1
<1> QED
  BY <1>2, <1>3 DEF here, below

LEMMA AcceptedReads ==
  ASSUME NEW d \in Document, Valid(d), InCapNamespace(d)
  PROVE  LET alert == Read(d) IN
         /\ \A f \in AlertListed : alert.fields[f] \in {"listed", "default"}
         /\ alert.infos # <<>>
         /\ \A i \in DOMAIN alert.infos, f \in InfoListed :
              alert.infos[i].fields[f] \in {"listed", "empty"}
<1>1. /\ d.fields \in [AlertFields -> Child] /\ Uniform(d.fields)
      /\ Faults(d.fields, AlertFields, AlertListed) = {}
  BY NoFaults DEF Document, InCapNamespace
<1>2. d.infos.cap # <<>> /\ InfosOf(d) = d.infos.cap
  BY NoFaults DEF InCapNamespace, InfosOf
<1>3. \A i \in DOMAIN d.infos.cap :
        Faults(d.infos.cap[i].fields, InfoFields, InfoListed) = {}
  BY <1>2, NoFaults
<1>4. \A i \in DOMAIN d.infos.cap :
        d.infos.cap[i].fields \in [InfoFields -> Child] /\ Uniform(d.infos.cap[i].fields)
  <2>1. d.infos.cap \in Seq(Info)
    BY DEF Document
  <2>2. \A i \in DOMAIN d.infos.cap : d.infos.cap[i] \in Info
    BY <2>1, ElementOfSeq
  <2> QED
    BY <2>2 DEF Info, InCapNamespace
<1>5. \A f \in AlertListed : Read(d).fields[f] \in {"listed", "default"}
  <2> SUFFICES ASSUME NEW f \in AlertListed PROVE Read(d).fields[f] \in {"listed", "default"}
    OBVIOUS
  <2>1. Read(d).fields[f] = ReadText(d.fields[f], "default")
    BY DEF Read, Default, AlertFields
  <2> QED
    BY <1>1, <2>1, FaultlessReads DEF AlertFields
<1>6. Read(d).infos # <<>>
  <2>1. DOMAIN d.infos.cap # {}
    <3>1. d.infos.cap \in Seq(Info)
      BY DEF Document
    <3>2. Len(d.infos.cap) \in Nat \ {0}
      BY <1>2, <3>1, EmptySeq
    <3>3. DOMAIN d.infos.cap = 1 .. Len(d.infos.cap)
      BY <3>1, LenProperties
    <3>4. 1 \in 1 .. Len(d.infos.cap)
      BY <3>2
    <3> QED
      BY <3>3, <3>4
  <2>2. DOMAIN Read(d).infos = DOMAIN d.infos.cap
    BY DEF Read
  <2> QED
    BY <2>1, <2>2
<1>7. \A i \in DOMAIN Read(d).infos, f \in InfoListed :
        Read(d).infos[i].fields[f] \in {"listed", "empty"}
  <2> SUFFICES ASSUME NEW i \in DOMAIN d.infos.cap, NEW f \in InfoListed
               PROVE  Read(d).infos[i].fields[f] \in {"listed", "empty"}
    BY DEF Read
  <2>1. Read(d).infos[i].fields[f] = ReadText(d.infos.cap[i].fields[f], "empty")
    BY DEF Read, ReadInfo, InfoFields
  <2> DEFINE fields == d.infos.cap[i].fields
  <2>2. /\ fields \in [InfoFields -> Child] /\ Uniform(fields)
        /\ Faults(fields, InfoFields, InfoListed) = {}
    BY <1>3, <1>4
  <2> HIDE DEF fields
  <2>3. InfoListed \subseteq InfoFields
    BY DEF InfoFields
  <2>4. ReadText(fields[f], "empty") \in {"listed", "empty"}
    BY <2>2, <2>3, FaultlessReads
  <2> QED
    BY <2>1, <2>4 DEF fields
<1> QED
  BY <1>5, <1>6, <1>7

\* Documents and answers keep their shape: what the composer writes is a
\* document like any other (composer.py:50-98).
THEOREM DocumentsTypeCorrect == Spec => []TypeOK
<1>1. Init => TypeOK
  BY DEF Init, TypeOK
<1>2. TypeOK /\ [Next]_vars => TypeOK'
  BY ComposeType, InputsAssumption
     DEF TypeOK, Next, vars, Fail, Preview, Submit, Import, NextRequest
<1> QED
  BY <1>1, <1>2, PTL DEF Spec

\* Whatever a document in the CAP namespace contains: accepted by the
\* validator, it is read as nothing that the validator refuses (validator.py:
\* 56-91, parser.py:107-184).
THEOREM AcceptedAlertsReadAllowed == Spec => []AcceptedReadsAllowed
<1>1. Answered => AcceptedReadsAllowed
  <2> SUFFICES ASSUME Answered, answer \in {"ready", "accepted"}, InCapNamespace(doc)
               PROVE  AcceptedReadsAllowed
    BY DEF AcceptedReadsAllowed
  <2>1. doc \in Document /\ Valid(doc)
    BY ComposeType, InputsAssumption DEF Answered
  <2> QED
    BY <2>1, AcceptedReads DEF AcceptedReadsAllowed
<1> QED
  BY <1>1, AnsweredAlways, PTL

----------------------------------------------------------------------------
(***************************************************************************)
(* The retry engine.                                                       *)
(***************************************************************************)
USE RetryAssumption

Submission == [id : DeliveryIds, failures : 0 .. MaxRetries,
               completed : BOOLEAN, deadLettered : BOOLEAN]

----------------------------------------------------------------------------
(***************************************************************************)
(* The invariant.                                                          *)
(***************************************************************************)
\* What is pending is open, and has an attempt left.
PendingOpen ==
  \A id \in DOMAIN pending :
    LET v == submissions[pending[id]] IN
    ~v.completed /\ ~v.deadLettered /\ v.failures < MaxRetries

\* No submission of the id is younger than the pending one.
PendingNewest ==
  \A id \in DOMAIN pending, r \in DOMAIN submissions :
    submissions[r].id = id => r <= pending[id]

\* Attempts are of submissions, and what a destination took was attempted.
AttemptsKnown ==
  /\ taken \subseteq DOMAIN submissions
  /\ \A w \in Workers : /\ attempt[w].of <= Len(submissions)
                        /\ attempt[w].ok => attempt[w].of \in taken

RetryInv == RetryTypeOK /\ PendingOpen /\ PendingNewest /\ AttemptsKnown /\ DeliveredWasTaken

\* The initial state satisfies the invariant.
LEMMA InitRetryInv == RetryInit => RetryInv
<1> SUFFICES ASSUME RetryInit PROVE RetryInv
    OBVIOUS
<1>1. /\ submissions \in Seq(Submission) /\ deadLetter \in Seq(Submissions)
      /\ Len(submissions) = 0 /\ DOMAIN submissions = {} /\ DOMAIN pending = {}
    BY EmptySeq DEF RetryInit
<1>2. RetryTypeOK
    BY <1>1 DEF RetryInit, RetryTypeOK, Submission, NoAttempt
<1>3. PendingOpen /\ PendingNewest /\ DeliveredWasTaken
    BY <1>1 DEF PendingOpen, PendingNewest, DeliveredWasTaken
<1>4. AttemptsKnown
    BY <1>1 DEF AttemptsKnown, RetryInit, NoAttempt
<1>5. QED BY <1>2, <1>3, <1>4 DEF RetryInv

\* A submission joins the others and is the newest of its id.
LEMMA SubmitRetryInv ==
  ASSUME RetryInv, NEW id \in DeliveryIds, SubmitDelivery(id)
  PROVE  RetryInv'
<1> DEFINE s == Len(submissions) + 1
           v == [id |-> id, failures |-> 0, completed |-> FALSE, deadLettered |-> FALSE]
<1>1. submissions \in Seq(Submission) /\ deadLetter \in Seq(Submissions)
    BY DEF RetryInv, RetryTypeOK, Submission
<1>2. /\ Len(submissions) \in Nat /\ DOMAIN submissions = 1 .. Len(submissions)
      /\ \A r \in DOMAIN submissions : submissions[r] \in Submission
    BY <1>1, LenProperties, ElementOfSeq
<1>3. v \in Submission
    BY DEF Submission
<1>4. /\ submissions' \in Seq(Submission)
      /\ Len(submissions') = s /\ DOMAIN submissions' = 1 .. s
      /\ \A r \in DOMAIN submissions : submissions'[r] = submissions[r]
      /\ submissions'[s] = v
  <2>1. submissions' = Append(submissions, v)
    BY DEF SubmitDelivery
  <2> HIDE DEF v
  <2>2. QED BY <1>1, <1>2, <1>3, <2>1, AppendProperties, LenProperties
<1>5. /\ DOMAIN pending' = DOMAIN pending \cup {id}
      /\ pending'[id] = s
      /\ \A i \in DOMAIN pending \ {id} : pending'[i] = pending[i]
    BY DEF SubmitDelivery
<1>6. s \in Submissions /\ UNCHANGED <<deadLetter, totals, attempt, taken>>
    BY <1>2 DEF SubmitDelivery, Submissions
<1>7. replaced' \subseteq Submissions
  <2>1. id \in DOMAIN pending => pending[id] \in Submissions
    BY <1>2 DEF RetryInv, RetryTypeOK, Submissions
  <2>2. replaced \subseteq Submissions
    BY DEF RetryInv, RetryTypeOK
  <2>3. replaced' = IF id \in DOMAIN pending THEN replaced \cup {pending[id]} ELSE replaced
    BY DEF SubmitDelivery
  <2>4. QED BY <2>1, <2>2, <2>3
<1> HIDE DEF v
<1>8. v.id = id /\ ~v.completed /\ ~v.deadLettered /\ v.failures = 0
    BY DEF v
<1>9. RetryTypeOK'
  <2>1. s <= MaxSubmissions
    BY <1>6 DEF Submissions
  <2>2. \A i \in DOMAIN pending' : /\ pending'[i] \in DOMAIN submissions'
                                   /\ submissions'[pending'[i]].id = i
    BY <1>2, <1>4, <1>5, <1>8 DEF RetryInv, RetryTypeOK
  <2>3. DOMAIN pending' \subseteq DeliveryIds
    BY <1>5 DEF RetryInv, RetryTypeOK
  <2>4. QED
    BY <1>1, <1>4, <1>6, <1>7, <2>1, <2>2, <2>3 DEF RetryInv, RetryTypeOK, Submission
<1>10. PendingOpen'
    BY <1>2, <1>4, <1>5, <1>8 DEF RetryInv, RetryTypeOK, PendingOpen
<1>11. PendingNewest'
  <2> SUFFICES ASSUME NEW i \in DOMAIN pending', NEW r \in DOMAIN submissions',
                      submissions'[r].id = i
               PROVE  r <= pending'[i]
    BY DEF PendingNewest
  <2>1. CASE i = id
    BY <1>2, <1>4, <1>5, <2>1
  <2>2. CASE i # id
    BY <1>2, <1>4, <1>5, <1>8, <2>2 DEF RetryInv, PendingNewest
  <2>3. QED BY <2>1, <2>2
<1>12. AttemptsKnown'
    BY <1>2, <1>4, <1>6 DEF RetryInv, RetryTypeOK, AttemptsKnown
<1>13. DeliveredWasTaken'
    BY <1>2, <1>4, <1>6, <1>8 DEF RetryInv, AttemptsKnown, DeliveredWasTaken
<1>14. QED BY <1>9, <1>10, <1>11, <1>12, <1>13 DEF RetryInv

----------------------------------------------------------------------------
(***************************************************************************)
(* Outcomes.  Settles is what record_success and record_failure do to the  *)
(* submission that is pending under an id: it becomes v, and makes way     *)
(* unless v is open with an attempt left.                                  *)
(***************************************************************************)
Settles(id, v) ==
  /\ submissions' = [submissions EXCEPT ![pending[id]] = v]
  /\ \/ pending' = pending /\ ~v.completed /\ ~v.deadLettered /\ v.failures < MaxRetries
     \/ pending' = StillPending(id)

\* A submission that changes keeps its place and its id.
LEMMA SettledSubmissions ==
  ASSUME RetryInv, NEW id \in DOMAIN pending,
         NEW v \in Submission, v.id = id, Settles(id, v)
  PROVE  /\ submissions \in Seq(Submission) /\ submissions' \in Seq(Submission)
         /\ Len(submissions) \in Nat /\ Len(submissions') = Len(submissions)
         /\ DOMAIN submissions = 1 .. Len(submissions)
         /\ DOMAIN submissions' = DOMAIN submissions
         /\ pending[id] \in DOMAIN submissions /\ submissions'[pending[id]] = v
         /\ \A r \in DOMAIN submissions : submissions[r] \in Submission
         /\ \A r \in DOMAIN submissions \ {pending[id]} : submissions'[r] = submissions[r]
         /\ \A r \in DOMAIN submissions : submissions'[r].id = submissions[r].id
<1>1. /\ submissions \in Seq(Submission) /\ pending[id] \in DOMAIN submissions
      /\ submissions[pending[id]].id = id
    BY DEF RetryInv, RetryTypeOK, Submission
<1>2. /\ Len(submissions) \in Nat /\ DOMAIN submissions = 1 .. Len(submissions)
      /\ \A r \in DOMAIN submissions : submissions[r] \in Submission
    BY <1>1, LenProperties, ElementOfSeq
<1>3. submissions' = [submissions EXCEPT ![pending[id]] = v]
    BY DEF Settles
<1>4. /\ submissions' \in Seq(Submission) /\ Len(submissions') = Len(submissions)
      /\ \A r \in 1 .. Len(submissions) :
           submissions'[r] = IF r = pending[id] THEN v ELSE submissions[r]
    BY <1>1, <1>2, <1>3, ExceptSeq
<1>5. DOMAIN submissions' = DOMAIN submissions
    BY <1>3
<1>6. QED BY <1>1, <1>2, <1>4, <1>5

\* A pending entry that stays is the one it was.
LEMMA SettledPending ==
  ASSUME NEW id \in DOMAIN pending, NEW v, Settles(id, v)
  PROVE  /\ DOMAIN pending' \subseteq DOMAIN pending
         /\ \A i \in DOMAIN pending' : pending'[i] = pending[i]
         /\ id \in DOMAIN pending' =>
              pending' = pending /\ ~v.completed /\ ~v.deadLettered /\ v.failures < MaxRetries
  BY DEF Settles, StillPending

\* Outcomes keep the invariant when what they count as delivered was taken.
LEMMA SettlesRetryInv ==
  ASSUME RetryInv, NEW id \in DOMAIN pending,
         NEW v \in Submission, v.id = id, Settles(id, v),
         v.completed => \E r \in taken : r <= pending[id] /\ submissions[r].id = id,
         deadLetter' \in Seq(Submissions), totals' \in [delivered : Nat, failed : Nat],
         attempt' \in [Workers -> [of : 0 .. MaxSubmissions, ok : BOOLEAN]],
         \A w \in Workers : attempt'[w] \in {attempt[w], NoAttempt},
         UNCHANGED <<taken, replaced>>
  PROVE  RetryInv'
<1>1. PICK s \in DOMAIN submissions : s = pending[id]
    BY SettledSubmissions
<1>2. /\ DOMAIN pending' \subseteq DeliveryIds
      /\ \A i \in DOMAIN pending' : /\ pending'[i] \in DOMAIN submissions'
                                    /\ submissions'[pending'[i]].id = i
  <2>1. DOMAIN pending' \subseteq DOMAIN pending /\ \A i \in DOMAIN pending' : pending'[i] = pending[i]
    BY SettledPending
  <2>2. /\ DOMAIN pending \subseteq DeliveryIds
        /\ \A i \in DOMAIN pending : /\ pending[i] \in DOMAIN submissions
                                     /\ submissions[pending[i]].id = i
    BY DEF RetryInv, RetryTypeOK
  <2>3. /\ DOMAIN submissions' = DOMAIN submissions
        /\ \A r \in DOMAIN submissions : submissions'[r].id = submissions[r].id
    BY SettledSubmissions
  <2>4. QED BY <2>1, <2>2, <2>3
<1>3. RetryTypeOK'
    BY <1>2, SettledSubmissions DEF RetryInv, RetryTypeOK, Submission
<1>4. PendingOpen'
  <2> SUFFICES ASSUME NEW i \in DOMAIN pending'
               PROVE  LET u == submissions'[pending'[i]] IN
                      ~u.completed /\ ~u.deadLettered /\ u.failures < MaxRetries
    BY DEF PendingOpen
  <2>1. CASE i = id
    BY <2>1, SettledSubmissions, SettledPending
  <2>2. CASE i # id
    <3>1. /\ i \in DOMAIN pending /\ pending'[i] = pending[i]
          /\ pending[i] \in DOMAIN submissions
          /\ submissions[pending[i]].id = i /\ submissions[pending[id]].id = id
      BY SettledPending DEF RetryInv, RetryTypeOK
    <3>2. submissions'[pending'[i]] = submissions[pending[i]]
      BY <2>2, <3>1, SettledSubmissions
    <3>3. QED BY <3>1, <3>2 DEF RetryInv, PendingOpen
  <2>3. QED BY <2>1, <2>2
<1>5. PendingNewest'
    BY SettledSubmissions, SettledPending DEF RetryInv, PendingNewest
<1>6. AttemptsKnown'
    BY SettledSubmissions DEF RetryInv, AttemptsKnown, NoAttempt
<1>7. DeliveredWasTaken'
  <2> SUFFICES ASSUME NEW u \in DOMAIN submissions, submissions'[u].completed
               PROVE  \E r \in taken : r <= u /\ submissions'[r].id = submissions'[u].id
    BY SettledSubmissions DEF DeliveredWasTaken
  <2>1. PICK r \in taken : r <= u /\ submissions[r].id = submissions[u].id
    <3>1. CASE u = pending[id]
      <4>1. submissions'[u] = v
        BY <3>1, SettledSubmissions
      <4>2. submissions[u].id = id
        BY <3>1 DEF RetryInv, RetryTypeOK
      <4>3. QED BY <3>1, <4>1, <4>2
    <3>2. CASE u # pending[id]
      BY <3>2, SettledSubmissions DEF RetryInv, DeliveredWasTaken
    <3>3. QED BY <3>1, <3>2
  <2>2. r \in DOMAIN submissions
    BY DEF RetryInv, AttemptsKnown
  <2>3. QED BY <2>1, <2>2, SettledSubmissions
<1>8. QED BY <1>3, <1>4, <1>5, <1>6, <1>7 DEF RetryInv

\* What becomes of the submission that is pending under an id.
Succeeded(id) == [submissions[pending[id]] EXCEPT !.completed = TRUE]
FailedOnce(id) == [submissions[pending[id]] EXCEPT !.failures = @ + 1]
FailedForGood(id) ==
  [submissions[pending[id]] EXCEPT !.failures = @ + 1, !.deadLettered = TRUE]

\* The submission that is pending under an id, and what can become of it.
LEMMA PendingSubmission ==
  ASSUME RetryInv, NEW id \in DOMAIN pending
  PROVE  /\ pending[id] \in DOMAIN submissions
         /\ pending[id] \in Submissions
         /\ submissions[pending[id]] \in Submission
         /\ submissions[pending[id]].id = id
         /\ ~submissions[pending[id]].completed /\ ~submissions[pending[id]].deadLettered
         /\ submissions[pending[id]].failures < MaxRetries
         /\ Succeeded(id) \in Submission /\ Succeeded(id).id = id
         /\ FailedOnce(id) \in Submission /\ FailedOnce(id).id = id
         /\ FailedForGood(id) \in Submission /\ FailedForGood(id).id = id
<1>1. /\ submissions \in Seq(Submission) /\ pending[id] \in DOMAIN submissions
      /\ submissions[pending[id]].id = id
    BY DEF RetryInv, RetryTypeOK, Submission
<1>2. /\ submissions[pending[id]] \in Submission /\ Len(submissions) \in Nat
      /\ DOMAIN submissions = 1 .. Len(submissions)
    BY <1>1, LenProperties, ElementOfSeq
<1>3. pending[id] \in Submissions
    BY <1>1, <1>2 DEF RetryInv, RetryTypeOK, Submissions
<1>4. /\ ~submissions[pending[id]].completed /\ ~submissions[pending[id]].deadLettered
      /\ submissions[pending[id]].failures < MaxRetries
    BY DEF RetryInv, PendingOpen
<1>5. /\ Succeeded(id) \in Submission /\ Succeeded(id).id = id
      /\ FailedOnce(id) \in Submission /\ FailedOnce(id).id = id
      /\ FailedForGood(id) \in Submission /\ FailedForGood(id).id = id
  <2> DEFINE u == submissions[pending[id]]
  <2>1. u \in Submission /\ u.id = id /\ u.failures < MaxRetries
    BY <1>1, <1>2, <1>4
  <2>2. u.failures + 1 \in 0 .. MaxRetries
    BY <2>1 DEF Submission
  <2>3. /\ Succeeded(id) = [u EXCEPT !.completed = TRUE]
        /\ FailedOnce(id) = [u EXCEPT !.failures = u.failures + 1]
        /\ FailedForGood(id) = [u EXCEPT !.failures = u.failures + 1, !.deadLettered = TRUE]
    BY DEF Succeeded, FailedOnce, FailedForGood
  <2> HIDE DEF u
  <2>4. Succeeded(id) \in Submission /\ Succeeded(id).id = id
    BY <2>1, <2>3 DEF Submission
  <2>5. FailedOnce(id) \in Submission /\ FailedOnce(id).id = id
    BY <2>1, <2>2, <2>3 DEF Submission
  <2>6. FailedForGood(id) \in Submission /\ FailedForGood(id).id = id
    BY <2>1, <2>2, <2>3 DEF Submission
  <2>7. QED BY <2>4, <2>5, <2>6
<1>6. QED BY <1>1, <1>2, <1>3, <1>4, <1>5

\* A success settles the delivery that is pending under the id.
LEMMA SuccessSettles ==
  ASSUME NEW id \in DOMAIN pending, RecordSuccess(id)
  PROVE  Settles(id, Succeeded(id)) /\ pending' = StillPending(id)
  BY DEF RecordSuccess, Settles, Succeeded

\* A failure either leaves it open or settles it.
LEMMA FailureSettles ==
  ASSUME RetryInv, NEW id \in DOMAIN pending, RecordFailure(id)
  PROVE  \/ /\ RetriesRemain(pending[id])
            /\ Settles(id, FailedOnce(id)) /\ UNCHANGED <<pending, deadLetter, totals>>
         \/ /\ ~RetriesRemain(pending[id])
            /\ Settles(id, FailedForGood(id)) /\ pending' = StillPending(id)
            /\ deadLetter' = Append(deadLetter, pending[id])
            /\ totals' = [totals EXCEPT !.failed = @ + 1]
<1>1. CASE RetriesRemain(pending[id])
  <2>1. /\ submissions' = [submissions EXCEPT ![pending[id]] = FailedOnce(id)]
        /\ UNCHANGED <<pending, deadLetter, totals>>
    BY <1>1 DEF RecordFailure, FailedOnce
  <2>2. /\ ~FailedOnce(id).completed /\ ~FailedOnce(id).deadLettered
        /\ FailedOnce(id).failures < MaxRetries
    BY <1>1, PendingSubmission DEF RetriesRemain, FailedOnce, Submission
  <2>3. QED BY <1>1, <2>1, <2>2 DEF Settles
<1>2. CASE ~RetriesRemain(pending[id])
  <2>1. submissions' = [submissions EXCEPT ![pending[id]] = FailedForGood(id)]
    BY <1>2 DEF RecordFailure, FailedForGood
  <2>2. /\ pending' = StillPending(id) /\ deadLetter' = Append(deadLetter, pending[id])
        /\ totals' = [totals EXCEPT !.failed = @ + 1]
    BY <1>2 DEF RecordFailure
  <2>3. QED BY <1>2, <2>1, <2>2 DEF Settles
<1>3. QED BY <1>1, <1>2

\* A worker that makes an attempt makes it of some submission.
LEMMA AttemptOf ==
  ASSUME RetryInv, NEW w \in Workers, attempt[w] # NoAttempt
  PROVE  attempt[w].of \in DOMAIN submissions
<1>1. /\ submissions \in Seq(Submission)
      /\ attempt[w] \in [of : 0 .. MaxSubmissions, ok : BOOLEAN]
      /\ attempt[w].of <= Len(submissions)
      /\ attempt[w].ok => attempt[w].of \in DOMAIN submissions
    BY DEF RetryInv, RetryTypeOK, AttemptsKnown, Submission
<1>2. Len(submissions) \in Nat /\ DOMAIN submissions = 1 .. Len(submissions)
    BY <1>1, LenProperties
<1>3. attempt[w].of # 0
  <2> SUFFICES ASSUME attempt[w].of = 0 PROVE FALSE
    OBVIOUS
  <2>1. attempt[w].ok = FALSE
    BY <1>1, <1>2
  <2>2. attempt[w] = [of |-> 0, ok |-> FALSE]
    BY <1>1, <2>1
  <2>3. QED BY <2>2 DEF NoAttempt
<1>4. QED BY <1>1, <1>2, <1>3

\* A report of a worker keeps the invariant, however late it comes.
LEMMA ReportRetryInv ==
  ASSUME RetryInv, NEW w \in Workers, Report(w)
  PROVE  RetryInv'
<1> DEFINE id == submissions[attempt[w].of].id
<1>1. /\ attempt[w] # NoAttempt /\ UNCHANGED <<taken, replaced>>
      /\ attempt' = [attempt EXCEPT ![w] = NoAttempt]
    BY DEF Report
<1>2. /\ attempt' \in [Workers -> [of : 0 .. MaxSubmissions, ok : BOOLEAN]]
      /\ \A x \in Workers : attempt'[x] \in {attempt[x], NoAttempt}
    BY <1>1 DEF RetryInv, RetryTypeOK, NoAttempt
<1>3. deadLetter \in Seq(Submissions) /\ totals \in [delivered : Nat, failed : Nat]
    BY DEF RetryInv, RetryTypeOK
<1>4. CASE id \notin DOMAIN pending
  <2>1. UNCHANGED <<submissions, pending, deadLetter, totals>>
    BY <1>4 DEF Report, engine
  <2>2. QED
    BY <1>1, <1>2, <2>1
       DEF RetryInv, RetryTypeOK, PendingOpen, PendingNewest, AttemptsKnown,
           DeliveredWasTaken, NoAttempt, Submissions
<1>5. CASE id \in DOMAIN pending /\ attempt[w].ok /\ RecordSuccess(id)
  <2>1. /\ attempt[w].of \in taken /\ attempt[w].of <= pending[id]
        /\ submissions[attempt[w].of].id = id
    BY <1>1, <1>5, AttemptOf DEF RetryInv, AttemptsKnown, PendingNewest
  <2>2. Settles(id, Succeeded(id))
    BY <1>5, SuccessSettles
  <2>3. deadLetter' = deadLetter /\ totals' \in [delivered : Nat, failed : Nat]
    <3>1. deadLetter' = deadLetter /\ totals' = [totals EXCEPT !.delivered = @ + 1]
      BY <1>5 DEF RecordSuccess
    <3> HIDE DEF id
    <3>2. totals' \in [delivered : Nat, failed : Nat]
      BY <1>3, <3>1
    <3>3. QED BY <3>1, <3>2
  <2> HIDE DEF id
  <2>4. QED
    BY <1>1, <1>2, <1>3, <1>5, <2>1, <2>2, <2>3, PendingSubmission, SettlesRetryInv
<1>6. CASE id \in DOMAIN pending /\ RecordFailure(id)
  <2> HIDE DEF id
  <2>1. ~FailedOnce(id).completed /\ ~FailedForGood(id).completed
    BY <1>6, PendingSubmission, ZenonT(30) DEF FailedOnce, FailedForGood, Submission
  <2>2. deadLetter' \in Seq(Submissions) /\ totals' \in [delivered : Nat, failed : Nat]
    BY <1>3, <1>6, FailureSettles, PendingSubmission, AppendProperties, SMTT(30)
  <2>3. QED
    BY <1>1, <1>2, <1>6, <2>1, <2>2, FailureSettles, PendingSubmission, SettlesRetryInv
<1>7. QED BY <1>4, <1>5, <1>6 DEF Report

\* Workers that start and destinations that take touch nothing of the engine.
LEMMA AttemptRetryInv ==
  ASSUME RetryInv, UNCHANGED <<engine, replaced>>,
         taken \subseteq taken', taken' \subseteq DOMAIN submissions \cap Submissions,
         attempt' \in [Workers -> [of : 0 .. MaxSubmissions, ok : BOOLEAN]],
         \A w \in Workers : /\ attempt'[w].of <= Len(submissions)
                            /\ attempt'[w].ok => attempt'[w].of \in taken'
  PROVE  RetryInv'
<1> USE DEF engine, RetryInv
<1>1. RetryTypeOK'
    BY DEF RetryTypeOK
<1>2. PendingOpen' /\ PendingNewest'
    BY DEF PendingOpen, PendingNewest
<1>3. AttemptsKnown'
    BY DEF AttemptsKnown
<1>4. DeliveredWasTaken'
    BY DEF DeliveredWasTaken
<1>5. QED BY <1>1, <1>2, <1>3, <1>4

\* Every step of the engine and of the workers keeps the invariant.
LEMMA NextRetryInv == RetryInv /\ [RetryNext]_retryVars => RetryInv'
<1> SUFFICES ASSUME RetryInv, [RetryNext]_retryVars PROVE RetryInv'
    OBVIOUS
<1>0. /\ attempt \in [Workers -> [of : 0 .. MaxSubmissions, ok : BOOLEAN]]
      /\ taken \subseteq DOMAIN submissions \cap Submissions
      /\ Len(submissions) \in Nat /\ DOMAIN submissions = 1 .. Len(submissions)
      /\ \A w \in Workers : /\ attempt[w].of <= Len(submissions)
                            /\ attempt[w].ok => attempt[w].of \in taken
      /\ DOMAIN submissions \subseteq Submissions
    BY LenProperties DEF RetryInv, RetryTypeOK, AttemptsKnown, Submissions
<1>1. ASSUME NEW id \in DeliveryIds, SubmitDelivery(id) PROVE RetryInv'
    BY <1>1, SubmitRetryInv
<1>2. ASSUME NEW id \in DeliveryIds, NEW w \in Workers, StartAttempt(w, id) PROVE RetryInv'
  <2>1. pending[id] \in 1 .. Len(submissions) /\ pending[id] \in 0 .. MaxSubmissions
    BY <1>0, <1>2, PendingSubmission DEF StartAttempt, Submissions
  <2>2. /\ UNCHANGED <<engine, replaced, taken>>
        /\ attempt' = [attempt EXCEPT ![w] = [of |-> pending[id], ok |-> FALSE]]
    BY <1>2 DEF StartAttempt
  <2>3. /\ attempt' \in [Workers -> [of : 0 .. MaxSubmissions, ok : BOOLEAN]]
        /\ \A x \in Workers : /\ attempt'[x].of <= Len(submissions)
                              /\ attempt'[x].ok => attempt'[x].of \in taken
    BY <1>0, <2>1, <2>2
  <2>4. QED BY <1>0, <2>2, <2>3, AttemptRetryInv
<1>3. ASSUME NEW w \in Workers, Arrive(w) PROVE RetryInv'
  <2>1. attempt[w].of \in DOMAIN submissions
    BY <1>3, AttemptOf DEF Arrive
  <2>2. /\ UNCHANGED <<engine, replaced>>
        /\ taken' = taken \cup {attempt[w].of}
        /\ attempt' = [attempt EXCEPT ![w].ok = TRUE]
    BY <1>3 DEF Arrive
  <2>3. /\ attempt' \in [Workers -> [of : 0 .. MaxSubmissions, ok : BOOLEAN]]
        /\ \A x \in Workers : /\ attempt'[x].of = attempt[x].of
                              /\ x # w => attempt'[x].ok = attempt[x].ok
    BY <1>0, <2>2
  <2>4. \A x \in Workers : /\ attempt'[x].of <= Len(submissions)
                           /\ attempt'[x].ok => attempt'[x].of \in taken'
    BY <1>0, <2>2, <2>3
  <2>5. QED BY <1>0, <2>1, <2>2, <2>3, <2>4, AttemptRetryInv
<1>4. ASSUME NEW w \in Workers, Report(w) PROVE RetryInv'
    BY <1>4, ReportRetryInv
<1>5. ASSUME NEW w \in Workers, Abandon(w) PROVE RetryInv'
    BY <1>5
       DEF Abandon, engine, RetryInv, RetryTypeOK, PendingOpen, PendingNewest,
           AttemptsKnown, DeliveredWasTaken, NoAttempt, Submissions
<1>6. ASSUME UNCHANGED retryVars PROVE RetryInv'
    BY <1>6
       DEF retryVars, RetryInv, RetryTypeOK, PendingOpen, PendingNewest,
           AttemptsKnown, DeliveredWasTaken, Submissions
<1>7. QED BY <1>1, <1>2, <1>3, <1>4, <1>5, <1>6 DEF RetryNext

\* The invariant holds in every reachable state.
THEOREM RetryInvariance == RetrySpec => []RetryInv
  BY InitRetryInv, NextRetryInv, PTL DEF RetrySpec

\* Type correctness, for any number of retries, ids and workers.
THEOREM RetryTypeCorrect == RetrySpec => []RetryTypeOK
<1>1. RetryInv => RetryTypeOK
    BY DEF RetryInv
<1>2. QED BY RetryInvariance, <1>1, PTL

----------------------------------------------------------------------------
(***************************************************************************)
(* The totals.  A submission that was replaced is no longer pending, which *)
(* EverySubmissionCounted alone does not say.                              *)
(***************************************************************************)
Accounts ==
  /\ IsFiniteSet(DOMAIN pending)
  /\ replaced \subseteq DOMAIN submissions
  /\ \A id \in DOMAIN pending : pending[id] \notin replaced
  /\ EverySubmissionCounted

\* Nothing is submitted, nothing is counted.
LEMMA InitAccounts == RetryInit => Accounts
<1> SUFFICES ASSUME RetryInit PROVE Accounts
    OBVIOUS
<1>1. /\ DOMAIN submissions = {} /\ DOMAIN pending = {} /\ DOMAIN deadLetter = {}
      /\ Len(submissions) = 0 /\ Len(deadLetter) = 0 /\ replaced = {}
      /\ totals.delivered = 0 /\ totals.failed = 0
    BY EmptySeq DEF RetryInit
<1>2. ToSet(deadLetter) = {}
    BY <1>1 DEF ToSet
<1>3. IsFiniteSet({}) /\ Cardinality({}) = 0
    BY FS_EmptySet
<1>4. QED BY <1>1, <1>2, <1>3 DEF Accounts, EverySubmissionCounted

\* The dead-letter queue after one more delivery has died.
LEMMA ToSetAppend ==
  ASSUME NEW S, NEW q \in Seq(S), NEW e \in S
  PROVE  ToSet(Append(q, e)) = ToSet(q) \cup {e}
<1>1. /\ Len(q) \in Nat /\ DOMAIN q = 1 .. Len(q)
      /\ Append(q, e) \in Seq(S) /\ Len(Append(q, e)) = Len(q) + 1
      /\ DOMAIN Append(q, e) = 1 .. Len(q) + 1
      /\ \A i \in 1 .. Len(q) : Append(q, e)[i] = q[i]
      /\ Append(q, e)[Len(q) + 1] = e
    BY AppendProperties, LenProperties
<1>2. QED BY <1>1 DEF ToSet

\* A submission is counted where the one it replaces was, or anew.
LEMMA SubmitAccounts ==
  ASSUME RetryInv, Accounts, NEW id \in DeliveryIds, SubmitDelivery(id)
  PROVE  Accounts'
<1> DEFINE s == Len(submissions) + 1
           v == [id |-> id, failures |-> 0, completed |-> FALSE, deadLettered |-> FALSE]
<1>1. submissions \in Seq(Submission) /\ v \in Submission /\ submissions' = Append(submissions, v)
    BY DEF RetryInv, RetryTypeOK, Submission, SubmitDelivery
<1> HIDE DEF v
<1>2. /\ Len(submissions) \in Nat /\ DOMAIN submissions = 1 .. Len(submissions)
      /\ Len(submissions') = s /\ DOMAIN submissions' = 1 .. s
      /\ \A r \in DOMAIN submissions : submissions'[r] = submissions[r]
      /\ submissions'[s] = v
    BY <1>1, AppendProperties, LenProperties
<1>3. /\ DOMAIN pending' = DOMAIN pending \cup {id}
      /\ pending'[id] = s
      /\ \A i \in DOMAIN pending \ {id} : pending'[i] = pending[i]
      /\ UNCHANGED <<deadLetter, totals>>
    BY DEF SubmitDelivery
<1>4. \A i \in DOMAIN pending : pending[i] \in DOMAIN submissions /\ submissions[pending[i]].id = i
    BY DEF RetryInv, RetryTypeOK
<1>5. ToSet(deadLetter) = {r \in DOMAIN submissions' : submissions'[r].deadLettered}
  <2>1. ~v.deadLettered
    BY DEF v
  <2>2. QED BY <1>2, <2>1 DEF Accounts, EverySubmissionCounted
<1>6. totals \in [delivered : Nat, failed : Nat]
    BY DEF RetryInv, RetryTypeOK
<1>7. IsFiniteSet(replaced) /\ Cardinality(replaced) \in Nat /\ Cardinality(DOMAIN pending) \in Nat
  <2>1. IsFiniteSet(DOMAIN pending) /\ replaced \subseteq 1 .. Len(submissions)
    BY <1>2 DEF Accounts
  <2>2. IsFiniteSet(1 .. Len(submissions))
    <3>1. 1 \in Int /\ Len(submissions) \in Int
      BY <1>2
    <3>2. QED BY <3>1, FS_Interval
  <2>3. IsFiniteSet(replaced)
    BY <2>1, <2>2, FS_Subset
  <2>4. QED BY <2>1, <2>3, FS_CardinalityType
<1>8. CASE id \in DOMAIN pending
  <2>1. replaced' = replaced \cup {pending[id]} /\ DOMAIN pending' = DOMAIN pending
    BY <1>3, <1>8 DEF SubmitDelivery
  <2>2. Cardinality(replaced') = Cardinality(replaced) + 1
    BY <1>7, <1>8, <2>1, FS_AddElement DEF Accounts
  <2>3. replaced' \subseteq DOMAIN submissions'
    BY <1>2, <1>4, <1>8, <2>1 DEF Accounts
  <2>4. \A i \in DOMAIN pending' : pending'[i] \notin replaced'
    BY <1>2, <1>3, <1>4, <1>8, <2>1 DEF Accounts
  <2>5. EverySubmissionCounted'
    BY <1>2, <1>3, <1>5, <1>6, <1>7, <2>1, <2>2 DEF Accounts, EverySubmissionCounted
  <2>6. QED BY <2>1, <2>3, <2>4, <2>5 DEF Accounts
<1>9. CASE id \notin DOMAIN pending
  <2>1. replaced' = replaced
    BY <1>9 DEF SubmitDelivery
  <2>2. IsFiniteSet(DOMAIN pending') /\ Cardinality(DOMAIN pending') = Cardinality(DOMAIN pending) + 1
    BY <1>3, <1>9, FS_AddElement DEF Accounts
  <2>3. replaced' \subseteq DOMAIN submissions'
    BY <1>2, <2>1 DEF Accounts
  <2>4. \A i \in DOMAIN pending' : pending'[i] \notin replaced'
    BY <1>2, <1>3, <2>1 DEF Accounts
  <2>5. EverySubmissionCounted'
    BY <1>2, <1>3, <1>5, <1>6, <1>7, <2>1, <2>2 DEF Accounts, EverySubmissionCounted
  <2>6. QED BY <2>2, <2>3, <2>4, <2>5 DEF Accounts
<1>10. QED BY <1>8, <1>9

\* The number of pending deliveries after one was settled.
LEMMA OneLessPending ==
  ASSUME Accounts, NEW id \in DOMAIN pending, pending' = StillPending(id)
  PROVE  /\ IsFiniteSet(DOMAIN pending')
         /\ Cardinality(DOMAIN pending') \in Nat
         /\ Cardinality(DOMAIN pending) = Cardinality(DOMAIN pending') + 1
<1>1. DOMAIN pending' = DOMAIN pending \ {id}
    BY DEF StillPending
<1>2. IsFiniteSet(DOMAIN pending) /\ Cardinality(DOMAIN pending) \in Nat
    BY FS_CardinalityType DEF Accounts
<1>3. IsFiniteSet(DOMAIN pending') /\ Cardinality(DOMAIN pending') \in Nat
    BY <1>1, <1>2, FS_Subset, FS_CardinalityType
<1>4. Cardinality(DOMAIN pending') = Cardinality(DOMAIN pending) - 1
    BY <1>1, <1>2, FS_RemoveElement
<1>5. QED BY <1>2, <1>3, <1>4

\* An outcome moves a submission from the pending to one of the totals.
LEMMA ReportAccounts ==
  ASSUME RetryInv, Accounts, NEW w \in Workers, Report(w)
  PROVE  Accounts'
<1> DEFINE id == submissions[attempt[w].of].id
           dead == {r \in DOMAIN submissions : submissions[r].deadLettered}
<1>1. replaced' = replaced /\ totals \in [delivered : Nat, failed : Nat]
    BY DEF Report, RetryInv, RetryTypeOK
<1>2. CASE id \notin DOMAIN pending
  <2>1. UNCHANGED <<submissions, pending, deadLetter, totals>>
    BY <1>2 DEF Report, engine
  <2>2. QED BY <1>1, <2>1 DEF Accounts, EverySubmissionCounted
<1>3. ASSUME NEW i \in DOMAIN pending, NEW v \in Submission, v.id = i, Settles(i, v)
      PROVE  /\ Len(submissions') = Len(submissions)
             /\ replaced' \subseteq DOMAIN submissions'
             /\ \A j \in DOMAIN pending' : pending'[j] \notin replaced'
             /\ {r \in DOMAIN submissions' : submissions'[r].deadLettered}
                  = IF v.deadLettered THEN dead \cup {pending[i]} ELSE dead
  <2>1. /\ Len(submissions') = Len(submissions) /\ DOMAIN submissions' = DOMAIN submissions
        /\ pending[i] \in DOMAIN submissions /\ submissions'[pending[i]] = v
        /\ \A r \in DOMAIN submissions \ {pending[i]} : submissions'[r] = submissions[r]
    BY <1>3, SettledSubmissions
  <2>2. \A j \in DOMAIN pending' : j \in DOMAIN pending /\ pending'[j] = pending[j]
    BY <1>3, SettledPending
  <2>3. pending[i] \notin dead
    BY <1>3, PendingSubmission
  <2>4. QED BY <1>1, <2>1, <2>2, <2>3 DEF Accounts
<1>4. /\ Len(submissions) = Cardinality(DOMAIN pending) + Cardinality(replaced)
                            + totals.delivered + totals.failed
      /\ Len(deadLetter) = totals.failed /\ ToSet(deadLetter) = dead
      /\ deadLetter \in Seq(Submissions) /\ IsFiniteSet(DOMAIN pending)
    BY DEF Accounts, EverySubmissionCounted, RetryInv, RetryTypeOK
<1>5. Cardinality(DOMAIN pending) \in Nat /\ Cardinality(replaced) \in Nat
  <2>1. /\ replaced \subseteq 1 .. Len(submissions)
        /\ IsFiniteSet(1 .. Len(submissions))
    <3>1. submissions \in Seq(Submission) /\ replaced \subseteq DOMAIN submissions
      BY DEF Accounts, RetryInv, RetryTypeOK, Submission
    <3>2. Len(submissions) \in Nat /\ DOMAIN submissions = 1 .. Len(submissions)
      BY <3>1, LenProperties
    <3>3. QED BY <3>1, <3>2, FS_Interval
  <2>2. IsFiniteSet(replaced)
    BY <2>1, FS_Subset
  <2>3. QED BY <1>4, <2>2, FS_CardinalityType
<1> HIDE DEF id, dead
<1>6. CASE id \in DOMAIN pending /\ RecordSuccess(id)
  <2>1. /\ Settles(id, Succeeded(id)) /\ pending' = StillPending(id)
        /\ deadLetter' = deadLetter /\ totals' = [totals EXCEPT !.delivered = @ + 1]
    BY <1>6, SuccessSettles DEF RecordSuccess
  <2>2. Succeeded(id) \in Submission /\ Succeeded(id).id = id
    BY <1>6, PendingSubmission
  <2>3. ~Succeeded(id).deadLettered
    BY <1>6, PendingSubmission DEF Succeeded, Submission
  <2>4. totals'.delivered = totals.delivered + 1 /\ totals'.failed = totals.failed
    BY <1>1, <2>1
  <2>5. /\ Len(submissions') = Len(submissions)
        /\ {r \in DOMAIN submissions' : submissions'[r].deadLettered} = dead
    BY <1>3, <1>6, <2>1, <2>2, <2>3
  <2>6. /\ Cardinality(DOMAIN pending) = Cardinality(DOMAIN pending') + 1
        /\ Cardinality(DOMAIN pending') \in Nat /\ IsFiniteSet(DOMAIN pending')
    BY <1>6, <2>1, OneLessPending
  <2>7. Len(submissions') = Cardinality(DOMAIN pending') + Cardinality(replaced')
                            + totals'.delivered + totals'.failed
    BY <1>1, <1>4, <1>5, <2>4, <2>5, <2>6
  <2>8. EverySubmissionCounted'
    BY <1>4, <2>1, <2>4, <2>5, <2>7 DEF EverySubmissionCounted
  <2>9. QED BY <1>3, <1>6, <2>1, <2>2, <2>6, <2>8 DEF Accounts
<1>7. CASE id \in DOMAIN pending /\ RecordFailure(id) /\ RetriesRemain(pending[id])
  <2>1. Settles(id, FailedOnce(id)) /\ UNCHANGED <<pending, deadLetter, totals>>
    BY <1>7, FailureSettles
  <2>2. FailedOnce(id) \in Submission /\ FailedOnce(id).id = id
    BY <1>7, PendingSubmission
  <2>3. ~FailedOnce(id).deadLettered
    BY <1>7, PendingSubmission DEF FailedOnce, Submission
  <2>4. /\ Len(submissions') = Len(submissions)
        /\ {r \in DOMAIN submissions' : submissions'[r].deadLettered} = dead
    BY <1>3, <1>7, <2>1, <2>2, <2>3
  <2>5. EverySubmissionCounted'
    BY <1>1, <1>4, <2>1, <2>4 DEF EverySubmissionCounted
  <2>6. QED BY <1>3, <1>4, <1>7, <2>1, <2>2, <2>5 DEF Accounts
<1>8. CASE id \in DOMAIN pending /\ RecordFailure(id) /\ ~RetriesRemain(pending[id])
  <2>1. /\ Settles(id, FailedForGood(id)) /\ pending' = StillPending(id)
        /\ deadLetter' = Append(deadLetter, pending[id])
        /\ totals' = [totals EXCEPT !.failed = @ + 1]
    BY <1>8, FailureSettles
  <2>2. /\ FailedForGood(id) \in Submission /\ FailedForGood(id).id = id
        /\ pending[id] \in Submissions
    BY <1>8, PendingSubmission
  <2>3. FailedForGood(id).deadLettered
    <3>1. PICK u \in Submission : u = submissions[pending[id]]
      BY <1>8, PendingSubmission
    <3>2. FailedForGood(id) = [u EXCEPT !.failures = u.failures + 1, !.deadLettered = TRUE]
      BY <3>1 DEF FailedForGood
    <3>3. [u EXCEPT !.failures = u.failures + 1, !.deadLettered = TRUE].deadLettered
      BY DEF Submission
    <3>4. QED BY <3>2, <3>3
  <2>4. totals'.delivered = totals.delivered /\ totals'.failed = totals.failed + 1
    BY <1>1, <2>1
  <2>5. /\ Len(submissions') = Len(submissions)
        /\ {r \in DOMAIN submissions' : submissions'[r].deadLettered} = dead \cup {pending[id]}
    BY <1>3, <1>8, <2>1, <2>2, <2>3
  <2>6. /\ Cardinality(DOMAIN pending) = Cardinality(DOMAIN pending') + 1
        /\ Cardinality(DOMAIN pending') \in Nat /\ IsFiniteSet(DOMAIN pending')
    BY <1>8, <2>1, OneLessPending
  <2>7. Len(submissions') = Cardinality(DOMAIN pending') + Cardinality(replaced')
                            + totals'.delivered + totals'.failed
    BY <1>1, <1>4, <1>5, <2>4, <2>5, <2>6
  <2>8. Len(deadLetter') = Len(deadLetter) + 1
    BY <1>4, <2>1, <2>2, AppendProperties
  <2>9. ToSet(deadLetter') = dead \cup {pending[id]}
    BY <1>4, <2>1, <2>2, ToSetAppend
  <2>10. EverySubmissionCounted'
    BY <1>4, <2>4, <2>5, <2>7, <2>8, <2>9 DEF EverySubmissionCounted
  <2>11. QED BY <1>3, <1>8, <2>1, <2>2, <2>6, <2>10 DEF Accounts
<1>9. QED BY <1>2, <1>6, <1>7, <1>8 DEF Report, id

\* Every step keeps the accounts.
LEMMA NextAccounts == RetryInv /\ Accounts /\ [RetryNext]_retryVars => Accounts'
<1> SUFFICES ASSUME RetryInv, Accounts, [RetryNext]_retryVars PROVE Accounts'
    OBVIOUS
<1>1. ASSUME NEW id \in DeliveryIds, SubmitDelivery(id) PROVE Accounts'
    BY <1>1, SubmitAccounts
<1>2. ASSUME NEW w \in Workers, Report(w) PROVE Accounts'
    BY <1>2, ReportAccounts
<1>3. ASSUME UNCHANGED <<engine, replaced>> PROVE Accounts'
    BY <1>3 DEF engine, Accounts, EverySubmissionCounted
<1>4. QED
    BY <1>1, <1>2, <1>3
       DEF RetryNext, StartAttempt, Arrive, Abandon, retryVars, engine

\* For any number of retries, ids and workers: every submission is counted
\* once, the dead-letter queue lists those that died, and of what counts as
\* delivered, that submission or an earlier one of its id was taken, however late
\* the outcomes came (retry_engine.py:81-131).
THEOREM TotalsHonest == RetrySpec => []TotalsAreHonest
<1>1. RetryInv /\ Accounts => TotalsAreHonest
    BY DEF RetryInv, Accounts, TotalsAreHonest
<1>2. QED
    BY RetryInvariance, InitAccounts, NextAccounts, <1>1, PTL DEF RetrySpec

----------------------------------------------------------------------------
(***************************************************************************)
(* Refinement of DeliveryContract.  A submission opens a delivery, an      *)
(* outcome for a pending id moves one, and whatever workers do between is  *)
(* invisible.                                                              *)
(***************************************************************************)
Phases == {"pending", "delivered", "dead", "replaced"}
PhaseOf == [s \in DOMAIN submissions |-> Phase(s)]
TriesOf == [s \in DOMAIN submissions |-> submissions[s].failures]

\* A function on 1 .. n is a sequence of n elements.
LEMMA FunctionIsSeq ==
  ASSUME NEW S, NEW n \in Nat, NEW f \in [1 .. n -> S]
  PROVE  f \in Seq(S) /\ Len(f) = n
<1>1. f \in Seq(S)
    BY SeqDef
<1>2. Len(f) \in Nat /\ DOMAIN f = 1 .. Len(f)
    BY <1>1, LenProperties
<1>3. QED BY <1>1, <1>2

\* What it takes for a sequence to be another one with an element more.
LEMMA OneMore ==
  ASSUME NEW S, NEW f \in Seq(S), NEW g \in Seq(S), NEW e \in S,
         Len(g) = Len(f) + 1, g[Len(f) + 1] = e, \A i \in 1 .. Len(f) : g[i] = f[i]
  PROVE  g = Append(f, e)
<1>1. /\ Len(f) \in Nat /\ Append(f, e) \in Seq(S) /\ Len(Append(f, e)) = Len(f) + 1
      /\ \A i \in 1 .. Len(f) : Append(f, e)[i] = f[i]
      /\ Append(f, e)[Len(f) + 1] = e
    BY AppendProperties, LenProperties
<1>2. \A i \in 1 .. Len(g) : g[i] = Append(f, e)[i]
    BY <1>1
<1>3. QED BY <1>1, <1>2, SeqEqual

\* The mapped variables are sequences as long as submissions.
MappedWell ==
  /\ Len(submissions) \in Nat /\ DOMAIN submissions = 1 .. Len(submissions)
  /\ PhaseOf \in Seq(Phases) /\ Len(PhaseOf) = Len(submissions)
  /\ TriesOf \in Seq(Nat) /\ Len(TriesOf) = Len(submissions)
  /\ \A r \in DOMAIN submissions : /\ PhaseOf[r] = Phase(r)
                                   /\ TriesOf[r] = submissions[r].failures

\* They are, in every state of the invariant.
LEMMA MappedType == RetryInv => MappedWell
<1> SUFFICES ASSUME RetryInv PROVE MappedWell
    OBVIOUS
<1>1. /\ Len(submissions) \in Nat /\ DOMAIN submissions = 1 .. Len(submissions)
      /\ \A s \in DOMAIN submissions : submissions[s].failures \in Nat
  <2>1. submissions \in Seq(Submission)
    BY DEF RetryInv, RetryTypeOK, Submission
  <2>2. /\ Len(submissions) \in Nat /\ DOMAIN submissions = 1 .. Len(submissions)
        /\ \A s \in DOMAIN submissions : submissions[s] \in Submission
    BY <2>1, LenProperties, ElementOfSeq
  <2>3. QED BY <2>2 DEF Submission
<1>2. \A s : Phase(s) \in Phases
    BY DEF Phase, Phases
<1>3. PhaseOf \in [1 .. Len(submissions) -> Phases]
    BY <1>1, <1>2 DEF PhaseOf
<1>4. TriesOf \in [1 .. Len(submissions) -> Nat]
    BY <1>1 DEF TriesOf
<1>5. \A r \in DOMAIN submissions : PhaseOf[r] = Phase(r) /\ TriesOf[r] = submissions[r].failures
    BY DEF PhaseOf, TriesOf
<1>6. QED BY <1>1, <1>3, <1>4, <1>5, FunctionIsSeq DEF MappedWell

\* A submission is pending exactly under its own id.
LEMMA PendingPhase ==
  ASSUME RetryInv, NEW id \in DOMAIN pending
  PROVE  Phase(pending[id]) = "pending"
  BY PendingSubmission DEF Phase, IsPending

\* A new submission opens a delivery.
LEMMA SubmitContract ==
  ASSUME RetryInv, MappedWell, MappedWell', NEW id \in DeliveryIds, SubmitDelivery(id)
  PROVE  Contract!Open
<1> DEFINE v == [id |-> id, failures |-> 0, completed |-> FALSE, deadLettered |-> FALSE]
<1>1. submissions \in Seq(Submission) /\ v \in Submission /\ submissions' = Append(submissions, v)
    BY DEF RetryInv, RetryTypeOK, Submission, SubmitDelivery
<1>2. ~v.completed /\ ~v.deadLettered /\ v.failures = 0 /\ v.id = id
    OBVIOUS
<1> HIDE DEF v
<1>n. PICK n \in Nat : n = Len(submissions)
    BY DEF MappedWell
<1>3. /\ DOMAIN submissions = 1 .. n
      /\ Len(submissions') = n + 1 /\ DOMAIN submissions' = 1 .. n + 1
      /\ \A r \in 1 .. n : submissions'[r] = submissions[r]
      /\ submissions'[n + 1] = v
    BY <1>1, <1>n, AppendProperties, LenProperties
<1>4. /\ DOMAIN pending' = DOMAIN pending \cup {id}
      /\ pending'[id] = n + 1
      /\ \A i \in DOMAIN pending \ {id} : pending'[i] = pending[i]
    BY <1>n DEF SubmitDelivery
<1>5. \A i \in DOMAIN pending : pending[i] \in 1 .. n /\ submissions[pending[i]].id = i
    BY <1>3 DEF RetryInv, RetryTypeOK
<1>6. TriesOf' = Append(TriesOf, 0)
  <2>1. /\ TriesOf \in Seq(Nat) /\ Len(TriesOf) = n
        /\ TriesOf' \in Seq(Nat) /\ Len(TriesOf') = n + 1
    BY <1>n, <1>3 DEF MappedWell
  <2>2. \A r \in 1 .. n : TriesOf[r] = submissions[r].failures
    BY <1>3 DEF MappedWell
  <2>3. \A r \in 1 .. n + 1 : TriesOf'[r] = submissions'[r].failures
    BY <1>3 DEF MappedWell
  <2>4. \A r \in 1 .. n : TriesOf'[r] = TriesOf[r]
    BY <1>3, <2>2, <2>3
  <2>5. TriesOf'[n + 1] = 0
    BY <1>2, <1>3, <2>3
  <2>6. QED BY <2>1, <2>4, <2>5, OneMore
<1>7. /\ PhaseOf \in Seq(Phases) /\ Len(PhaseOf) = n
      /\ PhaseOf' \in Seq(Phases) /\ Len(PhaseOf') = n + 1
      /\ \A r \in 1 .. n : PhaseOf[r] = Phase(r) /\ PhaseOf'[r] = Phase(r)'
      /\ PhaseOf'[n + 1] = Phase(n + 1)'
  <2>1. /\ PhaseOf \in Seq(Phases) /\ Len(PhaseOf) = n
        /\ PhaseOf' \in Seq(Phases) /\ Len(PhaseOf') = n + 1
    BY <1>n, <1>3 DEF MappedWell
  <2>2. \A r \in 1 .. n : PhaseOf[r] = Phase(r)
    BY <1>3 DEF MappedWell
  <2>3. \A r \in 1 .. n + 1 : PhaseOf'[r] = Phase(r)'
    BY <1>3 DEF MappedWell
  <2>4. QED BY <2>1, <2>2, <2>3
<1>8. Phase(n + 1)' = "pending"
    BY <1>2, <1>3, <1>4 DEF Phase, IsPending
<1>9. CASE id \notin DOMAIN pending
  <2>1. \A r \in 1 .. n : IsPending(r)' <=> IsPending(r)
    BY <1>3, <1>4, <1>5, <1>9 DEF IsPending
  <2>2. \A r \in 1 .. n : Phase(r)' = Phase(r)
    BY <1>3, <2>1 DEF Phase
  <2>3. PhaseOf' = Append(PhaseOf, "pending")
    BY <1>7, <1>8, <2>2, OneMore DEF Phases
  <2>4. QED BY <1>6, <2>3 DEF Contract!Open, PhaseOf, TriesOf
<1>10. CASE id \in DOMAIN pending
  <2>p. PICK p \in 1 .. n : p = pending[id]
    BY <1>5, <1>10
  <2> DEFINE between == [PhaseOf EXCEPT ![p] = "replaced"]
  <2>1. /\ Phase(p) = "pending"
        /\ ~submissions[p].completed /\ ~submissions[p].deadLettered
    BY <2>p, <1>10, PendingPhase, PendingSubmission
  <2>2. \A r \in 1 .. n \ {p} : IsPending(r)' <=> IsPending(r)
    BY <1>3, <1>4, <1>5, <1>10, <2>p DEF IsPending
  <2>3. \A r \in 1 .. n \ {p} : Phase(r)' = Phase(r)
    BY <1>3, <2>2 DEF Phase
  <2>4. ~IsPending(p)'
    BY <1>3, <1>4, <1>5, <1>10, <2>p DEF IsPending
  <2>5. Phase(p)' = "replaced"
    BY <1>3, <2>1, <2>4 DEF Phase
  <2>6. /\ between \in Seq(Phases) /\ Len(between) = n
        /\ \A r \in 1 .. n : between[r] = IF r = p THEN "replaced" ELSE PhaseOf[r]
    BY <1>7, ExceptSeq DEF Phases
  <2> HIDE DEF between
  <2>7. \A r \in 1 .. n : PhaseOf'[r] = between[r]
    BY <1>7, <2>3, <2>5, <2>6
  <2>8. PhaseOf' = Append(between, "pending")
    BY <1>7, <1>8, <2>6, <2>7, OneMore DEF Phases
  <2>9. p \in DOMAIN PhaseOf /\ PhaseOf[p] = "pending"
    BY <1>3, <1>7, <2>1 DEF PhaseOf
  <2>10. QED
    BY <1>6, <2>8, <2>9 DEF Contract!Open, PhaseOf, TriesOf, between
<1>11. QED BY <1>9, <1>10

\* The phase of a submission with flags v, pending or not.
PhaseOfFlags(v, isPending) ==
  IF v.completed THEN "delivered"
  ELSE IF v.deadLettered THEN "dead"
  ELSE IF isPending THEN "pending" ELSE "replaced"

\* An outcome moves the delivery that is pending under the id and no other.
LEMMA SettlesContract ==
  ASSUME RetryInv, MappedWell, MappedWell', NEW id \in DOMAIN pending,
         NEW v \in Submission, v.id = id, Settles(id, v)
  PROVE  /\ pending[id] \in DOMAIN PhaseOf /\ pending[id] \in DOMAIN TriesOf
         /\ PhaseOf[pending[id]] = "pending"
         /\ TriesOf[pending[id]] = submissions[pending[id]].failures
         /\ PhaseOf' = [PhaseOf EXCEPT ![pending[id]] = PhaseOfFlags(v, id \in DOMAIN pending')]
         /\ TriesOf' = [TriesOf EXCEPT ![pending[id]] = v.failures]
<1>p. PICK p \in DOMAIN submissions : p = pending[id]
    BY SettledSubmissions
<1> DEFINE e == PhaseOfFlags(v, id \in DOMAIN pending')
<1>1. /\ Phase(p) = "pending" /\ submissions[p].id = id
      /\ DOMAIN submissions' = DOMAIN submissions
      /\ submissions'[p] = v
      /\ \A r \in DOMAIN submissions \ {p} : submissions'[r] = submissions[r]
    BY <1>p, PendingPhase, PendingSubmission, SettledSubmissions
<1>2. /\ DOMAIN pending' \subseteq DOMAIN pending
      /\ \A i \in DOMAIN pending' : pending'[i] = pending[i]
      /\ DOMAIN pending \ {id} \subseteq DOMAIN pending'
    BY SettledPending DEF Settles, StillPending
<1>3. \A i \in DOMAIN pending \ {id} : pending[i] # p
    BY <1>1 DEF RetryInv, RetryTypeOK
<1>4. \A r \in DOMAIN submissions \ {p} : Phase(r)' = Phase(r)
  <2>1. \A r \in DOMAIN submissions \ {p} : IsPending(r)' <=> IsPending(r)
    BY <1>p, <1>2 DEF IsPending
  <2>2. QED BY <1>1, <2>1 DEF Phase
<1>5. Phase(p)' = e
  <2>1. IsPending(p)' <=> id \in DOMAIN pending'
    BY <1>p, <1>2, <1>3 DEF IsPending
  <2>2. QED BY <1>1, <2>1 DEF Phase, PhaseOfFlags
<1> HIDE DEF e
<1>6. /\ DOMAIN PhaseOf = DOMAIN submissions /\ DOMAIN TriesOf = DOMAIN submissions
      /\ DOMAIN PhaseOf' = DOMAIN submissions' /\ DOMAIN TriesOf' = DOMAIN submissions'
      /\ PhaseOf = [r \in DOMAIN submissions |-> Phase(r)]
      /\ PhaseOf' = [r \in DOMAIN submissions' |-> Phase(r)']
    BY DEF PhaseOf, TriesOf
<1>7. PhaseOf' = [PhaseOf EXCEPT ![p] = e]
    BY <1>1, <1>4, <1>5, <1>6
<1>8. TriesOf' = [TriesOf EXCEPT ![p] = v.failures]
    BY <1>1 DEF TriesOf
<1>9. PhaseOf[p] = "pending" /\ TriesOf[p] = submissions[p].failures
    BY <1>1 DEF PhaseOf, TriesOf
<1>10. QED BY <1>p, <1>6, <1>7, <1>8, <1>9 DEF e

\* A report delivers, tries again, buries, or is invisible.
LEMMA ReportContract ==
  ASSUME RetryInv, MappedWell, MappedWell', NEW w \in Workers, Report(w)
  PROVE  Contract!Next \/ UNCHANGED <<PhaseOf, TriesOf>>
<1> DEFINE id == submissions[attempt[w].of].id
<1>p. PICK p : p = pending[id]
    OBVIOUS
<1>1. CASE id \notin DOMAIN pending
    BY <1>1 DEF Report, engine, PhaseOf, TriesOf, Phase, IsPending
<1>2. CASE id \in DOMAIN pending /\ RecordSuccess(id)
  <2> HIDE DEF id
  <2>1. Settles(id, Succeeded(id)) /\ pending' = StillPending(id)
    BY <1>2, SuccessSettles
  <2>2. /\ Succeeded(id) \in Submission /\ Succeeded(id).id = id
        /\ Succeeded(id).completed /\ Succeeded(id).failures = submissions[p].failures
    BY <1>p, <1>2, PendingSubmission DEF Succeeded, Submission
  <2>3. /\ p \in DOMAIN PhaseOf /\ PhaseOf[p] = "pending"
        /\ PhaseOf' = [PhaseOf EXCEPT ![p] = "delivered"]
        /\ TriesOf' = [TriesOf EXCEPT ![p] = TriesOf[p]] /\ p \in DOMAIN TriesOf
    BY <1>p, <1>2, <2>1, <2>2, SettlesContract DEF PhaseOfFlags
  <2>4. TriesOf' = TriesOf
    BY <2>3 DEF TriesOf
  <2>5. Contract!Deliver(p)
    BY <2>3, <2>4 DEF Contract!Deliver, Contract!Close, PhaseOf, TriesOf
  <2>6. QED BY <2>3, <2>5 DEF Contract!Next, PhaseOf
<1>3. CASE id \in DOMAIN pending /\ RecordFailure(id) /\ RetriesRemain(pending[id])
  <2> HIDE DEF id
  <2>1. Settles(id, FailedOnce(id)) /\ pending' = pending
    BY <1>3, FailureSettles
  <2>2. /\ FailedOnce(id) \in Submission /\ FailedOnce(id).id = id
        /\ ~FailedOnce(id).completed /\ ~FailedOnce(id).deadLettered
        /\ FailedOnce(id).failures = submissions[p].failures + 1
    BY <1>p, <1>3, PendingSubmission DEF FailedOnce, Submission
  <2>3. /\ p \in DOMAIN PhaseOf /\ PhaseOf[p] = "pending" /\ p \in DOMAIN TriesOf
        /\ PhaseOf' = [PhaseOf EXCEPT ![p] = "pending"]
        /\ TriesOf' = [TriesOf EXCEPT ![p] = TriesOf[p] + 1]
        /\ TriesOf[p] + 1 < MaxRetries
    BY <1>p, <1>3, <2>1, <2>2, SettlesContract DEF PhaseOfFlags, RetriesRemain
  <2>4. PhaseOf' = PhaseOf
    BY <2>3 DEF PhaseOf
  <2>5. Contract!TryAgain(p)
    BY <2>3, <2>4 DEF Contract!TryAgain, Contract!Failed, PhaseOf, TriesOf
  <2>6. QED BY <2>3, <2>5 DEF Contract!Next, PhaseOf
<1>4. CASE id \in DOMAIN pending /\ RecordFailure(id) /\ ~RetriesRemain(pending[id])
  <2> HIDE DEF id
  <2>1. Settles(id, FailedForGood(id))
    BY <1>4, FailureSettles
  <2>2. /\ FailedForGood(id) \in Submission /\ FailedForGood(id).id = id
        /\ ~FailedForGood(id).completed /\ FailedForGood(id).deadLettered
        /\ FailedForGood(id).failures = submissions[p].failures + 1
    BY <1>p, <1>4, PendingSubmission DEF FailedForGood, Submission
  <2>3. /\ p \in DOMAIN PhaseOf /\ PhaseOf[p] = "pending" /\ p \in DOMAIN TriesOf
        /\ PhaseOf' = [PhaseOf EXCEPT ![p] = "dead"]
        /\ TriesOf' = [TriesOf EXCEPT ![p] = TriesOf[p] + 1]
        /\ TriesOf[p] = submissions[p].failures
    BY <1>p, <1>4, <2>1, <2>2, SettlesContract DEF PhaseOfFlags
  <2>4. TriesOf[p] + 1 = MaxRetries
    BY <1>p, <1>4, <2>3, PendingSubmission DEF RetriesRemain, Submission
  <2>5. Contract!Bury(p)
    BY <2>3, <2>4 DEF Contract!Bury, Contract!Close, Contract!Failed, PhaseOf, TriesOf
  <2>6. QED BY <2>3, <2>5 DEF Contract!Next, PhaseOf
<1>5. QED BY <1>1, <1>2, <1>3, <1>4 DEF Report

\* The initial state is the contract's.
LEMMA InitContract == RetryInit => Contract!Init
<1> SUFFICES ASSUME RetryInit PROVE PhaseOf = <<>> /\ TriesOf = <<>>
    BY DEF Contract!Init, PhaseOf, TriesOf
<1>1. DOMAIN submissions = {}
    BY EmptySeq DEF RetryInit
<1>2. /\ PhaseOf \in [1 .. 0 -> Phases] /\ TriesOf \in [1 .. 0 -> Nat]
    BY <1>1 DEF PhaseOf, TriesOf
<1>3. /\ PhaseOf \in Seq(Phases) /\ Len(PhaseOf) = 0
      /\ TriesOf \in Seq(Nat) /\ Len(TriesOf) = 0
    BY <1>2, FunctionIsSeq
<1>4. QED BY <1>3, EmptySeq

\* Every step is a step of the contract or a stutter.
LEMMA NextContract ==
  RetryInv /\ MappedWell /\ MappedWell' /\ [RetryNext]_retryVars
    => [Contract!Next]_(Contract!vars)
<1> SUFFICES ASSUME RetryInv, MappedWell, MappedWell', [RetryNext]_retryVars
             PROVE  Contract!Next \/ UNCHANGED <<PhaseOf, TriesOf>>
    BY DEF Contract!vars, PhaseOf, TriesOf
<1>1. ASSUME NEW id \in DeliveryIds, SubmitDelivery(id) PROVE Contract!Next
    BY <1>1, SubmitContract DEF Contract!Next
<1>2. ASSUME NEW w \in Workers, Report(w)
      PROVE  Contract!Next \/ UNCHANGED <<PhaseOf, TriesOf>>
    BY <1>2, ReportContract
<1>3. ASSUME UNCHANGED engine PROVE UNCHANGED <<PhaseOf, TriesOf>>
    BY <1>3 DEF engine, PhaseOf, TriesOf, Phase, IsPending
<1>4. QED
    BY <1>1, <1>2, <1>3
       DEF RetryNext, StartAttempt, Arrive, Abandon, retryVars, engine

\* The engine implements DeliveryContract, for any number of retries, ids and
\* workers: late, repeated and misdirected outcomes change nothing that is
\* settled, and a delivery dies of exactly MaxRetries failures.
THEOREM EngineKeepsContract == RetrySpec => KeepsDeliveryContract
  BY InitContract, NextContract, MappedType, RetryInvariance, PTL
     DEF RetrySpec, Contract!Spec, KeepsDeliveryContract

HIDE RetryAssumption

----------------------------------------------------------------------------
(***************************************************************************)
(* The audit log.                                                          *)
(***************************************************************************)
USE TrailAssumption

----------------------------------------------------------------------------
(***************************************************************************)
(* The invariant.  An entry carries the correlation id its alert still     *)
(* has, and the id of an alert is the place of its first entry, so no two  *)
(* alerts have the same.                                                   *)
(***************************************************************************)
CarriesCorrelation ==
  \A i \in DOMAIN logged :
    /\ logged[i].alert \in DOMAIN correlation
    /\ logged[i].correlation = correlation[logged[i].alert]

IdsArePlaces ==
  \A a \in DOMAIN correlation :
    /\ correlation[a] \in DOMAIN logged
    /\ logged[correlation[a]].alert = a

TrailInv == TrailTypeOK /\ Len(logged) <= MaxLogged /\ CarriesCorrelation /\ IdsArePlaces

\* The initial state satisfies the invariant.
LEMMA InitTrailInv == TrailInit => TrailInv
<1> SUFFICES ASSUME TrailInit PROVE TrailInv
    OBVIOUS
<1>1. /\ entries \in Seq(LogEntry) /\ logged \in Seq(LogEntry)
      /\ Len(entries) = 0 /\ Len(logged) = 0
      /\ DOMAIN logged = {} /\ DOMAIN correlation = {}
    BY EmptySeq DEF TrailInit
<1>2. QED BY <1>1 DEF TrailInv, TrailTypeOK, CarriesCorrelation, IdsArePlaces

\* Trimming keeps a log a log, and within its capacity.
LEMMA TrimmedType ==
  ASSUME NEW log \in Seq(LogEntry)
  PROVE  Trimmed(log) \in Seq(LogEntry) /\ Len(Trimmed(log)) <= MaxEntries
<1>1. Len(log) \in Nat
    BY LenProperties
<1>2. CASE Len(log) > MaxEntries
  <2> DEFINE m == Len(log) - MaxEntries + 1
  <2>1. /\ m \in 1 .. Len(log) + 1 /\ Len(log) \in m - 1 .. Len(log)
        /\ Trimmed(log) = SubSeq(log, m, Len(log))
      BY <1>1, <1>2 DEF Trimmed
  <2>2. SubSeq(log, m, Len(log)) \in Seq(LogEntry)
        /\ Len(SubSeq(log, m, Len(log))) = Len(log) - m + 1
    <3>1. \A i \in m .. Len(log) : log[i] \in LogEntry
        BY <1>1, <2>1, ElementOfSeq
    <3>2. QED BY <1>1, <2>1, <3>1, SubSeqProperties
  <2>3. QED BY <1>1, <2>1, <2>2
<1>3. CASE ~(Len(log) > MaxEntries)
    BY <1>1, <1>3 DEF Trimmed
<1>4. QED BY <1>2, <1>3

\* An entry is logged.
LEMMA LogTrailInv ==
  ASSUME TrailInv, NEW e \in LifecycleEvents, NEW a \in LoggedAlerts, NEW t \in Stamps,
         LogEvent(e, a, t)
  PROVE  TrailInv'
<1> DEFINE n == Len(logged)
           id == CorrelationOf(a)
           entry == [event |-> e, alert |-> a, correlation |-> id, stamp |-> t]
<1>1. /\ entries \in Seq(LogEntry) /\ logged \in Seq(LogEntry)
      /\ n \in Nat /\ n < MaxLogged /\ DOMAIN logged = 1 .. n
      /\ MaxLogged \in Nat
    BY LenProperties DEF TrailInv, TrailTypeOK, LogEvent
<1>2. id \in 1 .. n + 1 /\ id \in CorrelationId
    BY <1>1 DEF CorrelationOf, TrailInv, IdsArePlaces, CorrelationId
<1>3. entry \in LogEntry
    BY <1>2 DEF LogEntry
<1>4. /\ entries' = Trimmed(Append(entries, entry))
      /\ logged' = Append(logged, entry)
      /\ correlation' = [b \in DOMAIN correlation \cup {a} |->
                           IF b = a THEN id ELSE correlation[b]]
    BY DEF LogEvent
<1>5. entry.alert = a /\ entry.correlation = id
    OBVIOUS
<1>6. id = IF a \in DOMAIN correlation THEN correlation[a] ELSE n + 1
    BY DEF CorrelationOf
<1> HIDE DEF entry, id, n
<1>7. /\ logged' \in Seq(LogEntry) /\ Len(logged') = n + 1
      /\ DOMAIN logged' = 1 .. n + 1
      /\ \A i \in 1 .. n : logged'[i] = logged[i]
      /\ logged'[n + 1] = entry
    BY <1>1, <1>3, <1>4, AppendProperties, LenProperties DEF n
<1>8. entries' \in Seq(LogEntry) /\ Len(entries') <= MaxEntries
    BY <1>1, <1>3, <1>4, AppendProperties, TrimmedType
<1>9. /\ DOMAIN correlation' = DOMAIN correlation \cup {a}
      /\ correlation'[a] = id
      /\ \A b \in DOMAIN correlation \ {a} : correlation'[b] = correlation[b]
    BY <1>4
<1>10. \A b \in DOMAIN correlation : correlation'[b] = correlation[b]
    BY <1>6, <1>9
<1>11. TrailTypeOK'
    BY <1>2, <1>7, <1>8, <1>9, <1>10 DEF TrailInv, TrailTypeOK
<1>12. CarriesCorrelation'
  <2> SUFFICES ASSUME NEW i \in 1 .. n + 1
               PROVE  /\ logged'[i].alert \in DOMAIN correlation'
                      /\ logged'[i].correlation = correlation'[logged'[i].alert]
      BY <1>7 DEF CarriesCorrelation
  <2>1. CASE i = n + 1
      BY <1>5, <1>7, <1>9, <2>1
  <2>2. CASE i \in 1 .. n
    <3>1. /\ logged[i].alert \in DOMAIN correlation
          /\ logged[i].correlation = correlation[logged[i].alert]
        BY <1>1, <2>2 DEF TrailInv, CarriesCorrelation
    <3>2. QED BY <1>7, <1>9, <1>10, <2>2, <3>1
  <2>3. QED BY <1>1, <2>1, <2>2
<1>13. IdsArePlaces'
  <2> SUFFICES ASSUME NEW b \in DOMAIN correlation \cup {a}
               PROVE  /\ correlation'[b] \in 1 .. n + 1
                      /\ logged'[correlation'[b]].alert = b
      BY <1>7, <1>9 DEF IdsArePlaces
  <2>1. CASE b \in DOMAIN correlation
    <3>1. correlation[b] \in 1 .. n /\ logged[correlation[b]].alert = b
        BY <1>1, <2>1 DEF TrailInv, IdsArePlaces
    <3>2. QED BY <1>1, <1>7, <1>10, <2>1, <3>1
  <2>2. CASE b \notin DOMAIN correlation
    <3>1. b = a /\ id = n + 1
        BY <1>6, <2>2
    <3>2. QED BY <1>1, <1>5, <1>7, <1>9, <3>1
  <2>3. QED BY <2>1, <2>2
<1>14. (Len(logged) <= MaxLogged)'
    BY <1>1, <1>7
<1>15. QED BY <1>11, <1>12, <1>13, <1>14 DEF TrailInv

\* The invariant holds in every reachable state.
THEOREM TrailInvariance == TrailSpec => []TrailInv
<1>1. TrailInv /\ [TrailNext]_trailVars => TrailInv'
  <2>1. TrailInv /\ UNCHANGED trailVars => TrailInv'
      BY DEF TrailInv, TrailTypeOK, CarriesCorrelation, IdsArePlaces, trailVars
  <2>2. QED BY <2>1, LogTrailInv DEF TrailNext
<1>2. QED BY <1>1, InitTrailInv, PTL DEF TrailSpec

\* Type correctness of the audit log: it never outgrows its capacity.
THEOREM TrailTypeCorrect == TrailSpec => []TrailTypeOK
<1>1. TrailInv => TrailTypeOK
    BY DEF TrailInv
<1>2. QED BY TrailInvariance, <1>1, PTL

\* Entries have the same correlation id exactly when they are of the same
\* alert, however often the log was trimmed between them (audit_logger.py:97,
\* 129-131).
THEOREM CorrelationIsOfOneAlert == TrailSpec => []OneCorrelationPerAlert
<1>1. TrailInv => OneCorrelationPerAlert
    BY DEF TrailInv, CarriesCorrelation, IdsArePlaces, OneCorrelationPerAlert
<1>2. QED BY TrailInvariance, <1>1, PTL

----------------------------------------------------------------------------
\* The log is the end of all there has been.
HoldsNewest ==
  LET n == Len(entries)
      gone == Len(logged) - n IN
  /\ n = IF Len(logged) <= MaxEntries THEN Len(logged) ELSE MaxEntries
  /\ \A i \in 1 .. n : entries[i] = logged[gone + i]

QueryInv == TrailTypeOK /\ HoldsNewest

\* A logged entry enters the history and the log; the oldest may leave the log.
LEMMA LogQueryInv ==
  ASSUME QueryInv, TrailTypeOK', NEW e \in LifecycleEvents, NEW a \in LoggedAlerts,
         NEW t \in Stamps, LogEvent(e, a, t)
  PROVE  QueryInv'
<1>1. PICK entry : /\ entries' = Trimmed(Append(entries, entry))
                   /\ logged' = Append(logged, entry)
    BY DEF LogEvent
<1>2. PICK m \in Nat, n \in Nat : m = Len(logged) /\ n = Len(entries)
    BY LenProperties DEF QueryInv, TrailTypeOK
<1>3. entry \in LogEntry
  <2>1. logged' \in Seq(LogEntry)
      BY DEF TrailTypeOK
  <2>2. Len(logged') = m + 1 /\ logged'[m + 1] = entry
      BY <1>1, <1>2 DEF QueryInv, TrailTypeOK
  <2>3. QED BY <2>1, <2>2, ElementOfSeq
<1>4. /\ logged' \in Seq(LogEntry) /\ Len(logged') = m + 1 /\ logged'[m + 1] = entry
      /\ \A i \in 1 .. m : logged'[i] = logged[i]
    BY <1>1, <1>2, <1>3, AppendProperties DEF QueryInv, TrailTypeOK
<1>5. PICK more \in Seq(LogEntry) :
        /\ more = Append(entries, entry) /\ Len(more) = n + 1 /\ more[n + 1] = entry
        /\ \A i \in 1 .. n : more[i] = entries[i]
  <2>1. Append(entries, entry) \in Seq(LogEntry)
      BY <1>3, AppendProperties DEF QueryInv, TrailTypeOK
  <2>2. /\ Len(Append(entries, entry)) = n + 1 /\ Append(entries, entry)[n + 1] = entry
        /\ \A i \in 1 .. n : Append(entries, entry)[i] = entries[i]
      BY <1>2, <1>3, AppendProperties DEF QueryInv, TrailTypeOK
  <2>3. QED BY <2>1, <2>2
<1>6. /\ n = IF m <= MaxEntries THEN m ELSE MaxEntries
      /\ \A i \in 1 .. n : entries[i] = logged[(m - n) + i]
    BY <1>2 DEF QueryInv, HoldsNewest
<1>7. MaxEntries \in Nat /\ MaxEntries >= 1
    OBVIOUS
<1>8. \A i \in 1 .. n + 1 : more[i] = logged'[(m - n) + i]
  <2>1. ASSUME NEW i \in 1 .. n PROVE more[i] = logged'[(m - n) + i]
    <3>1. (m - n) + i \in 1 .. m
        BY <1>6, <1>7
    <3>2. QED BY <1>4, <1>5, <1>6, <3>1
  <2>2. more[n + 1] = logged'[(m - n) + (n + 1)]
      BY <1>4, <1>5
  <2>3. \A i \in 1 .. n + 1 : i \in 1 .. n \/ i = n + 1
      OBVIOUS
  <2>4. QED BY <2>1, <2>2, <2>3
<1>9. entries' = IF n + 1 > MaxEntries THEN SubSeq(more, (n + 1) - MaxEntries + 1, n + 1) ELSE more
    BY <1>1, <1>5 DEF Trimmed
<1>10. CASE n + 1 <= MaxEntries
  <2>1. entries' = more /\ m = n
      BY <1>6, <1>7, <1>9, <1>10
  <2>2. HoldsNewest'
      BY <1>4, <1>5, <1>8, <1>10, <2>1 DEF HoldsNewest
  <2>3. QED BY <2>2 DEF QueryInv
<1>11. CASE n + 1 > MaxEntries
  <2>1. n = MaxEntries /\ m >= n
      BY <1>6, <1>7, <1>11
  <2>2. entries' = SubSeq(more, 2, n + 1)
    <3>1. (n + 1) - MaxEntries + 1 = 2
        BY <2>1
    <3>2. QED BY <1>9, <1>11, <3>1
  <2>3. /\ Len(entries') = n /\ \A i \in 1 .. n : entries'[i] = more[i + 1]
    <3>1. ASSUME NEW i \in 2 .. n + 1 PROVE more[i] \in LogEntry
      <4>1. i \in 1 .. Len(more)
          BY <1>5
      <4>2. QED BY <4>1, ElementOfSeq
    <3>2. /\ Len(SubSeq(more, 2, n + 1)) = IF 2 <= n + 1 THEN (n + 1) - 2 + 1 ELSE 0
          /\ \A i \in 1 .. (n + 1) - 2 + 1 : SubSeq(more, 2, n + 1)[i] = more[2 + i - 1]
        BY <3>1, SubSeqProperties
    <3>3. (n + 1) - 2 + 1 = n /\ 2 <= n + 1 /\ \A i \in 1 .. n : 2 + i - 1 = i + 1
        BY <1>7, <2>1
    <3>4. QED BY <2>2, <3>2, <3>3
  <2>4. \A i \in 1 .. n : entries'[i] = logged'[((m + 1) - n) + i]
    <3> SUFFICES ASSUME NEW i \in 1 .. n
                 PROVE  entries'[i] = logged'[((m + 1) - n) + i]
        OBVIOUS
    <3>1. i + 1 \in 1 .. n + 1 /\ (m - n) + (i + 1) = ((m + 1) - n) + i
        OBVIOUS
    <3>2. QED BY <1>8, <2>3, <3>1
  <2>5. HoldsNewest'
      BY <1>4, <2>1, <2>3, <2>4 DEF HoldsNewest
  <2>6. QED BY <2>5 DEF QueryInv
<1>12. QED BY <1>2, <1>7, <1>10, <1>11

\* What a query answers.
LEMMA NewestPlaces ==
  ASSUME QueryInv, NEW q \in Queries, NEW limit \in 1 .. MaxEntries
  PROVE
    LET kept == {i \in DOMAIN logged : i > Len(logged) - MaxEntries}
        found == {i \in kept : Asked(q, logged[i])}
        answered == Query(q, limit)
        newer(i) == {j \in found : j > i} IN
    /\ Len(answered) = IF Cardinality(found) < limit THEN Cardinality(found) ELSE limit
    /\ \A i \in found : LET place == Len(answered) - Cardinality(newer(i)) IN
                        place > 0 => answered[place] = logged[i]
<1>1. PICK m \in Nat, n \in Nat : m = Len(logged) /\ n = Len(entries)
    BY LenProperties DEF QueryInv, TrailTypeOK
<1>2. /\ entries \in Seq(LogEntry) /\ logged \in Seq(LogEntry) /\ DOMAIN logged = 1 .. m
      /\ n = IF m <= MaxEntries THEN m ELSE MaxEntries
      /\ \A i \in 1 .. n : entries[i] = logged[(m - n) + i]
  <2>1. entries \in Seq(LogEntry) /\ logged \in Seq(LogEntry)
      BY DEF QueryInv, TrailTypeOK
  <2>2. DOMAIN logged = 1 .. m
      BY <1>1, <2>1
  <2>3. /\ n = IF m <= MaxEntries THEN m ELSE MaxEntries
        /\ \A i \in 1 .. n : entries[i] = logged[(m - n) + i]
      BY <1>1 DEF QueryInv, HoldsNewest
  <2>4. QED BY <2>1, <2>2, <2>3
<1>3. MaxEntries \in Nat /\ MaxEntries >= 1 /\ limit \in Nat /\ limit >= 1
    OBVIOUS
<1>4. PICK wanted : wanted = {entry \in LogEntry : Asked(q, entry)}
    OBVIOUS
<1>5. PICK places : places = Places(entries, wanted, n)
    OBVIOUS
<1>6. PICK off \in Nat : off = m - n
  <2>1. m - n \in Nat
      BY <1>2, <1>3
  <2>2. QED BY <2>1
<1>7. PICK found : found = {i \in DOMAIN logged : i > m - MaxEntries /\ Asked(q, logged[i])}
    OBVIOUS
<1>8. \A i \in DOMAIN logged : i > m - MaxEntries <=> i > off
  <2>1. ASSUME NEW i \in 1 .. m PROVE i > m - MaxEntries <=> i > off
    <3>1. CASE m <= MaxEntries
        BY <1>2, <1>3, <1>6, <3>1
    <3>2. CASE m > MaxEntries
        BY <1>2, <1>3, <1>6, <3>2
    <3>3. QED BY <1>3, <3>1, <3>2
  <2>2. QED BY <1>2, <2>1
<1>9. \A p \in 1 .. n : /\ entries[p] = logged[off + p] /\ off + p \in DOMAIN logged
                        /\ entries[p] \in LogEntry
  <2> SUFFICES ASSUME NEW p \in 1 .. n
               PROVE  /\ entries[p] = logged[off + p] /\ off + p \in DOMAIN logged
                      /\ entries[p] \in LogEntry
      OBVIOUS
  <2>1. off + p \in 1 .. m
      BY <1>6
  <2>2. entries[p] \in LogEntry
      BY <1>1, <1>2, ElementOfSeq
  <2>3. QED BY <1>2, <1>6, <2>1, <2>2
<1>10. \A p \in places : p \in 1 .. n /\ off + p \in found
  <2> SUFFICES ASSUME NEW p \in places PROVE p \in 1 .. n /\ off + p \in found
      OBVIOUS
  <2>1. p \in 1 .. n /\ Asked(q, entries[p])
      BY <1>4, <1>5 DEF Places
  <2>2. off + p \in DOMAIN logged /\ Asked(q, logged[off + p]) /\ off + p > off
      BY <1>9, <2>1
  <2>3. QED BY <1>7, <1>8, <2>1, <2>2
<1>11. \A i \in found : i - off \in places /\ i = off + (i - off)
  <2> SUFFICES ASSUME NEW i \in found PROVE i - off \in places /\ i = off + (i - off)
      OBVIOUS
  <2>1. i \in 1 .. m /\ i > off /\ Asked(q, logged[i])
      BY <1>2, <1>7, <1>8
  <2>2. PICK p \in 1 .. n : p = i - off /\ i = off + p
    <3>1. i - off \in 1 .. n /\ i = off + (i - off)
        BY <1>6, <2>1
    <3>2. QED BY <3>1
  <2>3. entries[p] = logged[i] /\ entries[p] \in LogEntry
      BY <1>9, <2>2
  <2>4. p \in places
      BY <1>4, <1>5, <2>1, <2>3 DEF Places
  <2>5. QED BY <2>2, <2>4
<1>12. PICK c \in Nat : c = Rank(entries, wanted, n)
    BY RankStep
<1>13. ASSUME NEW A \in SUBSET places, NEW B \in SUBSET found,
              \A i \in B : i - off \in A, \A p \in A : off + p \in B
       PROVE  IsFiniteSet(B) /\ Cardinality(B) = Cardinality(A)
  <2> DEFINE to == [p \in A |-> off + p]
  <2>1. to \in [A -> B]
      BY <1>13
  <2>2. ASSUME NEW i \in B PROVE \E p \in A : i = to[p]
    <3>1. i - off \in A /\ i = off + (i - off)
        BY <1>11, <1>13
    <3>2. QED BY <3>1
  <2>3. ASSUME NEW x \in A, NEW y \in A, to[x] = to[y] PROVE x = y
    <3>1. x \in Nat /\ y \in Nat
        BY <1>10
    <3>2. QED BY <2>3, <3>1
  <2>4. IsFiniteSet(A)
    <3>1. IsFiniteSet(places)
        BY <1>5, RankStep
    <3>2. QED BY <3>1, FS_Subset
  <2> HIDE DEF to
  <2>5. QED BY <2>1, <2>2, <2>3, <2>4, SameSize
<1>14. Cardinality(found) = c
  <2>1. Cardinality(found) = Cardinality(places)
      BY <1>10, <1>11, <1>13
  <2>2. QED BY <1>5, <1>12, <2>1 DEF Rank
<1>15. PICK results \in Seq(LogEntry \cap wanted) :
         /\ results = Keep(entries, wanted) /\ Len(results) = c
         /\ \A p \in places : Rank(entries, wanted, p) \in 1 .. c
                              /\ results[Rank(entries, wanted, p)] = entries[p]
  <2>1. KeptOf(Keep(entries, wanted), LogEntry, entries, wanted, n)
      BY <1>1, <1>2, KeepProperties
  <2>2. QED BY <1>5, <1>12, <2>1 DEF KeptOf
<1>16. PICK answered : answered = Query(q, limit)
    OBVIOUS
<1>17. PICK first \in Nat : first = (IF limit < c THEN c - limit + 1 ELSE 1)
                            /\ first >= 1 /\ first <= c + 1
  <2>1. CASE limit < c
    <3>1. c - limit + 1 \in Nat /\ c - limit + 1 >= 1 /\ c - limit + 1 <= c + 1
        BY <1>3, <2>1
    <3>2. QED BY <2>1, <3>1
  <2>2. CASE ~(limit < c)
      BY <2>2
  <2>3. QED BY <2>1, <2>2
<1>18. answered = SubSeq(results, first, c)
  <2>1. answered = NewestOf(results, limit)
      BY <1>4, <1>15, <1>16 DEF Query
  <2>2. ~(limit <= 0)
      BY <1>3
  <2>3. QED BY <1>15, <1>17, <2>1, <2>2 DEF NewestOf
<1>19. /\ Len(answered) = c - first + 1
       /\ \A k \in 1 .. c - first + 1 : answered[k] = results[first + k - 1]
  <2>1. ASSUME NEW k \in first .. c PROVE results[k] \in LogEntry \cap wanted
    <3>1. k \in 1 .. Len(results)
        BY <1>15, <1>17
    <3>2. QED BY <3>1, ElementOfSeq
  <2>2. /\ Len(SubSeq(results, first, c)) = IF first <= c THEN c - first + 1 ELSE 0
        /\ \A k \in 1 .. c - first + 1 : SubSeq(results, first, c)[k] = results[first + k - 1]
      BY <2>1, SubSeqProperties
  <2>3. (IF first <= c THEN c - first + 1 ELSE 0) = c - first + 1
      BY <1>17
  <2>4. QED BY <1>18, <2>2, <2>3
<1>20. Len(answered) = IF c < limit THEN c ELSE limit
    BY <1>3, <1>17, <1>19
<1>21. ASSUME NEW i \in found, Len(answered) - Cardinality({j \in found : j > i}) > 0
       PROVE  answered[Len(answered) - Cardinality({j \in found : j > i})] = logged[i]
  <2>1. PICK p \in places : p = i - off /\ i = off + p /\ p \in 1 .. n
      BY <1>10, <1>11
  <2>2. PICK r \in 1 .. c : r = Rank(entries, wanted, p) /\ results[r] = entries[p]
      BY <1>15
  <2>3. Cardinality({j \in found : j > i}) = Cardinality({k \in places : k > p})
    <3>1. ASSUME NEW j \in found, j > i PROVE j - off \in places /\ j - off > p
      <4>1. j \in Nat /\ i \in Nat
          BY <1>2, <1>7
      <4>2. QED BY <1>11, <2>1, <3>1, <4>1
    <3>2. ASSUME NEW k \in places, k > p PROVE off + k \in found /\ off + k > i
      <4>1. k \in Nat /\ p \in Nat
          BY <1>10
      <4>2. QED BY <1>10, <2>1, <3>2, <4>1
    <3>3. QED BY <1>13, <3>1, <3>2
  <2>4. Cardinality({k \in places : k > p}) = c - r
    <3>0. p \in 1 .. n
        BY <2>1
    <3>1. Cardinality({k \in Places(entries, wanted, n) : k > p}) =
            Rank(entries, wanted, n) - Rank(entries, wanted, p)
        BY <3>0, PlacesAfter, Zenon
    <3>2. QED BY <1>5, <1>12, <2>2, <3>1
  <2>5. PICK place \in Int : /\ place = Len(answered) - Cardinality({j \in found : j > i})
                             /\ place > 0 /\ place = (c - first + 1) - (c - r)
    <3>1. Len(answered) - Cardinality({j \in found : j > i}) = (c - first + 1) - (c - r)
        BY <1>19, <2>3, <2>4
    <3>2. (c - first + 1) - (c - r) \in Int
        OBVIOUS
    <3>3. QED BY <1>21, <3>1, <3>2
  <2>6. place \in 1 .. c - first + 1 /\ first + place - 1 = r
    <3>1. place > 0 /\ place = (c - first + 1) - (c - r)
        BY <2>5
    <3>2. place = r - first + 1
        BY <3>1
    <3>3. QED BY <3>1, <3>2
  <2>7. answered[place] = results[r]
      BY <1>19, <2>6
  <2>8. entries[p] = logged[i]
      BY <1>9, <2>1
  <2>9. QED BY <2>2, <2>5, <2>7, <2>8
<1>22. {i \in {j \in DOMAIN logged : j > Len(logged) - MaxEntries} : Asked(q, logged[i])} = found
    BY <1>1, <1>7
<1>23. QED BY <1>14, <1>16, <1>20, <1>21, <1>22

\* A query answers with the newest of the entries that match it, as many as it
\* asks for and in their order, also when the log has been trimmed and for every
\* limit (audit_logger.py:97, 105-117).
THEOREM QueriesFindNewest == TrailSpec => []QueryFindsNewest
<1>1. TrailInit => HoldsNewest
  <2> SUFFICES ASSUME TrailInit PROVE HoldsNewest
      OBVIOUS
  <2>1. entries = <<>> /\ logged = <<>> /\ Len(<<>>) = 0
      BY EmptySeq DEF TrailInit
  <2>2. QED BY <2>1 DEF HoldsNewest
<1>2. TrailInv /\ TrailInv' /\ HoldsNewest /\ [TrailNext]_trailVars => HoldsNewest'
  <2>1. HoldsNewest /\ UNCHANGED trailVars => HoldsNewest'
      BY DEF HoldsNewest, trailVars
  <2>2. ASSUME TrailInv, TrailInv', HoldsNewest, TrailNext PROVE HoldsNewest'
    <3>1. PICK e \in LifecycleEvents, a \in LoggedAlerts, t \in Stamps : LogEvent(e, a, t)
        BY <2>2 DEF TrailNext
    <3>2. QueryInv /\ TrailTypeOK'
        BY <2>2 DEF TrailInv, QueryInv
    <3>3. QED BY <3>1, <3>2, LogQueryInv DEF QueryInv
  <2>3. QED BY <2>1, <2>2
<1>3. TrailInv /\ HoldsNewest => QueryFindsNewest
  <2> SUFFICES ASSUME TrailInv, HoldsNewest PROVE QueryFindsNewest
      OBVIOUS
  <2>1. QueryInv
      BY DEF TrailInv, QueryInv
  <2>2. QED BY <2>1, NewestPlaces DEF QueryFindsNewest
<1>4. QED BY TrailInvariance, <1>1, <1>2, <1>3, PTL DEF TrailSpec

----------------------------------------------------------------------------
(***************************************************************************)
(* SAME headers: a torn one is refused, whatever its number of areas.      *)
(***************************************************************************)
EasInv == header # NoHeader => record = Decoded(header)

LEMMA EasInvariance == EasSpec => []EasInv
<1>1. EasInit => EasInv
    BY DEF EasInit, EasInv
<1>2. EasInv /\ [EasNext]_easVars => EasInv'
  <2>1. ASSUME NEW h, Decode(h) PROVE EasInv'
      BY <2>1 DEF Decode, EasInv
  <2>2. ParseFile => EasInv'
      BY <2>1 DEF ParseFile
  <2>3. NextLine => EasInv'
      BY DEF NextLine, EasInv
  <2>4. EasInv /\ UNCHANGED easVars => EasInv'
      BY DEF easVars, EasInv
  <2>5. QED BY <2>2, <2>3, <2>4 DEF EasNext
<1>3. QED BY <1>1, <1>2, PTL DEF EasSpec

\* Two sequences of known lengths, joined.
LEMMA Joined ==
  ASSUME NEW S, NEW a \in Seq(S), NEW b \in Seq(S), NEW m \in Nat, NEW n \in Nat,
         Len(a) = m, Len(b) = n
  PROVE  /\ a \o b \in Seq(S) /\ Len(a \o b) = m + n
         /\ \A i \in 1 .. m : (a \o b)[i] = a[i]
         /\ \A i \in 1 .. n : (a \o b)[m + i] = b[i]
<1>1. /\ a \o b \in Seq(S) /\ Len(a \o b) = m + n
      /\ \A i \in 1 .. m + n : (a \o b)[i] = IF i <= m THEN a[i] ELSE b[i - m]
  <2>1. /\ a \o b \in Seq(S) /\ Len(a \o b) = Len(a) + Len(b)
        /\ \A i \in 1 .. Len(a) + Len(b) :
             (a \o b)[i] = IF i <= Len(a) THEN a[i] ELSE b[i - Len(a)]
      BY ConcatProperties, Zenon
  <2>2. QED BY <2>1
<1>2. \A i \in 1 .. m : i \in 1 .. m + n /\ i <= m
    OBVIOUS
<1>3. \A i \in 1 .. n : m + i \in 1 .. m + n /\ ~(m + i <= m) /\ (m + i) - m = i
    OBVIOUS
<1>4. QED BY <1>1, <1>2, <1>3

\* The tokens of a whole header: its last area alone has the duration.
AreWholeTokens(ts, kinds, n) ==
  /\ ts = SameHeader(kinds).tokens /\ Len(ts) = n + 4
  /\ \A i \in 1 .. n - 1 : ~ts[i + 2].duration
  /\ ts[1].kind = "ORG" /\ ts[2].kind = "EEE"
  /\ \A i \in 1 .. n : ts[i + 2].kind = kinds[i] /\ ts[i + 2].n = i
  /\ ts[n + 2].duration
  /\ ts[n + 3].kind = "JJJHHMM" /\ ts[n + 4].kind = "CCCCCCCC"

LEMMA WholeTokens ==
  ASSUME NEW n \in 1 .. MaxAreas, NEW kinds \in [1 .. n -> {"PSSCCC", "noise"}]
  PROVE  \E ts \in Seq(Token) : AreWholeTokens(ts, kinds, n)
<1>1. n \in Nat /\ Len(kinds) = n
    BY MaxAreasAssumption
<1>2. \A kind \in Kinds : Plain(kind) \in Token /\ Plain(kind).kind = kind
    BY MaxAreasAssumption DEF Plain, Token
<1>3. PICK head \in Seq(Token) :
        /\ head = <<Plain("ORG"), Plain("EEE")>> /\ Len(head) = 2
        /\ head[1].kind = "ORG" /\ head[2].kind = "EEE"
  <2>1. <<Plain("ORG"), Plain("EEE")>> \in Seq(Token)
      BY <1>2 DEF Kinds
  <2>2. Len(<<Plain("ORG"), Plain("EEE")>>) = 2
      OBVIOUS
  <2>3. /\ <<Plain("ORG"), Plain("EEE")>>[1].kind = "ORG"
        /\ <<Plain("ORG"), Plain("EEE")>>[2].kind = "EEE"
      BY <1>2 DEF Kinds
  <2>4. QED BY <2>1, <2>2, <2>3
<1>4. PICK end \in Seq(Token) :
        /\ end = <<Plain("JJJHHMM"), Plain("CCCCCCCC")>> /\ Len(end) = 2
        /\ end[1].kind = "JJJHHMM" /\ end[2].kind = "CCCCCCCC"
  <2>1. <<Plain("JJJHHMM"), Plain("CCCCCCCC")>> \in Seq(Token)
      BY <1>2 DEF Kinds
  <2>2. Len(<<Plain("JJJHHMM"), Plain("CCCCCCCC")>>) = 2
      OBVIOUS
  <2>3. /\ <<Plain("JJJHHMM"), Plain("CCCCCCCC")>>[1].kind = "JJJHHMM"
        /\ <<Plain("JJJHHMM"), Plain("CCCCCCCC")>>[2].kind = "CCCCCCCC"
      BY <1>2 DEF Kinds
  <2>4. QED BY <2>1, <2>2, <2>3
<1>5. PICK areas \in Seq(Token) :
        /\ areas = [i \in 1 .. n |-> Area(kinds[i], i, n)] /\ Len(areas) = n
        /\ \A i \in 1 .. n - 1 : ~areas[i].duration
        /\ \A i \in 1 .. n : areas[i].kind = kinds[i] /\ areas[i].n = i
        /\ areas[n].duration
  <2>1. \A i \in 1 .. n : Area(kinds[i], i, n) \in Token
      BY <1>1, MaxAreasAssumption DEF Area, Token, Kinds
  <2>2. \A i \in 1 .. n - 1 : i \in 1 .. n /\ ~Area(kinds[i], i, n).duration
    <3>1. \A i \in 1 .. n - 1 : i \in 1 .. n /\ i # n
        BY <1>1
    <3>2. ASSUME NEW i, i # n PROVE ~Area(kinds[i], i, n).duration
        BY <3>2, Zenon DEF Area
    <3>3. QED BY <3>1, <3>2
  <2>3. /\ [i \in 1 .. n |-> Area(kinds[i], i, n)] \in Seq(Token)
        /\ Len([i \in 1 .. n |-> Area(kinds[i], i, n)]) = n
      BY <1>1, <2>1
  <2>4. \A i \in 1 .. n - 1 : ~[j \in 1 .. n |-> Area(kinds[j], j, n)][i].duration
      BY <2>2
  <2>5. \A i \in 1 .. n : Area(kinds[i], i, n).kind = kinds[i] /\ Area(kinds[i], i, n).n = i
      BY Zenon DEF Area
  <2>6. Area(kinds[n], n, n).duration
      BY Zenon DEF Area
  <2>7. \A i \in 1 .. n : [j \in 1 .. n |-> Area(kinds[j], j, n)][i] = Area(kinds[i], i, n)
      OBVIOUS
  <2>8. PICK areas : areas = [i \in 1 .. n |-> Area(kinds[i], i, n)]
      OBVIOUS
  <2>9. \A i \in 1 .. n : areas[i] = Area(kinds[i], i, n)
      BY <2>8
  <2>10. n \in 1 .. n
      BY <1>1
  <2>11. areas \in Seq(Token) /\ Len(areas) = n
      BY <2>3, <2>8
  <2>12. \A i \in 1 .. n - 1 : ~areas[i].duration
      BY <2>2, <2>9
  <2>13. \A i \in 1 .. n : areas[i].kind = kinds[i] /\ areas[i].n = i
      BY <2>5, <2>9
  <2>14. areas[n].duration
      BY <2>6, <2>9, <2>10
  <2>15. QED BY <2>8, <2>11, <2>12, <2>13, <2>14
<1>6. SameHeader(kinds).tokens = (head \o areas) \o end
    BY <1>1, <1>3, <1>4, <1>5 DEF SameHeader
<1>7. PICK begun \in Seq(Token) :
        /\ begun = head \o areas /\ Len(begun) = 2 + n
        /\ \A i \in 1 .. 2 : begun[i] = head[i]
        /\ \A i \in 1 .. n : begun[2 + i] = areas[i]
  <2>1. /\ head \o areas \in Seq(Token) /\ Len(head \o areas) = 2 + n
        /\ \A i \in 1 .. 2 : (head \o areas)[i] = head[i]
        /\ \A i \in 1 .. n : (head \o areas)[2 + i] = areas[i]
      BY <1>1, <1>3, <1>5, Joined
  <2>2. QED BY <2>1
<1>8. PICK whole \in Seq(Token) :
        /\ whole = begun \o end /\ Len(whole) = (2 + n) + 2
        /\ \A i \in 1 .. 2 + n : whole[i] = begun[i]
        /\ \A i \in 1 .. 2 : whole[(2 + n) + i] = end[i]
  <2>1. 2 + n \in Nat
      BY <1>1
  <2>2. /\ begun \o end \in Seq(Token) /\ Len(begun \o end) = (2 + n) + 2
        /\ \A i \in 1 .. 2 + n : (begun \o end)[i] = begun[i]
        /\ \A i \in 1 .. 2 : (begun \o end)[(2 + n) + i] = end[i]
      BY <1>4, <1>7, <2>1, Joined
  <2>3. QED BY <2>2
<1>9. \A i \in 1 .. n : whole[i + 2] = areas[i]
  <2>1. \A i \in 1 .. n : i + 2 \in 1 .. 2 + n /\ 2 + i = i + 2
      BY <1>1
  <2>2. ASSUME NEW i \in 1 .. n PROVE whole[i + 2] = areas[i]
    <3>1. whole[i + 2] = begun[i + 2]
        BY <1>8, <2>1
    <3>2. begun[i + 2] = areas[i]
        BY <1>7, <2>1
    <3>3. QED BY <3>1, <3>2
  <2>3. QED BY <2>2
<1>10. whole = SameHeader(kinds).tokens /\ Len(whole) = n + 4
    BY <1>1, <1>6, <1>7, <1>8
<1>11. whole[1] = head[1] /\ whole[2] = head[2]
  <2>1. 1 \in 1 .. 2 + n /\ 2 \in 1 .. 2 + n /\ 1 \in 1 .. 2 /\ 2 \in 1 .. 2
      BY <1>1
  <2>2. QED BY <1>7, <1>8, <2>1
<1>12. whole[n + 3] = end[1] /\ whole[n + 4] = end[2]
  <2>1. (2 + n) + 1 = n + 3 /\ (2 + n) + 2 = n + 4 /\ 1 \in 1 .. 2 /\ 2 \in 1 .. 2
      BY <1>1
  <2>2. QED BY <1>8, <2>1
<1>13. n \in 1 .. n /\ \A i \in 1 .. n - 1 : i \in 1 .. n
    BY <1>1
<1>14. /\ whole[1].kind = "ORG" /\ whole[2].kind = "EEE"
       /\ whole[n + 3].kind = "JJJHHMM" /\ whole[n + 4].kind = "CCCCCCCC"
    BY <1>3, <1>4, <1>11, <1>12
<1>15. \A i \in 1 .. n : whole[i + 2].kind = kinds[i] /\ whole[i + 2].n = i
    BY <1>5, <1>9
<1>16. whole[n + 2].duration /\ \A i \in 1 .. n - 1 : ~whole[i + 2].duration
  <2>1. whole[n + 2] = areas[n]
      BY <1>9, <1>13
  <2>2. \A i \in 1 .. n - 1 : whole[i + 2] = areas[i]
      BY <1>9, <1>13
  <2>3. \A i \in 1 .. n - 1 : ~whole[i + 2].duration
      BY <1>5, <2>2
  <2>4. whole[n + 2].duration
      BY <1>5, <2>1
  <2>5. QED BY <2>3, <2>4
<1>17. QED BY <1>10, <1>14, <1>15, <1>16 DEF AreWholeTokens

\* Without a duration where the last area is looked for, there is no record.
LEMMA NoDurationRaises ==
  ASSUME NEW h, NEW m \in Nat, h.tokens \in Seq(Token), Len(h.tokens) = m,
         m >= 5 => ~h.tokens[m - 2].duration
  PROVE  Decoded(h) = Raised
<1>1. CASE m < 5
    BY <1>1 DEF Decoded, TooShort
<1>2. CASE m >= 5
  <2>1. \A i \in 3 .. m - 2 : h.tokens[i] \in Token
      BY <1>2, ElementOfSeq
  <2>2. /\ Len(AreaTokens(h)) = m - 4
        /\ \A i \in 1 .. m - 4 : AreaTokens(h)[i] = h.tokens[3 + i - 1]
      BY <1>2, <2>1, SubSeqProperties DEF AreaTokens
  <2>3. Last(AreaTokens(h)) = h.tokens[m - 2]
      BY <1>2, <2>2 DEF Last
  <2>4. ~HasDuration(h)
      BY <1>2, <2>3 DEF HasDuration
  <2>5. QED BY <2>4 DEF Decoded
<1>3. QED BY <1>1, <1>2

\* The first tokens of a header.
LEMMA FrontOfTokens ==
  ASSUME NEW n \in Nat, NEW ts \in Seq(Token), Len(ts) = n, NEW i \in 0 .. n
  PROVE  /\ SubSeq(ts, 1, i) \in Seq(Token) /\ Len(SubSeq(ts, 1, i)) = i
         /\ \A j \in 1 .. i : SubSeq(ts, 1, i)[j] = ts[j]
<1>1. \A j \in 1 .. i : ts[j] \in Token
  <2>1. \A j \in 1 .. i : j \in 1 .. Len(ts)
      OBVIOUS
  <2>2. QED BY <2>1, ElementOfSeq
<1>2. /\ SubSeq(ts, 1, i) \in Seq(Token)
      /\ Len(SubSeq(ts, 1, i)) = IF 1 <= i THEN i - 1 + 1 ELSE 0
      /\ \A j \in 1 .. i - 1 + 1 : SubSeq(ts, 1, i)[j] = ts[1 + j - 1]
    BY <1>1, SubSeqProperties
<1>3. QED BY <1>2

\* What a cut leaves of a token is a token.
LEMMA StubsAreTokens ==
  ASSUME NEW t \in Token, NEW stub \in Stubs(t)
  PROVE  stub \in Token
  BY DEF Stubs, Token, Kinds

\* A header whose last area has lost its duration.
LEMMA UnmarkedTokens ==
  ASSUME NEW n \in Nat, n >= 1, NEW ts \in Seq(Token), Len(ts) = n + 4,
         NEW h, h = [zczc |-> TRUE, tokens |-> ts]
  PROVE  \E all \in Seq(Token) :
           /\ Unmarked(h) = [zczc |-> TRUE, tokens |-> all]
           /\ Len(all) = n + 4 /\ ~all[n + 2].duration
<1>1. h.tokens = ts /\ Len(h.tokens) - 2 = n + 2 /\ n + 2 \in 1 .. Len(ts)
    OBVIOUS
<1>2. ts[n + 2] \in Token
    BY <1>1, ElementOfSeq
<1>3. PICK t \in Token : t = [ts[n + 2] EXCEPT !.duration = FALSE] /\ ~t.duration
  <2>1. PICK u \in Token : u = ts[n + 2]
      BY <1>2
  <2>2. [u EXCEPT !.duration = FALSE] \in Token /\ ~[u EXCEPT !.duration = FALSE].duration
      BY DEF Token
  <2>3. QED BY <2>1, <2>2
<1>4. PICK all \in Seq(Token) :
        all = [ts EXCEPT ![n + 2] = t] /\ Len(all) = n + 4 /\ all[n + 2] = t
  <2>1. PICK m \in 1 .. Len(ts) : m = n + 2
      BY <1>1
  <2>2. PICK all : all = [ts EXCEPT ![m] = t]
      OBVIOUS
  <2>3. /\ all \in Seq(Token) /\ Len(all) = Len(ts)
        /\ \A j \in 1 .. Len(ts) : all[j] = IF j = m THEN t ELSE ts[j]
      BY <2>2, ExceptSeq
  <2>4. all[m] = t
      BY <2>3
  <2>5. QED BY <2>1, <2>2, <2>3, <2>4
<1>5. Unmarked(h) = [zczc |-> TRUE, tokens |-> all]
  <2>1. Unmarked(h) = [h EXCEPT !.tokens = [ts EXCEPT ![n + 2] =
                          [ts[n + 2] EXCEPT !.duration = FALSE]]]
      BY <1>1 DEF Unmarked
  <2>2. QED BY <1>3, <1>4, <2>1
<1>6. QED BY <1>3, <1>4, <1>5

\* A header that is cut off anywhere before its station begins, between two
\* tokens or inside one, or that loses a token from its last area on, or the
\* +TTTT of that area, is refused rather than read with its fields shifted, for
\* every number of areas (eas_alert_parser.py:144, 152-158).
THEOREM TornHeadersRefused == EasSpec => []TornHeaderRefused
<1>1. EasInv => TornHeaderRefused
  <2> SUFFICES ASSUME EasInv, header # NoHeader, NEW kinds \in AreaKinds
               PROVE  LET h == SameHeader(kinds)
                          k == Len(h.tokens) IN
                      /\ \A i \in 0 .. k - 1 : header = CutOff(h, i) => record = Raised
                      /\ \A i \in 0 .. k - 2 : \A stub \in Stubs(h.tokens[i + 1]) :
                           header = CutInside(h, i, stub) => record = Raised
                      /\ \A i \in k - 2 .. k : header = Lost(h, i) => record = Raised
                      /\ header = Unmarked(h) => record = Raised
      BY DEF TornHeaderRefused
  <2>1. PICK n \in 1 .. MaxAreas : kinds \in [1 .. n -> {"PSSCCC", "noise"}]
      BY DEF AreaKinds
  <2>2. PICK h, all : /\ h = SameHeader(kinds) /\ h.tokens = all
                      /\ h = [zczc |-> TRUE, tokens |-> all]
    <3>1. \E all : SameHeader(kinds) = [zczc |-> TRUE, tokens |-> all]
        BY Zenon DEF SameHeader
    <3>2. QED BY <3>1
  <2>3. PICK ts \in Seq(Token) :
          /\ ts = h.tokens /\ Len(ts) = n + 4
          /\ \A i \in 1 .. n - 1 : ~ts[i + 2].duration
    <3>1. PICK ts \in Seq(Token) : AreWholeTokens(ts, kinds, n)
        BY <2>1, WholeTokens
    <3>2. QED BY <2>2, <3>1 DEF AreWholeTokens
  <2>4. n \in Nat /\ n >= 1 /\ record = Decoded(header)
      BY MaxAreasAssumption DEF EasInv
  <2>5. \A i \in 1 .. n + 4 : ts[i] \in Token
      BY <2>3, <2>4, ElementOfSeq
  <2>6. ASSUME NEW i \in 0 .. n + 3, header = CutOff(h, i) PROVE record = Raised
    <3>1. header.tokens = SubSeq(ts, 1, i)
        BY <2>2, <2>3, <2>6 DEF CutOff
    <3>2. /\ header.tokens \in Seq(Token) /\ Len(header.tokens) = i
          /\ \A j \in 1 .. i : header.tokens[j] = ts[j]
      <4>1. \A j \in 1 .. i : ts[j] \in Token
          BY <2>4, <2>5
      <4>2. /\ SubSeq(ts, 1, i) \in Seq(Token)
            /\ Len(SubSeq(ts, 1, i)) = IF 1 <= i THEN i - 1 + 1 ELSE 0
            /\ \A j \in 1 .. i - 1 + 1 : SubSeq(ts, 1, i)[j] = ts[1 + j - 1]
          BY <4>1, SubSeqProperties
      <4>3. QED BY <3>1, <4>2
    <3>3. i >= 5 => ~header.tokens[i - 2].duration
      <4> SUFFICES ASSUME i >= 5 PROVE ~header.tokens[i - 2].duration
          OBVIOUS
      <4>1. PICK j \in 1 .. n - 1 : j + 2 = i - 2
        <5>1. i - 4 \in 1 .. n - 1 /\ (i - 4) + 2 = i - 2
            BY <2>4
        <5>2. QED BY <5>1
      <4>2. header.tokens[i - 2] = ts[j + 2]
          BY <3>2, <4>1
      <4>3. QED BY <2>3, <4>1, <4>2
    <3>4. i \in Nat
        BY <2>4
    <3>5. QED BY <2>4, <3>2, <3>3, <3>4, NoDurationRaises
  <2>7. ASSUME NEW i \in n + 2 .. n + 4, header = Lost(h, i) PROVE record = Raised
    <3>1. header.tokens = SubSeq(ts, 1, i - 1) \o SubSeq(ts, i + 1, n + 4)
        BY <2>2, <2>3, <2>7 DEF Lost, RemoveAt
    <3>2. PICK front \in Seq(Token) :
            /\ front = SubSeq(ts, 1, i - 1) /\ Len(front) = i - 1
            /\ \A j \in 1 .. i - 1 : front[j] = ts[j]
      <4>1. \A j \in 1 .. i - 1 : ts[j] \in Token
          BY <2>4, <2>5
      <4>2. /\ SubSeq(ts, 1, i - 1) \in Seq(Token)
            /\ Len(SubSeq(ts, 1, i - 1)) = IF 1 <= i - 1 THEN (i - 1) - 1 + 1 ELSE 0
            /\ \A j \in 1 .. (i - 1) - 1 + 1 : SubSeq(ts, 1, i - 1)[j] = ts[1 + j - 1]
          BY <2>4, <4>1, SubSeqProperties
      <4>3. /\ Len(SubSeq(ts, 1, i - 1)) = i - 1
            /\ \A j \in 1 .. i - 1 : SubSeq(ts, 1, i - 1)[j] = ts[j]
          BY <2>4, <4>2
      <4>4. QED BY <4>2, <4>3
    <3>3. PICK back \in Seq(Token) :
            back = SubSeq(ts, i + 1, n + 4) /\ Len(back) = n + 4 - i
      <4>1. \A j \in i + 1 .. n + 4 : ts[j] \in Token
          BY <2>4, <2>5
      <4>2. /\ SubSeq(ts, i + 1, n + 4) \in Seq(Token)
            /\ Len(SubSeq(ts, i + 1, n + 4)) =
                 IF i + 1 <= n + 4 THEN (n + 4) - (i + 1) + 1 ELSE 0
          BY <2>4, <4>1, SubSeqProperties
      <4>3. Len(SubSeq(ts, i + 1, n + 4)) = n + 4 - i
          BY <2>4, <4>2
      <4>4. QED BY <4>2, <4>3
    <3>4. /\ header.tokens \in Seq(Token) /\ Len(header.tokens) = n + 3
          /\ \A j \in 1 .. i - 1 : header.tokens[j] = ts[j]
      <4>1. i - 1 \in Nat /\ n + 4 - i \in Nat
          BY <2>4
      <4>2. /\ front \o back \in Seq(Token)
            /\ Len(front \o back) = (i - 1) + (n + 4 - i)
            /\ \A j \in 1 .. i - 1 : (front \o back)[j] = front[j]
          BY <3>2, <3>3, <4>1, Joined
      <4>3. (i - 1) + (n + 4 - i) = n + 3
          BY <2>4
      <4>4. header.tokens = front \o back
          BY <3>1, <3>2, <3>3
      <4>5. QED BY <3>2, <4>2, <4>3, <4>4
    <3>5. n + 3 >= 5 => ~header.tokens[(n + 3) - 2].duration
      <4> SUFFICES ASSUME n >= 2 PROVE ~header.tokens[n + 1].duration
          BY <2>4
      <4>1. n - 1 \in 1 .. n - 1 /\ (n - 1) + 2 = n + 1 /\ n + 1 \in 1 .. i - 1
          BY <2>4
      <4>2. ~ts[(n - 1) + 2].duration
          BY <2>3, <4>1
      <4>3. QED BY <3>4, <4>1, <4>2
    <3>6. n + 3 \in Nat
        BY <2>4
    <3>7. QED BY <2>4, <3>4, <3>5, <3>6, NoDurationRaises
  <2>8. ASSUME NEW i \in 0 .. n + 2, NEW stub \in Stubs(ts[i + 1]),
               header = CutInside(h, i, stub)
        PROVE  record = Raised
    <3>1. header.tokens = Append(SubSeq(ts, 1, i), stub)
        BY <2>2, <2>3, <2>8 DEF CutInside
    <3>2. PICK front \in Seq(Token) :
            /\ front = SubSeq(ts, 1, i) /\ Len(front) = i
            /\ \A j \in 1 .. i : front[j] = ts[j]
      <4>1. n + 4 \in Nat /\ i \in 0 .. n + 4
          BY <2>4
      <4>2. /\ SubSeq(ts, 1, i) \in Seq(Token) /\ Len(SubSeq(ts, 1, i)) = i
            /\ \A j \in 1 .. i : SubSeq(ts, 1, i)[j] = ts[j]
          BY <2>3, <4>1, FrontOfTokens
      <4>3. QED BY <4>2
    <3>3. stub \in Token
      <4>1. ts[i + 1] \in Token
          BY <2>4, <2>5
      <4>2. QED BY <4>1, StubsAreTokens
    <3>4. /\ header.tokens \in Seq(Token) /\ Len(header.tokens) = i + 1
          /\ \A j \in 1 .. i : header.tokens[j] = ts[j]
      <4>1. PICK longer : longer = Append(front, stub)
          OBVIOUS
      <4>2. /\ longer \in Seq(Token) /\ Len(longer) = i + 1
            /\ \A j \in 1 .. i : longer[j] = ts[j]
          BY <3>2, <3>3, <4>1
      <4>3. header.tokens = longer
          BY <3>1, <3>2, <4>1
      <4>4. QED BY <4>2, <4>3
    <3>5. i + 1 >= 5 => ~header.tokens[(i + 1) - 2].duration
      <4> SUFFICES ASSUME i + 1 >= 5 PROVE ~header.tokens[(i + 1) - 2].duration
          OBVIOUS
      <4>1. PICK j \in 1 .. n - 1 : j + 2 = (i + 1) - 2 /\ j + 2 \in 1 .. i
        <5>1. i - 3 \in 1 .. n - 1 /\ (i - 3) + 2 = (i + 1) - 2 /\ (i - 3) + 2 \in 1 .. i
            BY <2>4
        <5>2. QED BY <5>1
      <4>2. header.tokens[(i + 1) - 2] = ts[j + 2]
          BY <3>4, <4>1
      <4>3. QED BY <2>3, <4>1, <4>2
    <3>6. i + 1 \in Nat
        BY <2>4
    <3>7. QED BY <2>4, <3>4, <3>5, <3>6, NoDurationRaises
  <2>9. ASSUME header = Unmarked(h) PROVE record = Raised
    <3>1. PICK left \in Seq(Token) : /\ left = header.tokens /\ Len(left) = n + 4
                                    /\ ~left[n + 2].duration
      <4>1. h = [zczc |-> TRUE, tokens |-> ts]
          BY <2>2, <2>3
      <4>2. QED BY <2>3, <2>4, <2>9, <4>1, UnmarkedTokens
    <3>2. n + 4 \in Nat /\ (n + 4) - 2 = n + 2
        BY <2>4
    <3>3. QED BY <2>4, <3>1, <3>2, NoDurationRaises
  <2>10. Len(h.tokens) = n + 4 /\ h = SameHeader(kinds) /\ h.tokens = ts
      BY <2>2, <2>3
  <2>11. /\ 0 .. (n + 4) - 1 = 0 .. n + 3 /\ 0 .. (n + 4) - 2 = 0 .. n + 2
         /\ (n + 4) - 2 .. n + 4 = n + 2 .. n + 4
      BY <2>4
  <2>12. /\ \A i \in 0 .. (n + 4) - 1 : header = CutOff(h, i) => record = Raised
         /\ \A i \in 0 .. (n + 4) - 2 : \A stub \in Stubs(ts[i + 1]) :
              header = CutInside(h, i, stub) => record = Raised
         /\ \A i \in (n + 4) - 2 .. n + 4 : header = Lost(h, i) => record = Raised
      BY <2>6, <2>7, <2>8, <2>11
  <2>13. QED BY <2>9, <2>10, <2>12
<1>2. QED BY EasInvariance, <1>1, PTL

----------------------------------------------------------------------------
\* What a record is made of, for a header that has enough tokens.
LEMMA DecodedRecord ==
  ASSUME NEW h, NEW m \in Nat, h.tokens \in Seq(Token), Len(h.tokens) = m, m >= 5
  PROVE  \E at \in Seq(Token) :
           /\ at = AreaTokens(h) /\ Len(at) = m - 4
           /\ \A i \in 1 .. m - 4 : at[i] = h.tokens[i + 2]
           /\ AreasOf(at) \in Seq(AreaToken)
           /\ KeptOf(AreasOf(at), Token, at, AreaToken, m - 4)
           /\ Last(at) = h.tokens[m - 2]
<1>1. \A i \in 3 .. m - 2 : h.tokens[i] \in Token
    BY ElementOfSeq
<1>2. /\ AreaTokens(h) \in Seq(Token) /\ Len(AreaTokens(h)) = m - 4
      /\ \A i \in 1 .. m - 4 : AreaTokens(h)[i] = h.tokens[3 + i - 1]
    BY <1>1, SubSeqProperties DEF AreaTokens
<1>3. \A i \in 1 .. m - 4 : 3 + i - 1 = i + 2
    OBVIOUS
<1>4. PICK at \in Seq(Token) :
        /\ at = AreaTokens(h) /\ Len(at) = m - 4
        /\ \A i \in 1 .. m - 4 : at[i] = h.tokens[i + 2]
    BY <1>2, <1>3
<1>5. KeptOf(AreasOf(at), Token, at, AreaToken, m - 4)
    BY <1>4, KeepProperties DEF AreasOf
<1>6. AreasOf(at) \in Seq(AreaToken)
  <2>1. Token \cap AreaToken = AreaToken
      BY DEF AreaToken
  <2>2. QED BY <1>5, <2>1 DEF KeptOf
<1>7. Last(at) = h.tokens[m - 2]
    BY <1>4 DEF Last
<1>8. QED BY <1>4, <1>5, <1>6, <1>7

\* A header is decoded as a record or not at all.
LEMMA DecodedType ==
  ASSUME NEW h \in Header
  PROVE  Decoded(h) \in Record \cup {Raised}
<1>1. PICK m \in Nat : m = Len(h.tokens) /\ h.tokens \in Seq(Token)
    BY LenProperties DEF Header
<1>2. CASE m < 5
    BY <1>1, <1>2 DEF Decoded, TooShort
<1>3. CASE m >= 5
  <2>1. AreasOf(AreaTokens(h)) \in Seq(AreaToken)
      BY <1>1, <1>3, DecodedRecord
  <2>2. \A i \in {1, 2, m - 1, m} : h.tokens[i] \in Token
    <3>1. \A i \in {1, 2, m - 1, m} : i \in 1 .. Len(h.tokens)
        BY <1>1, <1>3
    <3>2. QED BY <1>1, <3>1, ElementOfSeq
  <2>3. [originator |-> h.tokens[1], event |-> h.tokens[2],
         areas |-> AreasOf(AreaTokens(h)),
         issue |-> h.tokens[m - 1], station |-> h.tokens[m]] \in Record
      BY <2>1, <2>2 DEF Record
  <2>4. QED BY <1>1, <2>3 DEF Decoded
<1>4. QED BY <1>1, <1>2, <1>3

\* The tokens of a header that arrived up to some part of its station.
LEMMA TokensToStation ==
  ASSUME NEW n \in 1 .. MaxAreas, NEW kinds \in [1 .. n -> {"PSSCCC", "noise"}],
         NEW station \in Stubs(SameHeader(kinds).tokens[n + 4])
  PROVE  \E ts \in Seq(Token) :
           /\ CutInside(SameHeader(kinds), n + 3, station) = [zczc |-> TRUE, tokens |-> ts]
           /\ Len(ts) = n + 4
           /\ ts[1].kind = "ORG" /\ ts[2].kind = "EEE"
           /\ \A i \in 1 .. n : ts[i + 2].kind = kinds[i] /\ ts[i + 2].n = i
           /\ ts[n + 2].duration
           /\ ts[n + 3].kind = "JJJHHMM" /\ ts[n + 4] = station
<1>1. PICK all \in Seq(Token) : AreWholeTokens(all, kinds, n)
    BY WholeTokens
<1>2. n \in Nat /\ n >= 1 /\ n + 3 \in 0 .. n + 4 /\ n + 4 \in 1 .. n + 4
    BY MaxAreasAssumption
<1>3. SameHeader(kinds).tokens = all /\ Len(all) = n + 4
    BY <1>1 DEF AreWholeTokens
<1>4. PICK front \in Seq(Token) :
        /\ front = SubSeq(all, 1, n + 3) /\ Len(front) = n + 3
        /\ \A j \in 1 .. n + 3 : front[j] = all[j]
  <2>1. n + 4 \in Nat
      BY <1>2
  <2>2. /\ SubSeq(all, 1, n + 3) \in Seq(Token) /\ Len(SubSeq(all, 1, n + 3)) = n + 3
        /\ \A j \in 1 .. n + 3 : SubSeq(all, 1, n + 3)[j] = all[j]
      BY <1>2, <1>3, <2>1, FrontOfTokens
  <2>3. QED BY <2>2
<1>5. station \in Token
  <2>1. all[n + 4] \in Token
      BY <1>2, <1>3, ElementOfSeq
  <2>2. QED BY <1>3, <2>1, StubsAreTokens
<1>6. PICK ts \in Seq(Token) :
        /\ ts = Append(front, station) /\ Len(ts) = n + 4 /\ ts[n + 4] = station
        /\ \A j \in 1 .. n + 3 : ts[j] = all[j]
  <2>1. PICK ts : ts = Append(front, station)
      OBVIOUS
  <2>2. /\ ts \in Seq(Token) /\ Len(ts) = (n + 3) + 1 /\ ts[(n + 3) + 1] = station
        /\ \A j \in 1 .. n + 3 : ts[j] = front[j]
      BY <1>2, <1>4, <1>5, <2>1
  <2>3. (n + 3) + 1 = n + 4
      BY <1>2
  <2>4. QED BY <1>4, <2>1, <2>2, <2>3
<1>7. CutInside(SameHeader(kinds), n + 3, station) = [zczc |-> TRUE, tokens |-> ts]
  <2>1. PICK sent : SameHeader(kinds) = [zczc |-> TRUE, tokens |-> sent]
      BY Zenon DEF SameHeader
  <2>2. SameHeader(kinds) = [zczc |-> TRUE, tokens |-> all]
      BY <1>3, <2>1
  <2>3. PICK h : h = SameHeader(kinds) /\ h.tokens = all
      BY <1>3
  <2>4. CutInside(h, n + 3, station) = [h EXCEPT !.tokens = ts]
    <3>1. CutInside(h, n + 3, station) = [h EXCEPT !.tokens = Append(SubSeq(h.tokens, 1, n + 3), station)]
        BY DEF CutInside
    <3>2. QED BY <1>4, <1>6, <2>3, <3>1
  <2>5. [h EXCEPT !.tokens = ts] = [zczc |-> TRUE, tokens |-> ts]
    <3>1. PICK yes \in BOOLEAN : yes = TRUE
        OBVIOUS
    <3>2. h = [zczc |-> yes, tokens |-> all]
        BY <2>2, <2>3, <3>1
    <3>3. [h EXCEPT !.tokens = ts] = [zczc |-> yes, tokens |-> ts]
        BY <3>2
    <3>4. QED BY <3>1, <3>3
  <2>6. QED BY <2>3, <2>4, <2>5
<1>8. 1 \in 1 .. n + 3 /\ 2 \in 1 .. n + 3 /\ n + 2 \in 1 .. n + 3 /\ n + 3 \in 1 .. n + 3
      /\ \A i \in 1 .. n : i + 2 \in 1 .. n + 3
    BY <1>2
<1>9. /\ ts[1] = all[1] /\ ts[2] = all[2] /\ ts[n + 2] = all[n + 2] /\ ts[n + 3] = all[n + 3]
      /\ \A i \in 1 .. n : ts[i + 2] = all[i + 2]
    BY <1>6, <1>8
<1>10. /\ ts[1].kind = "ORG" /\ ts[2].kind = "EEE"
       /\ \A i \in 1 .. n : ts[i + 2].kind = kinds[i] /\ ts[i + 2].n = i
       /\ ts[n + 2].duration /\ ts[n + 3].kind = "JJJHHMM"
  <2>1. /\ all[1].kind = "ORG" /\ all[2].kind = "EEE"
        /\ \A i \in 1 .. n : all[i + 2].kind = kinds[i] /\ all[i + 2].n = i
        /\ all[n + 2].duration /\ all[n + 3].kind = "JJJHHMM"
      BY <1>1 DEF AreWholeTokens
  <2>2. \A i \in 1 .. n : ts[i + 2].kind = kinds[i] /\ ts[i + 2].n = i
      BY <1>9, <2>1
  <2>3. ts[n + 2].duration /\ ts[n + 3].kind = "JJJHHMM"
      BY <1>9, <2>1
  <2>4. ts[1].kind = "ORG" /\ ts[2].kind = "EEE"
      BY <1>9, <2>1
  <2>5. QED BY <2>2, <2>3, <2>4
<1>11. QED BY <1>6, <1>7, <1>10

\* A header that arrives up to its station is read back as it was sent, each
\* field from its place whatever the number of areas (eas_alert_parser.py:139-167).
LEMMA WholeHeaderDecoded ==
  ASSUME NEW n \in 1 .. MaxAreas, NEW kinds \in [1 .. n -> {"PSSCCC", "noise"}],
         NEW station \in Stubs(SameHeader(kinds).tokens[n + 4])
  PROVE  \E r :
         /\ r = Decoded(CutInside(SameHeader(kinds), n + 3, station)) /\ r # Raised
         /\ r.originator.kind = "ORG" /\ r.event.kind = "EEE"
         /\ r.issue.kind = "JJJHHMM" /\ r.station = station
         /\ {r.areas[i].n : i \in DOMAIN r.areas} = {i \in 1 .. n : kinds[i] = "PSSCCC"}
         /\ \A i, j \in DOMAIN r.areas : i < j => r.areas[i].n < r.areas[j].n
<1>1. PICK ts \in Seq(Token) :
           /\ CutInside(SameHeader(kinds), n + 3, station) = [zczc |-> TRUE, tokens |-> ts]
           /\ Len(ts) = n + 4
           /\ ts[1].kind = "ORG" /\ ts[2].kind = "EEE"
           /\ \A i \in 1 .. n : ts[i + 2].kind = kinds[i] /\ ts[i + 2].n = i
           /\ ts[n + 2].duration
           /\ ts[n + 3].kind = "JJJHHMM" /\ ts[n + 4] = station
    BY TokensToStation
<1>2. PICK h : h = CutInside(SameHeader(kinds), n + 3, station) /\ h.tokens = ts /\ h.zczc
    BY <1>1
<1>3. n \in Nat /\ n >= 1 /\ n + 4 \in Nat /\ n + 4 >= 5 /\ (n + 4) - 4 = n
      /\ (n + 4) - 2 = n + 2 /\ (n + 4) - 1 = n + 3
    BY MaxAreasAssumption
<1>4. PICK at \in Seq(Token) :
           /\ at = AreaTokens(h) /\ Len(at) = n
           /\ \A i \in 1 .. n : at[i] = ts[i + 2]
           /\ AreasOf(at) \in Seq(AreaToken)
           /\ KeptOf(AreasOf(at), Token, at, AreaToken, n)
           /\ Last(at) = ts[n + 2]
  <2>1. h.tokens \in Seq(Token) /\ Len(h.tokens) = n + 4
      BY <1>1, <1>2
  <2>2. \E at \in Seq(Token) :
           /\ at = AreaTokens(h) /\ Len(at) = (n + 4) - 4
           /\ \A i \in 1 .. (n + 4) - 4 : at[i] = h.tokens[i + 2]
           /\ AreasOf(at) \in Seq(AreaToken)
           /\ KeptOf(AreasOf(at), Token, at, AreaToken, (n + 4) - 4)
           /\ Last(at) = h.tokens[(n + 4) - 2]
      BY <1>3, <2>1, DecodedRecord
  <2>3. QED BY <1>2, <1>3, <2>2
<1>5. PICK kept \in Seq(AreaToken) : kept = AreasOf(at) /\ KeptOf(kept, Token, at, AreaToken, n)
    BY <1>4
<1>6. PICK r : r = [originator |-> ts[1], event |-> ts[2], areas |-> kept,
                    issue |-> ts[n + 3], station |-> ts[n + 4]]
    OBVIOUS
<1>7. r = Decoded(h)
  <2>1. ~TooShort(h)
      BY <1>1, <1>2, <1>3 DEF TooShort
  <2>2. HasDuration(h)
      BY <1>1, <1>4 DEF HasDuration
  <2>3. AreaTokens(h) # <<>>
      BY <1>3, <1>4
  <2>4. QED BY <1>1, <1>2, <1>3, <1>4, <1>5, <1>6, <2>1, <2>2, <2>3 DEF Decoded
<1>8. r # Raised
  <2>1. \A i \in {1, 2, n + 3, n + 4} : ts[i] \in Token
    <3>1. \A i \in {1, 2, n + 3, n + 4} : i \in 1 .. Len(ts)
        BY <1>1, <1>3
    <3>2. QED BY <3>1, ElementOfSeq
  <2>2. r \in Record
      BY <1>5, <1>6, <2>1 DEF Record
  <2>3. QED BY <2>2, OutcomesAssumption
<1>9. \A i \in 1 .. n : at[i] \in AreaToken <=> kinds[i] = "PSSCCC"
  <2>1. ASSUME NEW i \in 1 .. n PROVE at[i] \in Token /\ at[i].kind = kinds[i]
    <3>1. at[i] = ts[i + 2]
        BY <1>4
    <3>2. ts[i + 2].kind = kinds[i]
        BY <1>1
    <3>3. at[i] \in Token
        BY <1>4
    <3>4. QED BY <3>1, <3>2, <3>3
  <2>2. QED BY <2>1 DEF AreaToken
<1>10. /\ DOMAIN kept = 1 .. Len(kept)
       /\ \A i \in 1 .. n : kinds[i] = "PSSCCC" =>
            Rank(at, AreaToken, i) \in 1 .. Len(kept) /\ kept[Rank(at, AreaToken, i)] = at[i]
       /\ \A k \in 1 .. Len(kept) : \E i \in 1 .. n :
            kinds[i] = "PSSCCC" /\ k = Rank(at, AreaToken, i)
  <2>1. Places(at, AreaToken, n) = {i \in 1 .. n : kinds[i] = "PSSCCC"}
      BY <1>9 DEF Places
  <2>2. DOMAIN kept = 1 .. Len(kept)
      BY LenProperties
  <2>3. QED BY <1>5, <2>1, <2>2 DEF KeptOf
<1>11. ASSUME NEW k \in 1 .. Len(kept)
       PROVE  \E i \in 1 .. n : kinds[i] = "PSSCCC" /\ k = Rank(at, AreaToken, i) /\ kept[k].n = i
  <2>1. PICK i \in 1 .. n : kinds[i] = "PSSCCC" /\ k = Rank(at, AreaToken, i)
      BY <1>10
  <2>2. kept[k] = ts[i + 2]
      BY <1>4, <1>10, <2>1
  <2>3. kept[k].n = i
      BY <1>1, <2>2
  <2>4. QED BY <2>1, <2>3
<1>12. {kept[k].n : k \in DOMAIN kept} = {i \in 1 .. n : kinds[i] = "PSSCCC"}
  <2>1. ASSUME NEW i \in 1 .. n, kinds[i] = "PSSCCC"
        PROVE  \E k \in DOMAIN kept : i = kept[k].n
    <3>1. Rank(at, AreaToken, i) \in DOMAIN kept /\ kept[Rank(at, AreaToken, i)] = ts[i + 2]
        BY <1>4, <1>10, <2>1
    <3>2. kept[Rank(at, AreaToken, i)].n = i
        BY <1>1, <3>1
    <3>3. QED BY <3>1, <3>2
  <2>2. \A k \in DOMAIN kept : kept[k].n \in {i \in 1 .. n : kinds[i] = "PSSCCC"}
      BY <1>10, <1>11
  <2>3. QED BY <2>1, <2>2
<1>13. ASSUME NEW k \in DOMAIN kept, NEW l \in DOMAIN kept, k < l
       PROVE  kept[k].n < kept[l].n
  <2>1. PICK i \in 1 .. n : kinds[i] = "PSSCCC" /\ k = Rank(at, AreaToken, i) /\ kept[k].n = i
      BY <1>10, <1>11
  <2>2. PICK j \in 1 .. n : kinds[j] = "PSSCCC" /\ l = Rank(at, AreaToken, j) /\ kept[l].n = j
      BY <1>10, <1>11
  <2>3. k \in Int /\ l \in Int /\ i \in Nat /\ j \in Nat
      BY <1>3, <1>10
  <2>4. i # j
      BY <1>13, <2>1, <2>2, <2>3
  <2>5. ~(j < i)
    <3>1. SUFFICES ASSUME j < i PROVE FALSE
        OBVIOUS
    <3>2. at[i] \in AreaToken
        BY <1>9, <2>1
    <3>3. l < k
        BY <2>1, <2>2, <2>3, <3>1, <3>2, RanksGrow
    <3>4. QED BY <1>13, <2>3, <3>3
  <2>6. QED BY <2>1, <2>2, <2>3, <2>4, <2>5
<1>14. /\ r.originator = ts[1] /\ r.event = ts[2] /\ r.areas = kept
       /\ r.issue = ts[n + 3] /\ r.station = ts[n + 4]
    BY <1>6
<1>15. /\ r.originator.kind = "ORG" /\ r.event.kind = "EEE"
       /\ r.issue.kind = "JJJHHMM" /\ r.station = station
    BY <1>1, <1>14
<1>16. r = Decoded(CutInside(SameHeader(kinds), n + 3, station))
    BY <1>2, <1>7
<1>17. {r.areas[i].n : i \in DOMAIN r.areas} = {i \in 1 .. n : kinds[i] = "PSSCCC"}
    BY <1>12, <1>14
<1>18. \A i, j \in DOMAIN r.areas : i < j => r.areas[i].n < r.areas[j].n
    BY <1>13, <1>14
<1>19. QED BY <1>8, <1>15, <1>16, <1>17, <1>18

\* A header that arrives whole, or cut off no earlier than inside its station, is
\* read back as it was sent, for every number of areas and whatever noise is
\* between them (eas_alert_parser.py:139-167).
THEOREM HeadersReadBackAsSent == EasSpec => []HeaderReadsBack
<1>1. EasInv => HeaderReadsBack
  <2> SUFFICES ASSUME EasInv, header # NoHeader, NEW kinds \in AreaKinds
               PROVE
      LET h == SameHeader(kinds)
          k == Len(h.tokens) IN
      \A station \in Stubs(h.tokens[k]) : header = CutInside(h, k - 1, station) =>
        /\ record # Raised
        /\ record.originator.kind = "ORG" /\ record.event.kind = "EEE"
        /\ record.issue.kind = "JJJHHMM" /\ record.station = station
        /\ {record.areas[i].n : i \in DOMAIN record.areas}
             = {i \in DOMAIN kinds : kinds[i] = "PSSCCC"}
        /\ \A i, j \in DOMAIN record.areas :
             i < j => record.areas[i].n < record.areas[j].n
      BY DEF HeaderReadsBack
  <2>1. PICK n \in 1 .. MaxAreas : kinds \in [1 .. n -> {"PSSCCC", "noise"}]
      BY DEF AreaKinds
  <2>2. DOMAIN kinds = 1 .. n /\ (n + 4) - 1 = n + 3
      BY <2>1, MaxAreasAssumption
  <2>3. Len(SameHeader(kinds).tokens) = n + 4
    <3>1. PICK ts \in Seq(Token) : AreWholeTokens(ts, kinds, n)
        BY <2>1, WholeTokens
    <3>2. QED BY <3>1 DEF AreWholeTokens
  <2>4. ASSUME NEW station \in Stubs(SameHeader(kinds).tokens[n + 4]),
               header = CutInside(SameHeader(kinds), n + 3, station)
        PROVE
        /\ record # Raised
        /\ record.originator.kind = "ORG" /\ record.event.kind = "EEE"
        /\ record.issue.kind = "JJJHHMM" /\ record.station = station
        /\ {record.areas[i].n : i \in DOMAIN record.areas}
             = {i \in 1 .. n : kinds[i] = "PSSCCC"}
        /\ \A i, j \in DOMAIN record.areas :
             i < j => record.areas[i].n < record.areas[j].n
    <3>1. record = Decoded(CutInside(SameHeader(kinds), n + 3, station))
        BY <2>4 DEF EasInv
    <3>2. QED BY <2>1, <2>4, <3>1, WholeHeaderDecoded
  <2>5. QED BY <2>2, <2>3, <2>4
<1>2. QED BY EasInvariance, <1>1, PTL

\* So what arrives of a header is read back as it was sent or refused: its areas,
\* event and times are never taken from the wrong place, though a cut inside the
\* station may shorten that one field (eas_alert_parser.py:139-167).
THEOREM HeadersReadBack == EasSpec => []HeadersReadBackOrRefused
<1>1. HeaderReadsBack /\ TornHeaderRefused => HeadersReadBackOrRefused
    BY DEF HeadersReadBackOrRefused
<1>2. QED BY <1>1, HeadersReadBackAsSent, TornHeadersRefused, PTL

----------------------------------------------------------------------------
\* Every line that is decoded is a header, whole or torn.
LEMMA LinesAreHeaders ==
  ASSUME NEW kinds \in AreaKinds, NEW h, h = SameHeader(kinds)
  PROVE  /\ h \in Header /\ [h EXCEPT !.zczc = FALSE] \in Header
         /\ \A i \in 0 .. Len(h.tokens) - 1 : CutOff(h, i) \in Header
         /\ \A i \in 0 .. Len(h.tokens) - 1 : \A stub \in Stubs(h.tokens[i + 1]) :
              CutInside(h, i, stub) \in Header
         /\ \A i \in DOMAIN h.tokens : Lost(h, i) \in Header
         /\ Unmarked(h) \in Header
<1>1. PICK n \in 1 .. MaxAreas : kinds \in [1 .. n -> {"PSSCCC", "noise"}]
    BY DEF AreaKinds
<1>2. PICK ts \in Seq(Token) : ts = SameHeader(kinds).tokens /\ Len(ts) = n + 4
  <2>1. PICK ts \in Seq(Token) : AreWholeTokens(ts, kinds, n)
      BY <1>1, WholeTokens
  <2>2. QED BY <2>1 DEF AreWholeTokens
<1>3. PICK z \in BOOLEAN : h = [zczc |-> z, tokens |-> ts]
  <2>1. PICK all : SameHeader(kinds) = [zczc |-> TRUE, tokens |-> all]
      BY Zenon DEF SameHeader
  <2>2. SameHeader(kinds).tokens = all
      BY <2>1
  <2>3. QED BY <1>2, <2>1, <2>2
<1>4. PICK m \in Nat : m = n + 4 /\ Len(ts) = m /\ DOMAIN ts = 1 .. m
    BY <1>2, MaxAreasAssumption
<1>5. \A i \in 1 .. m : ts[i] \in Token
    BY <1>4
<1>6. ASSUME NEW i \in 0 .. m PROVE SubSeq(ts, 1, i) \in Seq(Token)
  <2>1. \A j \in 1 .. i : ts[j] \in Token
      BY <1>5
  <2>2. QED BY <2>1, SubSeqProperties
<1>7. ASSUME NEW i \in 1 .. m PROVE SubSeq(ts, i + 1, m) \in Seq(Token)
  <2>1. \A j \in i + 1 .. m : ts[j] \in Token
    <3>1. \A j \in i + 1 .. m : j \in 1 .. m
        OBVIOUS
    <3>2. QED BY <1>5, <3>1
  <2>2. i + 1 \in Nat /\ i + 1 \in Int /\ m \in Int
      OBVIOUS
  <2>3. QED BY <2>1, <2>2, SubSeqProperties
<1>8. h \in Header /\ [h EXCEPT !.zczc = FALSE] \in Header
  <2>1. h \in Header
      BY <1>3 DEF Header
  <2>2. PICK no \in BOOLEAN : no = FALSE
      OBVIOUS
  <2>3. /\ [h EXCEPT !.zczc = no] = [zczc |-> no, tokens |-> ts]
        /\ [zczc |-> no, tokens |-> ts] \in Header
      BY <1>3 DEF Header
  <2>4. QED BY <2>1, <2>2, <2>3
<1>9. ASSUME NEW i \in 0 .. Len(h.tokens) - 1 PROVE CutOff(h, i) \in Header
  <2>1. h.tokens = ts /\ i \in 0 .. m
      BY <1>3, <1>4
  <2>2. PICK front \in Seq(Token) : front = SubSeq(ts, 1, i)
      BY <1>6, <2>1
  <2>3. CutOff(h, i) = [zczc |-> z, tokens |-> front]
    <3>1. CutOff(h, i) = [h EXCEPT !.tokens = SubSeq(h.tokens, 1, i)]
        BY DEF CutOff
    <3>2. CutOff(h, i) = [h EXCEPT !.tokens = front]
        BY <2>1, <2>2, <3>1
    <3>3. QED BY <1>3, <3>2
  <2>4. QED BY <2>3 DEF Header
<1>10. ASSUME NEW i \in DOMAIN h.tokens PROVE Lost(h, i) \in Header
  <2>1. h.tokens = ts /\ i \in 1 .. m /\ i - 1 \in 0 .. m
      BY <1>3, <1>4
  <2>2. PICK front \in Seq(Token) : front = SubSeq(ts, 1, i - 1)
      BY <1>6, <2>1
  <2>3. PICK back \in Seq(Token) : back = SubSeq(ts, i + 1, m)
      BY <1>7, <2>1
  <2>4. PICK left \in Seq(Token) : left = front \o back
    <3>1. front \o back \in Seq(Token)
        BY ConcatProperties
    <3>2. QED BY <3>1
  <2>5. RemoveAt(ts, i) = left
      BY <1>4, <2>2, <2>3, <2>4 DEF RemoveAt
  <2>6. Lost(h, i) = [zczc |-> z, tokens |-> left]
    <3>1. Lost(h, i) = [h EXCEPT !.tokens = RemoveAt(h.tokens, i)]
        BY DEF Lost
    <3>2. Lost(h, i) = [h EXCEPT !.tokens = left]
        BY <2>1, <2>5, <3>1
    <3>3. QED BY <1>3, <3>2
  <2>7. QED BY <2>6 DEF Header
<1>11. ASSUME NEW i \in 0 .. Len(h.tokens) - 1, NEW stub \in Stubs(h.tokens[i + 1])
       PROVE  CutInside(h, i, stub) \in Header
  <2>1. h.tokens = ts /\ i \in 0 .. m /\ i + 1 \in 1 .. m
      BY <1>3, <1>4
  <2>2. PICK front \in Seq(Token) : front = SubSeq(ts, 1, i)
      BY <1>6, <2>1
  <2>3. stub \in Token
      BY <1>5, <2>1, StubsAreTokens
  <2>4. PICK left \in Seq(Token) : left = Append(front, stub)
    <3>1. Append(front, stub) \in Seq(Token)
        BY <2>3, AppendProperties
    <3>2. QED BY <3>1
  <2>5. CutInside(h, i, stub) = [zczc |-> z, tokens |-> left]
    <3>1. CutInside(h, i, stub) = [h EXCEPT !.tokens = Append(SubSeq(h.tokens, 1, i), stub)]
        BY DEF CutInside
    <3>2. CutInside(h, i, stub) = [h EXCEPT !.tokens = left]
        BY <2>1, <2>2, <2>4, <3>1
    <3>3. QED BY <1>3, <3>2
  <2>6. QED BY <2>5 DEF Header
<1>12. Unmarked(h) \in Header
  <2>1. n \in Nat /\ n >= 1 /\ Len(ts) = n + 4
      BY <1>2, MaxAreasAssumption
  <2>2. h = [zczc |-> TRUE, tokens |-> ts]
    <3>1. PICK sent : SameHeader(kinds) = [zczc |-> TRUE, tokens |-> sent]
        BY Zenon DEF SameHeader
    <3>2. SameHeader(kinds).tokens = sent
        BY <3>1
    <3>3. QED BY <1>2, <3>1, <3>2
  <2>3. \E all \in Seq(Token) :
          /\ Unmarked(h) = [zczc |-> TRUE, tokens |-> all]
          /\ Len(all) = n + 4 /\ ~all[n + 2].duration
      BY <2>1, <2>2, UnmarkedTokens
  <2>4. QED BY <2>3 DEF Header
<1>13. QED BY <1>8, <1>9, <1>10, <1>11, <1>12

\* Type correctness of the header parser: every line it is given is a header,
\* whole or torn, and what it makes of one is a record or none
\* (eas_alert_parser.py:139-167).
THEOREM HeadersTypeCorrect == EasSpec => []EasTypeOK
<1>1. EasInit => EasTypeOK
    BY DEF EasInit, EasTypeOK
<1>2. EasTypeOK /\ [EasNext]_easVars => EasTypeOK'
  <2>1. ASSUME NEW h \in Header, Decode(h) PROVE EasTypeOK'
    <3>1. header' = h /\ record' = Decoded(h)
        BY <2>1 DEF Decode
    <3>2. QED BY <3>1, DecodedType DEF EasTypeOK
  <2>2. ASSUME ParseFile PROVE EasTypeOK'
    <3>1. PICK kinds \in AreaKinds :
            LET h == SameHeader(kinds) IN
            \/ Decode(h)
            \/ Decode([h EXCEPT !.zczc = FALSE])
            \/ Decode(Unmarked(h))
            \/ \E i \in 0 .. Len(h.tokens) - 1 :
                 \/ Decode(CutOff(h, i))
                 \/ \E stub \in Stubs(h.tokens[i + 1]) : Decode(CutInside(h, i, stub))
            \/ \E i \in DOMAIN h.tokens : Decode(Lost(h, i))
        BY <2>2 DEF ParseFile
    <3>2. PICK h : h = SameHeader(kinds)
        OBVIOUS
    <3>3. /\ h \in Header /\ [h EXCEPT !.zczc = FALSE] \in Header
          /\ \A i \in 0 .. Len(h.tokens) - 1 : CutOff(h, i) \in Header
          /\ \A i \in 0 .. Len(h.tokens) - 1 : \A stub \in Stubs(h.tokens[i + 1]) :
               CutInside(h, i, stub) \in Header
          /\ \A i \in DOMAIN h.tokens : Lost(h, i) \in Header
          /\ Unmarked(h) \in Header
        BY <3>2, LinesAreHeaders
    <3>4. \E line \in Header : Decode(line)
        BY <3>1, <3>2, <3>3, Zenon
    <3>5. QED BY <2>1, <3>4
  <2>3. NextLine => EasTypeOK'
      BY DEF NextLine, EasTypeOK
  <2>4. EasTypeOK /\ UNCHANGED easVars => EasTypeOK'
      BY DEF EasTypeOK, easVars
  <2>5. QED BY <2>2, <2>3, <2>4 DEF EasNext
<1>3. QED BY <1>1, <1>2, PTL DEF EasSpec

----------------------------------------------------------------------------
(***************************************************************************)
(* The fallback's window: it holds the latest reports in their order, for  *)
(* any window and however many reports there have been.                    *)
(***************************************************************************)
\* The window is the end of the history, and full when the history fills it.
HoldsLatest ==
  LET n == Len(rates)
      gone == Len(reported) - n IN
  /\ n = IF Len(reported) <= Window THEN Len(reported) ELSE Window
  /\ \A i \in 1 .. n : rates[i] = reported[gone + i]

FallbackInv == FallbackTypeOK /\ HoldsLatest

LEMMA RecordFallbackInv ==
  ASSUME FallbackInv, NEW r \in Rates, RecordDeliveryRate(r) PROVE FallbackInv'
<1>1. PICK m \in Nat, n \in Nat : m = Len(reported) /\ n = Len(rates)
    BY LenProperties DEF FallbackInv, FallbackTypeOK
<1>2. /\ reported' \in Seq(Rates) /\ Len(reported') = m + 1 /\ reported'[m + 1] = r
      /\ \A i \in 1 .. m : reported'[i] = reported[i]
    BY <1>1, AppendProperties DEF FallbackInv, FallbackTypeOK, RecordDeliveryRate
<1>3. PICK more \in Seq(Rates) :
        /\ more = Append(rates, r) /\ Len(more) = n + 1 /\ more[n + 1] = r
        /\ \A i \in 1 .. n : more[i] = rates[i]
  <2>1. Append(rates, r) \in Seq(Rates)
      BY AppendProperties DEF FallbackInv, FallbackTypeOK
  <2>2. /\ Len(Append(rates, r)) = n + 1 /\ Append(rates, r)[n + 1] = r
        /\ \A i \in 1 .. n : Append(rates, r)[i] = rates[i]
      BY <1>1, AppendProperties DEF FallbackInv, FallbackTypeOK
  <2>3. QED BY <2>1, <2>2
<1>4. /\ n = IF m <= Window THEN m ELSE Window
      /\ \A i \in 1 .. n : rates[i] = reported[(m - n) + i]
    BY <1>1 DEF FallbackInv, HoldsLatest
<1>5. Window \in Nat /\ Window >= 1
    BY FallbackAssumption
<1>6. \A i \in 1 .. n + 1 : more[i] = reported'[(m - n) + i]
  <2>1. ASSUME NEW i \in 1 .. n PROVE more[i] = reported'[(m - n) + i]
    <3>1. (m - n) + i \in 1 .. m
        BY <1>4, <1>5
    <3>2. QED BY <1>2, <1>3, <1>4, <3>1
  <2>2. more[n + 1] = reported'[(m - n) + (n + 1)]
      BY <1>2, <1>3
  <2>3. QED BY <2>1, <2>2
<1>7. rates' = IF n + 1 > Window THEN Tail(more) ELSE more
    BY <1>3 DEF RecordDeliveryRate, DropOldest
<1>8. CASE n + 1 <= Window
  <2>1. rates' = more /\ m = n
      BY <1>4, <1>5, <1>7, <1>8
  <2>2. FallbackTypeOK'
      BY <1>2, <1>3, <1>8, <2>1 DEF FallbackTypeOK
  <2>3. HoldsLatest'
      BY <1>2, <1>3, <1>6, <1>8, <2>1 DEF HoldsLatest
  <2>4. QED BY <2>2, <2>3 DEF FallbackInv
<1>9. CASE n + 1 > Window
  <2>1. n = Window /\ m >= n
      BY <1>4, <1>5, <1>9
  <2>2. more # <<>>
      BY <1>3, EmptySeq
  <2>3. /\ rates' \in Seq(Rates) /\ Len(rates') = n
        /\ \A i \in 1 .. n : rates'[i] = more[i + 1]
    <3>1. /\ Tail(more) \in Seq(Rates) /\ Len(Tail(more)) = Len(more) - 1
          /\ \A i \in 1 .. Len(Tail(more)) : Tail(more)[i] = more[i + 1]
        BY <2>2, HeadTailProperties
    <3>2. rates' = Tail(more)
        BY <1>7, <1>9
    <3>3. QED BY <1>3, <3>1, <3>2
  <2>4. \A i \in 1 .. n : rates'[i] = reported'[((m + 1) - n) + i]
    <3> SUFFICES ASSUME NEW i \in 1 .. n
                 PROVE  rates'[i] = reported'[((m + 1) - n) + i]
        OBVIOUS
    <3>1. i + 1 \in 1 .. n + 1 /\ (m - n) + (i + 1) = ((m + 1) - n) + i
        OBVIOUS
    <3>2. QED BY <1>6, <2>3, <3>1
  <2>5. FallbackTypeOK'
      BY <1>2, <2>1, <2>3, <1>5 DEF FallbackTypeOK
  <2>6. HoldsLatest'
      BY <1>2, <2>1, <2>3, <2>4 DEF HoldsLatest
  <2>7. QED BY <2>5, <2>6 DEF FallbackInv
<1>10. QED BY <1>1, <1>5, <1>8, <1>9

\* The window of delivery rates never outgrows its capacity and always holds
\* the latest reports, the oldest first (mesh_bridge.py:96-100).
THEOREM WindowHoldsLatest == FallbackSpec => [](FallbackTypeOK /\ HoldsLatest)
<1>1. FallbackInit => FallbackInv
  <2> SUFFICES ASSUME FallbackInit PROVE FallbackInv
      OBVIOUS
  <2>1. rates = <<>> /\ reported = <<>> /\ Len(<<>>) = 0 /\ <<>> \in Seq(Rates)
      BY EmptySeq DEF FallbackInit
  <2>2. 0 <= Window
      BY FallbackAssumption
  <2>3. FallbackTypeOK
      BY <2>1, <2>2 DEF FallbackTypeOK
  <2>4. HoldsLatest
      BY <2>1, <2>2 DEF HoldsLatest
  <2>5. QED BY <2>3, <2>4 DEF FallbackInv
<1>2. FallbackInv /\ [FallbackNext]_fallbackVars => FallbackInv'
  <2>1. FallbackInv /\ UNCHANGED fallbackVars => FallbackInv'
      BY DEF FallbackInv, FallbackTypeOK, HoldsLatest, fallbackVars
  <2>2. QED BY <2>1, RecordFallbackInv DEF FallbackNext
<1>3. QED BY <1>1, <1>2, PTL DEF FallbackSpec, FallbackInv

\* What counts of the window is what counts of the history.
LEMMA CountedReports ==
  ASSUME FallbackInv
  PROVE  \E m \in Nat, k \in Nat, recently \in Seq(Rates) :
           /\ m = Len(reported) /\ k = (IF m < Recent THEN m ELSE Recent)
           /\ recently = Recently(rates) /\ Len(recently) = k
           /\ \A i \in 1 .. k : recently[i] = reported[(m - k) + i]
           /\ {i \in DOMAIN reported : i > m - Recent} = m - k + 1 .. m
           /\ Len(rates) >= Least <=> m >= Least
<1>1. PICK m \in Nat, n \in Nat : m = Len(reported) /\ n = Len(rates)
    BY LenProperties DEF FallbackInv, FallbackTypeOK
<1>2. rates \in Seq(Rates) /\ reported \in Seq(Rates)
      /\ n = (IF m <= Window THEN m ELSE Window)
      /\ \A i \in 1 .. n : rates[i] = reported[(m - n) + i]
    BY <1>1 DEF FallbackInv, FallbackTypeOK, HoldsLatest
<1>3. Window \in Nat /\ Recent \in Nat /\ Recent >= 1 /\ Recent <= Window
      /\ Least \in Nat /\ Least <= Window
    BY FallbackAssumption
<1>4. PICK k \in Nat : k = IF m < Recent THEN m ELSE Recent
    BY <1>3
<1>5. k <= n /\ k <= m /\ (n < Recent => k = n) /\ (~(n < Recent) => k = Recent)
    BY <1>2, <1>3, <1>4
<1>6. PICK recently \in Seq(Rates) :
        /\ recently = Recently(rates) /\ Len(recently) = k
        /\ \A i \in 1 .. k : recently[i] = rates[(n - k) + i]
  <2>1. CASE n < Recent
    <3>1. Recently(rates) = rates /\ k = n
        BY <1>1, <1>5, <2>1 DEF Recently
    <3>2. \A i \in 1 .. k : (n - k) + i = i
        BY <3>1
    <3>3. QED BY <1>1, <1>2, <3>1, <3>2
  <2>2. CASE ~(n < Recent)
    <3>1. Recently(rates) = SubSeq(rates, n - k + 1, n)
        BY <1>1, <1>5, <2>2 DEF Recently
    <3>2. ASSUME NEW j \in n - k + 1 .. n PROVE rates[j] \in Rates
      <4>1. j \in 1 .. n
          BY <1>5
      <4>2. QED BY <1>1, <1>2, <4>1
    <3>3. /\ SubSeq(rates, n - k + 1, n) \in Seq(Rates)
          /\ Len(SubSeq(rates, n - k + 1, n)) =
               IF n - k + 1 <= n THEN n - (n - k + 1) + 1 ELSE 0
          /\ \A j \in 1 .. n - (n - k + 1) + 1 :
               SubSeq(rates, n - k + 1, n)[j] = rates[(n - k + 1) + j - 1]
        BY <1>5, <3>2, SubSeqProperties
    <3>4. Len(SubSeq(rates, n - k + 1, n)) = k
          /\ \A i \in 1 .. k : SubSeq(rates, n - k + 1, n)[i] = rates[(n - k) + i]
      <4>1. n - (n - k + 1) + 1 = k /\ (n - k + 1 <= n <=> k >= 1)
            /\ \A i \in 1 .. k : (n - k + 1) + i - 1 = (n - k) + i
          OBVIOUS
      <4>2. QED BY <3>3, <4>1
    <3>5. QED BY <3>1, <3>3, <3>4
  <2>3. QED BY <2>1, <2>2
<1>7. \A i \in 1 .. k : recently[i] = reported[(m - k) + i]
  <2> SUFFICES ASSUME NEW i \in 1 .. k PROVE recently[i] = reported[(m - k) + i]
      OBVIOUS
  <2>1. PICK j \in 1 .. n : j = (n - k) + i
      BY <1>5
  <2>2. recently[i] = rates[j] /\ rates[j] = reported[(m - n) + j]
      BY <1>2, <1>6, <2>1
  <2>3. (m - n) + j = (m - k) + i
      BY <2>1
  <2>4. QED BY <2>2, <2>3
<1>8. {i \in DOMAIN reported : i > m - Recent} = m - k + 1 .. m
  <2>1. DOMAIN reported = 1 .. m
      BY <1>1, <1>2
  <2>2. QED BY <1>3, <1>4, <2>1
<1>9. Len(rates) >= Least <=> m >= Least
    BY <1>1, <1>2, <1>3
<1>10. QED BY <1>1, <1>4, <1>6, <1>7, <1>8, <1>9

\* A multiple is no less than what it is a multiple of.
LEMMA Multiples == ASSUME NEW a \in Nat, NEW k \in Nat, k >= 1 PROVE a * k >= a
<1>1. PICK b \in Nat : k = b + 1
  <2>1. k - 1 \in Nat /\ k = (k - 1) + 1
      OBVIOUS
  <2>2. QED BY <2>1
<1>2. PICK c \in Nat : c = a * b
    OBVIOUS
<1>3. a * (b + 1) = a * b + a
    OBVIOUS
<1>4. QED BY <1>1, <1>2, <1>3

\* So the mean of the window is the mean of the last reports.
LEMMA DecisionOfWindow == FallbackInv => DecisionFollowsReports
<1> SUFFICES ASSUME FallbackInv PROVE DecisionFollowsReports
    OBVIOUS
<1>1. PICK m \in Nat, k \in Nat, recently \in Seq(Rates) :
           /\ m = Len(reported) /\ k = (IF m < Recent THEN m ELSE Recent)
           /\ recently = Recently(rates) /\ Len(recently) = k
           /\ \A i \in 1 .. k : recently[i] = reported[(m - k) + i]
           /\ {i \in DOMAIN reported : i > m - Recent} = m - k + 1 .. m
           /\ Len(rates) >= Least <=> m >= Least
    BY CountedReports
<1>2. reported \in Seq(Rates) /\ (\A r \in Rates : r \in Int) /\ Threshold \in Int
      /\ MeanSlack \in Nat /\ Recent >= 1 /\ Recent \in Nat /\ Least >= 1 /\ Least \in Nat
    BY FallbackAssumption DEF FallbackInv, FallbackTypeOK
<1>3. PICK counted : counted = m - k + 1 .. m
    OBVIOUS
<1>4. k <= m
    BY <1>1, <1>2
<1>5. IsFiniteSet(counted) /\ Cardinality(counted) = k
  <2>1. m - k + 1 \in Int /\ m \in Int
      OBVIOUS
  <2>2. IsFiniteSet(counted)
        /\ Cardinality(counted) = IF m - k + 1 > m THEN 0 ELSE m - (m - k + 1) + 1
      BY <1>3, <2>1, FS_Interval
  <2>3. QED BY <2>2
<1>6. \A i \in counted : reported[i] \in Int
  <2>1. \A i \in counted : i \in 1 .. m
      BY <1>3, <1>4
  <2>2. \A i \in 1 .. m : reported[i] \in Rates
      BY <1>1, <1>2
  <2>3. QED BY <1>2, <2>1, <2>2
<1>7. SumOver(reported, counted) = SumOf(recently)
  <2>1. DOMAIN recently = 1 .. k
      BY <1>1
  <2>2. SumOf(recently) = SumOver(recently, 1 .. k)
      BY <2>1 DEF SumOf, SumOver, FoldSeq, FoldFunction
  <2>3. Summable(recently, 1 .. k)
    <3>1. IsFiniteSet(1 .. k)
        BY FS_Interval
    <3>2. \A i \in 1 .. k : recently[i] \in Int
      <4>1. \A i \in 1 .. k : recently[i] \in Rates
          BY <1>1
      <4>2. QED BY <1>2, <4>1
    <3>3. QED BY <3>1, <3>2 DEF Summable
  <2> DEFINE to == [i \in 1 .. k |-> (m - k) + i]
  <2>4. to \in [1 .. k -> counted]
      BY <1>3, <1>4
  <2>5. \A j \in counted : \E i \in 1 .. k : j = to[i]
    <3>1. \A j \in counted : j - (m - k) \in 1 .. k /\ j = (m - k) + (j - (m - k))
        BY <1>3, <1>4
    <3>2. QED BY <3>1
  <2>6. \A i, j \in 1 .. k : to[i] = to[j] => i = j
      OBVIOUS
  <2>7. \A i \in 1 .. k : reported[to[i]] = recently[i]
      BY <1>1
  <2> HIDE DEF to
  <2>8. SumOver(recently, 1 .. k) = SumOver(reported, counted)
      BY <1>5, <2>3, <2>4, <2>5, <2>6, <2>7, SumCarried
  <2>9. QED BY <2>2, <2>8
<1>8. PICK total \in Int :
        /\ total = SumOver(reported, counted)
        /\ (\A i \in counted : reported[i] < Threshold - MeanSlack) =>
             total + k <= (Threshold - MeanSlack) * k
        /\ (\A i \in counted : reported[i] >= Threshold + MeanSlack + 1) =>
             total >= (Threshold + MeanSlack + 1) * k
  <2>1. Summable(reported, counted)
      BY <1>5, <1>6 DEF Summable
  <2>2. Threshold - MeanSlack \in Int /\ Threshold + MeanSlack + 1 \in Int
      BY <1>2
  <2>3. SumOver(reported, counted) \in Int
      BY <1>2, <2>1, SumBounds
  <2>4. (\A x \in counted : reported[x] < Threshold - MeanSlack) =>
          SumOver(reported, counted) + Cardinality(counted)
            <= (Threshold - MeanSlack) * Cardinality(counted)
      BY <2>1, <2>2, SumBounds
  <2>5. (\A x \in counted : reported[x] >= Threshold + MeanSlack + 1) =>
          SumOver(reported, counted) >= (Threshold + MeanSlack + 1) * Cardinality(counted)
      BY <2>1, <2>2, SumBounds
  <2>6. QED BY <1>5, <2>3, <2>4, <2>5
<1>9. PICK gap \in Int : gap = total - Threshold * k
    BY <1>2
<1>10. /\ ShouldActivateMesh => m >= Least
       /\ m >= Least /\ gap \notin -MeanSlack .. MeanSlack => (ShouldActivateMesh <=> gap < 0)
  <2>1. Gap = gap
      BY <1>1, <1>7, <1>8, <1>9 DEF Gap
  <2>2. QED BY <1>1, <2>1 DEF ShouldActivateMesh
<1>11. k >= 1 => MeanSlack * k >= MeanSlack
    BY <1>2, Multiples
<1>12. ASSUME m >= Least, \A i \in counted : reported[i] < Threshold - MeanSlack
       PROVE  ShouldActivateMesh
  <2>1. k >= 1
      BY <1>1, <1>2, <1>12
  <2>2. total + k <= (Threshold - MeanSlack) * k
      BY <1>8, <1>12
  <2>3. (Threshold - MeanSlack) * k = Threshold * k - MeanSlack * k
      BY <1>2
  <2>4. PICK p \in Int, q \in Int : p = Threshold * k /\ q = MeanSlack * k
      BY <1>2
  <2>5. gap < -MeanSlack
      BY <1>2, <1>9, <1>11, <2>1, <2>2, <2>3, <2>4
  <2>6. gap \notin -MeanSlack .. MeanSlack /\ gap < 0
      BY <1>2, <2>5
  <2>7. QED BY <1>10, <1>12, <2>6
<1>13. ASSUME \A i \in counted : reported[i] > Threshold + MeanSlack, ShouldActivateMesh
       PROVE  FALSE
  <2>1. m >= Least
      BY <1>10, <1>13
  <2>2. k >= 1
      BY <1>1, <1>2, <2>1
  <2>3. \A i \in counted : reported[i] >= Threshold + MeanSlack + 1
      BY <1>2, <1>6, <1>13
  <2>4. total >= (Threshold + MeanSlack + 1) * k
      BY <1>8, <2>3
  <2>5. (Threshold + MeanSlack + 1) * k = Threshold * k + MeanSlack * k + k
      BY <1>2
  <2>6. PICK p \in Int, q \in Int : p = Threshold * k /\ q = MeanSlack * k
      BY <1>2
  <2>7. gap > MeanSlack
      BY <1>2, <1>9, <1>11, <2>2, <2>4, <2>5, <2>6
  <2>8. gap \notin -MeanSlack .. MeanSlack /\ ~(gap < 0)
      BY <1>2, <2>7
  <2>9. QED BY <1>10, <1>13, <2>1, <2>8
<1>14. /\ Len(reported) = m
       /\ {i \in DOMAIN reported : i > Len(reported) - Recent} = counted
    BY <1>1, <1>3
<1>15. total = FoldFunctionOnSet(LAMBDA r, sum : r + sum, 0, reported, counted)
    BY <1>8 DEF SumOver
<1>16. gap = FoldFunctionOnSet(LAMBDA r, sum : r + sum, 0, reported, counted)
               - Threshold * Cardinality(counted)
    BY <1>5, <1>9, <1>15
<1>17. QED BY <1>10, <1>12, <1>13, <1>14, <1>16 DEF DecisionFollowsReports

\* The fallback is decided by the last reports there have been, over the average
\* of their rates, and by nothing that the window has let go, except where that
\* average is so near the threshold that rounding decides, however it does
\* (mesh_bridge.py:96-107).
THEOREM DecisionsFollowReports == FallbackSpec => []DecisionFollowsReports
BY WindowHoldsLatest, DecisionOfWindow, PTL DEF FallbackInv

----------------------------------------------------------------------------
(***************************************************************************)
(* The audit database: a reset empties all the tables it was asked for, or *)
(* none, for any schema and requests and however many runs meet.           *)
(***************************************************************************)
\* What a run in state r may have deleted: a reset, the tables it was asked
\* for and has seen to; another run, none.  An init has only tables before it.
MayHaveDeleted(r, deleted) ==
  /\ deleted \subseteq r.asked
  /\ r.cmd # "reset" => deleted = {}
  /\ r.cmd = "init" => ToSet(r.todo) \subseteq Tables
  /\ r.cmd = "reset" => /\ r.asked \ deleted \subseteq ToSet(r.todo)
                        /\ ToSet(r.todo) \cap Tables \subseteq r.asked

DeletesWhatWasAsked ==
  \A o \in Operators :
    cleared[o] \subseteq DOMAIN tables /\ MayHaveDeleted(run[o], cleared[o])

DbInv == DbTypeOK /\ DeletesWhatWasAsked

TablesOK(all) == /\ DOMAIN all \subseteq Tables
                 /\ \A t \in DOMAIN all : all[t] \in 0 .. MaxRows

LEMMA IdleRun == Idle \in Run /\ MayHaveDeleted(Idle, {})
  BY <<>> \in Seq(Tables \cup {Unknown}) DEF Idle, Run, MayHaveDeleted

LEMMA InitDbInv == DbInit => DbInv
<1> SUFFICES ASSUME DbInit PROVE DbInv
    OBVIOUS
<1>1. DOMAIN tables = {}
    BY DEF DbInit
<1>2. DbTypeOK
    BY <1>1, IdleRun DEF DbInit, DbTypeOK
<1>3. QED BY <1>2, IdleRun DEF DbInit, DbInv, DeletesWhatWasAsked

\* The elements of a list are its first and those of the rest.
LEMMA ToSetTail ==
  ASSUME NEW S, NEW list \in Seq(S), list # <<>>
  PROVE  /\ Tail(list) \in Seq(S) /\ Head(list) \in S
         /\ ToSet(list) = {Head(list)} \cup ToSet(Tail(list))
<1>1. /\ Len(list) \in Nat /\ Len(list) > 0
      /\ Tail(list) \in Seq(S) /\ Len(Tail(list)) = Len(list) - 1
      /\ Head(list) \in S /\ Head(list) = list[1]
      /\ \A i \in 1 .. Len(Tail(list)) : Tail(list)[i] = list[i + 1]
    BY EmptySeq, LenProperties, HeadTailProperties
<1>2. DOMAIN list = 1 .. Len(list) /\ DOMAIN Tail(list) = 1 .. Len(Tail(list))
    BY <1>1, LenProperties
<1>3. ASSUME NEW i \in DOMAIN list PROVE list[i] \in {Head(list)} \cup ToSet(Tail(list))
  <2>1. CASE i = 1
      BY <1>1, <2>1
  <2>2. CASE i # 1
    <3>1. i - 1 \in DOMAIN Tail(list) /\ (i - 1) + 1 = i
        BY <1>1, <1>2, <2>2
    <3>2. QED BY <1>1, <1>2, <3>1 DEF ToSet
  <2>3. QED BY <2>1, <2>2
<1>4. ASSUME NEW i \in DOMAIN Tail(list) PROVE Tail(list)[i] \in ToSet(list)
  <2>1. i + 1 \in DOMAIN list
      BY <1>1, <1>2
  <2>2. QED BY <1>1, <1>2, <2>1 DEF ToSet
<1>5. Head(list) \in ToSet(list)
    BY <1>1, <1>2 DEF ToSet
<1>6. QED BY <1>1, <1>3, <1>4, <1>5 DEF ToSet

\* One operator's run changes, its own deletions with it, and no table goes.
LEMMA ChangedRun ==
  ASSUME DbInv, NEW o \in Operators, NEW r \in Run, NEW c \in SUBSET Tables,
         run' = [run EXCEPT ![o] = r], cleared' = [cleared EXCEPT ![o] = c],
         file' \in BOOLEAN, TablesOK(tables'), DOMAIN tables \subseteq DOMAIN tables',
         c \subseteq DOMAIN tables', MayHaveDeleted(r, c)
  PROVE  DbInv'
<1>1. DbTypeOK'
    BY DEF DbInv, DbTypeOK, TablesOK
<1>2. ASSUME NEW p \in Operators
      PROVE  cleared'[p] \subseteq DOMAIN tables' /\ MayHaveDeleted(run'[p], cleared'[p])
  <2>1. CASE p = o
    <3>1. run'[p] = r /\ cleared'[p] = c
        BY <2>1 DEF DbInv, DbTypeOK
    <3>2. QED BY <3>1
  <2>2. CASE p # o
    <3>1. run'[p] = run[p] /\ cleared'[p] = cleared[p]
        BY <2>2 DEF DbInv, DbTypeOK
    <3>2. QED BY <3>1 DEF DbInv, DeletesWhatWasAsked
  <2>3. QED BY <2>1, <2>2
<1>3. DeletesWhatWasAsked'
    BY <1>2 DEF DeletesWhatWasAsked
<1>4. QED BY <1>1, <1>3 DEF DbInv

\* A run that starts has deleted nothing.
LEMMA StartDbInv ==
  ASSUME DbInv, NEW o \in Operators,
         StartInit(o) \/ \E names \in Requests : StartReset(o, names)
  PROVE  DbInv'
<1>1. /\ cleared[o] = {} /\ UNCHANGED <<tables, cleared>>
      /\ TablesOK(tables') /\ DOMAIN tables \subseteq DOMAIN tables'
    BY DEF DbInv, DbTypeOK, DeletesWhatWasAsked, MayHaveDeleted,
           StartInit, StartReset, TablesOK
<1>2. cleared' = [cleared EXCEPT ![o] = {}] /\ {} \in SUBSET Tables
    BY <1>1 DEF DbInv, DbTypeOK
<1>3. CASE StartInit(o)
  <2> DEFINE r == [cmd |-> "init", todo |-> Schema, asked |-> Tables]
  <2>1. Schema \in Seq(Tables \cup {Unknown})
      BY SchemaAssumption
  <2>2. r \in Run /\ MayHaveDeleted(r, {})
      BY <2>1 DEF Run, MayHaveDeleted, Tables
  <2>3. file' \in BOOLEAN /\ run' = [run EXCEPT ![o] = r]
      BY <1>3 DEF StartInit
  <2> HIDE DEF r
  <2>4. QED BY <1>1, <1>2, <2>2, <2>3, ChangedRun
<1>4. ASSUME NEW names \in Requests, StartReset(o, names) PROVE DbInv'
  <2> DEFINE r == [cmd |-> "reset", todo |-> names, asked |-> ToSet(names) \cap Tables]
  <2>1. names \in Seq(Tables \cup {Unknown})
      BY SchemaAssumption
  <2>2. r \in Run /\ MayHaveDeleted(r, {})
      BY <2>1 DEF Run, MayHaveDeleted
  <2>3. file' \in BOOLEAN /\ run' = [run EXCEPT ![o] = r]
      BY <1>4 DEF StartReset, DbInv, DbTypeOK
  <2> HIDE DEF r
  <2>4. QED BY <1>1, <1>2, <2>2, <2>3, ChangedRun
<1>5. QED BY <1>3, <1>4

\* A run that has seen to the first of its tables: what it had deleted, what is
\* left of it, and the table.
LEMMA SeenTo ==
  ASSUME DbInv, NEW o \in Operators, run[o].todo # <<>>,
         run' = [run EXCEPT ![o].todo = Tail(@)]
  PROVE  \E old \in Run, r \in Run, had \in SUBSET Tables, t \in Tables \cup {Unknown} :
           /\ old = run[o] /\ t = Head(run[o].todo) /\ had = cleared[o]
           /\ run' = [run EXCEPT ![o] = r]
           /\ r.cmd = old.cmd /\ r.asked = old.asked
           /\ ToSet(old.todo) = {t} \cup ToSet(r.todo)
           /\ had \subseteq DOMAIN tables /\ MayHaveDeleted(old, had)
<1>1. PICK old \in Run, had \in SUBSET Tables : old = run[o] /\ had = cleared[o]
    BY DEF DbInv, DbTypeOK
<1>2. /\ old.todo \in Seq(Tables \cup {Unknown}) /\ old.todo # <<>>
      /\ old = [cmd |-> old.cmd, todo |-> old.todo, asked |-> old.asked]
    BY <1>1 DEF Run
<1>3. /\ Tail(old.todo) \in Seq(Tables \cup {Unknown})
      /\ Head(old.todo) \in Tables \cup {Unknown}
      /\ ToSet(old.todo) = {Head(old.todo)} \cup ToSet(Tail(old.todo))
    BY <1>2, ToSetTail
<1>4. PICK rest \in Seq(Tables \cup {Unknown}), t \in Tables \cup {Unknown} :
        /\ rest = Tail(old.todo) /\ t = Head(old.todo)
        /\ ToSet(old.todo) = {t} \cup ToSet(rest)
    BY <1>3
<1>5. PICK r \in Run : r = [cmd |-> old.cmd, todo |-> rest, asked |-> old.asked]
    BY <1>2, <1>4 DEF Run
<1>6. r.cmd = old.cmd /\ r.asked = old.asked /\ r.todo = rest
    BY <1>5
<1>7. run' = [run EXCEPT ![o] = r]
  <2>1. run' = [run EXCEPT ![o] = [old EXCEPT !.todo = rest]]
      BY <1>1, <1>4
  <2>2. [old EXCEPT !.todo = rest] = r
      BY <1>2, <1>5
  <2>3. QED BY <2>1, <2>2
<1>8. had \subseteq DOMAIN tables /\ MayHaveDeleted(old, had)
    BY <1>1 DEF DbInv, DeletesWhatWasAsked
<1>9. t = Head(run[o].todo)
    BY <1>1, <1>4
<1>10. QED BY <1>1, <1>4, <1>6, <1>7, <1>8, <1>9

\* One table of an init or a reset is seen to.
LEMMA StepDbInv ==
  ASSUME DbInv, NEW o \in Operators,
         CreateTable(o) \/ SkipTable(o) \/ DeleteRows(o)
  PROVE  DbInv'
<1>1. run[o].todo # <<>> /\ run' = [run EXCEPT ![o].todo = Tail(@)] /\ file' = file
    BY DEF CreateTable, SkipTable, DeleteRows, Resetting
<1>2. PICK old \in Run, r \in Run, had \in SUBSET Tables, t \in Tables \cup {Unknown} :
        /\ old = run[o] /\ t = Head(run[o].todo) /\ had = cleared[o]
        /\ run' = [run EXCEPT ![o] = r]
        /\ r.cmd = old.cmd /\ r.asked = old.asked
        /\ ToSet(old.todo) = {t} \cup ToSet(r.todo)
        /\ had \subseteq DOMAIN tables /\ MayHaveDeleted(old, had)
    BY <1>1, SeenTo
<1>3. file' \in BOOLEAN /\ TablesOK(tables)
    BY <1>1 DEF DbInv, DbTypeOK, TablesOK
<1>4. CASE CreateTable(o)
  <2>1. old.cmd = "init" /\ tables' = Created(t) /\ cleared' = cleared
      BY <1>2, <1>4 DEF CreateTable
  <2>2. had = {} /\ MayHaveDeleted(r, had)
      BY <1>2, <2>1 DEF MayHaveDeleted
  <2>3. t \in Tables
      BY <1>2, <2>1 DEF MayHaveDeleted
  <2>4. TablesOK(tables') /\ DOMAIN tables \subseteq DOMAIN tables'
      BY <1>3, <2>1, <2>3, SchemaAssumption DEF TablesOK, Created
  <2>5. cleared' = [cleared EXCEPT ![o] = had]
      BY <1>2, <2>1 DEF DbInv, DbTypeOK
  <2>6. had \subseteq DOMAIN tables'
      BY <2>2
  <2>7. QED BY <1>2, <1>3, <2>2, <2>4, <2>5, <2>6, ChangedRun
<1>5. CASE SkipTable(o)
  <2>1. old.cmd = "reset" /\ t \notin Tables /\ tables' = tables /\ cleared' = cleared
      BY <1>2, <1>5 DEF SkipTable, Resetting
  <2>2. cleared' = [cleared EXCEPT ![o] = had]
      BY <1>2, <2>1 DEF DbInv, DbTypeOK
  <2>3. old.asked \subseteq Tables
      BY DEF Run
  <2>4. MayHaveDeleted(r, had)
      BY <1>2, <2>1, <2>3 DEF MayHaveDeleted
  <2>5. TablesOK(tables') /\ DOMAIN tables \subseteq DOMAIN tables'
        /\ had \subseteq DOMAIN tables'
      BY <1>2, <1>3, <2>1
  <2>6. QED BY <1>2, <1>3, <2>2, <2>4, <2>5, ChangedRun
<1>6. CASE DeleteRows(o)
  <2>1. /\ old.cmd = "reset" /\ t \in DOMAIN tables /\ tables' = tables
        /\ cleared' = [cleared EXCEPT ![o] = @ \cup {t}]
      BY <1>2, <1>6 DEF DeleteRows, Resetting
  <2>2. PICK c \in SUBSET Tables : c = had \cup {t} /\ t \in Tables
    <3>1. t \in Tables
        BY <1>3, <2>1 DEF TablesOK
    <3>2. had \cup {t} \in SUBSET Tables
        BY <3>1
    <3>3. QED BY <3>1, <3>2
  <2>3. cleared' = [cleared EXCEPT ![o] = c]
      BY <1>2, <2>1, <2>2
  <2>4. MayHaveDeleted(r, c)
      BY <1>2, <2>1, <2>2 DEF MayHaveDeleted
  <2>5. TablesOK(tables') /\ DOMAIN tables \subseteq DOMAIN tables'
        /\ c \subseteq DOMAIN tables'
      BY <1>2, <1>3, <2>1, <2>2
  <2>6. QED BY <1>2, <1>3, <2>3, <2>4, <2>5, ChangedRun
<1>7. QED BY <1>4, <1>5, <1>6

\* A run ends, with or without what it deleted.
LEMMA EndDbInv ==
  ASSUME DbInv, NEW o \in Operators,
         EndInit(o) \/ Commit(o) \/ StatementRaises(o) \/ Killed(o)
  PROVE  DbInv'
<1>1. run' = [run EXCEPT ![o] = Idle] /\ file' = file
    BY DEF EndInit, Commit, StatementRaises, Killed
<1>2. cleared' = [cleared EXCEPT ![o] = {}]
  <2>1. CASE EndInit(o)
      BY <2>1 DEF EndInit, DbInv, DbTypeOK, DeletesWhatWasAsked, MayHaveDeleted
  <2>2. QED BY <2>1 DEF Commit, StatementRaises, Killed
<1>3. TablesOK(tables') /\ DOMAIN tables' = DOMAIN tables
  <2>1. CASE Commit(o)
      BY <2>1, SchemaAssumption DEF Commit, DbInv, DbTypeOK, TablesOK
  <2>2. QED BY <2>1 DEF EndInit, StatementRaises, Killed, DbInv, DbTypeOK, TablesOK
<1>4. file' \in BOOLEAN
    BY <1>1 DEF DbInv, DbTypeOK
<1>5. {} \in SUBSET Tables /\ {} \subseteq DOMAIN tables' /\ DOMAIN tables \subseteq DOMAIN tables'
    BY <1>3
<1>6. QED BY <1>1, <1>2, <1>3, <1>4, <1>5, IdleRun, ChangedRun

LEMMA NextDbInv == DbInv /\ [DbNext]_dbVars => DbInv'
<1> SUFFICES ASSUME DbInv, [DbNext]_dbVars PROVE DbInv'
    OBVIOUS
<1>1. ASSUME NEW o \in Operators,
             \/ StartInit(o) \/ CreateTable(o) \/ EndInit(o)
             \/ \E names \in Requests : StartReset(o, names)
             \/ SkipTable(o) \/ DeleteRows(o) \/ Commit(o)
             \/ StatementRaises(o) \/ Killed(o)
      PROVE  DbInv'
    BY <1>1, StartDbInv, StepDbInv, EndDbInv
<1>2. ASSUME NEW t \in Tables, InsertRow(t) PROVE DbInv'
  <2>1. /\ DOMAIN tables' = DOMAIN tables /\ UNCHANGED <<file, run, cleared>>
        /\ \A u \in DOMAIN tables : tables'[u] \in 0 .. MaxRows
      BY <1>2, SchemaAssumption DEF InsertRow, DbInv, DbTypeOK
  <2>2. QED BY <2>1 DEF DbInv, DbTypeOK, DeletesWhatWasAsked
<1>3. CASE UNCHANGED dbVars
    BY <1>3 DEF dbVars, DbInv, DbTypeOK, DeletesWhatWasAsked
<1>4. QED BY <1>1, <1>2, <1>3 DEF DbNext

\* The invariant holds in every reachable state.
THEOREM DbInvariance == DbSpec => []DbInv
  BY InitDbInv, NextDbInv, PTL DEF DbSpec

\* Type correctness of the audit database.
THEOREM DbTypeCorrect == DbSpec => []DbTypeOK
<1>1. DbInv => DbTypeOK
    BY DEF DbInv
<1>2. QED BY DbInvariance, <1>1, PTL

\* Whatever runs meet, raise or are killed, rows go only when a reset has
\* emptied all it was asked to (db_admin.py:96-107).
THEOREM ResetsAreAllOrNothing == DbSpec => ResetIsAllOrNothing
<1> DEFINE Emptied(t) ==
      \E o \in Operators : /\ run[o].cmd = "reset" /\ t \in run[o].asked
                           /\ \A u \in run[o].asked :
                                u \in DOMAIN tables /\ tables'[u] = 0
<1>1. DbInv /\ [DbNext]_dbVars =>
        [\A t \in DOMAIN tables : tables'[t] < tables[t] => Emptied(t)]_dbVars
  <2> SUFFICES ASSUME DbInv, DbNext,
                      NEW t \in DOMAIN tables, tables'[t] < tables[t]
               PROVE  Emptied(t)
      OBVIOUS
  <2> HIDE DEF Emptied
  <2>1. \A u \in DOMAIN tables : tables[u] \in Nat
      BY SchemaAssumption DEF DbInv, DbTypeOK
  <2>2. tables' # tables
      BY <2>1
  <2>3. ASSUME NEW o \in Operators, CreateTable(o) PROVE FALSE
    <3>1. \A u \in DOMAIN tables : tables'[u] = tables[u]
        BY <2>3 DEF CreateTable, Created
    <3>2. QED BY <2>1, <3>1
  <2>4. ASSUME NEW u \in Tables, InsertRow(u) PROVE FALSE
    <3>1. tables'[t] = tables[t] \/ tables'[t] = tables[t] + 1
        BY <2>1, <2>4 DEF InsertRow
    <3>2. QED BY <2>1, <3>1
  <2>5. PICK o \in Operators : Commit(o)
      BY <2>2, <2>3, <2>4 DEF DbNext, StartInit, EndInit, StartReset, SkipTable,
                              DeleteRows, StatementRaises, Killed
  <2>6. /\ run[o].cmd = "reset" /\ run[o].todo = <<>>
        /\ tables' = [u \in DOMAIN tables |-> IF u \in cleared[o] THEN 0 ELSE tables[u]]
      BY <2>5 DEF Commit
  <2>7. ToSet(<<>>) = {}
      BY DEF ToSet
  <2>8. /\ cleared[o] \subseteq run[o].asked /\ cleared[o] \subseteq DOMAIN tables
        /\ run[o].asked \subseteq cleared[o]
      BY <2>6, <2>7 DEF DbInv, DeletesWhatWasAsked, MayHaveDeleted
  <2>9. t \in cleared[o]
      BY <2>1, <2>6
  <2>10. QED BY <2>6, <2>8, <2>9 DEF Emptied
<1>2. QED BY <1>1, DbInvariance, PTL DEF DbSpec, ResetIsAllOrNothing

----------------------------------------------------------------------------
(***************************************************************************)
(* Zones.  A ray from a point crosses the edges whose ends are on either   *)
(* side of it; the geometry of one edge, of a triangle, of a zone.         *)
(***************************************************************************)
ZoneInv ==
  /\ text \in Texts \cup {NoText}
  /\ polygon = IF text = NoText THEN Invalid ELSE Strict(text)

\* The polygon is what the strict reader makes of the text.
LEMMA ZoneInvariance == ZoneSpec => []ZoneInv
<1>1. ZoneInit => ZoneInv
    BY DEF ZoneInit, ZoneInv
<1>2. ZoneInv /\ [ZoneNext]_zoneVars => ZoneInv'
    BY TextsAssumption DEF ZoneNext, ReadZone, NextZone, ZoneInv, zoneVars
<1>3. QED BY <1>1, <1>2, PTL DEF ZoneSpec

\* A zone that is understood is its text, to either reader.
LEMMA UnderstoodZone ==
  ASSUME ZoneInv, Understood
  PROVE  \E n \in Nat : \E poly \in [1 .. n -> Point] :
           /\ poly \in Seq(Point) /\ Len(poly) = n
           /\ polygon = poly /\ Lenient(text) = poly
           /\ \A i \in 1 .. n : InRange(poly[i])
<1>1. text \in Texts /\ polygon = text
      /\ ~ \E i \in DOMAIN text : text[i] = Garbled \/ ~InRange(text[i])
    BY DEF ZoneInv, Understood, Strict
<1>2. text \in Seq(Point \cup {Garbled})
    BY <1>1, TextsAssumption
<1>3. PICK n \in Nat : n = Len(text) /\ DOMAIN text = 1 .. n
    BY <1>2, LenProperties
<1>4. \A i \in 1 .. n : text[i] \in Point \cup {Garbled}
    BY <1>2, <1>3
<1>5. \A i \in 1 .. n : text[i] \in Point /\ InRange(text[i]) /\ text[i] # Garbled
    BY <1>1, <1>3, <1>4
<1>6. text \in [1 .. n -> Point]
  <2>1. text = [i \in 1 .. n |-> text[i]]
      BY <1>2, <1>3
  <2>2. QED BY <1>5, <2>1
<1>7. text \in Seq(Point)
    BY <1>6, IsASeq
<1>8. \A i \in 1 .. Len(text) : text[i] \in ToSet(text) \ {Garbled}
    BY <1>3, <1>5 DEF ToSet
<1>9. Lenient(text) = text
    BY <1>7, <1>8, KeepAllOf DEF Lenient
<1>10. QED BY <1>1, <1>3, <1>5, <1>6, <1>7, <1>9

\* A polygon that is understood has vertices in range only (geo.py:16-28,
\* 70-78).
THEOREM ZonesTypeCorrect == ZoneSpec => []ZoneTypeOK
<1>1. ZoneInv => ZoneTypeOK
    BY DEF ZoneInv, ZoneTypeOK, Strict
<1>2. QED BY <1>1, ZoneInvariance, PTL

----------------------------------------------------------------------------
\* The edges that the ray from p crosses.
Crossed(poly, p) == {i \in DOMAIN poly : Crosses(p, poly[i], Before(poly, i))}

\* A zone contains a point when the ray from it crosses an odd number of edges.
LEMMA ContainsByCrossed ==
  ASSUME NEW poly, NEW p
  PROVE  ContainsPoint(poly, p) = (Cardinality(Crossed(poly, p)) % 2 = 1)
BY DEF ContainsPoint, Quantify, Crossed

\* An edge has a point on its other side when it is turned round, and is as near.
LEMMA EdgeTurned ==
  ASSUME NEW p \in Point, NEW a \in Point, NEW b \in Point
  PROVE  /\ Side(p, a, b) \in Int /\ Side(p, b, a) = -Side(p, a, b)
         /\ Straddles(p, a, b) <=> ~(a.lat > p.lat <=> b.lat > p.lat)
         /\ NearEdge(p, a, b) <=> NearEdge(p, b, a)
<1>1. PICK px \in Int, py \in Int, ax \in Int, ay \in Int, bx \in Int, by \in Int :
        p.lon = px /\ p.lat = py /\ a.lon = ax /\ a.lat = ay /\ b.lon = bx /\ b.lat = by
    BY DEF Point
<1>2. PICK s \in Int, t \in Int :
        /\ s = (bx - ax) * (py - ay) - (by - ay) * (px - ax)
        /\ t = (ax - bx) * (py - by) - (ay - by) * (px - bx)
    OBVIOUS
<1>3. t = -s
    BY <1>2
<1>4. Side(p, a, b) = s /\ Side(p, b, a) = t
    BY <1>1, <1>2 DEF Side
<1>5. /\ Straddles(p, a, b) <=> ~(ay > py <=> by > py)
      /\ Straddles(p, b, a) <=> ~(by > py <=> ay > py)
    BY <1>1 DEF Straddles
<1>6. PICK k \in Int, m \in Int :
        /\ k = EdgeSlack * (IF by > ay THEN by - ay ELSE ay - by)
        /\ m = EdgeSlack * (IF ay > by THEN ay - by ELSE by - ay)
    BY TextsAssumption
<1>7. NearEdge(p, a, b) <=> Straddles(p, a, b) /\ ax # bx /\ s \in -k .. k
    BY <1>1, <1>4, <1>6 DEF NearEdge
<1>8. NearEdge(p, b, a) <=> Straddles(p, b, a) /\ bx # ax /\ t \in -m .. m
    BY <1>1, <1>4, <1>6 DEF NearEdge
<1>9. Straddles(p, a, b) => k = m
  <2>1. CASE by > ay
    <3>1. ~(ay > by)
        BY <2>1
    <3>2. QED BY <1>6, <2>1, <3>1
  <2>2. CASE ay > by
    <3>1. ~(by > ay)
        BY <2>2
    <3>2. QED BY <1>6, <2>2, <3>1
  <2>3. CASE ay = by
      BY <1>5, <2>3
  <2>4. QED BY <2>1, <2>2, <2>3
<1>10. s \in -k .. k <=> t \in -k .. k
    BY <1>3
<1>11. NearEdge(p, a, b) <=> NearEdge(p, b, a)
    BY <1>5, <1>7, <1>8, <1>9, <1>10
<1>12. QED BY <1>1, <1>3, <1>4, <1>5, <1>11

\* What one edge says of the point, where rounding does not decide.
LEMMA CrossedEdge ==
  ASSUME NEW p \in Point, NEW a \in Point, NEW b \in Point
  PROVE  /\ Crosses(p, a, b) \in BOOLEAN
         /\ Crosses(p, a, b) => ~(a.lat > p.lat <=> b.lat > p.lat)
         /\ ~NearEdge(p, a, b) =>
              /\ Crosses(p, a, b) <=> Crosses(p, b, a)
              /\ Crosses(p, a, b) => a.lon >= p.lon \/ b.lon >= p.lon
              /\ a.lon > p.lon /\ b.lon > p.lon =>
                   (Crosses(p, a, b) <=> ~(a.lat > p.lat <=> b.lat > p.lat))
<1>1. PICK px \in Int, py \in Int, ax \in Int, ay \in Int, bx \in Int, by \in Int :
        p.lon = px /\ p.lat = py /\ a.lon = ax /\ a.lat = ay /\ b.lon = bx /\ b.lat = by
    BY DEF Point
<1>2. /\ Crosses(p, a, b) \in BOOLEAN /\ Crosses(p, b, a) \in BOOLEAN
      /\ Crosses(p, a, b) => ~(ay > py <=> by > py)
    BY <1>1 DEF Crosses, Straddles
<1>3. PICK s \in Int : s = Side(p, a, b) /\ -s = Side(p, b, a)
    BY EdgeTurned
<1>4. ~NearEdge(p, a, b) =>
        (Crosses(p, a, b) <=> ~(ay > py <=> by > py) /\ IF by > ay THEN s > 0 ELSE s < 0)
    BY <1>1, <1>3 DEF Crosses, Straddles, West
<1>5. ~NearEdge(p, a, b) =>
        (Crosses(p, b, a) <=> ~(by > py <=> ay > py) /\ IF ay > by THEN -s > 0 ELSE -s < 0)
  <2>1. ~NearEdge(p, a, b) => ~NearEdge(p, b, a)
      BY EdgeTurned
  <2>2. QED BY <1>1, <1>3, <2>1 DEF Crosses, Straddles, West
<1>6. ~NearEdge(p, a, b) => (Crosses(p, a, b) <=> Crosses(p, b, a))
    BY <1>2, <1>4, <1>5
<1>7. PICK u \in Int, v \in Int : u = (px - ax) * (by - ay) /\ v = (bx - ax) * (py - ay)
    OBVIOUS
<1>8. s = v - u
  <2>1. s = (bx - ax) * (py - ay) - (by - ay) * (px - ax)
      BY <1>1, <1>3 DEF Side
  <2>2. (by - ay) * (px - ax) = (px - ax) * (by - ay)
      OBVIOUS
  <2>3. QED BY <1>7, <2>1, <2>2
<1>9. ax < px /\ bx < px /\ ay <= py /\ py < by =>
        ~((px - ax) * (by - ay) < (bx - ax) * (py - ay))
    OBVIOUS
<1>10. ax < px /\ bx < px /\ by <= py /\ py < ay =>
         ~((px - ax) * (by - ay) > (bx - ax) * (py - ay))
    OBVIOUS
<1>11. ax > px /\ bx > px /\ ay <= py /\ py < by =>
         (px - ax) * (by - ay) < (bx - ax) * (py - ay)
    OBVIOUS
<1>12. ax > px /\ bx > px /\ by <= py /\ py < ay =>
         (px - ax) * (by - ay) > (bx - ax) * (py - ay)
    OBVIOUS
<1>13. ~NearEdge(p, a, b) => (Crosses(p, a, b) => ax >= px \/ bx >= px)
    BY <1>4, <1>7, <1>8, <1>9, <1>10
<1>14. ~NearEdge(p, a, b) =>
         (ax > px /\ bx > px => (Crosses(p, a, b) <=> ~(ay > py <=> by > py)))
    BY <1>4, <1>7, <1>8, <1>11, <1>12
<1>15. QED BY <1>1, <1>2, <1>6, <1>13, <1>14

----------------------------------------------------------------------------
\* How many of 1 .. m are in W.
Count(W, m) == Cardinality({i \in 1 .. m : i \in W})

\* A count grows by one for each number that is in W.
LEMMA CountStep ==
  ASSUME NEW W, NEW m \in Nat
  PROVE  /\ Count(W, 0) = 0 /\ Count(W, m) \in Nat
         /\ m + 1 \in W => Count(W, m + 1) = Count(W, m) + 1
         /\ m + 1 \notin W => Count(W, m + 1) = Count(W, m)
<1> DEFINE id == [i \in Nat |-> i]
<1>1. \A k \in Nat : Places(id, W, k) = {i \in 1 .. k : i \in W}
    BY DEF Places
<1>2. \A k \in Nat : Rank(id, W, k) = Count(W, k)
    BY <1>1 DEF Rank, Count
<1>3. id[m + 1] = m + 1
    OBVIOUS
<1> HIDE DEF id
<1>4. QED BY <1>2, <1>3, RankStep

\* Going round, there are as many ways up as down.
LEMMA EvenChanges ==
  ASSUME NEW n \in Nat, n >= 1, NEW Up, NEW W, W \subseteq 1 .. n,
         \A i \in 1 .. n - 1 : i + 1 \in W <=> ~(i + 1 \in Up <=> i \in Up),
         1 \in W <=> ~(1 \in Up <=> n \in Up)
  PROVE  Cardinality(W) % 2 = 0
<1> DEFINE V == W \ {1}
           Fits == {k \in Nat : Count(V, k + 1) % 2 = 1 <=> ~(k + 1 \in Up <=> 1 \in Up)}
<1>1. 0 \in Fits
  <2>1. 0 + 1 = 1 /\ 0 + 1 \notin V /\ 0 \in Nat
      OBVIOUS
  <2>2. Count(V, 0 + 1) = 0
      BY <2>1, CountStep
  <2>3. Count(V, 1) % 2 = 0
      BY <2>1, <2>2
  <2>4. QED BY <2>1, <2>3
<1>2. ASSUME NEW k \in 0 .. (n - 1) - 1, k \in Fits PROVE k + 1 \in Fits
  <2>1. (k + 1) + 1 \in V <=> ~((k + 1) + 1 \in Up <=> k + 1 \in Up)
    <3>1. k + 1 \in 1 .. n - 1 /\ (k + 1) + 1 # 1
        OBVIOUS
    <3>2. QED BY <3>1
  <2>2. PICK c \in Nat, d \in Nat :
          /\ c = Count(V, k + 1) /\ d = Count(V, (k + 1) + 1)
          /\ (k + 1) + 1 \in V => d = c + 1
          /\ (k + 1) + 1 \notin V => d = c
    <3>1. k + 1 \in Nat /\ (k + 1) + 1 \in Nat
        OBVIOUS
    <3>2. Count(V, k + 1) \in Nat /\ Count(V, (k + 1) + 1) \in Nat
        BY <3>1, CountStep
    <3>3. QED BY <3>1, <3>2, CountStep
  <2>3. c % 2 = 1 <=> ~(k + 1 \in Up <=> 1 \in Up)
      BY <1>2, <2>2
  <2>4. (c + 1) % 2 = 1 <=> ~(c % 2 = 1)
      OBVIOUS
  <2>5. d % 2 = 1 <=> ~((k + 1) + 1 \in Up <=> 1 \in Up)
      BY <2>1, <2>2, <2>3, <2>4
  <2>6. QED BY <2>2, <2>5
<1> HIDE DEF Fits
<1>3. n - 1 \in Fits
  <2>1. n - 1 \in Nat
      OBVIOUS
  <2>2. QED BY <1>1, <1>2, <2>1, EveryStage
<1>4. PICK c \in Nat : c = Count(V, n) /\ (c % 2 = 1 <=> ~(n \in Up <=> 1 \in Up))
  <2>1. (n - 1) + 1 = n /\ n \in Nat
      OBVIOUS
  <2>2. Count(V, n) % 2 = 1 <=> ~(n \in Up <=> 1 \in Up)
      BY <1>3, <2>1 DEF Fits
  <2>3. Count(V, n) \in Nat
      BY CountStep
  <2>4. QED BY <2>2, <2>3
<1>5. c = Cardinality(V)
  <2>1. {i \in 1 .. n : i \in V} = V
      OBVIOUS
  <2>2. QED BY <1>4, <2>1 DEF Count
<1>6. IsFiniteSet(W)
  <2>1. IsFiniteSet(1 .. n) /\ W \in SUBSET (1 .. n)
      BY FS_Interval
  <2>2. QED BY <2>1, FS_Subset
<1>7. CASE 1 \in W
  <2>1. Cardinality(V) = Cardinality(W) - 1 /\ Cardinality(W) \in Nat
      BY <1>6, <1>7, OneLess
  <2>2. Cardinality(W) = c + 1
      BY <1>5, <2>1
  <2>3. c % 2 = 1
      BY <1>4, <1>7
  <2>4. (c + 1) % 2 = 0
      BY <2>3
  <2>5. QED BY <2>2, <2>4
<1>8. CASE 1 \notin W
  <2>1. V = W
      BY <1>8
  <2>2. ~(c % 2 = 1)
      BY <1>4, <1>8
  <2>3. c % 2 = 0
      BY <2>2
  <2>4. QED BY <1>5, <2>1, <2>3
<1>9. QED BY <1>7, <1>8

----------------------------------------------------------------------------
\* A set of numbers within bounds has a least and a greatest.
LEMMA Extremes ==
  ASSUME NEW B \in Nat, NEW S \in SUBSET (-B .. B), S # {}
  PROVE  /\ Min(S) \in S /\ Max(S) \in S
         /\ \A y \in S : Min(S) <= y /\ y <= Max(S)
<1>1. \E x \in S : \A y \in S : x <= y
  <2> DEFINE Over == {y + B : y \in S}
  <2>1. Over \in SUBSET Nat /\ Over # {}
    <3>1. \A y \in S : y + B \in Nat
        OBVIOUS
    <3>2. QED BY <3>1
  <2>2. PICK m \in Over : \A k \in Over : m <= k
      BY <2>1, LeastNumber
  <2>3. PICK x \in S : m = x + B
      BY <2>2
  <2>4. \A y \in S : y + B \in Over
      OBVIOUS
  <2>5. ASSUME NEW y \in S PROVE x <= y
    <3>1. y \in Int /\ x \in Int /\ m <= y + B
        BY <2>2, <2>4
    <3>2. QED BY <2>3, <3>1
  <2>6. QED BY <2>5
<1>2. \E x \in S : \A y \in S : x >= y
  <2> DEFINE Over == {B - y : y \in S}
  <2>1. Over \in SUBSET Nat /\ Over # {}
    <3>1. \A y \in S : B - y \in Nat
        OBVIOUS
    <3>2. QED BY <3>1
  <2>2. PICK m \in Over : \A k \in Over : m <= k
      BY <2>1, LeastNumber
  <2>3. PICK x \in S : m = B - x
      BY <2>2
  <2>4. \A y \in S : B - y \in Over
      OBVIOUS
  <2>5. ASSUME NEW y \in S PROVE x >= y
    <3>1. y \in Int /\ x \in Int /\ m <= B - y
        BY <2>2, <2>4
    <3>2. QED BY <2>3, <3>1
  <2>6. QED BY <2>5
<1>3. Min(S) \in S /\ \A y \in S : Min(S) <= y
    BY <1>1 DEF Min
<1>4. Max(S) \in S /\ \A y \in S : Max(S) >= y
    BY <1>2 DEF Max
<1>5. QED
  <2>1. \A y \in S : y \in Int
      OBVIOUS
  <2>2. QED BY <1>3, <1>4, <2>1

\* The box holds every vertex.
LEMMA BoxHoldsVertices ==
  ASSUME NEW n \in Nat \ {0}, NEW poly \in [1 .. n -> Point], \A i \in 1 .. n : InRange(poly[i])
  PROVE  /\ Box(poly).lat \in Int /\ Box(poly).toLat \in Int
         /\ Box(poly).lon \in Int /\ Box(poly).toLon \in Int
         /\ \A i \in 1 .. n :
              /\ Box(poly).lat <= poly[i].lat /\ poly[i].lat <= Box(poly).toLat
              /\ Box(poly).lon <= poly[i].lon /\ poly[i].lon <= Box(poly).toLon

<1>1. PICK lats, lons : /\ lats = {poly[i].lat : i \in 1 .. n}
                        /\ lons = {poly[i].lon : i \in 1 .. n}
    OBVIOUS
<1>2. Box(poly) = [lat |-> Min(lats), lon |-> Min(lons), toLat |-> Max(lats), toLon |-> Max(lons)]
    BY <1>1 DEF Box
<1>3. lats \in SUBSET (-MaxLat .. MaxLat) /\ lons \in SUBSET (-MaxLon .. MaxLon)
    BY <1>1 DEF InRange
<1>4. lats # {} /\ lons # {}
    BY <1>1
<1>5. /\ Min(lats) \in lats /\ Max(lats) \in lats
      /\ \A y \in lats : Min(lats) <= y /\ y <= Max(lats)
    BY <1>3, <1>4, TextsAssumption, Extremes
<1>6. /\ Min(lons) \in lons /\ Max(lons) \in lons
      /\ \A y \in lons : Min(lons) <= y /\ y <= Max(lons)
    BY <1>3, <1>4, TextsAssumption, Extremes
<1>7. \A i \in 1 .. n : poly[i].lat \in lats /\ poly[i].lon \in lons
    BY <1>1
<1>8. \A y \in lats \cup lons : y \in Int
    BY <1>3, TextsAssumption
<1>9. \E i \in 1 .. n : poly[i].lon = Min(lons)
    BY <1>1, <1>6
<1>10. QED BY <1>2, <1>5, <1>6, <1>7, <1>8, <1>9

\* The vertex before each.
LEMMA BeforeVertex ==
  ASSUME NEW n \in Nat \ {0}, NEW poly \in Seq(Point), Len(poly) = n
  PROVE  /\ \A i \in 1 .. n : \E j \in 1 .. n :
              Before(poly, i) = poly[j] /\ j = IF i = 1 THEN n ELSE i - 1
         /\ \A i \in 1 .. n : poly[i] \in Point /\ Before(poly, i) \in Point
<1>1. ASSUME NEW i \in 1 .. n
      PROVE \E j \in 1 .. n : Before(poly, i) = poly[j] /\ j = IF i = 1 THEN n ELSE i - 1
  <2>1. PICK j \in 1 .. n : j = IF i = 1 THEN n ELSE i - 1
      OBVIOUS
  <2>2. QED BY <2>1 DEF Before
<1>2. \A i \in 1 .. n : poly[i] \in Point
    OBVIOUS
<1>3. QED BY <1>1, <1>2

\* A zone that has the point, and no edge near it, is left of it, or else round it;
\* never all to its right.
LEMMA ContainedInBox ==
  ASSUME NEW n \in Nat, NEW poly \in [1 .. n -> Point], poly \in Seq(Point), Len(poly) = n,
         \A i \in 1 .. n : InRange(poly[i]),
         NEW p \in Point, Clear(poly, p), ContainsPoint(poly, p)
  PROVE  FindableBy(Box(poly), At(p))
<1>1. PICK W : W = Crossed(poly, p)
    OBVIOUS
<1>2. Cardinality(W) % 2 = 1
    BY <1>1, ContainsByCrossed
<1>3. W \subseteq 1 .. n /\ \A i \in 1 .. n : i \in W <=> Crosses(p, poly[i], Before(poly, i))
    BY <1>1 DEF Crossed
<1>4. W # {}
  <2> SUFFICES ASSUME W = {} PROVE FALSE
      OBVIOUS
  <2>1. Cardinality(W) = 0
      BY FS_EmptySet
  <2>2. 0 % 2 = 1
      BY <1>2, <2>1
  <2>3. QED BY <2>2
<1>5. n \in Nat \ {0}
  <2>1. \E i \in 1 .. n : i \in W
      BY <1>3, <1>4
  <2>2. QED BY <2>1
<1>6. PICK box : /\ box = Box(poly)
                 /\ box.lat \in Int /\ box.toLat \in Int /\ box.lon \in Int /\ box.toLon \in Int
                 /\ \A i \in 1 .. n :
                      /\ box.lat <= poly[i].lat /\ poly[i].lat <= box.toLat
                      /\ box.lon <= poly[i].lon /\ poly[i].lon <= box.toLon
    BY <1>5, BoxHoldsVertices
<1>7. PICK px \in Int, py \in Int : p.lon = px /\ p.lat = py
    BY DEF Point
<1>8. PICK i \in 1 .. n, j \in 1 .. n :
        Crosses(p, poly[i], poly[j]) /\ ~NearEdge(p, poly[i], poly[j])
  <2>1. PICK i \in 1 .. n :
          Crosses(p, poly[i], Before(poly, i)) /\ ~NearEdge(p, poly[i], Before(poly, i))
      BY <1>3, <1>4 DEF Clear
  <2>2. PICK j \in 1 .. n : Before(poly, i) = poly[j]
      BY <1>5, BeforeVertex
  <2>3. QED BY <2>1, <2>2
<1>9. PICK ax \in Int, ay \in Int, bx \in Int, by \in Int :
        poly[i].lon = ax /\ poly[i].lat = ay /\ poly[j].lon = bx /\ poly[j].lat = by
  <2>1. poly[i] \in Point /\ poly[j] \in Point
      OBVIOUS
  <2>2. QED BY <2>1 DEF Point
<1>10. ~(ay > py <=> by > py) /\ (ax >= px \/ bx >= px)
  <2>1. poly[i] \in Point /\ poly[j] \in Point
      OBVIOUS
  <2>2. QED BY <1>7, <1>8, <1>9, <2>1, CrossedEdge
<1>11. box.lat <= py /\ py < box.toLat /\ px <= box.toLon
  <2>1. /\ box.lat <= ay /\ ay <= box.toLat /\ box.lat <= by /\ by <= box.toLat
        /\ ax <= box.toLon /\ bx <= box.toLon
      BY <1>6, <1>9
  <2>2. QED BY <1>6, <1>10, <2>1
<1>12. box.lon <= px
  <2> SUFFICES ASSUME px < box.lon PROVE FALSE
      BY <1>6
  <2>1. \A k \in 1 .. n : poly[k] \in Point /\ poly[k].lon > px
    <3>1. ASSUME NEW k \in 1 .. n PROVE poly[k] \in Point /\ poly[k].lon > px
      <4>1. poly[k] \in Point
          OBVIOUS
      <4>2. poly[k].lon \in Int
          BY <4>1 DEF Point
      <4>3. box.lon <= poly[k].lon
          BY <1>6
      <4>4. QED BY <1>6, <4>1, <4>2, <4>3
    <3>2. QED BY <3>1
  <2>2. PICK Up : Up = {k \in 1 .. n : poly[k].lat > py}
      OBVIOUS
  <2>3. \A k \in 1 .. n, l \in 1 .. n :
          ~NearEdge(p, poly[k], poly[l]) =>
            (Crosses(p, poly[k], poly[l]) <=> ~(k \in Up <=> l \in Up))
      BY <1>7, <2>1, <2>2, CrossedEdge
  <2>4. \A k \in 1 .. n - 1 : k + 1 \in W <=> ~(k + 1 \in Up <=> k \in Up)
    <3>1. ASSUME NEW k \in 1 .. n - 1 PROVE k + 1 \in W <=> ~(k + 1 \in Up <=> k \in Up)
      <4>1. k + 1 \in 1 .. n /\ k \in 1 .. n /\ k + 1 # 1 /\ (k + 1) - 1 = k
          OBVIOUS
      <4>2. Before(poly, k + 1) = poly[k] /\ ~NearEdge(p, poly[k + 1], poly[k])
          BY <4>1 DEF Before, Clear
      <4>3. QED BY <1>3, <2>3, <4>1, <4>2
    <3>2. QED BY <3>1
  <2>5. 1 \in W <=> ~(1 \in Up <=> n \in Up)
    <3>1. 1 \in 1 .. n /\ n \in 1 .. n
        BY <1>5
    <3>2. Before(poly, 1) = poly[n] /\ ~NearEdge(p, poly[1], poly[n])
        BY <3>1 DEF Before, Clear
    <3>3. QED BY <1>3, <2>3, <3>1, <3>2
  <2>6. Cardinality(W) % 2 = 0
    <3>1. n \in Nat /\ n >= 1
        BY <1>5
    <3>2. QED BY <1>3, <2>4, <2>5, <3>1, EvenChanges
  <2>7. QED BY <1>2, <2>6
<1>13. HasGeo(box)
    BY <1>6, <1>11 DEF HasGeo
<1>14. QED BY <1>6, <1>7, <1>11, <1>12, <1>13 DEF FindableBy, At

\* The recipients in a zone are found through the zone's box, for all polygons of
\* any number of vertices, all but those that rounding decides on: the box holds every vertex, a zone that has the point
\* cannot be all west or all east of it, and a box of zeros alone has no inside
\* (geo.py:42-61, 70-78, parser.py:155-163, alert_cache.py:41-46, 166-176).
THEOREM RecipientsFound == ZoneSpec => []RecipientsAreFound
<1>1. ZoneInv => RecipientsAreFound
  <2> SUFFICES ASSUME ZoneInv, Understood, NEW p \in Recipients,
                      Clear(polygon, p), ContainsPoint(Lenient(text), p)
               PROVE  FindableBy(Box(polygon), At(p))
      BY DEF RecipientsAreFound
  <2>1. PICK n \in Nat : \E poly \in [1 .. n -> Point] :
           /\ poly \in Seq(Point) /\ Len(poly) = n
           /\ polygon = poly /\ Lenient(text) = poly
           /\ \A i \in 1 .. n : InRange(poly[i])
      BY UnderstoodZone
  <2>2. p \in Point
      BY TextsAssumption
  <2>3. QED BY <2>1, <2>2, ContainedInBox
<1>2. QED BY <1>1, ZoneInvariance, PTL

----------------------------------------------------------------------------
\* Zones whose crossed edges correspond have as many.
Matched(to, m, V, W) ==
  /\ m \in Nat /\ V \subseteq 1 .. m
  /\ \A i \in V : to[i] \in W
  /\ \A j \in W : \E i \in V : j = to[i]
  /\ \A i, k \in V : to[i] = to[k] => i = k

LEMMA SameCrossings ==
  ASSUME NEW m, NEW V, NEW W, NEW to, Matched(to, m, V, W)
  PROVE  Cardinality(W) = Cardinality(V)
<1> USE DEF Matched
<1>1. IsFiniteSet(V)
  <2>1. IsFiniteSet(1 .. m) /\ V \in SUBSET (1 .. m)
      BY FS_Interval
  <2>2. QED BY <2>1, FS_Subset
<1>2. PICK on \in [V -> W] : \A i \in V : on[i] = to[i]
  <2>1. [i \in V |-> to[i]] \in [V -> W]
      OBVIOUS
  <2>2. QED BY <2>1
<1>3. \A j \in W : \E i \in V : j = on[i]
    BY <1>2
<1>4. \A i, k \in V : on[i] = on[k] => i = k
    BY <1>2
<1>5. QED BY <1>1, <1>3, <1>4, SameSize

\* The same zone begun at its second vertex.
LEMMA ZoneTurned ==
  ASSUME NEW n \in Nat \ {0}, NEW poly \in Seq(Point), Len(poly) = n, NEW p \in Point
  PROVE  ContainsPoint(Append(Tail(poly), Head(poly)), p) = ContainsPoint(poly, p)
<1>1. PICK other : other = Append(Tail(poly), Head(poly))
    OBVIOUS
<1>2. /\ other \in Seq(Point) /\ Len(other) = n /\ DOMAIN other = 1 .. n
      /\ \A i \in 1 .. n : other[i] = poly[IF i = n THEN 1 ELSE i + 1]
  <2>1. poly # <<>>
      OBVIOUS
  <2>2. PICK rest : rest = Tail(poly)
      OBVIOUS
  <2>3. /\ rest \in Seq(Point) /\ Len(rest) = n - 1 /\ Head(poly) \in Point /\ Head(poly) = poly[1]
        /\ \A i \in 1 .. n - 1 : rest[i] = poly[i + 1]
      BY <2>1, <2>2, HeadTailProperties
  <2>4. /\ other \in Seq(Point) /\ Len(other) = n /\ other[n] = poly[1]
        /\ \A i \in 1 .. n - 1 : other[i] = rest[i]
      BY <1>1, <2>2, <2>3, AppendProperties
  <2>5. QED BY <2>3, <2>4, LenProperties
<1>3. PICK to \in [1 .. n -> Nat] : \A i \in 1 .. n : to[i] = IF i = n THEN 1 ELSE i + 1
  <2>1. [i \in 1 .. n |-> IF i = n THEN 1 ELSE i + 1] \in [1 .. n -> Nat]
      OBVIOUS
  <2>2. QED BY <2>1
<1>4. ASSUME NEW i \in 1 .. n
      PROVE  to[i] \in 1 .. n /\ other[i] = poly[to[i]] /\ Before(other, i) = Before(poly, to[i])
  <2>1. to[i] \in 1 .. n /\ other[i] = poly[to[i]]
      BY <1>2, <1>3
  <2>2. CASE i = 1
    <3>1. Before(other, i) = poly[1]
      <4>1. n \in 1 .. n
          OBVIOUS
      <4>2. QED BY <1>2, <2>2, <4>1 DEF Before
    <3>2. Before(poly, to[i]) = poly[1]
        BY <1>3, <2>2 DEF Before
    <3>3. QED BY <2>1, <3>1, <3>2
  <2>3. CASE i # 1
    <3>1. i - 1 \in 1 .. n /\ i - 1 # n /\ (i - 1) + 1 = i
        BY <2>3
    <3>2. Before(other, i) = poly[i]
        BY <1>2, <2>3, <3>1 DEF Before
    <3>3. Before(poly, to[i]) = poly[i]
        BY <1>3, <2>3 DEF Before
    <3>4. QED BY <2>1, <3>2, <3>3
  <2>4. QED BY <2>2, <2>3
<1>5. PICK V, W : V = Crossed(other, p) /\ W = Crossed(poly, p)
    OBVIOUS
<1>6. /\ V \subseteq 1 .. n /\ W \subseteq 1 .. n
      /\ \A i \in 1 .. n : i \in V <=> to[i] \in W
    BY <1>2, <1>4, <1>5 DEF Crossed
<1>7. ASSUME NEW j \in W PROVE \E i \in V : j = to[i]
  <2>1. PICK i \in 1 .. n : i = IF j = 1 THEN n ELSE j - 1
      BY <1>6
  <2>2. to[i] = j
      BY <1>3, <1>6, <2>1
  <2>3. QED BY <1>6, <2>2
<1>8. \A i, k \in V : to[i] = to[k] => i = k
    BY <1>3, <1>6
<1>9. Cardinality(W) = Cardinality(V)
  <2>1. n \in Nat /\ V \subseteq 1 .. n /\ \A i \in V : to[i] \in W
      BY <1>6
  <2>2. Matched(to, n, V, W)
      BY <1>6, <1>7, <1>8, <2>1 DEF Matched
  <2>3. QED BY <2>2, SameCrossings
<1>10. QED BY <1>1, <1>5, <1>9, ContainsByCrossed

\* The same zone the other way round, for a point that no edge is near.
LEMMA ZoneReversed ==
  ASSUME NEW n \in Nat \ {0}, NEW poly \in Seq(Point), Len(poly) = n, NEW p \in Point,
         Clear(poly, p)
  PROVE  ContainsPoint(Reverse(poly), p) = ContainsPoint(poly, p)
<1>1. PICK other : other = Reverse(poly)
    OBVIOUS
<1>2. /\ Len(other) = n /\ DOMAIN other = 1 .. n
      /\ \A i \in 1 .. n : n - i + 1 \in 1 .. n /\ other[i] = poly[n - i + 1]
  <2>1. other = [i \in 1 .. n |-> poly[(n - i) + 1]]
      BY <1>1 DEF Reverse
  <2>2. \A i \in 1 .. n : n - i + 1 \in 1 .. n /\ poly[n - i + 1] \in Point
      OBVIOUS
  <2>3. other \in [1 .. n -> Point]
      BY <2>1, <2>2
  <2>4. other \in Seq(Point) /\ Len(other) = n
      BY <2>3, IsASeq, LenProperties
  <2>5. QED BY <2>1, <2>2, <2>4
<1>3. PICK to \in [1 .. n -> Nat] : \A i \in 1 .. n : to[i] = IF i = 1 THEN 1 ELSE n - i + 2
  <2>1. [i \in 1 .. n |-> IF i = 1 THEN 1 ELSE n - i + 2] \in [1 .. n -> Nat]
      OBVIOUS
  <2>2. QED BY <2>1
<1>4. \A i \in 1 .. n : poly[i] \in Point
    OBVIOUS
<1>5. ASSUME NEW i \in 1 .. n
      PROVE  /\ to[i] \in 1 .. n
             /\ Crosses(p, other[i], Before(other, i)) <=>
                  Crosses(p, poly[to[i]], Before(poly, to[i]))
  <2>1. CASE i = 1
    <3>1. other[i] = poly[n] /\ to[i] = 1
        BY <1>2, <1>3, <2>1
    <3>2. Before(other, i) = poly[1]
      <4>1. n \in 1 .. n /\ n - n + 1 = 1
          OBVIOUS
      <4>2. other[n] = poly[1]
          BY <1>2, <4>1
      <4>3. QED BY <1>2, <2>1, <4>2 DEF Before
    <3>3. Before(poly, to[i]) = poly[n]
        BY <3>1 DEF Before
    <3>4. poly[1] \in Point /\ poly[n] \in Point /\ 1 \in 1 .. n
        BY <1>4
    <3>5. ~NearEdge(p, poly[1], poly[n])
        BY <3>1, <3>3, <3>4 DEF Clear
    <3>6. QED BY <3>1, <3>2, <3>3, <3>4, <3>5, CrossedEdge
  <2>2. CASE i # 1
    <3>1. PICK j \in 2 .. n : j = n - i + 2
        BY <2>2
    <3>2. i - 1 \in 1 .. n /\ n - (i - 1) + 1 = j /\ n - i + 1 = j - 1 /\ to[i] = j
        BY <1>3, <2>2, <3>1
    <3>3. other[i] = poly[j - 1]
        BY <1>2, <3>2
    <3>4. Before(other, i) = poly[j]
      <4>1. other[i - 1] = poly[j]
          BY <1>2, <3>2
      <4>2. QED BY <2>2, <4>1 DEF Before
    <3>5. Before(poly, j) = poly[j - 1]
        BY <3>1 DEF Before
    <3>6. poly[j] \in Point /\ poly[j - 1] \in Point /\ j \in 1 .. n
        BY <1>4, <3>1
    <3>7. ~NearEdge(p, poly[j], poly[j - 1])
        BY <3>5, <3>6 DEF Clear
    <3>8. QED BY <3>2, <3>3, <3>4, <3>5, <3>6, <3>7, CrossedEdge
  <2>3. QED BY <2>1, <2>2
<1>6. PICK V, W : V = Crossed(other, p) /\ W = Crossed(poly, p)
    OBVIOUS
<1>7. /\ V \subseteq 1 .. n /\ W \subseteq 1 .. n
      /\ \A i \in 1 .. n : i \in V <=> to[i] \in W
  <2>1. DOMAIN poly = 1 .. n
      BY LenProperties
  <2>2. QED BY <1>2, <1>5, <1>6, <2>1 DEF Crossed
<1>8. ASSUME NEW j \in W PROVE \E i \in V : j = to[i]
  <2>1. j \in 1 .. n
      BY <1>7
  <2>2. PICK i \in 1 .. n : i = IF j = 1 THEN 1 ELSE n - j + 2
    <3>1. 1 \in 1 .. n /\ (j # 1 => n - j + 2 \in 1 .. n)
        BY <2>1
    <3>2. QED BY <3>1
  <2>3. to[i] = j
      BY <1>3, <2>1, <2>2
  <2>4. QED BY <1>7, <2>3
<1>9. \A i, k \in V : to[i] = to[k] => i = k
    BY <1>3, <1>7
<1>10. Cardinality(W) = Cardinality(V)
  <2>1. n \in Nat /\ V \subseteq 1 .. n /\ \A i \in V : to[i] \in W
      BY <1>7
  <2>2. Matched(to, n, V, W)
      BY <1>7, <1>8, <1>9, <2>1 DEF Matched
  <2>3. QED BY <2>2, SameCrossings
<1>11. QED BY <1>1, <1>6, <1>10, ContainsByCrossed

\* The same zone closed by its first vertex.
LEMMA ZoneClosed ==
  ASSUME NEW n \in Nat \ {0}, NEW poly \in Seq(Point), Len(poly) = n, NEW p \in Point
  PROVE  ContainsPoint(Append(poly, Head(poly)), p) = ContainsPoint(poly, p)
<1>1. PICK other : other = Append(poly, Head(poly))
    OBVIOUS
<1>2. /\ Len(other) = n + 1 /\ DOMAIN other = 1 .. n + 1
      /\ other[n + 1] = poly[1] /\ \A i \in 1 .. n : other[i] = poly[i]
  <2>1. Head(poly) = poly[1] /\ poly[1] \in Point
      OBVIOUS
  <2>2. /\ other \in Seq(Point) /\ Len(other) = n + 1 /\ other[n + 1] = poly[1]
        /\ \A i \in 1 .. n : other[i] = poly[i]
      BY <1>1, <2>1, AppendProperties
  <2>3. QED BY <2>2, LenProperties
<1>3. PICK to \in [1 .. n + 1 -> Nat] : \A i \in 1 .. n + 1 : to[i] = IF i = n + 1 THEN 1 ELSE i
  <2>1. [i \in 1 .. n + 1 |-> IF i = n + 1 THEN 1 ELSE i] \in [1 .. n + 1 -> Nat]
      OBVIOUS
  <2>2. QED BY <2>1
<1>4. \A i \in 1 .. n : poly[i] \in Point
    OBVIOUS
<1>5. ASSUME NEW i \in 2 .. n + 1
      PROVE  /\ i \in 1 .. n + 1 /\ to[i] \in 1 .. n
             /\ other[i] = poly[to[i]] /\ Before(other, i) = Before(poly, to[i])
  <2>1. i - 1 \in 1 .. n
      OBVIOUS
  <2>2. Before(other, i) = poly[i - 1]
      BY <1>2, <2>1 DEF Before
  <2>3. CASE i = n + 1
      BY <1>2, <1>3, <2>2, <2>3 DEF Before
  <2>4. CASE i # n + 1
    <3>1. i \in 1 .. n /\ i # 1 /\ to[i] = i
        BY <1>3, <2>4
    <3>2. QED BY <1>2, <2>2, <3>1 DEF Before
  <2>5. QED BY <2>3, <2>4
<1>6. ~Crosses(p, other[1], Before(other, 1))
  <2>1. other[1] = poly[1] /\ Before(other, 1) = poly[1] /\ poly[1] \in Point
      BY <1>2, <1>4 DEF Before
  <2>2. QED BY <2>1, CrossedEdge
<1>7. PICK V, W : V = Crossed(other, p) /\ W = Crossed(poly, p)
    OBVIOUS
<1>8. /\ V \subseteq 2 .. n + 1 /\ W \subseteq 1 .. n
      /\ \A i \in 2 .. n + 1 : i \in V <=> to[i] \in W
  <2>1. DOMAIN poly = 1 .. n
      BY LenProperties
  <2>2. W \subseteq 1 .. n
      BY <1>7, <2>1 DEF Crossed
  <2>3. \A i \in V : i \in 1 .. n + 1 /\ i # 1
      BY <1>2, <1>6, <1>7 DEF Crossed
  <2>4. \A i \in 2 .. n + 1 : i \in V <=> to[i] \in W
      BY <1>2, <1>5, <1>7, <2>1 DEF Crossed
  <2>5. QED BY <2>2, <2>3, <2>4
<1>9. ASSUME NEW j \in W PROVE \E i \in V : j = to[i]
  <2>1. PICK i \in 2 .. n + 1 : i = IF j = 1 THEN n + 1 ELSE j
      BY <1>8
  <2>2. to[i] = j
      BY <1>3, <1>8, <2>1
  <2>3. QED BY <1>8, <2>2
<1>10. \A i, k \in V : to[i] = to[k] => i = k
    BY <1>3, <1>8
<1>11. Cardinality(W) = Cardinality(V)
  <2>1. n + 1 \in Nat /\ V \subseteq 1 .. n + 1 /\ \A i \in V : to[i] \in W
      BY <1>8
  <2>2. Matched(to, n + 1, V, W)
      BY <1>9, <1>10, <2>1 DEF Matched
  <2>3. QED BY <2>2, SameCrossings
<1>12. QED BY <1>1, <1>7, <1>11, ContainsByCrossed

\* Odd, of three and of four.
LEMMA OddOfThree ==
  ASSUME NEW W, W \subseteq 1 .. 3
  PROVE  Cardinality(W) % 2 = 1 <=> ((1 \in W <=> 2 \in W) <=> 3 \in W)
<1>1. PICK c1 \in Nat, c2 \in Nat, c3 \in Nat :
        /\ c1 = Count(W, 1) /\ c2 = Count(W, 2) /\ c3 = Count(W, 3)
        /\ c1 = IF 1 \in W THEN 1 ELSE 0
        /\ c2 = IF 2 \in W THEN c1 + 1 ELSE c1
        /\ c3 = IF 3 \in W THEN c2 + 1 ELSE c2
  <2>1. /\ 0 + 1 = 1 /\ 1 + 1 = 2 /\ 2 + 1 = 3
        /\ 0 \in Nat /\ 1 \in Nat /\ 2 \in Nat /\ 3 \in Nat
      OBVIOUS
  <2>2. /\ Count(W, 0) = 0 /\ Count(W, 1) \in Nat /\ Count(W, 2) \in Nat /\ Count(W, 3) \in Nat
      BY <2>1, CountStep
  <2>3. Count(W, 1) = IF 1 \in W THEN Count(W, 0) + 1 ELSE Count(W, 0)
      BY <2>1, CountStep
  <2>4. Count(W, 2) = IF 2 \in W THEN Count(W, 1) + 1 ELSE Count(W, 1)
      BY <2>1, CountStep
  <2>5. Count(W, 3) = IF 3 \in W THEN Count(W, 2) + 1 ELSE Count(W, 2)
      BY <2>1, CountStep
  <2>6. QED BY <2>2, <2>3, <2>4, <2>5
<1>2. {i \in 1 .. 3 : i \in W} = W
    OBVIOUS
<1>3. Cardinality(W) = c3
    BY <1>1, <1>2 DEF Count
<1>4. QED BY <1>1, <1>3

\* The same of four.
LEMMA OddOfFour ==
  ASSUME NEW W, W \subseteq 1 .. 4
  PROVE  Cardinality(W) % 2 = 1 <=> ((1 \in W <=> 2 \in W) <=> ~(3 \in W <=> 4 \in W))
<1>1. PICK c1 \in Nat, c2 \in Nat, c3 \in Nat, c4 \in Nat :
        /\ c4 = Count(W, 4)
        /\ c1 = IF 1 \in W THEN 1 ELSE 0
        /\ c2 = IF 2 \in W THEN c1 + 1 ELSE c1
        /\ c3 = IF 3 \in W THEN c2 + 1 ELSE c2
        /\ c4 = IF 4 \in W THEN c3 + 1 ELSE c3
  <2>1. /\ 0 + 1 = 1 /\ 1 + 1 = 2 /\ 2 + 1 = 3 /\ 3 + 1 = 4
        /\ 0 \in Nat /\ 1 \in Nat /\ 2 \in Nat /\ 3 \in Nat /\ 4 \in Nat
      OBVIOUS
  <2>2. /\ Count(W, 0) = 0 /\ Count(W, 1) \in Nat /\ Count(W, 2) \in Nat
        /\ Count(W, 3) \in Nat /\ Count(W, 4) \in Nat
      BY <2>1, CountStep
  <2>3. Count(W, 1) = IF 1 \in W THEN Count(W, 0) + 1 ELSE Count(W, 0)
      BY <2>1, CountStep
  <2>4. Count(W, 2) = IF 2 \in W THEN Count(W, 1) + 1 ELSE Count(W, 1)
      BY <2>1, CountStep
  <2>5. Count(W, 3) = IF 3 \in W THEN Count(W, 2) + 1 ELSE Count(W, 2)
      BY <2>1, CountStep
  <2>6. Count(W, 4) = IF 4 \in W THEN Count(W, 3) + 1 ELSE Count(W, 3)
      BY <2>1, CountStep
  <2>7. QED BY <2>2, <2>3, <2>4, <2>5, <2>6
<1>2. {i \in 1 .. 4 : i \in W} = W
    OBVIOUS
<1>3. Cardinality(W) = c4
    BY <1>1, <1>2 DEF Count
<1>4. QED BY <1>1, <1>3

\* A triangle contains a point when the ray from it crosses one or all of its
\* three edges.
LEMMA TriangleContains ==
  ASSUME NEW poly \in Seq(Point), Len(poly) = 3, NEW p \in Point
  PROVE  ContainsPoint(poly, p) <=>
           ((Crosses(p, poly[1], poly[3]) <=> Crosses(p, poly[2], poly[1]))
              <=> Crosses(p, poly[3], poly[2]))
<1>1. DOMAIN poly = 1 .. 3 /\ poly[1] \in Point /\ poly[2] \in Point /\ poly[3] \in Point
  <2>1. DOMAIN poly = 1 .. 3
      BY LenProperties
  <2>2. \A i \in 1 .. 3 : poly[i] \in Point
      BY ElementOfSeq
  <2>3. QED BY <2>1, <2>2
<1>2. Before(poly, 1) = poly[3] /\ Before(poly, 2) = poly[1] /\ Before(poly, 3) = poly[2]
    BY DEF Before
<1>3. PICK W : W = Crossed(poly, p)
    OBVIOUS
<1>4. W \subseteq 1 .. 3
    BY <1>1, <1>3 DEF Crossed
<1>5. 1 \in W <=> Crosses(p, poly[1], poly[3])
    BY <1>1, <1>2, <1>3 DEF Crossed
<1>6. 2 \in W <=> Crosses(p, poly[2], poly[1])
    BY <1>1, <1>2, <1>3 DEF Crossed
<1>7. 3 \in W <=> Crosses(p, poly[3], poly[2])
    BY <1>1, <1>2, <1>3 DEF Crossed
<1>8. Cardinality(W) % 2 = 1 <=> ((1 \in W <=> 2 \in W) <=> 3 \in W)
    BY <1>4, OddOfThree
<1>9. ContainsPoint(poly, p) <=> Cardinality(W) % 2 = 1
    BY <1>3, ContainsByCrossed
<1>10. QED BY <1>5, <1>6, <1>7, <1>8, <1>9

\* Two triangles that share an edge, which is not near the point.
LEMMA QuadrangleCut ==
  ASSUME NEW poly \in Seq(Point), Len(poly) = 4, NEW p \in Point,
         ~NearEdge(p, poly[1], poly[3])
  PROVE  ContainsPoint(poly, p) =
           (ContainsPoint(<<poly[1], poly[2], poly[3]>>, p)
              # ContainsPoint(<<poly[1], poly[3], poly[4]>>, p))
<1>1. PICK a \in Point, b \in Point, c \in Point, d \in Point :
        a = poly[1] /\ b = poly[2] /\ c = poly[3] /\ d = poly[4]
  <2>1. \A i \in 1 .. 4 : poly[i] \in Point
      BY ElementOfSeq
  <2>2. QED BY <2>1
<1>2. DOMAIN poly = 1 .. 4
    BY LenProperties
<1>3. /\ Before(poly, 1) = d /\ Before(poly, 2) = a /\ Before(poly, 3) = b /\ Before(poly, 4) = c
    BY <1>1 DEF Before
<1>4. PICK W : W = Crossed(poly, p)
    OBVIOUS
<1>5. W \subseteq 1 .. 4
    BY <1>2, <1>4 DEF Crossed
<1>6. 1 \in W <=> Crosses(p, a, d)
    BY <1>1, <1>2, <1>3, <1>4 DEF Crossed
<1>7. 2 \in W <=> Crosses(p, b, a)
    BY <1>1, <1>2, <1>3, <1>4 DEF Crossed
<1>8. 3 \in W <=> Crosses(p, c, b)
    BY <1>1, <1>2, <1>3, <1>4 DEF Crossed
<1>9. 4 \in W <=> Crosses(p, d, c)
    BY <1>1, <1>2, <1>3, <1>4 DEF Crossed
<1>10. Cardinality(W) % 2 = 1 <=> ((1 \in W <=> 2 \in W) <=> ~(3 \in W <=> 4 \in W))
    BY <1>5, OddOfFour
<1>11. ContainsPoint(poly, p) = (Cardinality(W) % 2 = 1)
    BY <1>4, ContainsByCrossed
<1>12. ASSUME NEW u \in Point, NEW v \in Point, NEW w \in Point
       PROVE  ContainsPoint(<<u, v, w>>, p) <=>
                ((Crosses(p, u, w) <=> Crosses(p, v, u)) <=> Crosses(p, w, v))
  <2>1. PICK tri \in Seq(Point) : /\ tri = <<u, v, w>> /\ Len(tri) = 3
                                  /\ tri[1] = u /\ tri[2] = v /\ tri[3] = w
    <3>1. <<u, v, w>> \in Seq(Point) /\ Len(<<u, v, w>>) = 3
        OBVIOUS
    <3>2. <<u, v, w>>[1] = u /\ <<u, v, w>>[2] = v /\ <<u, v, w>>[3] = w
        OBVIOUS
    <3>3. QED BY <3>1, <3>2
  <2>2. QED BY <2>1, TriangleContains
<1>13. ContainsPoint(<<a, b, c>>, p) <=>
         ((Crosses(p, a, c) <=> Crosses(p, b, a)) <=> Crosses(p, c, b))
    BY <1>12
<1>14. ContainsPoint(<<a, c, d>>, p) <=>
         ((Crosses(p, a, d) <=> Crosses(p, c, a)) <=> Crosses(p, d, c))
    BY <1>12
<1>15. Crosses(p, a, c) <=> Crosses(p, c, a)
    BY <1>1, CrossedEdge
<1>16. ContainsPoint(<<a, b, c>>, p) \in BOOLEAN /\ ContainsPoint(<<a, c, d>>, p) \in BOOLEAN
    BY DEF ContainsPoint
<1>17. QED BY <1>1, <1>6, <1>7, <1>8, <1>9, <1>10, <1>11, <1>13, <1>14, <1>15, <1>16

----------------------------------------------------------------------------
\* What the sides of a triangle's edges have to say of whether it has a point.
Sound(s1, s2, s3, inside) ==
  /\ s1 > 0 /\ s2 > 0 /\ s3 > 0 => inside
  /\ s1 < 0 /\ s2 < 0 /\ s3 < 0 => inside
  /\ \/ ~inside
     \/ s1 >= 0 /\ s2 >= 0 /\ s3 >= 0 /\ s1 + s2 + s3 > 0
     \/ s1 <= 0 /\ s2 <= 0 /\ s3 <= 0 /\ s1 + s2 + s3 < 0

\* The point is on the crossed side of an edge that ends y north of it.
Ahead(y, s) == IF y > 0 THEN s > 0 ELSE s < 0

\* Sides of the point, and which are crossed, when one vertex is across.
Across(y1, y2, y3, s1, s2, s3) ==
  /\ y1 \in Int /\ y2 \in Int /\ y3 \in Int /\ s1 \in Int /\ s2 \in Int /\ s3 \in Int
  /\ s1 * y3 + s2 * y1 + s3 * y2 = 0
  /\ ~(y1 > 0 <=> y2 > 0) /\ ~(y1 > 0 <=> y3 > 0)

LEMMA VertexAcross ==
  ASSUME NEW y1, NEW y2, NEW y3, NEW s1, NEW s2, NEW s3, Across(y1, y2, y3, s1, s2, s3)
  PROVE  Sound(s1, s2, s3, ~(Ahead(y2, s1) <=> Ahead(y1, s3)))
<1> USE DEF Across
<1>1. PICK u \in Int, v \in Int, w \in Int : u = s1 * y3 /\ v = s2 * y1 /\ w = s3 * y2
    OBVIOUS
<1>2. u + v + w = 0
    BY <1>1
<1>3. CASE y1 > 0
  <2>1. y2 <= 0 /\ y3 <= 0 /\ (Ahead(y2, s1) <=> s1 < 0) /\ (Ahead(y1, s3) <=> s3 > 0)
      BY <1>3 DEF Ahead
  <2>2. s1 < 0 /\ s3 <= 0 => u >= 0 /\ w >= 0
      BY <1>1, <2>1
  <2>3. s1 >= 0 /\ s3 > 0 => u <= 0 /\ w <= 0
      BY <1>1, <2>1
  <2>4. (v <= 0 => s2 <= 0) /\ (v >= 0 => s2 >= 0)
      BY <1>1, <1>3
  <2>5. s1 < 0 /\ s3 <= 0 => s2 <= 0
      BY <1>2, <2>2, <2>4
  <2>6. s1 >= 0 /\ s3 > 0 => s2 >= 0
      BY <1>2, <2>3, <2>4
  <2>7. QED BY <2>1, <2>5, <2>6 DEF Sound
<1>4. CASE ~(y1 > 0)
  <2>1. y1 <= 0 /\ y2 > 0 /\ y3 > 0 /\ (Ahead(y2, s1) <=> s1 > 0) /\ (Ahead(y1, s3) <=> s3 < 0)
      BY <1>4 DEF Ahead
  <2>2. s1 > 0 /\ s3 >= 0 => u > 0 /\ w >= 0
      BY <1>1, <2>1
  <2>3. s1 <= 0 /\ s3 < 0 => u <= 0 /\ w < 0
      BY <1>1, <2>1
  <2>4. (v < 0 => s2 > 0) /\ (v > 0 => s2 < 0)
      BY <1>1, <2>1
  <2>5. s1 > 0 /\ s3 >= 0 => s2 > 0
      BY <1>2, <2>2, <2>4
  <2>6. s1 <= 0 /\ s3 < 0 => s2 < 0
      BY <1>2, <2>3, <2>4
  <2>7. QED BY <2>1, <2>5, <2>6 DEF Sound
<1>5. QED BY <1>3, <1>4

\* When none is across, the point is not on the same side of all edges.
NoneAcross(x1, y1, x2, y2, x3, y3, s1, s2, s3) ==
  /\ x1 \in Int /\ y1 \in Int /\ x2 \in Int /\ y2 \in Int /\ x3 \in Int /\ y3 \in Int
  /\ s1 \in Int /\ s2 \in Int /\ s3 \in Int
  /\ s1 = x1 * y2 - y1 * x2 /\ s2 = x2 * y3 - y2 * x3 /\ s3 = x3 * y1 - y3 * x1
  /\ (y1 > 0 <=> y2 > 0) /\ (y1 > 0 <=> y3 > 0)

LEMMA NoVertexAcross ==
  ASSUME NEW x1, NEW y1, NEW x2, NEW y2, NEW x3, NEW y3, NEW s1, NEW s2, NEW s3,
         NoneAcross(x1, y1, x2, y2, x3, y3, s1, s2, s3)
  PROVE  Sound(s1, s2, s3, FALSE)
<1> USE DEF NoneAcross
<1>1. s1 * y3 + s2 * y1 + s3 * y2 = 0
    OBVIOUS
<1>2. PICK u \in Int, v \in Int, w \in Int : u = s1 * y3 /\ v = s2 * y1 /\ w = s3 * y2
    OBVIOUS
<1>3. u + v + w = 0
    BY <1>1, <1>2
<1>4. ~(s1 > 0 /\ s2 > 0 /\ s3 > 0)
  <2> SUFFICES ASSUME s1 > 0, s2 > 0, s3 > 0 PROVE FALSE
      OBVIOUS
  <2>1. CASE y1 > 0
    <3>1. u > 0 /\ v > 0 /\ w > 0
        BY <1>2, <2>1
    <3>2. QED BY <1>3, <3>1
  <2>2. CASE ~(y1 > 0)
    <3>1. y1 <= 0 /\ y2 <= 0 /\ y3 <= 0
        BY <2>2
    <3>2. u <= 0 /\ v <= 0 /\ w <= 0
        BY <1>2, <3>1
    <3>3. u = 0 /\ v = 0
        BY <1>3, <3>2
    <3>4. y1 = 0 /\ y3 = 0
        BY <1>2, <3>3
    <3>5. x3 * y1 = 0 /\ y3 * x1 = 0
        BY <3>4
    <3>6. QED BY <3>5
  <2>3. QED BY <2>1, <2>2
<1>5. ~(s1 < 0 /\ s2 < 0 /\ s3 < 0)
  <2> SUFFICES ASSUME s1 < 0, s2 < 0, s3 < 0 PROVE FALSE
      OBVIOUS
  <2>1. CASE y1 > 0
    <3>1. u < 0 /\ v < 0 /\ w < 0
        BY <1>2, <2>1
    <3>2. QED BY <1>3, <3>1
  <2>2. CASE ~(y1 > 0)
    <3>1. y1 <= 0 /\ y2 <= 0 /\ y3 <= 0
        BY <2>2
    <3>2. u >= 0 /\ v >= 0 /\ w >= 0
        BY <1>2, <3>1
    <3>3. u = 0 /\ v = 0
        BY <1>3, <3>2
    <3>4. y1 = 0 /\ y3 = 0
        BY <1>2, <3>3
    <3>5. x3 * y1 = 0 /\ y3 * x1 = 0
        BY <3>4
    <3>6. QED BY <3>5
  <2>3. QED BY <2>1, <2>2
<1>6. QED BY <1>4, <1>5 DEF Sound

\* Where a is, seen from p.
East(p, a) == a.lon - p.lon
North(p, a) == a.lat - p.lat

\* An edge is crossed on its side.
LEMMA SideOfEdge ==
  ASSUME NEW p \in Point, NEW a \in Point, NEW b \in Point
  PROVE  /\ East(p, a) \in Int /\ North(p, a) \in Int /\ Side(p, a, b) \in Int
         /\ Side(p, a, b) = East(p, a) * North(p, b) - North(p, a) * East(p, b)
         /\ ~NearEdge(p, a, b) =>
              (Crosses(p, a, b) <=>
                 /\ ~(North(p, a) > 0 <=> North(p, b) > 0)
                 /\ Ahead(North(p, b), Side(p, a, b)))
<1>1. PICK px \in Int, py \in Int, ax \in Int, ay \in Int, bx \in Int, by \in Int :
        p.lon = px /\ p.lat = py /\ a.lon = ax /\ a.lat = ay /\ b.lon = bx /\ b.lat = by
    BY DEF Point
<1>2. PICK x1 \in Int, y1 \in Int, x2 \in Int, y2 \in Int :
        x1 = ax - px /\ y1 = ay - py /\ x2 = bx - px /\ y2 = by - py
    OBVIOUS
<1>3. PICK left \in Int, right \in Int :
        left = (px - ax) * (by - ay) /\ right = (bx - ax) * (py - ay)
    OBVIOUS
<1>4. right - left = x1 * y2 - y1 * x2
  <2>1. (bx - ax) * (py - ay) - (px - ax) * (by - ay)
          = (ax - px) * (by - py) - (ay - py) * (bx - px)
      OBVIOUS
  <2>2. QED BY <1>2, <1>3, <2>1
<1>5. Side(p, a, b) = right - left
  <2>1. Side(p, a, b) = (bx - ax) * (py - ay) - (by - ay) * (px - ax)
      BY <1>1 DEF Side
  <2>2. (by - ay) * (px - ax) = (px - ax) * (by - ay)
      OBVIOUS
  <2>3. QED BY <1>3, <2>1, <2>2
<1>6. PICK s \in Int : s = right - left
    OBVIOUS
<1>7. ~NearEdge(p, a, b) =>
        (Crosses(p, a, b) <=> ~(ay > py <=> by > py) /\ IF by > ay THEN s > 0 ELSE s < 0)
    BY <1>1, <1>5, <1>6 DEF Crosses, Straddles, West
<1>8. ~NearEdge(p, a, b) =>
        (Crosses(p, a, b) <=> ~(y1 > 0 <=> y2 > 0) /\ Ahead(y2, s))
    BY <1>2, <1>7 DEF Ahead
<1>9. East(p, a) = x1 /\ North(p, a) = y1 /\ East(p, b) = x2 /\ North(p, b) = y2
    BY <1>1, <1>2 DEF East, North
<1>10. QED BY <1>4, <1>5, <1>6, <1>8, <1>9

\* The sides make up the triangle.
LEMMA SidesAddUp ==
  ASSUME NEW p \in Point, NEW a \in Point, NEW b \in Point, NEW c \in Point
  PROVE  Side(p, a, b) + Side(p, b, c) + Side(p, c, a) = Side(a, b, c)
<1>1. PICK px \in Int, py \in Int, ax \in Int, ay \in Int, bx \in Int, by \in Int,
           cx \in Int, cy \in Int :
        /\ p.lon = px /\ p.lat = py /\ a.lon = ax /\ a.lat = ay
        /\ b.lon = bx /\ b.lat = by /\ c.lon = cx /\ c.lat = cy
    BY DEF Point
<1>2. /\ Side(p, a, b) = (bx - ax) * (py - ay) - (by - ay) * (px - ax)
      /\ Side(p, b, c) = (cx - bx) * (py - by) - (cy - by) * (px - bx)
      /\ Side(p, c, a) = (ax - cx) * (py - cy) - (ay - cy) * (px - cx)
      /\ Side(a, b, c) = (cx - bx) * (ay - by) - (cy - by) * (ax - bx)
    BY <1>1 DEF Side
<1>3. QED BY <1>2

\* What the sides of a triangle say of a point, and its crossings, where no edge is
\* near.
LEMMA TriangleSides ==
  ASSUME NEW p \in Point, NEW a \in Point, NEW b \in Point, NEW c \in Point,
         ~NearEdge(p, a, b), ~NearEdge(p, b, c), ~NearEdge(p, c, a)
  PROVE  /\ Side(p, a, b) \in Int /\ Side(p, b, c) \in Int /\ Side(p, c, a) \in Int
         /\ Sound(Side(p, a, b), Side(p, b, c), Side(p, c, a),
                  (Crosses(p, c, a) <=> Crosses(p, a, b)) <=> Crosses(p, b, c))
<1>1. PICK x1 \in Int, y1 \in Int, x2 \in Int, y2 \in Int, x3 \in Int, y3 \in Int :
        /\ x1 = East(p, a) /\ y1 = North(p, a) /\ x2 = East(p, b) /\ y2 = North(p, b)
        /\ x3 = East(p, c) /\ y3 = North(p, c)
  <2>1. /\ East(p, a) \in Int /\ North(p, a) \in Int /\ East(p, b) \in Int /\ North(p, b) \in Int
        /\ East(p, c) \in Int /\ North(p, c) \in Int
      BY SideOfEdge
  <2>2. QED BY <2>1
<1>2. PICK s1 \in Int, s2 \in Int, s3 \in Int :
        s1 = Side(p, a, b) /\ s2 = Side(p, b, c) /\ s3 = Side(p, c, a)
  <2>1. Side(p, a, b) \in Int /\ Side(p, b, c) \in Int /\ Side(p, c, a) \in Int
      BY SideOfEdge
  <2>2. QED BY <2>1
<1>3. PICK k1 \in BOOLEAN, k2 \in BOOLEAN, k3 \in BOOLEAN :
        /\ k1 = Crosses(p, a, b) /\ k2 = Crosses(p, b, c) /\ k3 = Crosses(p, c, a)
    BY CrossedEdge
<1>4. s1 = x1 * y2 - y1 * x2 /\ s2 = x2 * y3 - y2 * x3 /\ s3 = x3 * y1 - y3 * x1
  <2>1. /\ Side(p, a, b) = East(p, a) * North(p, b) - North(p, a) * East(p, b)
        /\ Side(p, b, c) = East(p, b) * North(p, c) - North(p, b) * East(p, c)
        /\ Side(p, c, a) = East(p, c) * North(p, a) - North(p, c) * East(p, a)
      BY SideOfEdge
  <2>2. QED BY <1>1, <1>2, <2>1
<1>5. k1 <=> ~(y1 > 0 <=> y2 > 0) /\ Ahead(y2, s1)
    BY <1>1, <1>2, <1>3, SideOfEdge
<1>6. k2 <=> ~(y2 > 0 <=> y3 > 0) /\ Ahead(y3, s2)
    BY <1>1, <1>2, <1>3, SideOfEdge
<1>7. k3 <=> ~(y3 > 0 <=> y1 > 0) /\ Ahead(y1, s3)
    BY <1>1, <1>2, <1>3, SideOfEdge
<1>8. /\ s1 * y3 + s2 * y1 + s3 * y2 = 0
      /\ s2 * y1 + s3 * y2 + s1 * y3 = 0
      /\ s3 * y2 + s1 * y3 + s2 * y1 = 0
  <2>1. (x1 * y2 - y1 * x2) * y3 + (x2 * y3 - y2 * x3) * y1 + (x3 * y1 - y3 * x1) * y2 = 0
      OBVIOUS
  <2>2. PICK u \in Int, v \in Int, w \in Int : u = s1 * y3 /\ v = s2 * y1 /\ w = s3 * y2
      OBVIOUS
  <2>3. u + v + w = 0
      BY <1>4, <2>1, <2>2
  <2>4. QED BY <2>2, <2>3
<1>9. Sound(s1, s2, s3, (k3 <=> k1) <=> k2)
  <2>1. CASE ~(y1 > 0 <=> y2 > 0) /\ ~(y1 > 0 <=> y3 > 0)
    <3>1. Across(y1, y2, y3, s1, s2, s3)
        BY <1>8, <2>1 DEF Across
    <3>2. Sound(s1, s2, s3, ~(Ahead(y2, s1) <=> Ahead(y1, s3)))
        BY <3>1, VertexAcross, Zenon
    <3>3. ~k2 /\ (k1 <=> Ahead(y2, s1)) /\ (k3 <=> Ahead(y1, s3))
        BY <1>5, <1>6, <1>7, <2>1
    <3>4. QED BY <3>2, <3>3 DEF Sound
  <2>2. CASE ~(y2 > 0 <=> y3 > 0) /\ ~(y2 > 0 <=> y1 > 0)
    <3>1. Across(y2, y3, y1, s2, s3, s1)
        BY <1>8, <2>2 DEF Across
    <3>2. Sound(s2, s3, s1, ~(Ahead(y3, s2) <=> Ahead(y2, s1)))
        BY <3>1, VertexAcross, Zenon
    <3>3. ~k3 /\ (k2 <=> Ahead(y3, s2)) /\ (k1 <=> Ahead(y2, s1))
        BY <1>5, <1>6, <1>7, <2>2
    <3>4. QED BY <3>2, <3>3 DEF Sound
  <2>3. CASE ~(y3 > 0 <=> y1 > 0) /\ ~(y3 > 0 <=> y2 > 0)
    <3>1. Across(y3, y1, y2, s3, s1, s2)
        BY <1>8, <2>3 DEF Across
    <3>2. Sound(s3, s1, s2, ~(Ahead(y1, s3) <=> Ahead(y3, s2)))
        BY <3>1, VertexAcross, Zenon
    <3>3. ~k1 /\ (k3 <=> Ahead(y1, s3)) /\ (k2 <=> Ahead(y3, s2))
        BY <1>5, <1>6, <1>7, <2>3
    <3>4. QED BY <3>2, <3>3 DEF Sound
  <2>4. CASE (y1 > 0 <=> y2 > 0) /\ (y1 > 0 <=> y3 > 0)
    <3>1. NoneAcross(x1, y1, x2, y2, x3, y3, s1, s2, s3)
        BY <1>4, <2>4 DEF NoneAcross
    <3>2. Sound(s1, s2, s3, FALSE)
        BY <3>1, NoVertexAcross, Zenon
    <3>3. ~k1 /\ ~k2 /\ ~k3
        BY <1>5, <1>6, <1>7, <2>4
    <3>4. QED BY <3>2, <3>3 DEF Sound
  <2>5. QED BY <2>1, <2>2, <2>3, <2>4
<1>10. QED BY <1>2, <1>3, <1>9

\* For a triangle, inside is inside, where no edge is near.
LEMMA TriangleExact ==
  ASSUME NEW poly \in Seq(Point), Len(poly) = 3, NEW p \in Point, Clear(poly, p)
  PROVE  LET side(i) == Side(p, poly[i], poly[IF i = 3 THEN 1 ELSE i + 1])
             flat == Side(poly[1], poly[2], poly[3]) = 0
             allLeft == \A i \in 1 .. 3 : side(i) > 0
             allRight == \A i \in 1 .. 3 : side(i) < 0
             left == \E i \in 1 .. 3 : side(i) > 0
             right == \E i \in 1 .. 3 : side(i) < 0 IN
         /\ allLeft \/ allRight => ContainsPoint(poly, p)
         /\ flat \/ (left /\ right) => ~ContainsPoint(poly, p)
<1> DEFINE side(i) == Side(p, poly[i], poly[IF i = 3 THEN 1 ELSE i + 1])
<1>1. PICK a \in Point, b \in Point, c \in Point : a = poly[1] /\ b = poly[2] /\ c = poly[3]
  <2>1. \A i \in 1 .. 3 : poly[i] \in Point
      BY ElementOfSeq
  <2>2. QED BY <2>1
<1>2. PICK s1 \in Int, s2 \in Int, s3 \in Int :
        /\ s1 = Side(p, a, b) /\ s2 = Side(p, b, c) /\ s3 = Side(p, c, a)
        /\ s1 + s2 + s3 = Side(a, b, c)
  <2>1. Side(p, a, b) \in Int /\ Side(p, b, c) \in Int /\ Side(p, c, a) \in Int
      BY EdgeTurned
  <2>2. Side(p, a, b) + Side(p, b, c) + Side(p, c, a) = Side(a, b, c)
      BY SidesAddUp
  <2>3. QED BY <2>1, <2>2
<1>3. Sound(s1, s2, s3, ContainsPoint(poly, p))
  <2>1. ContainsPoint(poly, p) \in BOOLEAN
      BY DEF ContainsPoint
  <2>2. ContainsPoint(poly, p) <=> ((Crosses(p, a, c) <=> Crosses(p, b, a)) <=> Crosses(p, c, b))
      BY <1>1, TriangleContains
  <2>3. ~NearEdge(p, a, c) /\ ~NearEdge(p, b, a) /\ ~NearEdge(p, c, b)
    <3>1. DOMAIN poly = 1 .. 3
        BY LenProperties
    <3>2. Before(poly, 1) = c /\ Before(poly, 2) = a /\ Before(poly, 3) = b
        BY <1>1 DEF Before
    <3>3. QED BY <1>1, <3>1, <3>2 DEF Clear
  <2>4. ~NearEdge(p, c, a) /\ ~NearEdge(p, a, b) /\ ~NearEdge(p, b, c)
      BY <2>3, EdgeTurned
  <2>5. Sound(s1, s2, s3, (Crosses(p, c, a) <=> Crosses(p, a, b)) <=> Crosses(p, b, c))
      BY <1>2, <2>4, TriangleSides
  <2>6. /\ Crosses(p, a, c) <=> Crosses(p, c, a)
        /\ Crosses(p, b, a) <=> Crosses(p, a, b)
        /\ Crosses(p, c, b) <=> Crosses(p, b, c)
      BY <2>3, CrossedEdge
  <2>7. QED BY <2>1, <2>2, <2>5, <2>6 DEF Sound
<1>4. side(1) = s1 /\ side(2) = s2 /\ side(3) = s3
    BY <1>1, <1>2
<1> HIDE DEF side
<1>5. 1 .. 3 = {1, 2, 3}
    OBVIOUS
<1>6. (\A i \in 1 .. 3 : side(i) > 0) \/ (\A i \in 1 .. 3 : side(i) < 0)
        => ContainsPoint(poly, p)
    BY <1>2, <1>3, <1>4, <1>5 DEF Sound
<1>7. s1 + s2 + s3 = 0 \/ ((\E i \in 1 .. 3 : side(i) > 0) /\ \E i \in 1 .. 3 : side(i) < 0)
        => ~ContainsPoint(poly, p)
  <2>1. (\E i \in 1 .. 3 : side(i) > 0) => s1 > 0 \/ s2 > 0 \/ s3 > 0
      BY <1>4, <1>5
  <2>2. (\E i \in 1 .. 3 : side(i) < 0) => s1 < 0 \/ s2 < 0 \/ s3 < 0
      BY <1>4, <1>5
  <2>3. ContainsPoint(poly, p) =>
          \/ s1 >= 0 /\ s2 >= 0 /\ s3 >= 0 /\ s1 + s2 + s3 > 0
          \/ s1 <= 0 /\ s2 <= 0 /\ s3 <= 0 /\ s1 + s2 + s3 < 0
      BY <1>3 DEF Sound
  <2>4. QED BY <2>1, <2>2, <2>3
<1>8. QED BY <1>1, <1>2, <1>6, <1>7 DEF side

\* The crossing test answers as the geometry does: a zone of any number of
\* vertices has the same recipients however it is written, neighbours share none,
\* and a triangle contains just what is on one side of all its edges, but for a
\* recipient so near an edge that rounding decides, whatever it decides and however
\* near that is (geo.py:52-61).
THEOREM CrossingTestSound == ZoneSpec => []CrossingTestIsSound
<1>1. ASSUME ZoneInv, Understood PROVE CrossingTestIsSound
  <2>1. PICK n \in Nat : \E poly \in [1 .. n -> Point] :
           /\ poly \in Seq(Point) /\ Len(poly) = n
           /\ polygon = poly /\ Lenient(text) = poly
           /\ \A i \in 1 .. n : InRange(poly[i])
      BY <1>1, UnderstoodZone
  <2>2. PICK poly \in Seq(Point) : polygon = poly /\ Len(poly) = n
      BY <2>1
  <2>3. \A p \in Recipients : p \in Point
      BY TextsAssumption
  <2>4. TrianglesAreExact
    <3> SUFFICES ASSUME Len(poly) = 3, NEW p \in Recipients, Clear(poly, p)
                 PROVE  LET side(i) == Side(p, poly[i], poly[IF i = 3 THEN 1 ELSE i + 1])
                            flat == Side(poly[1], poly[2], poly[3]) = 0
                            allLeft == \A i \in 1 .. 3 : side(i) > 0
                            allRight == \A i \in 1 .. 3 : side(i) < 0
                            left == \E i \in 1 .. 3 : side(i) > 0
                            right == \E i \in 1 .. 3 : side(i) < 0 IN
                        /\ allLeft \/ allRight => ContainsPoint(poly, p)
                        /\ flat \/ (left /\ right) => ~ContainsPoint(poly, p)
        BY <2>2 DEF TrianglesAreExact
    <3>1. p \in Point
        BY <2>3
    <3>2. QED BY <3>1, TriangleExact
  <2>5. NeighboursShareNoRecipient
    <3> SUFFICES ASSUME Len(poly) = 4, NEW p \in Recipients, ~NearEdge(p, poly[1], poly[3])
                 PROVE  ContainsPoint(poly, p) =
                          (ContainsPoint(<<poly[1], poly[2], poly[3]>>, p)
                             # ContainsPoint(<<poly[1], poly[3], poly[4]>>, p))
        BY <2>2 DEF NeighboursShareNoRecipient
    <3>1. QED BY <2>3, QuadrangleCut
  <2>6. ZoneIsTheSameHoweverWritten
    <3> SUFFICES ASSUME poly # <<>>, NEW p \in Recipients
                 PROVE  /\ ContainsPoint(Append(Tail(poly), Head(poly)), p) = ContainsPoint(poly, p)
                        /\ Clear(poly, p) =>
                             ContainsPoint(Reverse(poly), p) = ContainsPoint(poly, p)
                        /\ ContainsPoint(Append(poly, Head(poly)), p) = ContainsPoint(poly, p)
        BY <2>2 DEF ZoneIsTheSameHoweverWritten
    <3>1. n \in Nat \ {0}
        BY <2>2
    <3>2. QED BY <2>2, <2>3, <3>1, ZoneTurned, ZoneReversed, ZoneClosed
  <2>7. QED BY <2>4, <2>5, <2>6 DEF CrossingTestIsSound
<1>2. ~Understood => CrossingTestIsSound
    BY DEF CrossingTestIsSound, TrianglesAreExact, NeighboursShareNoRecipient,
           ZoneIsTheSameHoweverWritten
<1>3. ZoneInv => CrossingTestIsSound
    BY <1>1, <1>2
<1>4. QED BY <1>3, ZoneInvariance, PTL

----------------------------------------------------------------------------
(***************************************************************************)
(* The parts run together, as MCLibrary runs them.                         *)
(***************************************************************************)
\* A behaviour of all the parts is a behaviour of each, that takes the steps of
\* its own and stands still in those of the others.
LEMMA PartBehaviours ==
  LibrarySpec => Spec /\ EasSpec /\ ZoneSpec /\ RetrySpec /\ TrailSpec /\ FallbackSpec /\ DbSpec
<1>1. LibraryInit =>
        Init /\ EasInit /\ ZoneInit /\ RetryInit /\ TrailInit /\ FallbackInit /\ DbInit
    BY DEF LibraryInit
<1>2. [LibraryNext]_allVars => [Next]_vars
    BY DEF LibraryNext, allVars, DocumentStep, Next
<1>3. [LibraryNext]_allVars => [EasNext]_easVars
    BY DEF LibraryNext, allVars, HeaderStep, EasNext
<1>4. [LibraryNext]_allVars => [ZoneNext]_zoneVars
    BY DEF LibraryNext, allVars, ZoneStep, ZoneNext
<1>5. [LibraryNext]_allVars => [RetryNext]_retryVars
    BY DEF LibraryNext, allVars
<1>6. [LibraryNext]_allVars => [TrailNext]_trailVars
    BY DEF LibraryNext, allVars
<1>7. [LibraryNext]_allVars => [FallbackNext]_fallbackVars
    BY DEF LibraryNext, allVars
<1>8. [LibraryNext]_allVars => [DbNext]_dbVars
    BY DEF LibraryNext, allVars
<1>9. QED
    BY <1>1, <1>2, <1>3, <1>4, <1>5, <1>6, <1>7, <1>8, PTL
    DEF LibrarySpec, Spec, EasSpec, ZoneSpec, RetrySpec, TrailSpec, FallbackSpec, DbSpec

\* The state of every part has its type, in the behaviours that are checked too.
THEOREM PartsTypeCorrect == LibrarySpec => []PartsTypeOK
<1>1. TypeOK /\ EasTypeOK /\ ZoneTypeOK /\ RetryTypeOK /\ TrailTypeOK /\ FallbackTypeOK
        /\ DbTypeOK => PartsTypeOK
    BY DEF PartsTypeOK
<1>2. FallbackTypeOK /\ HoldsLatest => FallbackTypeOK
    OBVIOUS
<1>3. QED
    BY <1>1, <1>2, PartBehaviours, DocumentsTypeCorrect, HeadersTypeCorrect, ZonesTypeCorrect,
       RetryTypeCorrect, TrailTypeCorrect, WindowHoldsLatest, DbTypeCorrect, PTL

=============================================================================
