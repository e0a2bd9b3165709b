-------------------------- MODULE TextCacheProofs --------------------------
(***************************************************************************)
(* For all sizes, bounds and numbers of processes: the byte count of the   *)
(* session cache, the bound of the directory, and that a text fetched for  *)
(* the session stays off the disk.                                         *)
(*                                                                         *)
(* Both tiers add up sizes, with the fold of the community modules.  The   *)
(* first part proves what such a sum is: that the recursive function it is *)
(* made of exists, that its value does not depend on the element that goes *)
(* first, and that it is additive.  The induction is that of well-founded  *)
(* sets: a set of finite sets has a least member, so the sets for which a  *)
(* fact fails have none.                                                   *)
(***************************************************************************)
EXTENDS TextCache, FiniteSetTheorems, SequenceTheorems, WellFoundedInduction, TLAPS

-----------------------------------------------------------------------------
(* Sums.                                                                    *)

(* The sum of the library is a recursive function over the subsets of a     *)
(* set, each of which gives up one of its elements, "First", and the rest.  *)
First(s) == CHOOSE x \in s : TRUE
SumOf(w, g, s) == IF s = {} THEN 0 ELSE w[First(s)] + g[s \ {First(s)}]
Solves(w, g, S) == g = [s \in SUBSET S |-> SumOf(w, g, s)]
Solution(w, S) == CHOOSE g : Solves(w, g, S)

LEMMA SumIsSolution ==
  ASSUME NEW w, NEW S
  PROVE  SumFunctionOnSet(w, S) = Solution(w, S)[S]
  BY Zenon DEF SumFunctionOnSet, FoldFunctionOnSet, MapThenFoldSet, Solution, Solves, SumOf, First

(* Induction over finite sets: of the sets with some defect, one is least.  *)
LEMMA LeastSet ==
  ASSUME NEW S, IsFiniteSet(S), NEW T \in SUBSET (SUBSET S), T # {}
  PROVE  \E s \in T : \A r \in T : r \subseteq s => r = s
<1>1. IsWellFoundedOn(StrictSubsetOrdering(S), SUBSET S)
  BY FS_StrictSubsetOrderingWellFounded, FS_FiniteSubsetsOfFinite
<1>2. PICK s \in T : \A r \in T : ~ (<<r, s>> \in StrictSubsetOrdering(S))
  BY <1>1, WFMin
<1>3. QED BY <1>2 DEF StrictSubsetOrdering

LEMMA FirstIn ==
  ASSUME NEW s, s # {}
  PROVE  First(s) \in s
  BY Zenon DEF First

LEMMA SolutionsAgree ==
  ASSUME NEW w, NEW S, IsFiniteSet(S), NEW A \in SUBSET S,
         NEW g, Solves(w, g, S), NEW h, Solves(w, h, A), NEW q \in SUBSET A
  PROVE  g[q] = h[q]
<1> DEFINE T == {r \in SUBSET A : g[r] # h[r]}
<1>1. ASSUME T # {} PROVE FALSE
  <2>1. IsFiniteSet(A) /\ T \in SUBSET (SUBSET A)
    BY FS_Subset
  <2> HIDE DEF T
  <2>2. PICK s \in T : \A r \in T : r \subseteq s => r = s
    BY <1>1, <2>1, LeastSet
  <2> USE DEF T
  <2>3. s \in SUBSET S /\ s \in SUBSET A
    OBVIOUS
  <2>4. g[s] = SumOf(w, g, s) /\ h[s] = SumOf(w, h, s)
    BY <2>3 DEF Solves
  <2>5. s # {}
    BY <2>4 DEF SumOf
  <2>6. s \ {First(s)} \notin T /\ s \ {First(s)} \in SUBSET A
    BY <2>2, <2>3, <2>5, FirstIn
  <2>7. g[s \ {First(s)}] = h[s \ {First(s)}]
    BY <2>6
  <2>8. QED BY <2>4, <2>7 DEF SumOf
<1>2. QED BY <1>1

LEMMA SolutionExists ==
  ASSUME NEW w, NEW S, IsFiniteSet(S)
  PROVE  Solves(w, Solution(w, S), S)
<1> DEFINE T == {r \in SUBSET S : ~ (\E g : Solves(w, g, r))}
<1>1. ASSUME T # {} PROVE FALSE
  <2>0. T \in SUBSET (SUBSET S)
    OBVIOUS
  <2> HIDE DEF T
  <2>1. PICK s \in T : \A r \in T : r \subseteq s => r = s
    BY <1>1, <2>0, LeastSet
  <2> USE DEF T
  <2>2. s \in SUBSET S /\ ~ (\E g : Solves(w, g, s))
    OBVIOUS
  <2>3. ASSUME NEW r \in SUBSET s, r # s
        PROVE  IsFiniteSet(r) /\ Solves(w, Solution(w, r), r)
    <3>1. r \notin T /\ r \in SUBSET S
      BY <2>1, <2>2, <2>3
    <3>2. \E g : Solves(w, g, r)
      BY <3>1
    <3>3. Solves(w, Solution(w, r), r)
      BY <3>2, Zenon DEF Solution
    <3>4. QED BY <3>1, <3>3, FS_Subset
  <2> DEFINE Whole(r) == Solution(w, r)[r]
             h == [r \in SUBSET s |-> IF r = {} THEN 0
                                       ELSE w[First(r)] + Whole(r \ {First(r)})]
  <2>4. ASSUME NEW r \in SUBSET s, r # {}
        PROVE  h[r \ {First(r)}] = Whole(r \ {First(r)})
    <3> DEFINE q == r \ {First(r)}
    <3>1. q \in SUBSET s /\ q # s
      BY <2>4, FirstIn
    <3>2. IsFiniteSet(q) /\ Solves(w, Solution(w, q), q)
      BY <3>1, <2>3
    <3>3. Whole(q) = SumOf(w, Solution(w, q), q)
      BY <3>2 DEF Solves
    <3>4. CASE q = {}
      BY <3>1, <3>3, <3>4 DEF SumOf
    <3>5. CASE q # {}
      <4> DEFINE t == q \ {First(q)}
      <4>1. t \in SUBSET q /\ t \in SUBSET s /\ t # s
        BY <3>1, <3>5, FirstIn
      <4>2. Solves(w, Solution(w, t), t)
        BY <4>1, <2>3
      <4>3. Solution(w, q)[t] = Whole(t)
        BY <3>2, <4>1, <4>2, SolutionsAgree
      <4>4. Whole(q) = w[First(q)] + Solution(w, q)[t]
        BY <3>3, <3>5 DEF SumOf
      <4>5. h[q] = w[First(q)] + Whole(t)
        BY <3>1, <3>5
      <4>6. QED BY <4>3, <4>4, <4>5
    <3>6. QED BY <3>4, <3>5
  <2>5. ASSUME NEW r \in SUBSET s
        PROVE  h[r] = SumOf(w, h, r)
    <3>1. CASE r = {}
      BY <3>1 DEF SumOf
    <3>2. CASE r # {}
      <4>1. h[r] = w[First(r)] + Whole(r \ {First(r)})
        BY <3>2
      <4>2. SumOf(w, h, r) = w[First(r)] + h[r \ {First(r)}]
        BY <3>2 DEF SumOf
      <4>3. QED BY <2>4, <3>2, <4>1, <4>2
    <3>3. QED BY <3>1, <3>2
  <2>6. h = [r \in SUBSET s |-> h[r]]
    OBVIOUS
  <2> HIDE DEF h
  <2>7. h = [r \in SUBSET s |-> SumOf(w, h, r)]
    BY <2>5, <2>6
  <2>8. QED BY <2>2, <2>7 DEF Solves
<1>2. \E g : Solves(w, g, S)
  BY <1>1
<1>3. QED BY <1>2, Zenon DEF Solution

LEMMA SumEmpty ==
  ASSUME NEW w
  PROVE  SumFunctionOnSet(w, {}) = 0
<1>1. Solves(w, Solution(w, {}), {})
  BY FS_EmptySet, SolutionExists
<1>2. Solution(w, {})[{}] = SumOf(w, Solution(w, {}), {})
  BY <1>1 DEF Solves
<1>3. QED BY <1>2, SumIsSolution DEF SumOf

LEMMA SumStep ==
  ASSUME NEW w, NEW S, IsFiniteSet(S), S # {}
  PROVE  SumFunctionOnSet(w, S) = w[First(S)] + SumFunctionOnSet(w, S \ {First(S)})
<1> DEFINE R == S \ {First(S)}
<1>1. IsFiniteSet(R) /\ R \in SUBSET S
  BY FS_Subset
<1>2. Solves(w, Solution(w, S), S) /\ Solves(w, Solution(w, R), R)
  BY <1>1, SolutionExists
<1>3. Solution(w, S)[R] = Solution(w, R)[R]
  BY <1>1, <1>2, SolutionsAgree
<1>4. Solution(w, S)[S] = w[First(S)] + Solution(w, S)[R]
  BY <1>2 DEF Solves, SumOf
<1>5. QED BY <1>3, <1>4, SumIsSolution

LEMMA SumNat ==
  ASSUME NEW w, NEW S, IsFiniteSet(S), \A x \in S : w[x] \in Nat
  PROVE  SumFunctionOnSet(w, S) \in Nat
<1> DEFINE T == {r \in SUBSET S : SumFunctionOnSet(w, r) \notin Nat}
<1>1. ASSUME T # {} PROVE FALSE
  <2>1. T \in SUBSET (SUBSET S)
    OBVIOUS
  <2> HIDE DEF T
  <2>2. PICK s \in T : \A r \in T : r \subseteq s => r = s
    BY <1>1, <2>1, LeastSet
  <2> USE DEF T
  <2>3. s \in SUBSET S /\ IsFiniteSet(s) /\ SumFunctionOnSet(w, s) \notin Nat
    BY FS_Subset
  <2>4. s # {}
    BY <2>3, SumEmpty
  <2>5. First(s) \in S /\ s \ {First(s)} \notin T
    BY <2>2, <2>3, <2>4, FirstIn
  <2>6. SumFunctionOnSet(w, s \ {First(s)}) \in Nat
    BY <2>3, <2>5
  <2>7. QED BY <2>3, <2>4, <2>5, <2>6, SumStep
<1>2. S \notin T
  BY <1>1
<1>3. QED BY <1>2

(* Whichever element goes first, the sum is the same.                       *)
LEMMA SumAdd ==
  ASSUME NEW w, NEW S, IsFiniteSet(S), \A x \in S : w[x] \in Nat, NEW e \in S
  PROVE  SumFunctionOnSet(w, S) = w[e] + SumFunctionOnSet(w, S \ {e})
<1> DEFINE Off(r, x) == SumFunctionOnSet(w, r) # w[x] + SumFunctionOnSet(w, r \ {x})
           T == {r \in SUBSET S : \E x \in r : Off(r, x)}
<1>1. ASSUME T # {} PROVE FALSE
  <2>1. T \in SUBSET (SUBSET S)
    OBVIOUS
  <2> HIDE DEF T
  <2>2. PICK s \in T : \A r \in T : r \subseteq s => r = s
    BY <1>1, <2>1, LeastSet
  <2> USE DEF T
  <2>3. s \in SUBSET S /\ IsFiniteSet(s) /\ s # {}
    BY FS_Subset
  <2>4. PICK x \in s : Off(s, x)
    OBVIOUS
  <2> DEFINE f == First(s)
             both == s \ {f, x}
  <2>5. f \in s /\ SumFunctionOnSet(w, s) = w[f] + SumFunctionOnSet(w, s \ {f})
    BY <2>3, FirstIn, SumStep
  <2> HIDE DEF f
  <2>6. f # x
    BY <2>4, <2>5
  <2>7. ASSUME NEW r \in SUBSET s, r # s, NEW y \in r PROVE ~ Off(r, y)
    BY <2>2, <2>3, <2>7
  <2>8. (s \ {f}) \ {x} = both /\ (s \ {x}) \ {f} = both
    OBVIOUS
  <2>9. SumFunctionOnSet(w, s \ {f}) = w[x] + SumFunctionOnSet(w, both)
    <3>1. ~ Off(s \ {f}, x)
      BY <2>5, <2>6, <2>7
    <3>2. QED BY <2>8, <3>1
  <2>10. SumFunctionOnSet(w, s \ {x}) = w[f] + SumFunctionOnSet(w, both)
    <3>1. ~ Off(s \ {x}, f)
      BY <2>5, <2>6, <2>7
    <3>2. QED BY <2>8, <3>1
  <2>11. IsFiniteSet(both) /\ both \in SUBSET S
    BY <2>3, FS_Subset
  <2>12. SumFunctionOnSet(w, both) \in Nat /\ w[f] \in Nat /\ w[x] \in Nat
    BY <2>3, <2>5, <2>11, SumNat
  <2>13. QED BY <2>4, <2>5, <2>9, <2>10, <2>12
<1>2. S \notin T
  BY <1>1
<1>3. QED BY <1>2

LEMMA SumUnion ==
  ASSUME NEW w, NEW A, NEW B, IsFiniteSet(A), IsFiniteSet(B), A \cap B = {},
         \A x \in A \cup B : w[x] \in Nat
  PROVE  SumFunctionOnSet(w, A \cup B) = SumFunctionOnSet(w, A) + SumFunctionOnSet(w, B)
<1> DEFINE T == {r \in SUBSET A : SumFunctionOnSet(w, r \cup B)
                                    # SumFunctionOnSet(w, r) + SumFunctionOnSet(w, B)}
<1>1. ASSUME T # {} PROVE FALSE
  <2>1. T \in SUBSET (SUBSET A)
    OBVIOUS
  <2> HIDE DEF T
  <2>2. PICK s \in T : \A r \in T : r \subseteq s => r = s
    BY <1>1, <2>1, LeastSet
  <2> USE DEF T
  <2>3. s \in SUBSET A /\ IsFiniteSet(s) /\ IsFiniteSet(s \cup B)
    BY FS_Subset, FS_Union
  <2>4. SumFunctionOnSet(w, B) \in Nat
    BY SumNat
  <2>5. s # {}
    <3>1. ASSUME s = {} PROVE FALSE
      <4>1. s \cup B = B /\ SumFunctionOnSet(w, s) = 0
        BY <3>1, SumEmpty
      <4>2. SumFunctionOnSet(w, s \cup B) # SumFunctionOnSet(w, s) + SumFunctionOnSet(w, B)
        OBVIOUS
      <4>3. SumFunctionOnSet(w, s \cup B) = SumFunctionOnSet(w, B)
        BY <4>1, Zenon
      <4>4. QED BY <2>4, <4>1, <4>2, <4>3
    <3>2. QED BY <3>1
  <2>6. PICK e : e \in s
    BY <2>5
  <2> DEFINE q == s \ {e}
  <2>7. q \in SUBSET A /\ q \notin T /\ (s \cup B) \ {e} = q \cup B
    BY <2>2, <2>3, <2>6
  <2>8. SumFunctionOnSet(w, q \cup B) = SumFunctionOnSet(w, q) + SumFunctionOnSet(w, B)
    BY <2>7
  <2>9. SumFunctionOnSet(w, s) = w[e] + SumFunctionOnSet(w, q)
    BY <2>3, <2>6, SumAdd
  <2>10. SumFunctionOnSet(w, s \cup B) = w[e] + SumFunctionOnSet(w, q \cup B)
    BY <2>3, <2>6, <2>7, SumAdd
  <2>11. SumFunctionOnSet(w, q) \in Nat /\ w[e] \in Nat
    BY <2>3, <2>6, <2>7, FS_Subset, SumNat
  <2>12. QED BY <2>4, <2>8, <2>9, <2>10, <2>11
<1>2. A \notin T
  BY <1>1
<1>3. QED BY <1>2

LEMMA SumMonotone ==
  ASSUME NEW w, NEW B, IsFiniteSet(B), NEW A \in SUBSET B, \A x \in B : w[x] \in Nat
  PROVE  SumFunctionOnSet(w, A) <= SumFunctionOnSet(w, B)
<1>1. IsFiniteSet(A) /\ IsFiniteSet(B \ A) /\ A \cap (B \ A) = {} /\ A \cup (B \ A) = B
  BY FS_Subset
<1>2. SumFunctionOnSet(w, B) = SumFunctionOnSet(w, A) + SumFunctionOnSet(w, B \ A)
  BY <1>1, SumUnion
<1>3. SumFunctionOnSet(w, A) \in Nat /\ SumFunctionOnSet(w, B \ A) \in Nat
  BY <1>1, SumNat
<1>4. QED BY <1>2, <1>3

LEMMA SumSame ==
  ASSUME NEW w, NEW u, NEW S, IsFiniteSet(S), \A x \in S : w[x] = u[x]
  PROVE  SumFunctionOnSet(w, S) = SumFunctionOnSet(u, S)
<1> DEFINE T == {r \in SUBSET S : SumFunctionOnSet(w, r) # SumFunctionOnSet(u, r)}
<1>1. ASSUME T # {} PROVE FALSE
  <2>1. T \in SUBSET (SUBSET S)
    OBVIOUS
  <2> HIDE DEF T
  <2>2. PICK s \in T : \A r \in T : r \subseteq s => r = s
    BY <1>1, <2>1, LeastSet
  <2> USE DEF T
  <2>3. s \in SUBSET S /\ IsFiniteSet(s)
    BY FS_Subset
  <2>4. s # {}
    BY SumEmpty
  <2>5. First(s) \in s /\ s \ {First(s)} \notin T
    BY <2>2, <2>3, <2>4, FirstIn
  <2>6. SumFunctionOnSet(w, s \ {First(s)}) = SumFunctionOnSet(u, s \ {First(s)})
    BY <2>3, <2>5
  <2>7. QED BY <2>3, <2>4, <2>5, <2>6, SumStep
<1>2. S \notin T
  BY <1>1
<1>3. QED BY <1>2

-----------------------------------------------------------------------------
(* Sequences without repetition, and what the session cache does to them.   *)

Once(items) == \A i, j \in 1..Len(items) : items[i] = items[j] => i = j

LEMMA LeastIn ==
  ASSUME NEW I \in SUBSET Nat, I # {}
  PROVE  Min(I) \in I
<1>1. PICK x \in I : TRUE
  OBVIOUS
<1> DEFINE J == I \cap (0..x)
           U == 0..x
           T == {0..n : n \in J}
<1>2. T \in SUBSET (SUBSET U) /\ T # {} /\ IsFiniteSet(U)
  <2>1. \A n \in J : 0..n \subseteq U
    OBVIOUS
  <2>2. x \in J
    OBVIOUS
  <2>3. IsFiniteSet(U)
    BY FS_Interval
  <2>4. QED BY <2>1, <2>2, <2>3
<1> HIDE DEF T, U
<1>3. PICK s \in T : \A r \in T : r \subseteq s => r = s
  BY <1>2, LeastSet
<1>4. PICK m \in J : s = 0..m
  BY DEF T
<1>5. ASSUME NEW y \in J, y < m PROVE FALSE
  <2>1. 0..y \in T /\ 0..y \subseteq s
    BY <1>4, <1>5 DEF T
  <2>2. m \in 0..m /\ m \notin 0..y
    BY <1>4, <1>5
  <2>3. 0..y = 0..m
    BY <1>3, <1>4, <2>1
  <2>4. QED BY <2>2, <2>3
<1>6. m \in I /\ \A y \in I : m <= y
  BY <1>4, <1>5
<1>7. QED BY <1>6 DEF Min

LEMMA RemovedAt ==
  ASSUME NEW K, NEW s \in Seq(K), NEW i \in 1..Len(s)
  PROVE  /\ RemoveAt(s, i) \in Seq(K)
         /\ Len(RemoveAt(s, i)) = Len(s) - 1
         /\ \A j \in 1..(Len(s) - 1) : RemoveAt(s, i)[j] = IF j < i THEN s[j] ELSE s[j + 1]
<1> DEFINE a == SubSeq(s, 1, i - 1)
           b == SubSeq(s, i + 1, Len(s))
<1>1. a \in Seq(K) /\ b \in Seq(K)
  OBVIOUS
<1>2. Len(a) = i - 1 /\ Len(b) = Len(s) - i
  OBVIOUS
<1>3. /\ \A j \in 1..(i - 1) : a[j] = s[j]
      /\ \A j \in 1..(Len(s) - i) : b[j] = s[i + j]
  OBVIOUS
<1>4. RemoveAt(s, i) = a \o b
  BY DEF RemoveAt
<1> HIDE DEF a, b
<1>5. a \o b \in Seq(K) /\ Len(a \o b) = Len(s) - 1
  BY <1>1, <1>2
<1>6. ASSUME NEW j \in 1..(Len(s) - 1) PROVE (a \o b)[j] = IF j < i THEN s[j] ELSE s[j + 1]
  <2>1. (a \o b)[j] = IF j <= Len(a) THEN a[j] ELSE b[j - Len(a)]
    BY <1>1, <1>2
  <2>2. CASE j < i
    BY <1>2, <1>3, <2>1, <2>2
  <2>3. CASE j >= i
    <3>1. j - (i - 1) \in 1..(Len(s) - i) /\ i + (j - (i - 1)) = j + 1
      BY <2>3
    <3>2. QED BY <1>2, <1>3, <2>1, <2>3, <3>1
  <2>4. j < i \/ j >= i
    OBVIOUS
  <2>5. QED BY <2>2, <2>3, <2>4
<1>7. QED BY <1>4, <1>5, <1>6

LEMMA RangeIs ==
  ASSUME NEW K, NEW s \in Seq(K)
  PROVE  /\ \A i \in 1..Len(s) : s[i] \in Range(s)
         /\ \A x \in Range(s) : \E i \in 1..Len(s) : x = s[i]
  BY DEF Range

LEMMA Removed ==
  ASSUME NEW K, NEW s \in Seq(K), Once(s), NEW e
  PROVE  /\ RemoveFirst(s, e) \in Seq(K) /\ Once(RemoveFirst(s, e))
         /\ Range(RemoveFirst(s, e)) = Range(s) \ {e}
         /\ e \in Range(s) => Len(RemoveFirst(s, e)) = Len(s) - 1
<1> DEFINE I == {i \in 1..Len(s) : s[i] = e}
<1>1. CASE I # {}
  <2>0. I \in SUBSET Nat
    OBVIOUS
  <2> HIDE DEF I
  <2>1. Min(I) \in I
    BY <1>1, <2>0, LeastIn
  <2> USE DEF I
  <2>2. RemoveFirst(s, e) = RemoveAt(s, Min(I))
    BY <1>1, Zenon DEF RemoveFirst, SelectInSeq
  <2>3. PICK i \in 1..Len(s) : s[i] = e /\ RemoveFirst(s, e) = RemoveAt(s, i)
    BY <2>1, <2>2
  <2> DEFINE r == RemoveFirst(s, e)
  <2>4. /\ r \in Seq(K) /\ Len(r) = Len(s) - 1
        /\ \A j \in 1..(Len(s) - 1) : r[j] = IF j < i THEN s[j] ELSE s[j + 1]
    BY <2>3, RemovedAt
  <2> HIDE DEF r
  <2>5. Once(r)
    BY <2>4 DEF Once
  <2>6. ASSUME NEW x \in Range(r) PROVE x \in Range(s) /\ x # e
    <3>1. PICK j \in 1..Len(r) : x = r[j]
      BY <2>4, RangeIs
    <3>2. PICK k \in 1..Len(s) : x = s[k] /\ k # i
      <4>1. CASE j < i
        BY <2>4, <3>1, <4>1
      <4>2. CASE j >= i
        <5>1. j + 1 \in 1..Len(s) /\ j + 1 # i /\ x = s[j + 1]
          BY <2>4, <3>1, <4>2
        <5>2. QED BY <5>1
      <4>3. QED BY <4>1, <4>2
    <3>3. x # e
      BY <2>3, <3>2 DEF Once
    <3>4. QED BY <3>2, <3>3, RangeIs
  <2>7. ASSUME NEW x \in Range(s), x # e PROVE x \in Range(r)
    <3>1. PICK j \in 1..Len(s) : x = s[j]
      BY RangeIs
    <3>2. CASE j < i
      BY <2>4, <3>1, <3>2, RangeIs
    <3>3. CASE j > i
      <4>1. j - 1 \in 1..(Len(s) - 1) /\ r[j - 1] = s[j]
        BY <2>4, <3>3
      <4>2. QED BY <2>4, <3>1, <4>1, RangeIs
    <3>4. QED BY <2>3, <2>7, <3>1, <3>2, <3>3
  <2>8. QED BY <2>4, <2>5, <2>6, <2>7 DEF r
<1>2. CASE I = {}
  <2>1. RemoveFirst(s, e) = s
    BY <1>2 DEF RemoveFirst
  <2>2. e \notin Range(s)
    BY <1>2, RangeIs
  <2>3. QED BY <2>1, <2>2
<1>3. QED BY <1>1, <1>2

LEMMA TouchedOnce ==
  ASSUME NEW items \in Seq(Keys), Once(items), NEW k \in Keys
  PROVE  /\ Touched(items, k) \in Seq(Keys) /\ Once(Touched(items, k))
         /\ Range(Touched(items, k)) = Range(items) \cup {k}
         /\ k \in Range(items) => Len(Touched(items, k)) = Len(items)
<1> DEFINE r == RemoveFirst(items, k)
<1>1. /\ r \in Seq(Keys) /\ Once(r) /\ Range(r) = Range(items) \ {k}
      /\ k \in Range(items) => Len(r) = Len(items) - 1
  BY Removed
<1> HIDE DEF r
<1> DEFINE t == Append(r, k)
<1>2. /\ t \in Seq(Keys) /\ Len(t) = Len(r) + 1 /\ t[Len(r) + 1] = k
      /\ \A i \in 1..Len(r) : t[i] = r[i]
  BY <1>1
<1> HIDE DEF t
<1>3. \A i \in 1..Len(r) : r[i] # k
  BY <1>1, RangeIs
<1>4. Once(t)
  BY <1>1, <1>2, <1>3 DEF Once
<1>5. Range(t) = Range(r) \cup {k}
  <2>1. \A x \in Range(t) : x \in Range(r) \cup {k}
    BY <1>1, <1>2, RangeIs
  <2>2. \A x \in Range(r) : x \in Range(t)
    BY <1>1, <1>2, RangeIs
  <2>3. k \in Range(t)
    BY <1>1, <1>2, RangeIs
  <2>4. QED BY <2>1, <2>2, <2>3
<1>6. t = Touched(items, k)
  BY DEF t, r, Touched
<1>7. Range(r) \cup {k} = Range(items) \cup {k}
  BY <1>1
<1>8. k \in Range(items) => Len(t) = Len(items)
  BY <1>1, <1>2
<1>9. QED BY <1>2, <1>4, <1>5, <1>6, <1>7, <1>8

LEMMA RangeFinite ==
  ASSUME NEW K, NEW items \in Seq(K)
  PROVE  IsFiniteSet(Range(items)) /\ Range(items) \subseteq K
<1>1. items \in [1..Len(items) -> Range(items)]
  BY DEF Range
<1>2. items \in Surjection(1..Len(items), Range(items))
  BY <1>1 DEF Surjection, Range
<1>3. IsFiniteSet(1..Len(items))
  BY FS_Interval
<1>4. IsFiniteSet(Range(items))
  BY <1>2, <1>3, FS_Surjection
<1>5. QED BY <1>4 DEF Range

LEMMA Parts ==
  ASSUME NEW items \in Seq(Keys), Once(items), NEW n \in 0..Len(items)
  PROVE  LET old == SubSeq(items, 1, n)
             rest == SubSeq(items, n + 1, Len(items))
         IN  /\ old \in Seq(Keys) /\ rest \in Seq(Keys) /\ Once(rest)
             /\ Range(old) \cup Range(rest) = Range(items)
             /\ Range(old) \cap Range(rest) = {}
<1> DEFINE old == SubSeq(items, 1, n)
           rest == SubSeq(items, n + 1, Len(items))
<1>1. /\ old \in Seq(Keys) /\ Len(old) = n
      /\ \A i \in 1..n : old[i] = items[i]
  OBVIOUS
<1>2. /\ rest \in Seq(Keys) /\ Len(rest) = Len(items) - n
      /\ \A i \in 1..(Len(items) - n) : rest[i] = items[n + i]
  OBVIOUS
<1> HIDE DEF old, rest
<1>3. Once(rest)
  BY <1>2 DEF Once
<1>4. ASSUME NEW x \in Range(old), x \in Range(rest) PROVE FALSE
  <2>1. PICK i \in 1..n : x = items[i]
    BY <1>1, RangeIs
  <2>2. PICK j \in 1..(Len(items) - n) : x = items[n + j]
    BY <1>2, <1>4, RangeIs
  <2>3. i \in 1..Len(items) /\ n + j \in 1..Len(items) /\ i # n + j
    OBVIOUS
  <2>4. QED BY <2>1, <2>2, <2>3 DEF Once
<1>5. Range(old) \cup Range(rest) \subseteq Range(items)
  <2>1. ASSUME NEW x \in Range(old) PROVE x \in Range(items)
    BY <1>1, RangeIs
  <2>2. ASSUME NEW x \in Range(rest) PROVE x \in Range(items)
    <3>1. PICK j \in 1..(Len(items) - n) : x = items[n + j]
      BY <1>2, RangeIs
    <3>2. n + j \in 1..Len(items)
      OBVIOUS
    <3>3. QED BY <3>1, <3>2, RangeIs
  <2>3. QED BY <2>1, <2>2
<1>6. ASSUME NEW i \in 1..Len(items) PROVE items[i] \in Range(old) \cup Range(rest)
  <2>1. CASE i <= n
    BY <1>1, <2>1, RangeIs
  <2>2. CASE i > n
    <3>1. i - n \in 1..(Len(items) - n) /\ rest[i - n] = items[i]
      BY <1>2, <2>2
    <3>2. QED BY <1>2, <3>1, RangeIs
  <2>3. QED BY <2>1, <2>2
<1>7. Range(items) \subseteq Range(old) \cup Range(rest)
  BY <1>6, RangeIs
<1>8. QED BY <1>1, <1>2, <1>3, <1>4, <1>5, <1>7 DEF old, rest

-----------------------------------------------------------------------------
(* The session cache of one process.                                        *)

GoodItems(items, bytes) ==
  /\ items \in Seq(Keys) /\ Once(items)
  /\ bytes = Bytes(items) /\ Fits(items, bytes)

LEMMA BytesNat ==
  ASSUME NEW items \in Seq(Keys)
  PROVE  Bytes(items) \in Nat
<1>1. IsFiniteSet(Range(items)) /\ \A x \in Range(items) : Size[x] \in Nat
  BY RangeFinite, CacheAssumption
<1>2. QED BY <1>1, SumNat DEF Bytes

LEMMA EmptyGood == GoodItems(<< >>, 0)
<1>1. << >> \in Seq(Keys) /\ Len(<< >>) = 0
  OBVIOUS
<1>2. Range(<< >>) = {}
  <2>1. \A x \in Range(<< >>) : \E i \in 1..0 : x = << >>[i]
    BY <1>1, RangeIs
  <2>2. QED BY <2>1
<1>3. Bytes(<< >>) = 0
  BY <1>2, SumEmpty DEF Bytes
<1>4. QED BY <1>1, <1>3, CacheAssumption DEF GoodItems, Once, Fits

LEMMA HitGood ==
  ASSUME NEW items, NEW bytes, GoodItems(items, bytes), NEW k \in Range(items)
  PROVE  GoodItems(Touched(items, k), bytes)
<1>1. items \in Seq(Keys) /\ Once(items) /\ k \in Keys
  BY RangeFinite DEF GoodItems
<1>2. /\ Touched(items, k) \in Seq(Keys) /\ Once(Touched(items, k))
      /\ Range(Touched(items, k)) = Range(items)
      /\ Len(Touched(items, k)) = Len(items)
  <2>1. Range(items) \cup {k} = Range(items)
    OBVIOUS
  <2>2. /\ Touched(items, k) \in Seq(Keys) /\ Once(Touched(items, k))
        /\ Range(Touched(items, k)) = Range(items) \cup {k}
        /\ Len(Touched(items, k)) = Len(items)
    BY <1>1, TouchedOnce
  <2>3. QED BY <2>1, <2>2
<1>3. Bytes(Touched(items, k)) = Bytes(items)
  BY <1>2 DEF Bytes
<1>4. QED BY <1>2, <1>3 DEF GoodItems, Fits

LEMMA TouchedBytes ==
  ASSUME NEW items \in Seq(Keys), Once(items), NEW k \in Keys
  PROVE  Bytes(Touched(items, k))
           = (Bytes(items) - (IF k \in Range(items) THEN Size[k] ELSE 0)) + Size[k]
<1> DEFINE R == Range(items)
<1>1. /\ IsFiniteSet(R) /\ IsFiniteSet(R \cup {k})
      /\ \A x \in R \cup {k} : Size[x] \in Nat
  BY RangeFinite, FS_AddElement, CacheAssumption
<1>2. Range(Touched(items, k)) = R \cup {k}
  BY TouchedOnce
<1>3. Bytes(items) \in Nat /\ Size[k] \in Nat
  BY BytesNat, <1>1
<1>4. CASE k \in R
  <2>1. R \cup {k} = R
    BY <1>4
  <2>2. Bytes(Touched(items, k)) = Bytes(items)
    BY <1>2, <2>1 DEF Bytes
  <2>3. QED BY <1>3, <1>4, <2>2
<1>5. CASE k \notin R
  <2>1. (R \cup {k}) \ {k} = R
    BY <1>5
  <2> DEFINE U == R \cup {k}
  <2>2. k \in U /\ IsFiniteSet(U) /\ \A x \in U : Size[x] \in Nat
    BY <1>1
  <2> HIDE DEF U
  <2>3. SumFunctionOnSet(Size, U) = Size[k] + SumFunctionOnSet(Size, U \ {k})
    BY <2>2, SumAdd
  <2>4. U \ {k} = R /\ Range(Touched(items, k)) = U
    BY <1>2, <2>1 DEF U
  <2>5. Bytes(Touched(items, k)) = Size[k] + Bytes(items)
    BY <2>3, <2>4 DEF Bytes
  <2>6. QED BY <1>3, <1>5, <2>5
<1>6. QED BY <1>4, <1>5

LEMMA EvictedGood ==
  ASSUME NEW items \in Seq(Keys), Once(items)
  PROVE  LET n == Evictions(items, Bytes(items))
         IN  GoodItems(SubSeq(items, n + 1, Len(items)), Evicted(items, Bytes(items), n))
<1> DEFINE rest(m) == SubSeq(items, m + 1, Len(items))
           left(m) == Evicted(items, Bytes(items), m)
           C == {m \in 0..Len(items) : Fits(rest(m), left(m))}
           n == Evictions(items, Bytes(items))
<1>1. ASSUME NEW m \in 0..Len(items)
      PROVE  rest(m) \in Seq(Keys) /\ Once(rest(m)) /\ left(m) = Bytes(rest(m))
  <2> DEFINE old == SubSeq(items, 1, m)
             A == Range(old)
             B == Range(rest(m))
  <2>1. /\ old \in Seq(Keys) /\ rest(m) \in Seq(Keys) /\ Once(rest(m))
        /\ A \cup B = Range(items) /\ A \cap B = {}
    BY Parts
  <2>2. Bytes(items) \in Nat /\ Bytes(old) \in Nat /\ Bytes(rest(m)) \in Nat
    BY <2>1, BytesNat
  <2>3. IsFiniteSet(A) /\ IsFiniteSet(B) /\ \A x \in A \cup B : Size[x] \in Nat
    BY <2>1, RangeFinite, CacheAssumption
  <2>4. Bytes(old) = SumFunctionOnSet(Size, A) /\ Bytes(rest(m)) = SumFunctionOnSet(Size, B)
    BY DEF Bytes
  <2>5. left(m) = Bytes(items) - Bytes(old)
    BY DEF Evicted
  <2> HIDE DEF A, B, rest, old, left
  <2>6. SumFunctionOnSet(Size, A \cup B) = Bytes(old) + Bytes(rest(m))
    BY <2>1, <2>3, <2>4, SumUnion
  <2>7. Bytes(items) = SumFunctionOnSet(Size, A \cup B)
    BY <2>1 DEF Bytes
  <2>8. QED BY <2>1, <2>2, <2>5, <2>6, <2>7
<1>2. Len(items) \in C
  <2>1. rest(Len(items)) = << >>
    OBVIOUS
  <2>2. left(Len(items)) = Bytes(<< >>)
    <3>1. Len(items) \in 0..Len(items)
      OBVIOUS
    <3>2. left(Len(items)) = Bytes(rest(Len(items)))
      BY <1>1, <3>1
    <3>3. QED BY <2>1, <3>2
  <2>3. GoodItems(<< >>, 0)
    BY EmptyGood
  <2>4. Fits(rest(Len(items)), left(Len(items)))
    BY <2>1, <2>2, <2>3 DEF GoodItems
  <2>5. QED BY <2>4
<1>3. C \in SUBSET Nat
  OBVIOUS
<1>4. n = Min(C)
  BY DEF Evictions
<1> HIDE DEF C
<1>5. n \in C
  BY <1>2, <1>3, <1>4, LeastIn
<1>6. n \in 0..Len(items) /\ Fits(rest(n), left(n))
  BY <1>5 DEF C
<1>7. QED BY <1>1, <1>6 DEF GoodItems

-----------------------------------------------------------------------------
(* The disk.                                                                *)

Entries == [key : Keys, mtime : Nat]
Drafts == [owner : Processes, key : Keys, mtime : Nat]
Ops ==
  {Idle, [at |-> "cleaning"]}
    \cup [at : {"discarding", "reading"}, key : Keys]
    \cup [at : {"replacing"}, temp : Drafts]
    \cup [at : {"removing"}, victims : SUBSET (Entries \cup Drafts)]

Typed ==
  /\ TypeOK
  /\ op \in [Processes -> Ops]
  /\ IsFiniteSet(files) /\ IsFiniteSet(temps)

Sessions == \A p \in Processes : GoodItems(session[p], total[p])

(* A call that is still writing already counted its key.                    *)
Counted ==
  /\ SessionStaysOffDisk
  /\ \A p \in Processes : At(p, "replacing") => op[p].temp.key \in public

(* Once nobody has a listing to make, the files that are not left behind    *)
(* are within the bound, or a removal that is under way, of the process     *)
(* that listed last, brings them there: nothing but a put adds a key, and   *)
(* who puts lists afterwards.                                               *)
Left(victims) == {f \in Removable : f.key \notin Named(victims)}
Settling ==
  (\A p \in Processes : ~At(p, "cleaning"))
    => \/ Weight(Removable) <= DiskBytes
       \/ \E p \in Processes : /\ At(p, "removing")
                               /\ Weight(Left(op[p].victims)) <= DiskBytes

CacheInv == Typed /\ Sessions /\ Counted /\ Settling

Serving == session \in [Processes -> Seq(Keys)] /\ total \in [Processes -> Int] /\ Sessions

LEMMA ServingGoes ==
  ASSUME Serving, NEW p \in Processes, NEW items, NEW bytes, GoodItems(items, bytes),
         session' = [session EXCEPT ![p] = items], total' = [total EXCEPT ![p] = bytes]
  PROVE  Serving'
<1>1. items \in Seq(Keys) /\ bytes \in Int
  BY BytesNat DEF GoodItems
<1>2. session' \in [Processes -> Seq(Keys)] /\ total' \in [Processes -> Int]
  BY <1>1 DEF Serving
<1>3. ASSUME NEW q \in Processes PROVE GoodItems(session'[q], total'[q])
  BY DEF Serving, Sessions
<1>4. QED BY <1>2, <1>3 DEF Serving, Sessions

LEMMA ServingStays ==
  ASSUME Serving, UNCHANGED <<session, total>>
  PROVE  Serving'
  BY DEF Serving, Sessions

LEMMA PutServes ==
  ASSUME Serving, NEW p \in Processes, NEW k \in Keys, SessionPut(p, k)
  PROVE  Serving'
<1>1. CASE UNCHANGED <<session, total>>
  BY <1>1, ServingStays
<1>2. CASE Stored(p, k)
  <2> DEFINE items == Touched(session[p], k)
             bytes == (total[p] - (IF Has(p, k) THEN Size[k] ELSE 0)) + Size[k]
             n == Evictions(items, bytes)
             rest == SubSeq(items, n + 1, Len(items))
             left == Evicted(items, bytes, n)
  <2>1. session[p] \in Seq(Keys) /\ Once(session[p]) /\ total[p] = Bytes(session[p])
    BY DEF Serving, Sessions, GoodItems
  <2>2. items \in Seq(Keys) /\ Once(items) /\ bytes = Bytes(items)
    BY <2>1, TouchedOnce, TouchedBytes DEF Has
  <2>3. session' = [session EXCEPT ![p] = rest] /\ total' = [total EXCEPT ![p] = left]
    BY <1>2 DEF Stored
  <2> HIDE DEF items, bytes
  <2>4. GoodItems(rest, left)
    BY <2>2, EvictedGood
  <2>5. QED BY <2>3, <2>4, ServingGoes
<1>3. QED BY <1>1, <1>2 DEF SessionPut

LEMMA ServingNext ==
  ASSUME Serving, Typed, [Next]_vars
  PROVE  Serving'
<1>1. ASSUME NEW p \in Processes, NEW k \in Keys, SessionHit(p, k) PROVE Serving'
  <2>1. GoodItems(Touched(session[p], k), total[p])
    BY <1>1, HitGood DEF SessionHit, Has, Serving, Sessions
  <2>2. session' = [session EXCEPT ![p] = Touched(session[p], k)]
    BY <1>1 DEF SessionHit
  <2>3. total' = [total EXCEPT ![p] = total[p]]
    BY <1>1 DEF SessionHit, Serving
  <2>4. QED BY <2>1, <2>2, <2>3, ServingGoes
<1>2. ASSUME NEW p \in Processes, Restarts(p) PROVE Serving'
  BY <1>2, EmptyGood, ServingGoes DEF Restarts
<1>3. ASSUME NEW p \in Processes, NEW k \in Keys, PutSession(p, k) \/ Puts(p, k) PROVE Serving'
  BY <1>3, PutServes DEF PutSession, Puts
<1>4. ASSUME NEW p \in Processes, DiskReads(p) PROVE Serving'
  <2>1. op[p].key \in Keys
    BY <1>4 DEF DiskReads, At, Typed, Ops, Idle
  <2>2. SessionPut(p, op[p].key) \/ UNCHANGED <<session, total>>
    BY <1>4 DEF DiskReads
  <2>3. QED BY <2>1, <2>2, PutServes, ServingStays
<1>5. ASSUME NEW p \in Processes, \/ Discards(p) \/ Replaces(p)
                                  \/ CleanupLists(p) \/ CleanupFails(p) \/ CleanupRemoves(p)
                                  \/ \E k \in Keys : DiskLooks(p, k)
      PROVE Serving'
  BY <1>5, ServingStays DEF Discards, Replaces, CleanupLists, CleanupFails, CleanupRemoves,
                            DiskLooks
<1>6. CASE Tick
  BY <1>6, ServingStays DEF Tick
<1>7. CASE UNCHANGED vars
  BY <1>7, ServingStays DEF vars
<1>8. QED BY <1>1, <1>2, <1>3, <1>4, <1>5, <1>6, <1>7 DEF Next

(* The members of Ops, by where a process is.                               *)
LEMMA OpIs ==
  ASSUME Typed, NEW p \in Processes
  PROVE  /\ At(p, "reading") \/ At(p, "discarding") => op[p].key \in Keys
         /\ At(p, "replacing") => op[p].temp \in Drafts
         /\ At(p, "removing") => op[p].victims \subseteq Entries \cup Drafts
  BY DEF Typed, Ops, Idle, At

LEMMA OpsHas ==
  /\ Idle \in Ops /\ [at |-> "cleaning"] \in Ops
  /\ \A k \in Keys : [at |-> "discarding", key |-> k] \in Ops
                     /\ [at |-> "reading", key |-> k] \in Ops
  /\ \A d \in Drafts : [at |-> "replacing", temp |-> d] \in Ops
  /\ \A v \in SUBSET (Entries \cup Drafts) : [at |-> "removing", victims |-> v] \in Ops
  BY DEF Ops

DiskTyped ==
  /\ files \subseteq FileTypes /\ temps \subseteq TempTypes
  /\ \A f, g \in files : f.key = g.key => f = g
  /\ IsFiniteSet(files) /\ IsFiniteSet(temps)

LEMMA DiskShrinks ==
  ASSUME DiskTyped, UNCHANGED now, files' \subseteq files, temps' \subseteq temps
  PROVE  DiskTyped'
  BY FS_Subset DEF DiskTyped, FileTypes, TempTypes

(* The entry of a key is written: there is one of it, and it is new.        *)
LEMMA EntryWritten ==
  ASSUME DiskTyped, now \in Nat, UNCHANGED now, NEW k \in Keys, temps' \subseteq temps,
         files' = {f \in files : f.key # k} \cup {[key |-> k, mtime |-> now]}
  PROVE  DiskTyped'
<1> DEFINE new == [key |-> k, mtime |-> now]
           rest == {f \in files : f.key # k}
<1>1. new \in FileTypes /\ new.key = k
  BY DEF FileTypes
<1>2. rest \subseteq files /\ IsFiniteSet(rest)
  BY FS_Subset DEF DiskTyped
<1>3. IsFiniteSet(rest \cup {new}) /\ IsFiniteSet(temps')
  BY <1>2, FS_AddElement, FS_Subset DEF DiskTyped
<1> HIDE DEF new
<1>4. files' = rest \cup {new}
  BY DEF new
<1>5. \A f, g \in files' : f.key = g.key => f = g
  BY <1>1, <1>4 DEF DiskTyped
<1>6. files' \subseteq FileTypes /\ temps' \subseteq TempTypes
  BY <1>1, <1>4 DEF DiskTyped
<1>7. FileTypes' = FileTypes /\ TempTypes' = TempTypes
  BY DEF FileTypes, TempTypes
<1>8. QED BY <1>3, <1>4, <1>5, <1>6, <1>7 DEF DiskTyped

Bounded ==
  /\ restarts \in 0..MaxRestarts /\ now \in 0..MaxTime
  /\ stuck \subseteq Keys /\ public \subseteq Keys

LEMMA TypedParts == Typed /\ Sessions <=> Bounded /\ Serving /\ DiskTyped /\ op \in [Processes -> Ops]
<1>1. Typed /\ Sessions => Bounded /\ Serving /\ DiskTyped /\ op \in [Processes -> Ops]
  BY DEF Typed, TypeOK, Bounded, Serving, DiskTyped
<1>2. Bounded /\ Serving /\ DiskTyped /\ op \in [Processes -> Ops] => Typed /\ Sessions
  BY DEF Typed, TypeOK, Bounded, Serving, DiskTyped
<1>3. QED BY <1>1, <1>2

LEMMA BoundedNext ==
  ASSUME Bounded, DiskTyped, [Next]_vars
  PROVE  Bounded'
<1>0. \A f \in files : f.key \in Keys
  BY DEF DiskTyped, FileTypes
<1>1. ASSUME NEW p \in Processes, NEW k \in Keys,
             SessionHit(p, k) \/ DiskLooks(p, k) \/ PutSession(p, k) \/ Puts(p, k)
      PROVE Bounded'
  BY <1>1 DEF Bounded, SessionHit, DiskLooks, PutSession, Puts
<1>2. ASSUME NEW p \in Processes, \/ DiskReads(p) \/ Discards(p) \/ Replaces(p)
                                  \/ CleanupLists(p) \/ CleanupFails(p) \/ CleanupRemoves(p)
      PROVE Bounded'
  BY <1>0, <1>2 DEF Bounded, DiskReads, Discards, Replaces, CleanupLists, CleanupFails,
                    CleanupRemoves
<1>3. ASSUME NEW p \in Processes, Restarts(p) PROVE Bounded'
  BY <1>0, <1>3, CacheAssumption DEF Bounded, Restarts, At
<1>4. CASE Tick
  BY <1>4, CacheAssumption DEF Bounded, Tick
<1>5. CASE UNCHANGED vars
  BY <1>5 DEF Bounded, vars
<1>6. QED BY <1>1, <1>2, <1>3, <1>4, <1>5 DEF Next

LEMMA DiskNext ==
  ASSUME Typed, [Next]_vars
  PROVE  DiskTyped'
<1>0. DiskTyped /\ now \in Nat
  BY DEF Typed, TypeOK, DiskTyped
<1>1. ASSUME NEW p \in Processes, NEW k \in Keys, Puts(p, k) PROVE DiskTyped'
  <2>1. CASE UNCHANGED temps
    BY <1>0, <1>1, <2>1, DiskShrinks DEF Puts
  <2>2. CASE temps' = temps \cup {NewTemp(p, k)}
    <3>1. NewTemp(p, k) \in TempTypes
      BY <1>0 DEF NewTemp, TempTypes
    <3>2. IsFiniteSet(temps')
      BY <1>0, <2>2, FS_AddElement DEF DiskTyped
    <3>3. QED BY <1>0, <1>1, <2>2, <3>1, <3>2 DEF Puts, DiskTyped, FileTypes, TempTypes
  <2>3. QED BY <1>1, <2>1, <2>2 DEF Puts
<1>2. ASSUME NEW p \in Processes, DiskReads(p) PROVE DiskTyped'
  <2>1. op[p].key \in Keys
    BY <1>2, OpIs DEF DiskReads
  <2>2. CASE files' = {f \in files : f.key # op[p].key} \cup {[key |-> op[p].key, mtime |-> now]}
    BY <1>0, <1>2, <2>1, <2>2, EntryWritten DEF DiskReads
  <2>3. CASE UNCHANGED files
    BY <1>0, <1>2, <2>3, DiskShrinks DEF DiskReads
  <2>4. QED BY <1>2, <2>2, <2>3 DEF DiskReads
<1>3. ASSUME NEW p \in Processes, Replaces(p) PROVE DiskTyped'
  <2>1. op[p].temp.key \in Keys /\ temps' \subseteq temps /\ UNCHANGED now
    BY <1>3, OpIs DEF Replaces, Drafts
  <2>2. CASE files' = {f \in files : f.key # op[p].temp.key}
                         \cup {[key |-> op[p].temp.key, mtime |-> now]}
    BY <1>0, <2>1, <2>2, EntryWritten
  <2>3. CASE UNCHANGED files
    BY <1>0, <2>1, <2>3, DiskShrinks
  <2>4. QED BY <1>3, <2>2, <2>3 DEF Replaces
<1>4. ASSUME NEW p \in Processes, \/ Discards(p) \/ CleanupLists(p) \/ CleanupFails(p)
                                  \/ CleanupRemoves(p) \/ Restarts(p)
                                  \/ \E k \in Keys : \/ SessionHit(p, k) \/ DiskLooks(p, k)
                                                     \/ PutSession(p, k)
      PROVE DiskTyped'
  <2>1. files' \subseteq files /\ temps' \subseteq temps /\ UNCHANGED now
    BY <1>4 DEF Discards, CleanupLists, CleanupFails, CleanupRemoves, Restarts, SessionHit,
                DiskLooks, PutSession, disk
  <2>2. QED BY <1>0, <2>1, DiskShrinks
<1>5. CASE Tick
  <2>1. FileTypes \subseteq FileTypes' /\ TempTypes \subseteq TempTypes'
    BY <1>0, <1>5 DEF Tick, FileTypes, TempTypes
  <2>2. QED BY <1>0, <1>5, <2>1 DEF Tick, disk, DiskTyped
<1>6. CASE UNCHANGED vars
  BY <1>0, <1>6, DiskShrinks DEF vars, disk
<1>7. QED BY <1>1, <1>2, <1>3, <1>4, <1>5, <1>6 DEF Next

LEMMA OpsNext ==
  ASSUME Typed, [Next]_vars
  PROVE  op' \in [Processes -> Ops]
<1>0. /\ op \in [Processes -> Ops] /\ now \in Nat
      /\ files \subseteq Entries /\ temps \subseteq Drafts
  BY DEF Typed, TypeOK, FileTypes, TempTypes, Entries, Drafts
<1>1. ASSUME NEW p \in Processes, NEW o \in Ops, Goes(p, o) PROVE op' \in [Processes -> Ops]
  BY <1>0, <1>1 DEF Goes
<1>2. ASSUME NEW p \in Processes, NEW k \in Keys, DiskLooks(p, k) PROVE op' \in [Processes -> Ops]
  BY <1>1, <1>2, OpsHas DEF DiskLooks
<1>3. ASSUME NEW p \in Processes, NEW k \in Keys, Puts(p, k) PROVE op' \in [Processes -> Ops]
  <2>1. NewTemp(p, k) \in Drafts
    BY <1>0 DEF NewTemp, Drafts
  <2>2. [at |-> "replacing", temp |-> NewTemp(p, k)] \in Ops
    BY <2>1, OpsHas
  <2>3. QED BY <1>0, <1>1, <1>3, <2>2 DEF Puts
<1>4. ASSUME NEW p \in Processes, DiskReads(p) PROVE op' \in [Processes -> Ops]
  <2>1. op[p].key \in Keys
    BY <1>4, OpIs DEF DiskReads
  <2>2. Goes(p, Idle) \/ Goes(p, [at |-> "discarding", key |-> op[p].key])
    BY <1>4 DEF DiskReads
  <2>3. QED BY <1>1, <2>1, <2>2, OpsHas
<1>5. ASSUME NEW p \in Processes, CleanupLists(p) PROVE op' \in [Processes -> Ops]
  <2> DEFINE live == {f \in Found : Alive(f)}
  <2>1. PICK old \in Surplus(live) :
               Goes(p, [at |-> "removing", victims |-> old \cup (Found \ live)])
    BY <1>5 DEF CleanupLists
  <2>2. old \subseteq live
    BY DEF Surplus, Beginnings
  <2>3. old \cup (Found \ live) \subseteq Entries \cup Drafts
    BY <1>0, <2>2 DEF Found
  <2>4. QED BY <1>1, <2>1, <2>3, OpsHas
<1>6. ASSUME NEW p \in Processes, \/ Discards(p) \/ Replaces(p) \/ CleanupFails(p)
                                  \/ CleanupRemoves(p) \/ Restarts(p)
      PROVE op' \in [Processes -> Ops]
  <2>1. Goes(p, Idle) \/ Goes(p, [at |-> "cleaning"])
    BY <1>6 DEF Discards, Replaces, CleanupFails, CleanupRemoves, Restarts
  <2>2. QED BY <1>1, <2>1, OpsHas
<1>7. ASSUME UNCHANGED op PROVE op' \in [Processes -> Ops]
  BY <1>0, <1>7
<1>8. ASSUME NEW p \in Processes, NEW k \in Keys, SessionHit(p, k) \/ PutSession(p, k)
      PROVE UNCHANGED op
  BY <1>8 DEF SessionHit, PutSession
<1>9. CASE Tick \/ UNCHANGED vars
  BY <1>7, <1>9 DEF Tick, vars
<1>10. QED BY <1>2, <1>3, <1>4, <1>5, <1>6, <1>7, <1>8, <1>9 DEF Next

-----------------------------------------------------------------------------
(* What a process works on is counted.                                      *)

LEMMA CountedStays ==
  ASSUME Counted, UNCHANGED public, files' \subseteq files, temps' \subseteq temps,
         \A q \in Processes : At(q, "replacing")' => op'[q] = op[q]
  PROVE  Counted'
<1>1. SessionStaysOffDisk'
  BY DEF Counted, SessionStaysOffDisk, Found
<1>2. ASSUME NEW q \in Processes, At(q, "replacing")' PROVE op'[q].temp.key \in public'
  BY <1>2 DEF Counted, At
<1>3. QED BY <1>1, <1>2 DEF Counted

LEMMA CountedWritten ==
  ASSUME Counted, UNCHANGED public, NEW k \in public, NEW m, temps' \subseteq temps,
         files' = {f \in files : f.key # k} \cup {[key |-> k, mtime |-> m]},
         \A q \in Processes : At(q, "replacing")' => op'[q] = op[q]
  PROVE  Counted'
<1>1. ASSUME NEW f \in files' PROVE f.key \in public
  BY <1>1 DEF Counted, SessionStaysOffDisk, Found
<1>2. ASSUME NEW f \in temps' PROVE f.key \in public
  BY <1>2 DEF Counted, SessionStaysOffDisk, Found
<1>3. SessionStaysOffDisk'
  BY <1>1, <1>2 DEF SessionStaysOffDisk, Found
<1>4. ASSUME NEW q \in Processes, At(q, "replacing")' PROVE op'[q].temp.key \in public'
  BY <1>4 DEF Counted, At
<1>5. QED BY <1>3, <1>4 DEF Counted

(* Nobody else moves, and who goes elsewhere is not replacing.              *)
LEMMA NotReplacing ==
  ASSUME Typed, NEW p \in Processes, NEW o, o.at # "replacing", Goes(p, o)
  PROVE  \A q \in Processes : At(q, "replacing")' => op'[q] = op[q]
  BY DEF Typed, Goes, At

LEMMA CountedNext ==
  ASSUME Typed, Counted, [Next]_vars
  PROVE  Counted'
<1> DEFINE Others == \A q \in Processes : At(q, "replacing")' => op'[q] = op[q]
<1>1. ASSUME NEW p \in Processes, NEW k \in Keys, Puts(p, k) PROVE Counted'
  <2>1. NewTemp(p, k).key = k
    BY DEF NewTemp
  <2>2. \A f \in Found : f.key \in public
    BY DEF Counted, SessionStaysOffDisk
  <2>3. temps' \subseteq temps \cup {NewTemp(p, k)} /\ files' = files /\ public' = public \cup {k}
    BY <1>1 DEF Puts
  <2> HIDE DEF NewTemp
  <2>4. \A f \in Found' : f.key \in public'
    BY <2>1, <2>2, <2>3 DEF Found
  <2>5. ASSUME NEW q \in Processes, At(q, "replacing")' PROVE op'[q].temp.key \in public'
    <3>1. CASE op'[q] = op[q]
      BY <2>3, <2>5, <3>1 DEF Counted, At
    <3>2. CASE op'[q] = [at |-> "replacing", temp |-> NewTemp(p, k)]
      BY <2>1, <2>3, <3>2
    <3>3. op'[q] = op[q] \/ op'[q] = [at |-> "replacing", temp |-> NewTemp(p, k)]
      BY <1>1 DEF Puts, Goes, Typed
    <3>4. QED BY <3>1, <3>2, <3>3
  <2>6. QED BY <2>4, <2>5 DEF Counted, SessionStaysOffDisk
<1>2. ASSUME NEW p \in Processes, DiskReads(p) PROVE Counted'
  <2>1. CASE /\ Entry(op[p].key) # {} /\ Goes(p, Idle)
             /\ files' = {f \in files : f.key # op[p].key} \cup {[key |-> op[p].key, mtime |-> now]}
    <3>1. op[p].key \in public
      BY <2>1 DEF Entry, Counted, SessionStaysOffDisk, Found
    <3>2. Others
      BY <2>1, NotReplacing DEF Idle
    <3>3. UNCHANGED <<temps, public>>
      BY <1>2 DEF DiskReads
    <3>4. QED BY <2>1, <3>1, <3>2, <3>3, CountedWritten
  <2>2. CASE Goes(p, [at |-> "discarding", key |-> op[p].key]) /\ UNCHANGED files
    <3>1. Others
      BY <2>2, NotReplacing
    <3>2. UNCHANGED <<temps, public>>
      BY <1>2 DEF DiskReads
    <3>3. QED BY <2>2, <3>1, <3>2, CountedStays
  <2>3. QED BY <1>2, <2>1, <2>2 DEF DiskReads
<1>3. ASSUME NEW p \in Processes, Replaces(p) PROVE Counted'
  <2>1. op[p].temp.key \in public /\ temps' \subseteq temps /\ UNCHANGED public
    BY <1>3 DEF Replaces, Counted
  <2>2. CASE /\ Goes(p, [at |-> "cleaning"])
             /\ files' = {f \in files : f.key # op[p].temp.key}
                           \cup {[key |-> op[p].temp.key, mtime |-> now]}
    <3>1. Others
      BY <2>2, NotReplacing
    <3>2. QED BY <2>1, <2>2, <3>1, CountedWritten
  <2>3. CASE Goes(p, Idle) /\ UNCHANGED files
    <3>1. Others
      BY <2>3, NotReplacing DEF Idle
    <3>2. QED BY <2>1, <2>3, <3>1, CountedStays
  <2>4. QED BY <1>3, <2>2, <2>3 DEF Replaces
<1>4. ASSUME NEW p \in Processes, \/ Discards(p) \/ CleanupLists(p) \/ CleanupFails(p)
                                  \/ CleanupRemoves(p) \/ Restarts(p)
                                  \/ \E k \in Keys : DiskLooks(p, k)
      PROVE Counted'
  <2>1. files' \subseteq files /\ temps' \subseteq temps /\ UNCHANGED public
    BY <1>4 DEF Discards, CleanupLists, CleanupFails, CleanupRemoves, Restarts, DiskLooks, disk
  <2>2. \E o : o.at # "replacing" /\ Goes(p, o)
    <3>1. CASE Discards(p) \/ CleanupFails(p) \/ CleanupRemoves(p) \/ Restarts(p)
      BY <3>1 DEF Discards, CleanupFails, CleanupRemoves, Restarts, Idle
    <3>2. CASE CleanupLists(p)
      <4>1. PICK v : Goes(p, [at |-> "removing", victims |-> v])
        BY <3>2 DEF CleanupLists
      <4>2. [at |-> "removing", victims |-> v].at # "replacing"
        OBVIOUS
      <4>3. QED BY <4>1, <4>2
    <3>3. ASSUME NEW k \in Keys, DiskLooks(p, k) PROVE \E o : o.at # "replacing" /\ Goes(p, o)
      <4>1. \/ Goes(p, [at |-> "discarding", key |-> k])
            \/ Goes(p, [at |-> "reading", key |-> k])
        BY <3>3 DEF DiskLooks
      <4>2. /\ [at |-> "discarding", key |-> k].at # "replacing"
            /\ [at |-> "reading", key |-> k].at # "replacing"
        OBVIOUS
      <4>3. QED BY <4>1, <4>2
    <3>4. QED BY <1>4, <3>1, <3>2, <3>3
  <2>3. Others
    BY <2>2, NotReplacing
  <2>4. QED BY <2>1, <2>3, CountedStays
<1>5. ASSUME UNCHANGED <<disk, op, public>> PROVE Counted'
  BY <1>5, CountedStays DEF disk
<1>6. ASSUME NEW p \in Processes, NEW k \in Keys, SessionHit(p, k) \/ PutSession(p, k)
      PROVE Counted'
  BY <1>5, <1>6 DEF SessionHit, PutSession
<1>7. CASE Tick \/ UNCHANGED vars
  <2>1. UNCHANGED <<disk, op, public>>
    BY <1>7 DEF Tick, vars, disk
  <2>2. QED BY <1>5, <2>1
<1>8. QED BY <1>1, <1>2, <1>3, <1>4, <1>6, <1>7 DEF Next

-----------------------------------------------------------------------------
(* The weight of the directory.                                             *)

Keyed(found) == IsFiniteSet(found) /\ \A f \in found : f.key \in Keys

LEMMA WeightIs ==
  ASSUME NEW U, Keyed(U), NEW S \in SUBSET U
  PROVE  Weight(S) = SumFunctionOnSet([f \in U |-> Size[f.key]], S)
<1> DEFINE w == [f \in U |-> Size[f.key]]
           u == [f \in S |-> Size[f.key]]
<1>1. Weight(S) = SumFunctionOnSet(u, S)
  BY DEF Weight, SumFunction
<1>2. IsFiniteSet(S) /\ \A f \in S : u[f] = w[f]
  BY FS_Subset DEF Keyed
<1> HIDE DEF u, w
<1>3. SumFunctionOnSet(u, S) = SumFunctionOnSet(w, S)
  BY <1>2, SumSame
<1>4. QED BY <1>1, <1>3 DEF w

LEMMA WeightMonotone ==
  ASSUME NEW B, Keyed(B), NEW A \in SUBSET B
  PROVE  Weight(A) <= Weight(B) /\ Weight(A) \in Nat /\ Weight(B) \in Nat
<1> DEFINE w == [f \in B |-> Size[f.key]]
<1>1. Weight(A) = SumFunctionOnSet(w, A) /\ Weight(B) = SumFunctionOnSet(w, B)
  BY WeightIs
<1>2. IsFiniteSet(A) /\ IsFiniteSet(B) /\ \A f \in B : w[f] \in Nat
  BY CacheAssumption, FS_Subset DEF Keyed
<1> HIDE DEF w
<1>3. SumFunctionOnSet(w, A) <= SumFunctionOnSet(w, B)
  BY <1>2, SumMonotone
<1>4. SumFunctionOnSet(w, A) \in Nat /\ SumFunctionOnSet(w, B) \in Nat
  BY <1>2, SumNat
<1>5. QED BY <1>1, <1>3, <1>4

(* A file written again weighs the same.                                    *)
LEMMA WeightSwap ==
  ASSUME NEW B, Keyed(B), NEW e \in B, NEW new, new.key = e.key, new \notin B \ {e}
  PROVE  Weight((B \ {e}) \cup {new}) = Weight(B)
<1> DEFINE R == B \ {e}
           C == R \cup {new}
           U == B \cup {new}
           w == [f \in U |-> Size[f.key]]
<1>1. Keyed(U) /\ IsFiniteSet(C) /\ IsFiniteSet(B)
  <2>1. IsFiniteSet(R) /\ IsFiniteSet(B)
    BY FS_Subset DEF Keyed
  <2>2. IsFiniteSet(C) /\ IsFiniteSet(U)
    BY <2>1, FS_AddElement
  <2>3. \A f \in U : f.key \in Keys
    BY DEF Keyed
  <2>4. QED BY <2>1, <2>2, <2>3 DEF Keyed
<1>2. C \in SUBSET U /\ B \in SUBSET U /\ C \ {new} = R /\ B \ {e} = R /\ new \in C
  OBVIOUS
<1>3. \A f \in U : w[f] \in Nat
  BY <1>1, CacheAssumption DEF Keyed
<1>4. w[new] = w[e]
  OBVIOUS
<1>5. Weight(C) = SumFunctionOnSet(w, C) /\ Weight(B) = SumFunctionOnSet(w, B)
  BY <1>1, <1>2, WeightIs
<1>6. (\A f \in C : w[f] \in Nat) /\ (\A f \in B : w[f] \in Nat)
  BY <1>2, <1>3
<1> HIDE DEF w, C, R, U
<1>7. SumFunctionOnSet(w, C) = w[new] + SumFunctionOnSet(w, R)
  BY <1>1, <1>2, <1>6, SumAdd
<1>8. SumFunctionOnSet(w, B) = w[e] + SumFunctionOnSet(w, R)
  BY <1>1, <1>2, <1>6, SumAdd
<1>9. QED BY <1>4, <1>5, <1>7, <1>8 DEF C, R

Remaining(fs, left, victims) == {f \in fs : f.key \notin left \cup Named(victims)}

Lighter ==
  /\ Weight(Removable') <= Weight(Removable)
  /\ \A v : Weight(Remaining(files', stuck', v)) <= Weight(Left(v))
  /\ Weight(Removable) \in Nat /\ Weight(Removable') \in Nat
  /\ \A v : Weight(Remaining(files', stuck', v)) \in Nat /\ Weight(Left(v)) \in Nat

LEMMA FilesKeyed ==
  ASSUME DiskTyped, NEW S \in SUBSET files
  PROVE  Keyed(S)
  BY FS_Subset DEF DiskTyped, FileTypes, Keyed

LEMMA ShrunkLighter ==
  ASSUME DiskTyped, Removable' \subseteq Removable
  PROVE  Lighter
<1>0. Removable \in SUBSET files
  BY DEF Removable
<1>1. Keyed(Removable)
  BY <1>0, FilesKeyed
<1>2. /\ Weight(Removable') <= Weight(Removable)
      /\ Weight(Removable) \in Nat /\ Weight(Removable') \in Nat
  BY <1>1, WeightMonotone
<1>3. ASSUME NEW v
      PROVE  /\ Weight(Remaining(files', stuck', v)) <= Weight(Left(v))
             /\ Weight(Remaining(files', stuck', v)) \in Nat /\ Weight(Left(v)) \in Nat
  <2> DEFINE A == Remaining(files', stuck', v)
             B == Left(v)
  <2>1. A \in SUBSET B /\ B \in SUBSET files
    BY DEF Left, Remaining, Removable
  <2>2. Keyed(B)
    BY <2>1, FilesKeyed
  <2> HIDE DEF A, B
  <2>3. Weight(A) <= Weight(B) /\ Weight(A) \in Nat /\ Weight(B) \in Nat
    BY <2>1, <2>2, WeightMonotone
  <2>4. QED BY <2>3 DEF A, B
<1>4. QED BY <1>2, <1>3 DEF Lighter

LEMMA RewrittenLighter ==
  ASSUME DiskTyped, NEW k, Entry(k) # {}, NEW m, UNCHANGED stuck,
         files' = {f \in files : f.key # k} \cup {[key |-> k, mtime |-> m]}
  PROVE  Lighter
<1> DEFINE new == [key |-> k, mtime |-> m]
<1>1. PICK e \in files : e.key = k
  BY DEF Entry
<1>2. new.key = k
  OBVIOUS
<1> HIDE DEF new
<1>3. \A f \in files : f.key = k <=> f = e
  BY <1>1 DEF DiskTyped
<1>4. ASSUME NEW S \in SUBSET files, e \in S
      PROVE  Weight((S \ {e}) \cup {new}) = Weight(S) /\ Weight(S) \in Nat
  <2>1. Keyed(S)
    BY FilesKeyed
  <2>2. new \notin S \ {e}
    BY <1>2, <1>3
  <2>3. Weight(S) \in Nat
    BY <2>1, WeightMonotone
  <2>4. QED BY <1>1, <1>2, <1>4, <2>1, <2>2, <2>3, WeightSwap
<1>5. files' = (files \ {e}) \cup {new}
  BY <1>3 DEF new
<1>6. CASE k \in stuck
  <2>1. Removable' = Removable
    BY <1>1, <1>2, <1>3, <1>5, <1>6 DEF Removable
  <2>2. QED BY <2>1, ShrunkLighter
<1>7. CASE k \notin stuck
  <2>1. ASSUME NEW v
        PROVE  /\ Weight(Remaining(files', stuck', v)) = Weight(Left(v))
               /\ Weight(Left(v)) \in Nat
    <3> DEFINE A == Remaining(files', stuck', v)
               B == Left(v)
    <3>0. B \in SUBSET files
      BY DEF Left, Removable
    <3>1. CASE k \in Named(v)
      <4>1. A = B
        BY <1>1, <1>2, <1>3, <1>5, <3>1 DEF Left, Removable, Remaining
      <4>2. Weight(B) \in Nat
        BY <3>0, FilesKeyed, WeightMonotone
      <4>3. QED BY <4>1, <4>2
    <3>2. CASE k \notin Named(v)
      <4>1. A = (B \ {e}) \cup {new} /\ e \in B
        BY <1>1, <1>2, <1>3, <1>5, <1>7, <3>2 DEF Left, Removable, Remaining
      <4> HIDE DEF A, B
      <4>2. Weight((B \ {e}) \cup {new}) = Weight(B) /\ Weight(B) \in Nat
        BY <1>4, <3>0, <4>1
      <4>3. Weight(A) = Weight(B)
        BY <4>1, <4>2
      <4>4. QED BY <4>2, <4>3 DEF A, B
    <3>3. QED BY <3>1, <3>2
  <2>2. Weight(Removable') = Weight(Removable) /\ Weight(Removable) \in Nat
    <3>1. e \in Removable /\ Removable \in SUBSET files
      BY <1>1, <1>7 DEF Removable
    <3>2. Removable' = (Removable \ {e}) \cup {new}
      BY <1>1, <1>2, <1>3, <1>5, <1>7 DEF Removable
    <3>3. Weight((Removable \ {e}) \cup {new}) = Weight(Removable) /\ Weight(Removable) \in Nat
      BY <1>4, <3>1
    <3>4. QED BY <3>2, <3>3
  <2>3. QED BY <2>1, <2>2 DEF Lighter
<1>8. QED BY <1>6, <1>7

(* No process leaves its clean-up, and no file is heavier.                  *)
LEMMA SettlingStays ==
  ASSUME Settling, Lighter, DiskBytes \in Nat,
         \A q \in Processes : At(q, "cleaning") \/ At(q, "removing") => op'[q] = op[q]
  PROVE  Settling'
<1> SUFFICES ASSUME \A q \in Processes : ~At(q, "cleaning")'
             PROVE  \/ Weight(Removable') <= DiskBytes
                    \/ \E q \in Processes : /\ At(q, "removing")'
                                            /\ Weight(Left(op[q].victims))' <= DiskBytes
  BY DEF Settling
<1>1. \A q \in Processes : ~At(q, "cleaning")
  BY DEF At
<1>2. CASE Weight(Removable) <= DiskBytes
  BY <1>2 DEF Lighter
<1>3. ASSUME NEW q \in Processes, At(q, "removing"), Weight(Left(op[q].victims)) <= DiskBytes
      PROVE  At(q, "removing")' /\ Weight(Left(op[q].victims))' <= DiskBytes
  <2> DEFINE v == op[q].victims
  <2>1. op'[q] = op[q]
    BY <1>3
  <2> HIDE DEF v
  <2>2. Weight(Remaining(files', stuck', v)) <= DiskBytes
    BY <1>3 DEF Lighter, v
  <2>3. op'[q].victims = v
    BY <2>1 DEF v
  <2>4. Left(op[q].victims)' = Remaining(files', stuck', v)
    BY <2>3 DEF Left, Removable, Remaining
  <2>5. QED BY <1>3, <2>1, <2>2, <2>4 DEF At
<1>4. QED BY <1>1, <1>2, <1>3 DEF Settling

(* Who lists takes care that what is left is within the bound.              *)
LEMMA ListingSettles ==
  ASSUME Typed, NEW p \in Processes, CleanupLists(p)
  PROVE  At(p, "removing")' /\ Weight(Left(op[p].victims))' <= DiskBytes
<1> DEFINE live == {f \in Found : Alive(f)}
<1>1. PICK old \in Surplus(live) :
             Goes(p, [at |-> "removing", victims |-> old \cup (Found \ live)])
  BY DEF CleanupLists
<1> DEFINE v == old \cup (Found \ live)
           L == {f \in files : f.key \notin Named(v)}
<1>2. DiskTyped /\ UNCHANGED files
  BY DEF CleanupLists, disk, Typed, TypeOK, DiskTyped
<1>3. Keyed(live \ old)
  <2>1. IsFiniteSet(Found)
    BY <1>2, FS_Union DEF DiskTyped, Found
  <2>2. IsFiniteSet(live \ old)
    BY <2>1, FS_Subset
  <2>3. \A f \in Found : f.key \in Keys
    BY <1>2 DEF DiskTyped, Found, FileTypes, TempTypes
  <2>4. QED BY <2>2, <2>3 DEF Keyed
<1>4. ASSUME NEW f \in L PROVE f \in live \ old
  <2>1. f \in files /\ f \in Found
    BY DEF Found
  <2>2. "owner" \notin DOMAIN f
    BY <1>2, <2>1 DEF DiskTyped, FileTypes
  <2>3. f \notin v
    BY <2>2, <1>4 DEF Named
  <2>4. QED BY <2>1, <2>3
<1>5. Weight(live \ old) <= DiskBytes
  BY DEF Surplus, Enough
<1>6. Weight(L) <= DiskBytes
  <2>1. L \in SUBSET (live \ old)
    BY <1>4
  <2> HIDE DEF L, live
  <2>2. /\ Weight(L) <= Weight(live \ old)
        /\ Weight(L) \in Nat /\ Weight(live \ old) \in Nat
    BY <1>3, <2>1, WeightMonotone
  <2>3. QED BY <1>5, <2>2, CacheAssumption
<1> HIDE DEF v
<1>7. op'[p] = [at |-> "removing", victims |-> v]
  BY <1>1 DEF Goes, Typed, v
<1>8. stuck' = {}
  BY DEF CleanupLists
<1>9. Left(op[p].victims)' = {f \in files : f.key \notin Named(v)}
  BY <1>2, <1>7, <1>8 DEF Left, Removable
<1>10. Left(op[p].victims)' = L
  BY <1>9 DEF v
<1> HIDE DEF L
<1>11. Weight(Left(op[p].victims))' = Weight(L)
  BY <1>10
<1>12. QED BY <1>6, <1>7, <1>11 DEF At

LEMMA SettlingNext ==
  ASSUME Typed, Settling, [Next]_vars
  PROVE  Settling'
<1> DEFINE Cleaners == \A q \in Processes :
                          At(q, "cleaning") \/ At(q, "removing") => op'[q] = op[q]
<1>0. DiskTyped /\ DiskBytes \in Nat /\ op \in [Processes -> Ops]
  BY CacheAssumption DEF Typed, TypeOK, DiskTyped
<1>1. ASSUME NEW p \in Processes, ~At(p, "cleaning"), ~At(p, "removing"), NEW o, Goes(p, o)
      PROVE  Cleaners
  BY <1>0, <1>1 DEF Goes, At
<1>2. ASSUME NEW p \in Processes, DiskReads(p) PROVE Settling'
  <2>1. Lighter
    <3>1. CASE UNCHANGED <<files, stuck>>
      <4>1. Removable' = Removable
        BY <3>1 DEF Removable
      <4>2. QED BY <1>0, <4>1, ShrunkLighter
    <3>2. UNCHANGED stuck
      BY <1>2 DEF DiskReads
    <3>3. QED BY <1>0, <1>2, <3>1, <3>2, RewrittenLighter DEF DiskReads
  <2>2. Cleaners
    <3>1. ~At(p, "cleaning") /\ ~At(p, "removing")
      BY <1>2 DEF DiskReads, At
    <3>2. \E o : Goes(p, o)
      BY <1>2 DEF DiskReads
    <3>3. QED BY <1>1, <3>1, <3>2
  <2>3. QED BY <1>0, <2>1, <2>2, SettlingStays
<1>3. ASSUME NEW p \in Processes, Discards(p) PROVE Settling'
  <2>1. Removable' \subseteq Removable
    BY <1>3 DEF Discards, Removable, Entry
  <2>2. Cleaners
    BY <1>1, <1>3 DEF Discards, At
  <2>3. QED BY <1>0, <2>1, <2>2, ShrunkLighter, SettlingStays
<1>4. ASSUME NEW p \in Processes, Replaces(p) PROVE Settling'
  <2>1. CASE Goes(p, [at |-> "cleaning"])
    <3>1. At(p, "cleaning")'
      BY <1>0, <2>1 DEF Goes, At
    <3>2. QED BY <3>1 DEF Settling
  <2>2. CASE Goes(p, Idle) /\ UNCHANGED files
    <3>1. Removable' = Removable
      BY <1>4, <2>2 DEF Replaces, Removable
    <3>2. Cleaners
      BY <1>1, <1>4, <2>2 DEF Replaces, At
    <3>3. QED BY <1>0, <3>1, <3>2, ShrunkLighter, SettlingStays
  <2>3. QED BY <1>4, <2>1, <2>2 DEF Replaces
<1>5. ASSUME NEW p \in Processes, CleanupLists(p) PROVE Settling'
  BY <1>5, ListingSettles DEF Settling
<1>6. ASSUME NEW p \in Processes, CleanupRemoves(p) PROVE Settling'
  <2> SUFFICES ASSUME \A q \in Processes : ~At(q, "cleaning")'
               PROVE  \/ Weight(Removable') <= DiskBytes
                      \/ \E q \in Processes : /\ At(q, "removing")'
                                              /\ Weight(Left(op[q].victims))' <= DiskBytes
    BY DEF Settling
  <2>1. ASSUME NEW q \in Processes, q # p PROVE op'[q] = op[q]
    BY <1>0, <1>6, <2>1 DEF CleanupRemoves, Goes
  <2>2. \A q \in Processes : ~At(q, "cleaning")
    BY <1>6, <2>1 DEF CleanupRemoves, At
  <2> DEFINE named == Named(op[p].victims)
  <2>3. PICK kept \in SUBSET {f \in files : f.key \in named} :
          /\ files' = {f \in files : f.key \notin named} \cup kept
          /\ stuck' = (stuck \ named) \cup {f.key : f \in kept}
    BY <1>6 DEF CleanupRemoves
  <2>4. Removable' = Left(op[p].victims) /\ Removable' \subseteq Removable
    <3> HIDE DEF named
    <3>1. Removable' = {f \in Removable : f.key \notin named}
      BY <2>3 DEF Removable
    <3>2. QED BY <3>1 DEF Left, named
  <2>5. Lighter
    BY <1>0, <2>4, ShrunkLighter
  <2>6. CASE Weight(Removable) <= DiskBytes
    BY <1>0, <2>5, <2>6 DEF Lighter
  <2>7. ASSUME NEW q \in Processes, At(q, "removing"), Weight(Left(op[q].victims)) <= DiskBytes
        PROVE  \/ Weight(Removable') <= DiskBytes
               \/ At(q, "removing")' /\ Weight(Left(op[q].victims))' <= DiskBytes
    <3>1. CASE q = p
      BY <2>4, <2>7, <3>1
    <3>2. CASE q # p
      <4> DEFINE v == op[q].victims
      <4>1. op'[q] = op[q] /\ op'[q].victims = v
        BY <2>1, <3>2
      <4> HIDE DEF v
      <4>2. Weight(Remaining(files', stuck', v)) <= DiskBytes
        BY <1>0, <2>5, <2>7 DEF Lighter, v
      <4>3. Left(op[q].victims)' = Remaining(files', stuck', v)
        BY <4>1 DEF Left, Removable, Remaining
      <4>4. QED BY <2>7, <4>1, <4>2, <4>3 DEF At
    <3>3. QED BY <3>1, <3>2
  <2>8. QED BY <2>2, <2>6, <2>7 DEF Settling
<1>7. ASSUME NEW p \in Processes, stuck' = {f.key : f \in files'} PROVE Settling'
  <2>1. Removable' = {}
    BY <1>7 DEF Removable
  <2>2. Weight({}) = 0
    <3>1. Keyed({})
      BY FS_EmptySet DEF Keyed
    <3>2. Weight({}) = SumFunctionOnSet([f \in {} |-> Size[f.key]], {})
      BY <3>1, WeightIs
    <3>3. QED BY <3>2, SumEmpty
  <2>3. QED BY <1>0, <2>1, <2>2 DEF Settling
<1>8. ASSUME NEW p \in Processes, CleanupFails(p) \/ Restarts(p) PROVE Settling'
  <2>1. CASE stuck' = {f.key : f \in files'}
    BY <1>7, <2>1
  <2>2. CASE stuck' # {f.key : f \in files'}
    <3>1. Restarts(p) /\ UNCHANGED files
      BY <1>8, <2>2 DEF CleanupFails, Restarts, disk
    <3>2. ~At(p, "cleaning") /\ ~At(p, "removing") /\ UNCHANGED stuck
      BY <2>2, <3>1 DEF Restarts
    <3>3. Removable' = Removable
      BY <3>1, <3>2 DEF Removable
    <3>4. Cleaners
      BY <1>1, <3>1, <3>2 DEF Restarts
    <3>5. QED BY <1>0, <3>3, <3>4, ShrunkLighter, SettlingStays
  <2>3. QED BY <2>1, <2>2
<1>9. ASSUME NEW p \in Processes, NEW k \in Keys, DiskLooks(p, k) \/ Puts(p, k) PROVE Settling'
  <2>1. Removable' = Removable
    BY <1>9 DEF DiskLooks, Puts, disk, Removable
  <2>2. ~At(p, "cleaning") /\ ~At(p, "removing")
    BY <1>9 DEF DiskLooks, Puts, At
  <2>3. UNCHANGED op \/ \E o : Goes(p, o)
    BY <1>9 DEF DiskLooks, Puts
  <2>4. Cleaners
    BY <1>1, <2>2, <2>3
  <2>5. QED BY <1>0, <2>1, <2>4, ShrunkLighter, SettlingStays
<1>10. ASSUME UNCHANGED <<files, op, stuck>> PROVE Settling'
  <2>1. Removable' = Removable
    BY <1>10 DEF Removable
  <2>2. QED BY <1>0, <1>10, <2>1, ShrunkLighter, SettlingStays
<1>11. ASSUME NEW p \in Processes, NEW k \in Keys, SessionHit(p, k) \/ PutSession(p, k)
       PROVE Settling'
  <2>1. UNCHANGED <<files, op, stuck>>
    BY <1>11 DEF SessionHit, PutSession, disk
  <2>2. QED BY <1>10, <2>1
<1>12. CASE Tick \/ UNCHANGED vars
  <2>1. UNCHANGED <<files, op, stuck>>
    BY <1>12 DEF Tick, vars, disk
  <2>2. QED BY <1>10, <2>1
<1>13. QED BY <1>2, <1>3, <1>4, <1>5, <1>6, <1>8, <1>9, <1>11, <1>12 DEF Next

-----------------------------------------------------------------------------
(* The invariant, and what follows from it.                                 *)

LEMMA CacheInit == Init => CacheInv
<1> SUFFICES ASSUME Init PROVE CacheInv
  OBVIOUS
<1>1. Serving
  <2>1. session \in [Processes -> Seq(Keys)] /\ total \in [Processes -> Int]
    BY DEF Init
  <2>2. \A p \in Processes : GoodItems(session[p], total[p])
    BY EmptyGood DEF Init
  <2>3. QED BY <2>1, <2>2 DEF Serving, Sessions
<1>2. Bounded
  <2>1. 0 \in 0..MaxRestarts /\ 0 \in 0..MaxTime
    BY CacheAssumption
  <2>2. QED BY <2>1 DEF Init, Bounded
<1>3. DiskTyped
  BY FS_EmptySet DEF Init, DiskTyped
<1>4. op \in [Processes -> Ops] /\ \A p \in Processes : ~At(p, "replacing")
  BY OpsHas DEF Init, At, Idle
<1>5. Typed /\ Sessions
  BY <1>1, <1>2, <1>3, <1>4, TypedParts
<1>6. Counted
  BY <1>4 DEF Init, Counted, SessionStaysOffDisk, Found
<1>7. Settling
  <2>1. Keyed({})
    BY FS_EmptySet DEF Keyed
  <2>2. Weight({}) = SumFunctionOnSet([f \in {} |-> Size[f.key]], {})
    BY <2>1, WeightIs
  <2>3. Weight({}) = 0
    BY <2>2, SumEmpty
  <2>4. Weight(Removable) <= DiskBytes
    <3>1. Removable = {}
      BY DEF Init, Removable
    <3>2. QED BY <2>3, <3>1, CacheAssumption
  <2>5. QED BY <2>4 DEF Settling
<1>8. QED BY <1>5, <1>6, <1>7 DEF CacheInv

LEMMA CacheNext == CacheInv /\ [Next]_vars => CacheInv'
<1> SUFFICES ASSUME CacheInv, [Next]_vars PROVE CacheInv'
  OBVIOUS
<1>1. Typed /\ Sessions /\ Counted /\ Settling
  BY DEF CacheInv
<1>2. Bounded /\ Serving
  BY <1>1, TypedParts
<1>3. Bounded' /\ Serving' /\ DiskTyped' /\ op' \in [Processes -> Ops]
  BY <1>1, <1>2, TypedParts, BoundedNext, ServingNext, DiskNext, OpsNext
<1>4. (Bounded /\ Serving /\ DiskTyped /\ op \in [Processes -> Ops])' => (Typed /\ Sessions)'
  BY TypedParts, PTL
<1>5. Typed' /\ Sessions'
  BY <1>3, <1>4
<1>6. Counted' /\ Settling'
  BY <1>1, CountedNext, SettlingNext
<1>7. QED BY <1>5, <1>6 DEF CacheInv

(* What the server processes keep of their two caches, in every state.      *)
THEOREM CacheKept == Spec => []CacheInv
<1>1. Init => CacheInv
  BY CacheInit
<1>2. CacheInv /\ [Next]_vars => CacheInv'
  BY CacheNext
<1>3. QED BY <1>1, <1>2, PTL DEF Spec

(* The types of the state of both caches (session_cache.py:13, ttl_cache.py:25). *)
THEOREM CacheTyped == Spec => []TypeOK
<1>1. CacheInv => TypeOK
  BY DEF CacheInv, Typed
<1>2. QED BY <1>1, CacheKept, PTL

(* The byte count of SessionTextCache is the size of the texts in it, each  *)
(* of them once, and within both bounds.                                    *)
THEOREM SessionCounted == Spec => []SessionExact
<1>1. CacheInv => SessionExact
  <2> SUFFICES ASSUME CacheInv, NEW p \in Processes
               PROVE  /\ \A i, j \in DOMAIN session[p] : session[p][i] = session[p][j] => i = j
                      /\ total[p] = Bytes(session[p])
                      /\ Fits(session[p], total[p])
    BY DEF SessionExact
  <2>1. GoodItems(session[p], total[p])
    BY DEF CacheInv, Sessions
  <2>2. DOMAIN session[p] = 1..Len(session[p])
    BY <2>1 DEF GoodItems
  <2>3. QED BY <2>1, <2>2 DEF GoodItems, Once
<1>2. QED BY <1>1, CacheKept, PTL

(* The directory of DiskTtlTextCache is within max_size_mb when no process  *)
(* of the installation has a clean-up to do, however their puts, listings,  *)
(* removals and reads interleaved, but for the files that a clean-up left   *)
(* behind since somebody listed last.                                       *)
THEOREM DirectoryBounded == Spec => []DiskBounded
<1>1. CacheInv => DiskBounded
  BY DEF CacheInv, Settling, DiskBounded
<1>2. QED BY <1>1, CacheKept, PTL

(* A text that was only fetched for the session is not on the disk.         *)
THEOREM SessionTextsStay == Spec => []SessionStaysOffDisk
<1>1. CacheInv => SessionStaysOffDisk
  BY DEF CacheInv, Counted
<1>2. QED BY <1>1, CacheKept, PTL
=============================================================================
