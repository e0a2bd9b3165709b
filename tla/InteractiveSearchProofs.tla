---------------------- MODULE InteractiveSearchProofs ----------------------
(***************************************************************************)
(* For all filings, listings, budgets and kinds of searches: no filing is  *)
(* verified for two results of one chain of continuations, a call stays    *)
(* within twice its document budget, and a chain that ends as complete has *)
(* forgotten no candidate but those that a token left behind; and the      *)
(* relation analysis of the strategies S6 and S7, the module Amendments,   *)
(* tells nothing wrong of the filings it is given.  What Merged computes, and Firsts and Roots of Amendments, is    *)
(* shown by well-founded induction, see LeastNumber.                       *)
(***************************************************************************)
EXTENDS InteractiveSearch, Amendments, FiniteSetTheorems, SequenceTheorems, WellFoundedInduction, TLAPS

(* What earlier answers verified is in the processed set of the token, and  *)
(* of the call that has consumed it; a call verifies nothing of that set,   *)
(* not after a download either, during which a call stays at its candidate. *)
Remembered ==
  /\ token # NoToken => \A d \in delivered : d.verified \subseteq token.processed
  /\ pc # "idle" => \A d \in delivered : d.verified \subseteq from.processed

Distinct ==
  /\ pc # "idle" => verified \cap from.processed = {}
  /\ pc = "fetched" => Current \notin from.processed

(* Two results share no verified filing, and no filing outside S6 and S7,   *)
(* where a result is one filing.                                            *)
Apart ==
  /\ \A d, e \in delivered : d # e => d.verified \cap e.verified = {}
  /\ plan.strategy # "relation" => \A d \in delivered : d.filings = d.verified

IInv == Remembered /\ Distinct /\ Apart

-----------------------------------------------------------------------------
(* A call begins with the token's processed set and without results.        *)
LEMMA BeginsRemembered ==
  ASSUME NEW state, Begins(state), token' = NoToken, Apart',
         \A d \in delivered' : d.verified \subseteq state.processed
  PROVE  IInv'
  BY DEF Begins, IInv, Remembered, Distinct

(* The results of an answer: each has a filing that this call verified, and *)
(* they share none.                                                         *)
LEMMA ResultsApart ==
  ASSUME NEW groups \in Groupings
  PROVE  /\ \A d \in Results(groups) : d.verified \subseteq verified /\ d.verified # {}
         /\ \A d, e \in Results(groups) : d # e => d.verified \cap e.verified = {}
         /\ plan.strategy # "relation" => \A d \in Results(groups) : d.filings = d.verified
<1> DEFINE G == {g \in groups : g \cap verified # {}} \cup {{r} : r \in verified \ UNION groups}
<1>1. Results(groups) = {[filings |-> g, verified |-> g \cap verified] : g \in G}
  BY DEF Results
<1>2. \A g, h \in groups : g = h \/ g \cap h = {}
  BY DEF Groupings
<1>3. plan.strategy # "relation" => groups = {}
  BY DEF Groupings
<1>4. \A g, h \in G : g = h \/ g \cap h = {}
  BY <1>2
<1>5. \A g \in G : g \cap verified # {}
  OBVIOUS
<1>6. plan.strategy # "relation" => \A g \in G : g \cap verified = g
  BY <1>3
<1> HIDE DEF G
<1>7. \A d \in Results(groups) : \E g \in G : d.filings = g /\ d.verified = g \cap verified
                                             /\ d = [filings |-> g, verified |-> g \cap verified]
  BY <1>1
<1>8. ASSUME NEW d \in Results(groups), NEW e \in Results(groups), d # e
      PROVE  d.verified \cap e.verified = {}
  <2>1. PICK g \in G : d.verified = g \cap verified /\ d = [filings |-> g, verified |-> g \cap verified]
    BY <1>7
  <2>2. PICK h \in G : e.verified = h \cap verified /\ e = [filings |-> h, verified |-> h \cap verified]
    BY <1>7
  <2>3. g # h
    BY <1>8, <2>1, <2>2
  <2>4. g \cap h = {}
    BY <1>4, <2>3
  <2>5. QED BY <2>1, <2>2, <2>4
<1>9. \A d \in Results(groups) : d.verified \subseteq verified /\ d.verified # {}
  BY <1>5, <1>7
<1>10. plan.strategy # "relation" => \A d \in Results(groups) : d.filings = d.verified
  BY <1>6, <1>7
<1>11. QED BY <1>8, <1>9, <1>10

(* The next token remembers what the last one did and what this call gave.  *)
LEMMA AnswerRemembered ==
  ASSUME IInv, Answer
  PROVE  IInv'
<1>1. pc = "answer" /\ pc' = "idle" /\ token' = Token /\ plan' = plan
  BY DEF Answer
<1>2. PICK groups \in Groupings : delivered' \subseteq delivered \cup Results(groups)
  BY DEF Answer
<1>3. /\ \A d \in Results(groups) : d.verified \subseteq verified /\ d.verified # {}
      /\ \A d, e \in Results(groups) : d # e => d.verified \cap e.verified = {}
      /\ plan.strategy # "relation" => \A d \in Results(groups) : d.filings = d.verified
  BY ResultsApart
<1>4. \A d \in delivered : d.verified \subseteq from.processed /\ d.verified \cap verified = {}
  BY <1>1 DEF IInv, Remembered, Distinct
<1>5. Token # NoToken => Token.processed = Processed
  BY DEF Token, Issued
<1>6. \A d \in delivered' : d.verified \subseteq Processed
  BY <1>2, <1>3, <1>4 DEF Processed
<1>7. Apart'
  <2>1. \A d, e \in delivered' : d # e => d.verified \cap e.verified = {}
    BY <1>2, <1>3, <1>4 DEF IInv, Apart
  <2>2. plan.strategy # "relation" => \A d \in delivered' : d.filings = d.verified
    BY <1>2, <1>3 DEF IInv, Apart
  <2>3. QED BY <1>1, <2>1, <2>2 DEF Apart
<1>8. QED
  BY <1>1, <1>5, <1>6, <1>7 DEF IInv, Remembered, Distinct

(* Every other step of a call keeps what it began with, and adds at most    *)
(* the candidate whose turn it is.                                          *)
LEMMA WorkRemembered ==
  ASSUME IInv, UNCHANGED <<plan, token, from, delivered>>, pc # "idle",
         verified' \subseteq verified \cup {Current},
         verified' # verified => Current \notin from.processed,
         pc' # "fetched"
  PROVE  IInv'
  BY DEF IInv, Remembered, Distinct, Apart

LEMMA StepRemembered == IInv /\ [Next]_vars => IInv'
  <1> SUFFICES ASSUME IInv, [Next]_vars PROVE IInv'
    OBVIOUS
  <1> USE DEF listed, loop, answer, history
  <1>1. CASE Search
    BY <1>1, BeginsRemembered DEF Search, Apart
  <1>2. CASE Continue
    BY <1>2, BeginsRemembered DEF Continue, IInv, Remembered, Apart
  <1>3. CASE TokenLost
    BY <1>3 DEF TokenLost, IInv, Remembered, Distinct, Apart
  <1>4. ASSUME NEW r \in Receipts, GetEvidence(r) PROVE IInv'
    BY <1>4 DEF GetEvidence, IInv, Remembered, Distinct, Apart
  <1>5. CASE DartAnswers \/ DartFallsBack \/ ListingOnly
    BY <1>5, WorkRemembered DEF DartAnswers, DartFallsBack, ListingOnly, Finds
  <1>6. CASE KeyMissing \/ CallFails
    BY <1>6, WorkRemembered DEF KeyMissing, CallFails
  <1>7. CASE ListPages
    BY <1>7, WorkRemembered DEF ListPages, Finds
  <1>8. CASE FindingTimesOut
    BY <1>8, WorkRemembered DEF FindingTimesOut
  <1>9. CASE LoopTimesOut \/ EnoughResults \/ LoopDone
    BY <1>9, WorkRemembered DEF LoopTimesOut, EnoughResults, LoopDone, Stops, Working
  <1>10. CASE SkipProcessed
    BY <1>10, WorkRemembered DEF SkipProcessed, Working
  <1>11. CASE TakeRow \/ LeaveUnread
    BY <1>11, WorkRemembered DEF TakeRow, LeaveUnread, NextCandidate, Turn, Working
  <1>12. CASE ReadText
    BY <1>12, WorkRemembered
       DEF ReadText, NextCandidate, Reading, Turn, Working, IInv, Distinct
  <1>13. CASE OverBudget
    BY <1>13, WorkRemembered DEF OverBudget, NextCandidate, Reading, Turn, Working
  <1>14. CASE Fetch
    BY <1>14 DEF Fetch, Reading, Turn, Working, Current, IInv, Remembered, Distinct, Apart
  <1>15. CASE FetchTimesOut \/ FetchRefused
    BY <1>15, WorkRemembered
       DEF FetchTimesOut, FetchRefused, Stops, Fetched, Reading, Turn, Working
  <1>16. CASE FetchFails
    BY <1>16, WorkRemembered DEF FetchFails, NextCandidate, Fetched, Reading, Turn, Working
  <1>17. CASE Answer
    BY <1>17, AnswerRemembered
  <1>18. CASE UNCHANGED vars
    BY <1>18 DEF vars, Current, IInv, Remembered, Distinct, Apart
  <1>19. QED
    BY <1>1, <1>2, <1>3, <1>4, <1>5, <1>6, <1>7, <1>8, <1>9, <1>10, <1>11, <1>12, <1>13, <1>14,
       <1>15, <1>16, <1>17, <1>18 DEF Next

(* No filing is verified for two results of a chain, and outside S6 and S7  *)
(* none is given twice, although every call finds its candidates anew and   *)
(* texts come and go between calls (engine.py:346-348, 455-462, 602-646).   *)
THEOREM NothingTwice == Spec => []NoCaseTwice
  <1>1. Init => IInv
    BY DEF Init, IInv, Remembered, Distinct, Apart
  <1>2. IInv => NoCaseTwice
    BY DEF IInv, Remembered, Distinct, Apart, NoCaseTwice
  <1>3. QED
    BY <1>1, <1>2, StepRemembered, PTL DEF Spec

-----------------------------------------------------------------------------
(* Merging the candidates of two channels.                                  *)

(* Induction: of the numbers for which something fails, one is least.       *)
LEMMA LeastNumber ==
  ASSUME NEW I \in SUBSET Nat, I # {}
  PROVE  \E m \in I : \A y \in I : m <= y
<1>1. PICK x \in I : TRUE
  OBVIOUS
<1> DEFINE J == I \cap (0..x)
           U == 0..x
           T == {0..n : n \in J}
<1>2. T \in SUBSET (SUBSET U) /\ T # {} /\ IsFiniteSet(U)
  <2>1. \A n \in J : 0..n \subseteq U
    OBVIOUS
  <2>2. x \in J
    OBVIOUS
  <2>3. IsFiniteSet(U)
    BY FS_Interval
  <2>4. QED BY <2>1, <2>2, <2>3
<1> HIDE DEF T, U
<1>3. IsWellFoundedOn(StrictSubsetOrdering(U), SUBSET U)
  BY <1>2, FS_StrictSubsetOrderingWellFounded, FS_FiniteSubsetsOfFinite
<1>4. PICK s \in T : \A r \in T : ~ (<<r, s>> \in StrictSubsetOrdering(U))
  BY <1>2, <1>3, WFMin
<1>5. PICK m \in J : s = 0..m
  BY DEF T
<1>6. ASSUME NEW y \in J, y < m PROVE FALSE
  <2>1. 0..y \in T /\ 0..y \subseteq s
    BY <1>5, <1>6 DEF T
  <2>2. m \in 0..m /\ m \notin 0..y
    BY <1>5, <1>6
  <2>3. 0..y = s
    BY <1>2, <1>4, <2>1 DEF StrictSubsetOrdering
  <2>4. QED BY <1>5, <2>2, <2>3
<1>7. QED BY <1>5, <1>6

Added(seen, r) == IF r \in RangeOf(seen) THEN seen ELSE Append(seen, r)
Merging(left, right, g, n) ==
  g = [i \in 0..n |-> IF i = 0 THEN left ELSE Added(g[i - 1], right[i])]

LEMMA MergingExists ==
  ASSUME NEW left, NEW right, Len(right) \in Nat
  PROVE  \E g : Merging(left, right, g, Len(right))
<1> DEFINE T == {n \in 0..Len(right) : ~ (\E g : Merging(left, right, g, n))}
<1>1. ASSUME T # {} PROVE FALSE
  <2>1. T \in SUBSET Nat
    OBVIOUS
  <2> HIDE DEF T
  <2>2. PICK n \in T : \A y \in T : n <= y
    BY <1>1, <2>1, LeastNumber
  <2> USE DEF T
  <2>3. n \in 0..Len(right) /\ ~ (\E g : Merging(left, right, g, n))
    OBVIOUS
  <2>4. n # 0
    <3>1. ASSUME n = 0 PROVE FALSE
      <4> DEFINE g == [i \in 0..0 |-> left]
      <4>1. g = [i \in 0..0 |-> IF i = 0 THEN left ELSE Added(g[i - 1], right[i])]
        OBVIOUS
      <4>2. Merging(left, right, g, n)
        BY <3>1, <4>1 DEF Merging
      <4>3. QED BY <2>3, <4>2
    <3>2. QED BY <3>1
  <2>5. n - 1 \in 0..Len(right) /\ n - 1 \notin T
    BY <2>2, <2>3, <2>4
  <2>6. PICK g : Merging(left, right, g, n - 1)
    BY <2>5
  <2> DEFINE h == [i \in 0..n |-> IF i = n THEN Added(g[n - 1], right[n]) ELSE g[i]]
  <2>7. ASSUME NEW i \in 0..n
        PROVE  h[i] = IF i = 0 THEN left ELSE Added(h[i - 1], right[i])
    <3>1. CASE i = n
      <4>1. h[i] = Added(g[n - 1], right[n]) /\ h[i - 1] = g[n - 1]
        BY <2>3, <2>4, <3>1
      <4>2. QED BY <2>4, <3>1, <4>1
    <3>2. CASE i # n
      <4>1. i \in 0..(n - 1) /\ h[i] = g[i]
        BY <2>3, <3>2
      <4>2. g[i] = IF i = 0 THEN left ELSE Added(g[i - 1], right[i])
        BY <2>6, <4>1, Zenon DEF Merging
      <4>3. i # 0 => h[i - 1] = g[i - 1]
        BY <2>3, <4>1
      <4>4. QED BY <4>1, <4>2, <4>3
    <3>3. QED BY <3>1, <3>2
  <2>8. h = [i \in 0..n |-> h[i]]
    OBVIOUS
  <2> HIDE DEF h
  <2>9. h = [i \in 0..n |-> IF i = 0 THEN left ELSE Added(h[i - 1], right[i])]
    BY <2>7, <2>8
  <2>10. QED BY <2>3, <2>9 DEF Merging
<1>2. Len(right) \notin T
  BY <1>1
<1>3. QED BY <1>2

LEMMA AddedIs ==
  ASSUME NEW K, NEW seen \in Seq(K), NEW r \in K
  PROVE  Added(seen, r) \in Seq(K) /\ RangeOf(Added(seen, r)) = RangeOf(seen) \cup {r}
<1>1. CASE r \in RangeOf(seen)
  BY <1>1 DEF Added
<1>2. CASE r \notin RangeOf(seen)
  <2> DEFINE t == Append(seen, r)
  <2>1. /\ t \in Seq(K) /\ Len(t) = Len(seen) + 1 /\ t[Len(seen) + 1] = r
        /\ \A i \in 1..Len(seen) : t[i] = seen[i]
    OBVIOUS
  <2> HIDE DEF t
  <2>2. RangeOf(t) = {t[i] : i \in 1..(Len(seen) + 1)} /\ RangeOf(seen) = {seen[i] : i \in 1..Len(seen)}
    BY <2>1 DEF RangeOf
  <2>3. \A x \in RangeOf(t) : x \in RangeOf(seen) \cup {r}
    BY <2>1, <2>2
  <2>4. \A x \in RangeOf(seen) : x \in RangeOf(t)
    BY <2>1, <2>2
  <2>5. r \in RangeOf(t)
    BY <2>1, <2>2
  <2>6. RangeOf(t) = RangeOf(seen) \cup {r}
    BY <2>3, <2>4, <2>5
  <2>7. Added(seen, r) = t
    BY <1>2 DEF Added, t
  <2>8. QED BY <2>1, <2>6, <2>7
<1>3. QED BY <1>1, <1>2

(* Every row of either channel is a candidate, and nothing else.            *)
LEMMA MergedIs ==
  ASSUME NEW K, NEW left \in Seq(K), NEW right \in Seq(K)
  PROVE  /\ Merged(left, right) \in Seq(K)
         /\ RangeOf(Merged(left, right)) = RangeOf(left) \cup RangeOf(right)
<1> DEFINE g == CHOOSE h : Merging(left, right, h, Len(right))
<1>1. Merged(left, right) = g[Len(right)]
  BY Zenon DEF Merged, Merging, Added
<1>2. Merging(left, right, g, Len(right))
  <2>1. \E h : Merging(left, right, h, Len(right))
    <3>1. Len(right) \in Nat
      OBVIOUS
    <3>2. QED BY <3>1, MergingExists
  <2>2. QED BY <2>1, Zenon
<1> HIDE DEF g
<1>3. ASSUME NEW i \in 0..Len(right)
      PROVE  g[i] = IF i = 0 THEN left ELSE Added(g[i - 1], right[i])
  BY <1>2, Zenon DEF Merging
<1> DEFINE Good(n) == g[n] \in Seq(K) /\ RangeOf(g[n]) = RangeOf(left) \cup {right[i] : i \in 1..n}
           T == {n \in 0..Len(right) : ~ Good(n)}
<1>4. ASSUME T # {} PROVE FALSE
  <2>1. T \in SUBSET Nat
    OBVIOUS
  <2> HIDE DEF T
  <2>2. PICK n \in T : \A y \in T : n <= y
    BY <1>4, <2>1, LeastNumber
  <2> USE DEF T
  <2>3. n \in 0..Len(right) /\ ~ Good(n)
    OBVIOUS
  <2>4. CASE n = 0
    <3>1. g[n] = left /\ {right[i] : i \in 1..n} = {}
      BY <1>3, <2>3, <2>4
    <3>2. QED BY <2>3, <3>1
  <2>5. CASE n # 0
    <3>1. n - 1 \in 0..Len(right) /\ n - 1 \notin T
      BY <2>2, <2>3, <2>5
    <3>2. Good(n - 1) /\ g[n] = Added(g[n - 1], right[n]) /\ right[n] \in K
      BY <1>3, <2>3, <2>5, <3>1
    <3>3. g[n] \in Seq(K) /\ RangeOf(g[n]) = RangeOf(g[n - 1]) \cup {right[n]}
      <4>1. \A s \in Seq(K), r \in K :
              Added(s, r) \in Seq(K) /\ RangeOf(Added(s, r)) = RangeOf(s) \cup {r}
        BY AddedIs
      <4>2. g[n - 1] \in Seq(K) /\ right[n] \in K
        BY <3>2
      <4>3. /\ Added(g[n - 1], right[n]) \in Seq(K)
            /\ RangeOf(Added(g[n - 1], right[n])) = RangeOf(g[n - 1]) \cup {right[n]}
        BY <4>1, <4>2
      <4>4. QED BY <3>2, <4>3
    <3>4. {right[i] : i \in 1..n} = {right[i] : i \in 1..(n - 1)} \cup {right[n]}
      BY <2>3, <2>5
    <3>5. QED BY <2>3, <3>2, <3>3, <3>4
  <2>6. QED BY <2>4, <2>5
<1>5. Good(Len(right))
  <2>1. Len(right) \in 0..Len(right)
    OBVIOUS
  <2>2. QED BY <1>4, <2>1
<1>6. RangeOf(right) = {right[i] : i \in 1..Len(right)}
  BY DEF RangeOf
<1>7. QED BY <1>1, <1>5, <1>6

-----------------------------------------------------------------------------
(* A batch is no larger than the pool and the budget.                       *)

LEMMA ImageSmall ==
  ASSUME NEW I, IsFiniteSet(I), NEW s, I \subseteq DOMAIN s
  PROVE  /\ IsFiniteSet({s[k] : k \in I})
         /\ Cardinality({s[k] : k \in I}) <= Cardinality(I)
<1> DEFINE f == [k \in I |-> s[k]]
           J == {s[k] : k \in I}
<1>1. f \in Surjection(I, J)
  BY DEF Surjection
<1> HIDE DEF f, J
<1>2. IsFiniteSet(J) /\ Cardinality(J) <= Cardinality(I)
  BY <1>1, FS_Surjection
<1>3. QED BY <1>2 DEF J

(* The first so many members of a set of numbers are at most so many.       *)
LEMMA FirstFew ==
  ASSUME NEW W \in SUBSET Nat, IsFiniteSet(W), NEW width \in Nat
  PROVE  LET I == {k \in W : Cardinality({m \in W : m < k}) < width}
         IN  IsFiniteSet(I) /\ Cardinality(I) <= width
<1> DEFINE Below(k) == {m \in W : m < k}
           I == {k \in W : Cardinality(Below(k)) < width}
           f == [k \in I |-> Cardinality(Below(k))]
           U == 0..(width - 1)
<1>1. ASSUME NEW k \in W PROVE IsFiniteSet(Below(k)) /\ Cardinality(Below(k)) \in Nat
  <2>1. Below(k) \in SUBSET W
    OBVIOUS
  <2> HIDE DEF Below
  <2>2. IsFiniteSet(Below(k))
    BY <2>1, FS_Subset
  <2>3. QED BY <2>2, FS_CardinalityType
<1>2. f \in [I -> U]
  <2>1. ASSUME NEW k \in I PROVE Cardinality(Below(k)) \in 0..(width - 1)
    <3>1. k \in W /\ Cardinality(Below(k)) < width
      OBVIOUS
    <3>2. Cardinality(Below(k)) \in Nat
      BY <1>1, <3>1
    <3> HIDE DEF Below
    <3>3. QED BY <3>1, <3>2
  <2> HIDE DEF Below
  <2>2. QED BY <2>1
<1>3. ASSUME NEW k \in W, NEW l \in W, k < l PROVE Cardinality(Below(k)) < Cardinality(Below(l))
  <2>1. Below(k) \in SUBSET Below(l) /\ k \in Below(l) /\ k \notin Below(k)
    <3>1. k \in Nat /\ l \in Nat /\ k < l /\ \A m \in W : m \in Nat
      BY <1>3
    <3>2. \A m \in W : m < k => m < l
      BY <3>1
    <3>3. k \in Below(l) /\ k \notin Below(k)
      BY <1>3, <3>1
    <3>4. QED BY <3>2, <3>3
  <2>2. IsFiniteSet(Below(l)) /\ Cardinality(Below(k)) \in Nat /\ Cardinality(Below(l)) \in Nat
    BY <1>1
  <2> HIDE DEF Below
  <2>3. /\ Cardinality(Below(k)) <= Cardinality(Below(l))
        /\ Cardinality(Below(k)) = Cardinality(Below(l)) => Below(k) = Below(l)
    BY <2>1, <2>2, FS_Subset
  <2>4. QED BY <2>1, <2>2, <2>3
<1>4. \A k, l \in I : f[k] = f[l] => k = l
  <2> SUFFICES ASSUME NEW k \in I, NEW l \in I, f[k] = f[l], k # l PROVE FALSE
    OBVIOUS
  <2>1. k < l \/ l < k
    OBVIOUS
  <2>2. Cardinality(Below(k)) \in Nat /\ Cardinality(Below(l)) \in Nat
    BY <1>1
  <2>3. f[k] = Cardinality(Below(k)) /\ f[l] = Cardinality(Below(l))
    OBVIOUS
  <2>4. k \in W /\ l \in W
    OBVIOUS
  <2> HIDE DEF Below, f, I
  <2>5. Cardinality(Below(k)) # Cardinality(Below(l))
    <3>1. CASE k < l
      BY <1>3, <2>2, <2>4, <3>1
    <3>2. CASE l < k
      BY <1>3, <2>2, <2>4, <3>2
    <3>3. QED BY <2>1, <3>1, <3>2
  <2>6. QED BY <2>3, <2>5
<1>5. IsFiniteSet(U) /\ Cardinality(U) = width
  BY FS_Interval
<1> HIDE DEF f, U
<1>6. f \in Injection(I, U)
  BY <1>2, <1>4 DEF Injection, IsInjective
<1> HIDE DEF I
<1>7. IsFiniteSet(I) /\ Cardinality(I) <= width
  BY <1>5, <1>6, FS_Injection
<1>8. QED BY <1>7 DEF I

LEMMA BatchSmall ==
  ASSUME candidates \in Seq(Receipts), index \in Nat \ {0}, requests \in Nat,
         requests < DocumentBudget, NEW width \in Nat
  PROVE  /\ Batch(width) \subseteq Receipts /\ IsFiniteSet(Batch(width))
         /\ Cardinality(Batch(width)) \in 0..(DocumentBudget - requests)
<1> DEFINE n == Smaller(width, DocumentBudget - requests)
           I == {k \in Wanted : Cardinality({m \in Wanted : m < k}) < n}
<1>1. n \in Nat /\ n <= DocumentBudget - requests
  BY BudgetAssumption DEF Smaller
<1>2. Wanted \in SUBSET Nat /\ Wanted \subseteq 1..Len(candidates) /\ IsFiniteSet(Wanted)
  <2>1. Wanted \subseteq index..Len(candidates) /\ IsFiniteSet(index..Len(candidates))
    BY FS_Interval DEF Wanted
  <2>2. IsFiniteSet(Wanted)
    BY <2>1, FS_Subset
  <2>3. index..Len(candidates) \subseteq 1..Len(candidates)
    OBVIOUS
  <2>4. QED BY <2>1, <2>2, <2>3
<1> HIDE DEF n
<1>3. IsFiniteSet(I) /\ Cardinality(I) <= n
  BY <1>1, <1>2, FirstFew
<1>4. I \subseteq 1..Len(candidates)
  BY <1>2
<1> HIDE DEF I
<1>5. I \subseteq DOMAIN candidates
  BY <1>4
<1>6. Batch(width) = {candidates[k] : k \in I}
  BY DEF Batch, Among, n, I
<1>7. IsFiniteSet(Batch(width)) /\ Cardinality(Batch(width)) <= Cardinality(I)
  BY <1>3, <1>5, <1>6, ImageSmall
<1>8. Batch(width) \subseteq Receipts
  BY <1>4, <1>6
<1>9. Cardinality(Batch(width)) \in Nat /\ Cardinality(I) \in Nat
  BY <1>3, <1>7, FS_CardinalityType
<1>10. QED BY <1>1, <1>3, <1>7, <1>8, <1>9, BudgetAssumption

-----------------------------------------------------------------------------
(* Types, and the budget of a call.                                         *)

LEMMA TypesInit == Init => TypeOK /\ WithinBudget
<1> SUFFICES ASSUME Init PROVE TypeOK /\ WithinBudget
  OBVIOUS
<1>1. Beginning \in Continuations /\ << >> \in Seq(Receipts)
  BY DEF Beginning, Continuations
<1>2. errors \in [Receipts -> Failures \cup {"none"}]
  BY DEF Init
<1>3. /\ {verified, preliminary, prefetched, cache, surfaced, judged, gaveUp, behind} \subseteq SUBSET Receipts
      /\ delivered = {}
  BY DEF Init
<1>4. requests = 0 /\ 0 <= 2 * DocumentBudget
  BY BudgetAssumption DEF Init
<1>5. TypeOK
  <2>1. plan \in Searches /\ pc \in {"idle", "find", "list", "verify", "fetched", "answer"}
    BY DEF Init
  <2>2. token \in Continuations \cup {NoToken} /\ from \in Continuations
    BY <1>1 DEF Init
  <2>3. candidates \in Seq(Receipts) /\ complete \in BOOLEAN /\ hard \in BOOLEAN
    BY <1>1 DEF Init
  <2>4. /\ pc = "idle" /\ fatal \in BOOLEAN /\ fallback \in BOOLEAN
        /\ next = 1 /\ index = 1 /\ requests = 0 /\ status = "none" /\ grade = "none"
    BY DEF Init
  <2>5. QED BY <1>2, <1>3, <2>1, <2>2, <2>3, <2>4 DEF TypeOK
<1>6. QED BY <1>4, <1>5 DEF WithinBudget

LEMMA BeginsTyped ==
  ASSUME TypeOK, NEW state \in Continuations, Begins(state)
  PROVE  /\ pc' = "find" /\ from' \in Continuations /\ candidates' \in Seq(Receipts)
         /\ complete' \in BOOLEAN /\ hard' \in BOOLEAN /\ fatal' \in BOOLEAN /\ fallback' \in BOOLEAN
         /\ next' \in Nat \ {0} /\ index' \in Nat \ {0} /\ requests' = 0
         /\ errors' \in [Receipts -> Failures \cup {"none"}]
         /\ {verified', preliminary', prefetched', cache'} \subseteq SUBSET Receipts
<1>1. cache' \subseteq Receipts
  BY DEF Begins, TypeOK
<1>2. errors' \in [Receipts -> Failures \cup {"none"}]
  BY DEF Begins
<1>3. << >> \in Seq(Receipts)
  OBVIOUS
<1>4. verified' = {} /\ preliminary' = {} /\ prefetched' = {}
  BY DEF Begins
<1>5. {verified', preliminary', prefetched', cache'} \subseteq SUBSET Receipts
  BY <1>1, <1>4
<1>6. /\ pc' = "find" /\ from' = state /\ candidates' = << >>
      /\ complete' = TRUE /\ hard' = FALSE /\ fatal' = FALSE /\ fallback' = FALSE
      /\ next' = 1 /\ index' = 1 /\ requests' = 0
  BY DEF Begins
<1>7. candidates' \in Seq(Receipts) /\ from' \in Continuations
  BY <1>3, <1>6
<1>8. complete' \in BOOLEAN /\ hard' \in BOOLEAN /\ fatal' \in BOOLEAN /\ fallback' \in BOOLEAN
  BY <1>6
<1>9. QED BY <1>2, <1>5, <1>6, <1>7, <1>8

LEMMA StepTyped == TypeOK /\ WithinBudget /\ [Next]_vars => TypeOK' /\ WithinBudget'
<1> SUFFICES ASSUME TypeOK, WithinBudget, [Next]_vars PROVE TypeOK' /\ WithinBudget'
  OBVIOUS
<1> USE DEF listed, loop, answer, history
<1>1. CASE Search
  <2>1. Beginning \in Continuations
    BY DEF Beginning, Continuations
  <2>2. Begins(Beginning)
    BY <1>1 DEF Search
  <2>3. QED BY <1>1, <2>1, <2>2, BeginsTyped, BudgetAssumption DEF Search, TypeOK, WithinBudget
<1>2. CASE Continue
  <2>1. token \in Continuations /\ Begins(token)
    BY <1>2 DEF Continue, TypeOK
  <2>2. QED BY <1>2, <2>1, BeginsTyped, BudgetAssumption DEF Continue, TypeOK, WithinBudget
<1>3. CASE TokenLost
  BY <1>3 DEF TokenLost, TypeOK, WithinBudget
<1>4. ASSUME NEW r \in Receipts, GetEvidence(r) PROVE TypeOK' /\ WithinBudget'
  BY <1>4 DEF GetEvidence, TypeOK, WithinBudget
<1>5. ASSUME NEW found \in Seq(Receipts), NEW step \in {"list", "verify"}, Finds(found, step),
             complete' \in BOOLEAN, next' \in Nat \ {0}, fallback' \in BOOLEAN
      PROVE  TypeOK' /\ WithinBudget'
  BY <1>5 DEF Finds, TypeOK, WithinBudget
<1>6. CASE DartAnswers \/ DartFallsBack \/ ListingOnly
  <2>1. << >> \in Seq(Receipts) /\ Merged(<< >>, Found) \in Seq(Receipts)
    <3>1. \A l, r \in Seq(Receipts) : Merged(l, r) \in Seq(Receipts)
      BY MergedIs
    <3>2. << >> \in Seq(Receipts)
      OBVIOUS
    <3>3. QED BY <3>1, <3>2, SearchAssumption
  <2>2. CASE DartAnswers
    BY <1>5, <2>1, <2>2 DEF DartAnswers, TypeOK
  <2>3. CASE DartFallsBack \/ ListingOnly
    BY <1>5, <2>1, <2>3 DEF DartFallsBack, ListingOnly, TypeOK
  <2>4. QED BY <1>6, <2>2, <2>3
<1>7. CASE KeyMissing
  BY <1>7 DEF KeyMissing, TypeOK, WithinBudget
<1>8. CASE ListPages
  <2> DEFINE first == (from.page - 1) * PageSize + 1
             last == Smaller(first - 1 + ListBudget * PageSize, Len(Listing))
             rows == SubSeq(Listing, first, last)
  <2>1. from.page \in Nat \ {0}
    BY DEF TypeOK, Continuations
  <2>2. first \in Nat \ {0} /\ last \in Nat /\ last <= Len(Listing)
    <3>1. (from.page - 1) * PageSize \in Nat /\ ListBudget * PageSize \in Nat
      BY <2>1, BudgetAssumption
    <3>2. Len(Listing) \in Nat
      BY SearchAssumption
    <3>3. QED BY <3>1, <3>2 DEF Smaller
  <2>3. rows \in Seq(Receipts)
    BY <2>2, SearchAssumption
  <2>4. Finds(Merged(candidates, rows), "verify")
    BY <1>8 DEF ListPages
  <2>5. complete' \in BOOLEAN /\ next' \in Nat \ {0}
    BY <1>8, <2>1, BudgetAssumption DEF ListPages
  <2> HIDE DEF rows
  <2>6. Merged(candidates, rows) \in Seq(Receipts)
    BY <2>3, MergedIs DEF TypeOK
  <2>7. fallback' \in BOOLEAN
    BY <1>8 DEF ListPages, TypeOK
  <2>8. QED BY <1>5, <2>4, <2>5, <2>6, <2>7
<1>9. CASE FindingTimesOut
  BY <1>9 DEF FindingTimesOut, TypeOK, WithinBudget, Continuations
<1>10. CASE CallFails
  BY <1>10 DEF CallFails, DefaultGrade, TypeOK, WithinBudget, RangeOf
<1>11. CASE LoopTimesOut \/ EnoughResults \/ LoopDone
  <2>1. /\ pc' = "answer" /\ hard' \in BOOLEAN /\ fatal' = fatal
        /\ UNCHANGED <<plan, token, from, candidates, listed, index, verified, preliminary, requests,
                       prefetched, errors, fallback, cache, answer, history>>
    BY <1>11 DEF LoopTimesOut, EnoughResults, LoopDone, Stops, TypeOK
  <2>2. QED BY <2>1 DEF TypeOK, WithinBudget
<1>12. CASE SkipProcessed
  BY <1>12 DEF SkipProcessed, Working, TypeOK, WithinBudget
<1>13. ASSUME Working \/ pc = "fetched" PROVE Current \in Receipts
  BY <1>13 DEF Working, Current, TypeOK
<1>14. CASE TakeRow \/ LeaveUnread \/ ReadText \/ OverBudget \/ FetchFails
  <2>1. Working \/ pc = "fetched"
    BY <1>14 DEF TakeRow, LeaveUnread, ReadText, OverBudget, FetchFails, Fetched, Reading, Turn
  <2>2. NextCandidate /\ Current \in Receipts
    BY <1>13, <1>14, <2>1 DEF TakeRow, LeaveUnread, ReadText, OverBudget, FetchFails
  <2>3. /\ verified' \subseteq verified \cup {Current}
        /\ preliminary' \subseteq preliminary \cup {Current}
        /\ judged' \subseteq judged \cup {Current} /\ gaveUp' \subseteq gaveUp \cup {Current}
    BY <1>14 DEF TakeRow, LeaveUnread, ReadText, OverBudget, FetchFails
  <2>4. {verified', preliminary', judged', gaveUp'} \subseteq SUBSET Receipts
    BY <2>2, <2>3 DEF TypeOK
  <2>5. QED BY <2>2, <2>4 DEF NextCandidate, TypeOK, WithinBudget
<1>15. CASE Fetch
  <2>1. PICK width \in 1..DocumentConcurrency :
          \E result \in [Batch(width) -> Failures \cup {"text"}] :
            LET texts == {r \in Batch(width) : result[r] = "text"}
                late == {r \in Batch(width) : result[r] = "late"}
            IN  /\ prefetched' = prefetched \cup Batch(width)
                /\ errors' = [r \in Receipts |-> IF r \in Batch(width) \ texts THEN result[r]
                                                 ELSE errors[r]]
                /\ \E started \in Cardinality(Batch(width) \ late)..2 * Cardinality(Batch(width)) :
                     requests' = requests + started
                /\ \/ cache' = cache \cup texts
                   \/ \E evicted \in cache \cup texts : cache' = (cache \cup texts) \ {evicted}
    BY <1>15 DEF Fetch
  <2> DEFINE B == Batch(width)
  <2>2. B \subseteq Receipts /\ IsFiniteSet(B) /\ Cardinality(B) \in 0..(DocumentBudget - requests)
    BY <1>15, <2>1, BatchSmall, BudgetAssumption DEF Fetch, TypeOK
  <2> HIDE DEF B
  <2>3. PICK result \in [B -> Failures \cup {"text"}] :
            LET texts == {r \in B : result[r] = "text"}
                late == {r \in B : result[r] = "late"}
            IN  /\ prefetched' = prefetched \cup B
                /\ errors' = [r \in Receipts |-> IF r \in B \ texts THEN result[r] ELSE errors[r]]
                /\ \E started \in Cardinality(B \ late)..2 * Cardinality(B) :
                     requests' = requests + started
                /\ \/ cache' = cache \cup texts
                   \/ \E evicted \in cache \cup texts : cache' = (cache \cup texts) \ {evicted}
    BY <2>1 DEF B
  <2> DEFINE texts == {r \in B : result[r] = "text"}
             late == {r \in B : result[r] = "late"}
  <2>4. Cardinality(B \ late) \in Nat
    BY <2>2, FS_Subset, FS_CardinalityType
  <2>5. requests' \in Nat /\ requests' <= 2 * DocumentBudget
    <3>1. PICK started \in Cardinality(B \ late)..2 * Cardinality(B) : requests' = requests + started
      BY <2>3
    <3> HIDE DEF late
    <3>2. requests \in Nat /\ DocumentBudget \in Nat
      BY BudgetAssumption DEF TypeOK
    <3>3. QED BY <2>2, <2>4, <3>1, <3>2
  <2>6. errors' \in [Receipts -> Failures \cup {"none"}]
    <3>1. errors' = [r \in Receipts |-> IF r \in B \ texts THEN result[r] ELSE errors[r]]
      BY <2>3
    <3>2. \A r \in B \ texts : result[r] \in Failures
      BY <2>3
    <3>3. QED BY <3>1, <3>2 DEF TypeOK
  <2>7. prefetched' \subseteq Receipts /\ cache' \subseteq Receipts
    BY <2>2, <2>3 DEF TypeOK
  <2>8. pc' = "fetched" /\ index' = index /\ candidates' = candidates /\ index <= Len(candidates)
    BY <1>15 DEF Fetch, Reading, Turn, Working
  <2>9. QED BY <1>15, <2>5, <2>6, <2>7, <2>8 DEF Fetch, TypeOK, WithinBudget
<1>16. CASE FetchTimesOut \/ FetchRefused
  BY <1>16 DEF FetchTimesOut, FetchRefused, Stops, TypeOK, WithinBudget
<1>17. CASE Answer
  <2>1. token' \in Continuations \cup {NoToken}
    <3>1. Processed \subseteq Receipts
      BY DEF Processed, TypeOK, Continuations
    <3>2. QED BY <1>17, <3>1 DEF Answer, Token, Issued, TypeOK, Continuations
  <2>2. status' \in {"none", "completed", "partial", "failed"}
    BY <1>17 DEF Answer, Statuses
  <2>3. grade' \in {"none", "complete", "reduced", "partial", "unconfirmed"}
    BY <1>17 DEF Answer, Grade
  <2>4. /\ surfaced' \subseteq Receipts /\ behind' \subseteq Receipts
        /\ delivered' \subseteq [filings : SUBSET Receipts, verified : SUBSET Receipts]
    <3>1. RangeOf(candidates) \subseteq Receipts /\ verified \subseteq Receipts
      BY DEF RangeOf, TypeOK
    <3>2. PICK groups \in Groupings : delivered' \subseteq delivered \cup Results(groups)
      BY <1>17 DEF Answer
    <3>3. \A g \in groups : g \subseteq Receipts
      BY <3>1 DEF Groupings
    <3>4. Results(groups) \subseteq [filings : SUBSET Receipts, verified : SUBSET Receipts]
      BY <3>1, <3>3 DEF Results
    <3>5. QED BY <1>17, <3>1, <3>2, <3>4 DEF Answer, Left, TypeOK
  <2>5. QED BY <1>17, <2>1, <2>2, <2>3, <2>4 DEF Answer, TypeOK, WithinBudget
<1>18. CASE UNCHANGED vars
  BY <1>18 DEF vars, TypeOK, WithinBudget
<1>19. QED
  BY <1>1, <1>2, <1>3, <1>4, <1>6, <1>7, <1>8, <1>9, <1>10, <1>11, <1>12, <1>14, <1>15, <1>16,
     <1>17, <1>18 DEF Next

LEMMA TypesKept == Spec => [](TypeOK /\ WithinBudget)
  BY TypesInit, StepTyped, PTL DEF Spec

(* The types of the state of a search and of its answer (engine.py:118-470). *)
THEOREM SearchTyped == Spec => []TypeOK
  BY TypesKept, PTL

(* A call makes at most twice as many document requests as its budget says, *)
(* because a batch is cut to what is left of it (engine.py:375-402).        *)
THEOREM BudgetHolds == Spec => []WithinBudget
  BY TypesKept, PTL

-----------------------------------------------------------------------------
(* A chain that ends as complete has forgotten no candidate, when every     *)
(* call lists: the query names a report type, or the body search finds less *)
(* than enough.  Where the listing has come to, and what it has still to    *)
(* bring, decides what a call can find.                                     *)

Lists == AlwaysLists \/ Len(Found) < ResultBudget

(* What a call finds that lists from a page on: the body search begins anew *)
(* each time.                                                               *)
Before(page) == (page - 1) * PageSize
RowsFrom(page) == {Listing[i] : i \in {i \in 1..Len(Listing) : i > Before(page)}}
Planned(page) == (IF SearchesBodies THEN RangeOf(Found) ELSE {}) \cup RowsFrom(page)

(* Candidates of earlier answers that have still to be looked at.           *)
Owed == surfaced \ (judged \cup gaveUp \cup behind)

(* What is owed lies before the token, or the call that has consumed it.    *)
Owing ==
  /\ surfaced \subseteq Planned(1)
  /\ token # NoToken => Owed \subseteq Planned(token.page)
  /\ pc # "idle" => token = NoToken /\ Owed \subseteq Planned(from.page)

(* A call that reaches its loop has found all there is up to the page it    *)
(* goes on with, unless time ran out, the listing stood in for the body     *)
(* search or there is no key.                                               *)
Looping == pc \in {"verify", "fetched", "answer"}
Surfacing ==
  /\ pc # "idle" => RangeOf(candidates) \subseteq Planned(from.page)
  /\ pc \in {"find", "list"} => complete /\ ~hard
  /\ pc = "find" => candidates = << >> /\ ~fallback
  /\ pc = "list" => IF SearchesBodies THEN fallback \/ RangeOf(candidates) = RangeOf(Found)
                                      ELSE candidates = << >>
  /\ Looping /\ ~plan.key /\ ~hard => candidates # << >> /\ plan.strategy # "list"
  /\ Looping /\ plan.key /\ complete /\ ~hard =>
       fallback \/ Planned(from.page) \subseteq RangeOf(candidates)
  /\ Looping /\ ~complete /\ next # from.page =>
       Planned(from.page) \subseteq RangeOf(candidates) \cup Planned(next)

(* The loop can only have answered for as many candidates as it has seen    *)
(* when it has answered for every one of them.                              *)
Counting ==
  /\ IsFiniteSet(verified) /\ IsFiniteSet(preliminary)
  /\ pc \in {"find", "list"} => index = 1 /\ verified = {} /\ preliminary = {}
  /\ index <= Len(candidates) + 1
  /\ Cardinality(verified) + Cardinality(preliminary) <= index - 1
  /\ Cardinality(verified) + Cardinality(preliminary) = index - 1 =>
       \A i \in 1..(index - 1) : candidates[i] \in verified \cup preliminary

(* What is answered was read, or tried in vain, if the budget allowed it.   *)
Judging ==
  pc # "idle" =>
    /\ verified \subseteq judged
    /\ \/ preliminary \subseteq judged \cup gaveUp
       \/ ~plan.key \/ requests >= DocumentBudget

(* A completed answer ends the chain.                                       *)
Ended ==
  status = "completed" =>
    /\ token = NoToken /\ pc = "idle"
    /\ grade = "complete" => surfaced \subseteq judged \cup gaveUp \cup behind

Thorough == Owing /\ Surfacing /\ Counting /\ Judging /\ Ended

(* Listing brings the rows from the cursor up to the page it stops at.      *)
LEMMA ListsUpTo ==
  ASSUME NEW page \in Nat \ {0}
  PROVE  LET first == (page - 1) * PageSize + 1
             last == Smaller(first - 1 + ListBudget * PageSize, Len(Listing))
             rows == SubSeq(Listing, first, last)
         IN  /\ rows \in Seq(Receipts) /\ RangeOf(rows) \subseteq RowsFrom(page)
             /\ last = Len(Listing) => RowsFrom(page) \subseteq RangeOf(rows)
             /\ RowsFrom(page) \subseteq RangeOf(rows) \cup RowsFrom(page + ListBudget)
<1> DEFINE first == (page - 1) * PageSize + 1
           last == Smaller(first - 1 + ListBudget * PageSize, Len(Listing))
           rows == SubSeq(Listing, first, last)
<1>1. first \in Nat \ {0} /\ last \in Nat /\ last <= Len(Listing) /\ Len(Listing) \in Nat
  <2>1. (page - 1) * PageSize \in Nat /\ ListBudget * PageSize \in Nat
    BY BudgetAssumption
  <2>2. Len(Listing) \in Nat
    BY SearchAssumption
  <2>3. QED BY <2>1, <2>2 DEF Smaller
<1>2. Before(page + ListBudget) = first - 1 + ListBudget * PageSize
  BY BudgetAssumption DEF Before
<1>3. \/ last = Len(Listing)
      \/ last = Before(page + ListBudget)
  BY <1>2 DEF Smaller
<1>4. Before(page) = first - 1 /\ Before(page + ListBudget) \in Nat
  <2>1. (page - 1) * PageSize \in Nat /\ ListBudget * PageSize \in Nat
    BY BudgetAssumption
  <2>2. QED BY <1>2, <2>1 DEF Before
<1> HIDE DEF first, last
<1>5. rows \in Seq(Receipts) /\ RangeOf(rows) = {Listing[i] : i \in first..last}
  <2>1. Listing \in Seq(Receipts)
    BY SearchAssumption
  <2>2. CASE first <= last
    <3>1. Len(rows) = last - first + 1 /\ rows \in Seq(Receipts)
          /\ \A i \in 1..(last - first + 1) : rows[i] = Listing[first + i - 1]
      BY <1>1, <2>1, <2>2
    <3> HIDE DEF rows
    <3>2. RangeOf(rows) = {rows[i] : i \in 1..(last - first + 1)}
      BY <3>1 DEF RangeOf
    <3>3. \A i \in 1..(last - first + 1) : first + i - 1 \in first..last
      BY <1>1
    <3>4. \A i \in first..last : i - first + 1 \in 1..(last - first + 1) /\ rows[i - first + 1] = Listing[i]
      <4> TAKE i \in first..last
      <4>1. i - first + 1 \in 1..(last - first + 1) /\ first + (i - first + 1) - 1 = i
        BY <1>1
      <4>2. QED BY <3>1, <4>1
    <3>5. ASSUME NEW x \in RangeOf(rows) PROVE x \in {Listing[i] : i \in first..last}
      <4>1. PICK i \in 1..(last - first + 1) : x = rows[i]
        BY <3>2
      <4>2. QED BY <3>1, <3>3, <4>1
    <3>6. ASSUME NEW i \in first..last PROVE Listing[i] \in RangeOf(rows)
      BY <3>2, <3>4
    <3>7. QED BY <3>1, <3>5, <3>6
  <2>3. CASE ~ (first <= last)
    <3>1. rows = << >> /\ first..last = {}
      BY <1>1, <2>1, <2>3
    <3>2. QED BY <3>1 DEF RangeOf
  <2>4. QED BY <2>2, <2>3
<1> HIDE DEF rows
<1>6. RowsFrom(page) = {Listing[i] : i \in first..Len(Listing)}
  <2>1. \A i \in 1..Len(Listing) : i > Before(page) <=> i \in first..Len(Listing)
    BY <1>1, <1>4
  <2>2. first..Len(Listing) \subseteq 1..Len(Listing)
    BY <1>1
  <2>3. QED BY <2>1, <2>2 DEF RowsFrom
<1>7. RangeOf(rows) \subseteq RowsFrom(page)
  BY <1>1, <1>5, <1>6
<1>8. last = Len(Listing) => RowsFrom(page) \subseteq RangeOf(rows)
  BY <1>5, <1>6
<1>9. ASSUME last = Before(page + ListBudget)
      PROVE  RowsFrom(page) \subseteq RangeOf(rows) \cup RowsFrom(page + ListBudget)
  <2>1. ASSUME NEW i \in first..Len(Listing)
        PROVE  i \in first..last \/ (i \in 1..Len(Listing) /\ i > Before(page + ListBudget))
    BY <1>1, <1>9
  <2>2. ASSUME NEW x \in RowsFrom(page)
        PROVE  x \in RangeOf(rows) \cup RowsFrom(page + ListBudget)
    <3>1. PICK i \in first..Len(Listing) : x = Listing[i]
      BY <1>6
    <3>2. CASE i \in first..last
      BY <1>5, <3>1, <3>2
    <3>3. CASE i \in 1..Len(Listing) /\ i > Before(page + ListBudget)
      BY <3>1, <3>3 DEF RowsFrom
    <3>4. QED BY <2>1, <3>2, <3>3
  <2>3. QED BY <2>2
<1>10. RowsFrom(page) \subseteq RangeOf(rows) \cup RowsFrom(page + ListBudget)
  BY <1>3, <1>8, <1>9
<1>11. QED BY <1>5, <1>7, <1>8, <1>10 DEF first, last, rows

(* Later pages bring no more than earlier ones, and the first all of it.    *)
LEMMA FirstPageAll ==
  ASSUME NEW page \in Nat \ {0}
  PROVE  RowsFrom(page) \subseteq RowsFrom(1) /\ Planned(page) \subseteq Planned(1)
<1>1. Before(1) = 0
  BY BudgetAssumption DEF Before
<1>2. Before(page) \in Nat
  BY BudgetAssumption DEF Before
<1>3. RowsFrom(page) \subseteq RowsFrom(1)
  BY <1>1, <1>2 DEF RowsFrom
<1>4. QED BY <1>3 DEF Planned

LEMMA NoneInEmpty == RangeOf(<< >>) = {}
  BY DEF RangeOf

(* The loop, the error path and what happens between calls leave what is    *)
(* owed where it is, and settle some of it.                                 *)
LEMMA OwingStays ==
  ASSUME Owing, UNCHANGED <<plan, from, behind>>,
         judged \subseteq judged', gaveUp \subseteq gaveUp', surfaced' \subseteq surfaced,
         token' \in {token, NoToken}, pc # "idle" \/ pc' = "idle"
  PROVE  Owing'
<1>1. Owed' \subseteq Owed
  BY DEF Owed
<1>2. \A page : Planned(page)' = Planned(page)
  BY DEF Planned, SearchesBodies
<1>3. QED
  BY <1>1, <1>2, Zenon DEF Owing

LEMMA AnswerOwes ==
  ASSUME TypeOK, Owing, Surfacing, Answer
  PROVE  Owing'
<1>1. /\ pc = "answer" /\ pc' = "idle" /\ token' = Token
      /\ surfaced' = surfaced \cup RangeOf(candidates) /\ behind' = behind \cup Left
      /\ UNCHANGED <<plan, judged, gaveUp>>
  BY DEF Answer
<1>2. Planned(1)' = Planned(1)
  BY <1>1 DEF Planned, SearchesBodies
<1>3. from.page \in Nat \ {0} /\ next \in Nat \ {0}
  BY DEF TypeOK, Continuations
<1>4. surfaced' \subseteq Planned(1)
  <2>1. RangeOf(candidates) \subseteq Planned(from.page) /\ surfaced \subseteq Planned(1)
    BY <1>1 DEF Surfacing, Owing
  <2>2. Planned(from.page) \subseteq Planned(1)
    BY <1>3, FirstPageAll
  <2>3. QED BY <1>1, <2>1, <2>2
<1>5. Owed' = (Owed \ Left) \cup (RangeOf(candidates) \ (judged \cup gaveUp \cup behind \cup Left))
  BY <1>1 DEF Owed
<1>6. CASE complete
  <2>1. Token # NoToken => Token.page = 1
    BY <1>6 DEF Token, Issued
  <2>2. Owed' \subseteq Planned(1)
    BY <1>4 DEF Owed
  <2>3. token' # NoToken => token'.page = 1
    BY <1>1, <2>1
  <2>4. QED BY <1>1, <1>2, <1>4, <2>2, <2>3 DEF Owing, Planned, SearchesBodies
<1>7. CASE ~complete
  <2>1. token'.page = next
    BY <1>1, <1>7 DEF Token, Issued
  <2>2. CASE next = from.page
    <3>1. Owed \subseteq Planned(next) /\ RangeOf(candidates) \subseteq Planned(next)
      BY <1>1, <2>2 DEF Owing, Surfacing
    <3>2. Owed' \subseteq Planned(next)
      BY <1>5, <3>1
    <3>3. QED BY <1>1, <1>2, <1>4, <2>1, <3>2 DEF Owing, Planned, SearchesBodies
  <2>3. CASE next # from.page
    <3>1. Left = RangeOf(candidates) \ (judged \cup gaveUp)
      BY <1>7, <2>3 DEF Left
    <3>2. Owed' \subseteq Owed \ RangeOf(candidates)
      BY <1>5, <3>1 DEF Owed
    <3>3. Owed \subseteq Planned(from.page)
      BY <1>1 DEF Owing
    <3>4. Planned(from.page) \subseteq RangeOf(candidates) \cup Planned(next)
      BY <1>1, <1>7, <2>3 DEF Surfacing, Looping
    <3>5. Owed' \subseteq Planned(next)
      BY <3>2, <3>3, <3>4
    <3>6. QED BY <1>1, <1>2, <1>4, <2>1, <3>5 DEF Owing, Planned, SearchesBodies
  <2>4. QED BY <2>2, <2>3
<1>8. QED BY <1>6, <1>7 DEF TypeOK

LEMMA OwingKept ==
  ASSUME TypeOK, Owing, Surfacing, [Next]_vars
  PROVE  Owing'
<1> USE DEF listed, loop, answer, history
<1>1. CASE Search
  BY <1>1, Zenon DEF Search, Begins, Owing, Owed
<1>2. CASE Continue
  <2>1. token # NoToken /\ from' = token /\ token' = NoToken /\ pc' = "find"
        /\ UNCHANGED <<plan, surfaced, judged, gaveUp, behind>>
    BY <1>2 DEF Continue, Begins
  <2>2. Owed' = Owed /\ \A page : Planned(page)' = Planned(page)
    BY <2>1 DEF Owed, Planned, SearchesBodies
  <2>3. QED BY <2>1, <2>2, Zenon DEF Owing
<1>3. CASE TokenLost \/ (\E r \in Receipts : GetEvidence(r))
  BY <1>3, OwingStays DEF TokenLost, GetEvidence
<1>4. CASE DartAnswers \/ DartFallsBack \/ ListingOnly \/ ListPages
  BY <1>4, OwingStays DEF DartAnswers, DartFallsBack, ListingOnly, ListPages, Finds
<1>5. CASE KeyMissing \/ FindingTimesOut
  BY <1>5, OwingStays DEF KeyMissing, FindingTimesOut
<1>6. CASE CallFails
  <2>1. /\ pc # "idle" /\ pc' = "idle" /\ token' = token /\ plan' = plan
        /\ surfaced' = surfaced \cup RangeOf(candidates)
    BY <1>6 DEF CallFails
  <2>2. token' = NoToken /\ surfaced' \subseteq Planned(1) \cup Planned(from.page)
    BY <2>1 DEF Owing, Surfacing
  <2>3. Planned(from.page) \subseteq Planned(1)
    BY FirstPageAll DEF TypeOK, Continuations
  <2>4. QED BY <2>1, <2>2, <2>3 DEF Owing, Planned, SearchesBodies
<1>7. CASE LoopTimesOut \/ EnoughResults \/ LoopDone \/ FetchTimesOut \/ FetchRefused
  BY <1>7, OwingStays DEF LoopTimesOut, EnoughResults, LoopDone, FetchTimesOut, FetchRefused, Stops,
                          Fetched, Reading, Turn, Working
<1>8. CASE SkipProcessed
  BY <1>8, OwingStays DEF SkipProcessed, Working
<1>9. CASE TakeRow \/ LeaveUnread \/ ReadText \/ OverBudget \/ FetchFails
  BY <1>9, OwingStays DEF TakeRow, LeaveUnread, ReadText, OverBudget, FetchFails, Fetched, Reading,
                          Turn, Working, NextCandidate
<1>10. CASE Fetch
  BY <1>10, OwingStays DEF Fetch, Reading, Turn, Working
<1>11. CASE Answer
  BY <1>11, AnswerOwes
<1>12. CASE UNCHANGED vars
  BY <1>12, OwingStays DEF vars
<1>13. QED
  BY <1>1, <1>2, <1>3, <1>4, <1>5, <1>6, <1>7, <1>8, <1>9, <1>10, <1>11, <1>12 DEF Next

(* The loop looks at what was found and finds nothing.                      *)
LEMMA SurfacingStays ==
  ASSUME Surfacing, Looping, pc' \in {"verify", "fetched", "answer"},
         UNCHANGED <<plan, from, candidates, complete, next, fallback>>, hard => hard'
  PROVE  Surfacing'
<1>1. \A page : Planned(page)' = Planned(page)
  BY DEF Planned, SearchesBodies
<1>2. RangeOf(candidates)' = RangeOf(candidates)
  BY DEF RangeOf
<1>3. pc' # "find" /\ pc' # "list" /\ pc' # "idle" /\ pc # "idle"
  BY DEF Looping
<1>4. QED BY <1>1, <1>2, <1>3, Zenon DEF Surfacing, Looping

LEMMA SurfacingKept ==
  ASSUME Lists, TypeOK, Surfacing, [Next]_vars
  PROVE  Surfacing'
<1> USE DEF listed, loop, answer, history
<1>1. ASSUME pc' = "idle" PROVE Surfacing'
  BY <1>1 DEF Surfacing, Looping
<1>2. CASE Search \/ Continue
  BY <1>2, NoneInEmpty DEF Search, Continue, Begins, Surfacing, Looping
<1>3. CASE TokenLost \/ (\E r \in Receipts : GetEvidence(r))
  BY <1>1, <1>3 DEF TokenLost, GetEvidence
<1>4. CASE KeyMissing
  <2>1. CASE pc' = "idle"
    BY <1>1, <2>1
  <2>2. CASE pc' # "idle"
    <3>1. /\ pc = "list" /\ pc' = "verify" /\ ~plan.key /\ candidates # << >>
          /\ UNCHANGED <<plan, from, candidates, complete, next, hard, fallback>>
      BY <1>4, <2>2 DEF KeyMissing
    <3>2. plan.strategy # "list" /\ complete
      BY <3>1 DEF Surfacing, SearchesBodies
    <3>3. RangeOf(candidates') \subseteq Planned(from.page)'
      BY <3>1 DEF Surfacing, Planned, SearchesBodies
    <3>4. QED BY <3>1, <3>2, <3>3 DEF Surfacing, Looping
  <2>3. QED BY <2>1, <2>2
<1>5. \A l, r \in Seq(Receipts) : RangeOf(Merged(l, r)) = RangeOf(l) \cup RangeOf(r)
  BY MergedIs
<1>6. << >> \in Seq(Receipts) /\ Found \in Seq(Receipts) /\ Listing \in Seq(Receipts)
  BY SearchAssumption
<1>7. CASE DartAnswers
  <2>1. /\ candidates' = Merged(<< >>, Found) /\ pc = "find" /\ pc' = "list" /\ SearchesBodies
        /\ UNCHANGED <<plan, from, complete, hard, next, fallback>>
    BY <1>7 DEF DartAnswers, Finds, Lists
  <2>2. RangeOf(candidates') = RangeOf(Found)
    <3>1. RangeOf(Merged(<< >>, Found)) = RangeOf(<< >>) \cup RangeOf(Found)
      BY <1>5, <1>6
    <3>2. QED BY <2>1, <3>1, NoneInEmpty
  <2>3. RangeOf(Found) \subseteq Planned(from.page)'
    BY <2>1 DEF Planned, SearchesBodies
  <2>4. QED BY <2>1, <2>2, <2>3 DEF Surfacing, Looping, SearchesBodies
<1>8. CASE DartFallsBack
  <2>1. /\ candidates' = << >> /\ pc = "find" /\ pc' = "list" /\ fallback' = TRUE /\ SearchesBodies
        /\ UNCHANGED <<plan, from, complete, hard, next>>
    BY <1>8 DEF DartFallsBack, Finds
  <2>2. QED BY <2>1, NoneInEmpty DEF Surfacing, Looping, SearchesBodies
<1>9. CASE ListingOnly
  <2>1. /\ candidates' = << >> /\ pc = "find" /\ pc' = "list" /\ ~SearchesBodies
        /\ UNCHANGED <<plan, from, complete, hard, next, fallback>>
    BY <1>9 DEF ListingOnly, Finds, SearchesBodies
  <2>2. QED BY <2>1, NoneInEmpty DEF Surfacing, Looping, SearchesBodies
<1>10. CASE ListPages
  <2> DEFINE first == (from.page - 1) * PageSize + 1
             last == Smaller(first - 1 + ListBudget * PageSize, Len(Listing))
             rows == SubSeq(Listing, first, last)
  <2>1. /\ candidates' = Merged(candidates, rows) /\ pc = "list" /\ pc' = "verify" /\ plan.key
        /\ complete' = (last = Len(Listing)) /\ next' = IF complete' THEN 1 ELSE from.page + ListBudget
        /\ UNCHANGED <<plan, from, hard, fallback>>
    BY <1>10 DEF ListPages, Finds
  <2>2. from.page \in Nat \ {0} /\ candidates \in Seq(Receipts)
    BY DEF TypeOK, Continuations
  <2>3. /\ rows \in Seq(Receipts) /\ RangeOf(rows) \subseteq RowsFrom(from.page)
        /\ last = Len(Listing) => RowsFrom(from.page) \subseteq RangeOf(rows)
        /\ RowsFrom(from.page) \subseteq RangeOf(rows) \cup RowsFrom(from.page + ListBudget)
    BY <2>2, ListsUpTo
  <2> HIDE DEF rows, last
  <2>4. RangeOf(candidates') = RangeOf(candidates) \cup RangeOf(rows)
    BY <1>5, <2>1, <2>2, <2>3
  <2>5. \A page : Planned(page)' = Planned(page)
    BY <2>1 DEF Planned, SearchesBodies
  <2>6. RangeOf(candidates') \subseteq Planned(from.page)
    BY <2>1, <2>3, <2>4 DEF Surfacing, Planned
  <2>7. SearchesBodies => fallback \/ RangeOf(Found) \subseteq RangeOf(candidates')
    BY <2>1, <2>4 DEF Surfacing
  <2>8. complete' => fallback \/ Planned(from.page) \subseteq RangeOf(candidates')
    BY <2>1, <2>3, <2>4, <2>7 DEF Planned
  <2>9. ~complete' => Planned(from.page) \subseteq RangeOf(candidates') \cup Planned(next')
    BY <2>1, <2>3, <2>4 DEF Planned
  <2>10. QED
    <3>1. RangeOf(candidates)' = RangeOf(candidates')
      BY DEF RangeOf
    <3>2. Planned(next)' = Planned(next') /\ Planned(from.page)' = Planned(from.page)
      BY <2>1 DEF Planned, SearchesBodies
    <3>3. fallback' = fallback /\ pc' = "verify" /\ plan'.key
      BY <2>1
    <3>4. QED BY <2>6, <2>8, <2>9, <3>1, <3>2, <3>3, Zenon DEF Surfacing, Looping
<1>11. CASE FindingTimesOut
  <2>1. /\ pc \in {"find", "list"} /\ pc' = "verify" /\ hard' = TRUE
        /\ (complete' = complete \/ (complete' = FALSE /\ next' = from.page))
        /\ UNCHANGED <<plan, from, candidates>>
    BY <1>11 DEF FindingTimesOut
  <2>2. complete
    BY <2>1 DEF Surfacing
  <2>3. RangeOf(candidates') \subseteq Planned(from.page)'
    BY <2>1 DEF Surfacing, Planned, SearchesBodies
  <2>4. QED BY <2>1, <2>2, <2>3 DEF Surfacing, Looping
<1>12. CASE CallFails \/ Answer
  BY <1>1, <1>12 DEF CallFails, Answer
<1>13. CASE LoopTimesOut \/ EnoughResults \/ LoopDone \/ FetchTimesOut \/ FetchRefused
  BY <1>13, SurfacingStays
     DEF LoopTimesOut, EnoughResults, LoopDone, FetchTimesOut, FetchRefused, Stops, Fetched,
         Reading, Turn, Working, Looping, TypeOK
<1>14. CASE SkipProcessed
  BY <1>14, SurfacingStays DEF SkipProcessed, Working, Looping
<1>15. CASE TakeRow \/ LeaveUnread \/ ReadText \/ OverBudget \/ FetchFails
  BY <1>15, SurfacingStays
     DEF TakeRow, LeaveUnread, ReadText, OverBudget, FetchFails, Fetched, Reading, Turn, Working,
         NextCandidate, Looping
<1>16. CASE Fetch
  BY <1>16, SurfacingStays DEF Fetch, Reading, Turn, Working, Looping
<1>17. CASE UNCHANGED vars
  BY <1>17, Zenon DEF vars, Surfacing, Looping, Planned, SearchesBodies, RangeOf
<1>18. QED
  BY <1>2, <1>3, <1>4, <1>7, <1>8, <1>9, <1>10, <1>11, <1>12, <1>13, <1>14, <1>15, <1>16, <1>17
     DEF Next

LEMMA OneMore ==
  ASSUME NEW S, IsFiniteSet(S), NEW x
  PROVE  /\ IsFiniteSet(S \cup {x}) /\ Cardinality(S \cup {x}) \in Nat
         /\ Cardinality(S) \in Nat /\ Cardinality(S \cup {x}) <= Cardinality(S) + 1
<1>1. Cardinality(S) \in Nat
  BY FS_CardinalityType
<1>2. CASE x \in S
  <2>1. S \cup {x} = S
    BY <1>2
  <2>2. IsFiniteSet(S \cup {x}) /\ Cardinality(S \cup {x}) = Cardinality(S)
    BY <2>1, Zenon
  <2>3. QED BY <1>1, <2>2
<1>3. CASE x \notin S
  <2>1. IsFiniteSet(S \cup {x}) /\ Cardinality(S \cup {x}) = Cardinality(S) + 1
    BY <1>3, FS_AddElement
  <2>2. QED BY <1>1, <2>1
<1>4. QED BY <1>2, <1>3

(* One more candidate is answered for.                                      *)
LEMMA CountsOne ==
  ASSUME TypeOK, Counting, index <= Len(candidates), NextCandidate,
         \/ verified' = verified \cup {Current} /\ preliminary' = preliminary
         \/ verified' = verified /\ preliminary' = preliminary \cup {Current}
  PROVE  Counting'
<1>1. Cardinality(verified) \in Nat /\ Cardinality(preliminary) \in Nat
  BY FS_CardinalityType DEF Counting
<1>2. pc' = "verify" /\ index' = index + 1 /\ candidates' = candidates /\ index \in Nat \ {0}
  BY DEF NextCandidate, TypeOK
<1>3. IsFiniteSet(verified) /\ IsFiniteSet(preliminary)
  BY DEF Counting
<1> DEFINE answered == Cardinality(verified) + Cardinality(preliminary)
<1>4. /\ IsFiniteSet(verified') /\ IsFiniteSet(preliminary') /\ answered \in Nat /\ answered' \in Nat
      /\ answered' <= answered + 1
  <2>1. CASE verified' = verified \cup {Current} /\ preliminary' = preliminary
    <3>1. LET more == verified \cup {Current}
          IN  /\ IsFiniteSet(more) /\ Cardinality(more) \in Nat
              /\ Cardinality(more) <= Cardinality(verified) + 1
      BY <1>3, OneMore
    <3>2. IsFiniteSet(verified') /\ IsFiniteSet(preliminary') /\ Cardinality(verified') \in Nat
          /\ Cardinality(verified') <= Cardinality(verified) + 1 /\ Cardinality(preliminary') = Cardinality(preliminary)
      BY <1>3, <2>1, <3>1
    <3>3. QED BY <1>1, <3>2
  <2>2. CASE verified' = verified /\ preliminary' = preliminary \cup {Current}
    <3>1. LET more == preliminary \cup {Current}
          IN  /\ IsFiniteSet(more) /\ Cardinality(more) \in Nat
              /\ Cardinality(more) <= Cardinality(preliminary) + 1
      BY <1>3, OneMore
    <3>2. IsFiniteSet(preliminary') /\ IsFiniteSet(verified') /\ Cardinality(preliminary') \in Nat
          /\ Cardinality(preliminary') <= Cardinality(preliminary) + 1 /\ Cardinality(verified') = Cardinality(verified)
      BY <1>3, <2>2, <3>1
    <3>3. QED BY <1>1, <3>2
  <2>3. QED BY <2>1, <2>2
<1>5. answered <= index - 1
  BY DEF Counting
<1>6. ASSUME answered' = index' - 1
      PROVE  \A i \in 1..(index' - 1) : candidates'[i] \in verified' \cup preliminary'
  <2>1. answered = index - 1
    BY <1>2, <1>4, <1>5, <1>6
  <2>2. \A i \in 1..(index - 1) : candidates[i] \in verified \cup preliminary
    BY <2>1 DEF Counting
  <2>3. candidates[index] \in verified' \cup preliminary'
    BY DEF Current
  <2>4. verified \cup preliminary \subseteq verified' \cup preliminary'
    OBVIOUS
  <2> SUFFICES ASSUME NEW i \in 1..(index' - 1)
               PROVE  candidates[i] \in verified' \cup preliminary'
    BY <1>2
  <2>5. i \in 1..(index - 1) \/ i = index
    BY <1>2
  <2>6. QED BY <2>2, <2>3, <2>4, <2>5
<1>7. index' <= Len(candidates') + 1
  BY <1>2, SearchAssumption DEF TypeOK
<1>8. answered' <= index' - 1
  BY <1>2, <1>4, <1>5
<1>9. QED BY <1>2, <1>4, <1>6, <1>7, <1>8 DEF Counting

LEMMA CountingKept ==
  ASSUME TypeOK, TypeOK', Counting, [Next]_vars
  PROVE  Counting'
<1> USE DEF listed, loop, answer, history
<1>1. CASE Search \/ Continue
  <2>1. /\ pc' = "find" /\ candidates' = << >> /\ index' = 1
        /\ verified' = {} /\ preliminary' = {}
    BY <1>1 DEF Search, Continue, Begins
  <2>2. IsFiniteSet({}) /\ Cardinality({}) = 0
    BY FS_EmptySet
  <2>3. IsFiniteSet(verified') /\ IsFiniteSet(preliminary')
        /\ Cardinality(verified') + Cardinality(preliminary') = 0
    BY <2>1, <2>2
  <2>4. Len(candidates') = 0
    BY <2>1
  <2>5. QED BY <2>1, <2>3, <2>4 DEF Counting
<1>2. CASE TokenLost \/ (\E r \in Receipts : GetEvidence(r))
  BY <1>2 DEF TokenLost, GetEvidence, Counting
<1>3. ASSUME pc \in {"find", "list"}, UNCHANGED <<index, verified, preliminary>>
      PROVE  Counting'
  <2>1. index = 1 /\ verified = {} /\ preliminary = {} /\ Len(candidates') \in Nat
    <3>1. candidates' \in Seq(Receipts)
      BY DEF TypeOK
    <3>2. Len(candidates') \in Nat
      BY <3>1
    <3>3. QED BY <1>3, <3>2 DEF Counting
  <2>2. Cardinality({}) = 0 /\ IsFiniteSet({})
    BY FS_EmptySet
  <2>3. IsFiniteSet(verified') /\ IsFiniteSet(preliminary')
        /\ Cardinality(verified') + Cardinality(preliminary') = 0
    BY <1>3, <2>1, <2>2
  <2>4. QED BY <1>3, <2>1, <2>3 DEF Counting
<1>4. CASE DartAnswers \/ DartFallsBack \/ ListingOnly \/ ListPages
  BY <1>3, <1>4 DEF DartAnswers, DartFallsBack, ListingOnly, ListPages, Finds
<1>5. CASE KeyMissing \/ FindingTimesOut \/ CallFails
  BY <1>3, <1>5 DEF KeyMissing, FindingTimesOut, CallFails
<1>6. CASE LoopTimesOut \/ EnoughResults \/ LoopDone \/ FetchTimesOut \/ FetchRefused
  BY <1>6 DEF LoopTimesOut, EnoughResults, LoopDone, FetchTimesOut, FetchRefused, Stops, Counting
<1>7. CASE SkipProcessed
  <2>1. /\ pc' = "verify" /\ index' = index + 1 /\ index <= Len(candidates)
        /\ UNCHANGED <<candidates, verified, preliminary>>
    BY <1>7 DEF SkipProcessed, Working
  <2>2. Cardinality(verified) \in Nat /\ Cardinality(preliminary) \in Nat /\ index \in Nat \ {0}
        /\ Len(candidates) \in Nat
    BY FS_CardinalityType DEF Counting, TypeOK
  <2>3. Cardinality(verified) + Cardinality(preliminary) < index' - 1
    BY <2>1, <2>2 DEF Counting
  <2>4. index' <= Len(candidates') + 1
    BY <2>1, <2>2
  <2>5. QED BY <2>1, <2>2, <2>3, <2>4 DEF Counting
<1>8. CASE TakeRow \/ LeaveUnread \/ ReadText \/ OverBudget \/ FetchFails
  <2>1. NextCandidate
    BY <1>8 DEF TakeRow, LeaveUnread, ReadText, OverBudget, FetchFails
  <2>2. index <= Len(candidates)
    BY <1>8 DEF TakeRow, LeaveUnread, ReadText, OverBudget, FetchFails, Fetched, Reading, Turn,
                Working, TypeOK
  <2>3. \/ verified' = verified \cup {Current} /\ preliminary' = preliminary
        \/ verified' = verified /\ preliminary' = preliminary \cup {Current}
    BY <1>8 DEF TakeRow, LeaveUnread, ReadText, OverBudget, FetchFails
  <2>4. QED BY <2>1, <2>2, <2>3, CountsOne
<1>9. CASE Fetch
  BY <1>9 DEF Fetch, Counting
<1>10. CASE Answer
  BY <1>10 DEF Answer, Counting
<1>11. CASE UNCHANGED vars
  BY <1>11 DEF vars, Counting
<1>12. QED
  BY <1>1, <1>2, <1>4, <1>5, <1>6, <1>7, <1>8, <1>9, <1>10, <1>11 DEF Next

LEMMA JudgingKept ==
  ASSUME TypeOK, Judging, [Next]_vars
  PROVE  Judging'
<1> USE DEF listed, loop, answer, history
<1>1. CASE Search \/ Continue
  BY <1>1 DEF Search, Continue, Begins, Judging
<1>2. CASE TokenLost \/ (\E r \in Receipts : GetEvidence(r))
  BY <1>2 DEF TokenLost, GetEvidence, Judging
<1>3. CASE DartAnswers \/ DartFallsBack \/ ListingOnly \/ ListPages
  BY <1>3 DEF DartAnswers, DartFallsBack, ListingOnly, ListPages, Finds, Judging
<1>4. CASE KeyMissing \/ FindingTimesOut \/ CallFails
  BY <1>4 DEF KeyMissing, FindingTimesOut, CallFails, Judging
<1>5. CASE LoopTimesOut \/ EnoughResults \/ LoopDone \/ FetchTimesOut \/ FetchRefused
  BY <1>5 DEF LoopTimesOut, EnoughResults, LoopDone, FetchTimesOut, FetchRefused, Stops, Fetched,
              Reading, Turn, Working, Judging
<1>6. CASE SkipProcessed
  BY <1>6 DEF SkipProcessed, Working, Judging
<1>7. CASE TakeRow \/ ReadText \/ FetchFails
  BY <1>7 DEF TakeRow, ReadText, FetchFails, Fetched, Reading, Turn, Working, NextCandidate, Judging
<1>8. CASE LeaveUnread \/ OverBudget
  BY <1>8 DEF LeaveUnread, OverBudget, Reading, Turn, Working, NextCandidate, Judging
<1>9. CASE Fetch
  <2>1. requests < DocumentBudget /\ pc # "idle" /\ UNCHANGED <<plan, verified, preliminary, judged, gaveUp>>
    BY <1>9 DEF Fetch, Reading, Turn, Working
  <2>2. ~ (requests >= DocumentBudget)
    BY <2>1, BudgetAssumption DEF TypeOK
  <2>3. QED BY <2>1, <2>2 DEF Judging
<1>10. CASE Answer
  BY <1>10 DEF Answer, Judging
<1>11. CASE UNCHANGED vars
  BY <1>11 DEF vars, Judging
<1>12. QED
  BY <1>1, <1>2, <1>3, <1>4, <1>5, <1>6, <1>7, <1>8, <1>9, <1>10, <1>11 DEF Next

(* An answer without a token that is neither failed nor reduced is owed     *)
(* nothing any more.                                                        *)
LEMMA AnswerEnds ==
  ASSUME TypeOK, Owing, Surfacing, Counting, Judging, Answer
  PROVE  Ended'
<1> SUFFICES ASSUME status' = "completed"
             PROVE  /\ token' = NoToken
                    /\ grade' = "complete" => surfaced' \subseteq judged' \cup gaveUp' \cup behind'
  BY DEF Ended, Answer
<1>1. ~fatal /\ token' = NoToken
  BY DEF Answer, Statuses
<1>2. complete /\ ~Pending
  <2>1. Processed \subseteq Receipts
    BY DEF Processed, TypeOK, Continuations
  <2>2. \A page \in Nat \ {0} : [page |-> page, processed |-> Processed] \in Continuations
    BY <2>1 DEF Continuations
  <2>3. \A page \in Nat \ {0} : [page |-> page, processed |-> Processed] # NoToken
    BY <2>2, NoTokenAssumption
  <2>4. next \in Nat \ {0} /\ 1 \in Nat \ {0}
    BY DEF TypeOK
  <2>5. Issued(Processed) = NoToken
    BY <1>1 DEF Answer, Token
  <2>6. QED BY <2>3, <2>4, <2>5 DEF Issued
<1>3. ~hard /\ Len(candidates) <= Cardinality(verified) + Cardinality(preliminary)
      /\ (requests >= DocumentBudget => preliminary = {})
  <2>1. Len(candidates) \in Nat /\ Cardinality(verified) \in Nat /\ Cardinality(preliminary) \in Nat
    BY FS_CardinalityType DEF Counting, TypeOK
  <2>2. QED BY <1>2, <2>1 DEF Pending
<1>4. plan.key
  BY <1>1, <1>3 DEF Answer, Statuses, Surfacing, Looping
<1>5. RangeOf(candidates) \subseteq verified \cup preliminary
  <2>1. Len(candidates) \in Nat /\ Cardinality(verified) \in Nat /\ Cardinality(preliminary) \in Nat
        /\ index \in Nat
    BY FS_CardinalityType DEF Counting, TypeOK
  <2>2. /\ Cardinality(verified) + Cardinality(preliminary) = index - 1
        /\ index - 1 = Len(candidates)
    BY <1>3, <2>1 DEF Counting
  <2>3. \A i \in 1..Len(candidates) : candidates[i] \in verified \cup preliminary
    BY <2>2 DEF Counting
  <2>4. DOMAIN candidates = 1..Len(candidates)
    BY DEF TypeOK
  <2>5. QED BY <2>3, <2>4 DEF RangeOf
<1>6. verified \cup preliminary \subseteq judged \cup gaveUp
  BY <1>3, <1>4 DEF Answer, Judging
<1>7. ASSUME grade' = "complete" PROVE surfaced' \subseteq judged' \cup gaveUp' \cup behind'
  <2>1. ~fallback
    BY <1>7 DEF Answer, Grade
  <2>2. Planned(from.page) \subseteq RangeOf(candidates)
    BY <1>2, <1>3, <1>4, <2>1 DEF Answer, Surfacing, Looping
  <2>3. surfaced \subseteq judged \cup gaveUp \cup behind \cup Planned(from.page)
    BY DEF Answer, Owing, Owed
  <2>4. /\ surfaced' = surfaced \cup RangeOf(candidates) /\ judged' = judged /\ gaveUp' = gaveUp
        /\ behind \subseteq behind'
    BY DEF Answer
  <2>5. QED BY <1>5, <1>6, <2>2, <2>3, <2>4
<1>8. QED BY <1>1, <1>7

LEMMA EndedKept ==
  ASSUME TypeOK, Owing, Surfacing, Counting, Judging, Ended, [Next]_vars
  PROVE  Ended'
<1> USE DEF listed, loop, answer, history
<1>1. CASE Search
  BY <1>1 DEF Search, Ended
<1>2. CASE Continue
  BY <1>2 DEF Continue, Ended
<1>3. CASE TokenLost \/ (\E r \in Receipts : GetEvidence(r))
  BY <1>3 DEF TokenLost, GetEvidence, Ended
<1>4. CASE DartAnswers \/ DartFallsBack \/ ListingOnly \/ ListPages
  BY <1>4 DEF DartAnswers, DartFallsBack, ListingOnly, ListPages, Finds, Ended
<1>5. CASE KeyMissing \/ FindingTimesOut \/ CallFails
  BY <1>5 DEF KeyMissing, FindingTimesOut, CallFails, Ended
<1>6. CASE LoopTimesOut \/ EnoughResults \/ LoopDone \/ FetchTimesOut \/ FetchRefused
  BY <1>6 DEF LoopTimesOut, EnoughResults, LoopDone, FetchTimesOut, FetchRefused, Stops, Fetched,
              Reading, Turn, Working, Ended
<1>7. CASE SkipProcessed
  BY <1>7 DEF SkipProcessed, Working, Ended
<1>8. CASE TakeRow \/ LeaveUnread \/ ReadText \/ OverBudget \/ FetchFails
  BY <1>8 DEF TakeRow, LeaveUnread, ReadText, OverBudget, FetchFails, Fetched, Reading, Turn,
              Working, NextCandidate, Ended
<1>9. CASE Fetch
  BY <1>9 DEF Fetch, Reading, Turn, Working, Ended
<1>10. CASE Answer
  BY <1>10, AnswerEnds
<1>11. CASE UNCHANGED vars
  BY <1>11 DEF vars, Ended
<1>12. QED
  BY <1>1, <1>2, <1>3, <1>4, <1>5, <1>6, <1>7, <1>8, <1>9, <1>10, <1>11 DEF Next

LEMMA ThoroughInit == Init => Thorough
<1> SUFFICES ASSUME Init PROVE Thorough
  OBVIOUS
<1>1. Owing
  BY DEF Init, Owing, Owed
<1>2. Surfacing
  BY DEF Init, Surfacing, Looping
<1>3. Counting
  <2>1. candidates = << >> /\ verified = {} /\ preliminary = {} /\ index = 1 /\ pc = "idle"
    BY DEF Init
  <2>2. IsFiniteSet({}) /\ Cardinality({}) = 0
    BY FS_EmptySet
  <2>3. IsFiniteSet(verified) /\ IsFiniteSet(preliminary)
        /\ Cardinality(verified) + Cardinality(preliminary) = 0 /\ Len(candidates) = 0
    BY <2>1, <2>2
  <2>4. QED BY <2>1, <2>3 DEF Counting
<1>4. Judging /\ Ended
  BY DEF Init, Judging, Ended
<1>5. QED BY <1>1, <1>2, <1>3, <1>4 DEF Thorough

(* When every call lists, an answer that is completed with the grade        *)
(* "complete" ends a chain in which every candidate of every call was read, *)
(* or could not be had, or was left behind by a token that went on to the   *)
(* next pages; deadlines, refusals, budgets, evicted texts and a call that  *)
(* fell back lose none (engine.py:346-485).  The two exceptions are the     *)
(* code's: engine.py:419-422 and 463-470.                                   *)
THEOREM CompletedIsThorough ==
  ASSUME Lists
  PROVE  Spec => []NoneForgotten
<1>1. Thorough => NoneForgotten
  BY DEF Thorough, Ended, NoneForgotten
<1>2. TypeOK /\ TypeOK' /\ Thorough /\ [Next]_vars => Thorough'
  BY OwingKept, SurfacingKept, CountingKept, JudgingKept, EndedKept DEF Thorough
<1>3. QED BY <1>1, <1>2, ThoroughInit, TypesKept, PTL DEF Spec

-----------------------------------------------------------------------------
(* The relation analysis of the strategies S6 and S7, which a search runs   *)
(* over the filings whose texts it has cached (_relation_analysis): the     *)
(* module Amendments.                                                       *)

(* Every filing corrects an earlier one or none.                            *)
Truths == {truth \in [1..Count -> 0..Count] : \A f \in 1..Count : truth[f] < f}

(* What the recursive function of Firsts is, for the filings up to n.       *)
Leading(truth, g, n) ==
  g = [f \in 1..n |-> IF truth[f] = 0 THEN f ELSE g[truth[f]]]

LEMMA LeadingExists ==
  ASSUME Count \in Nat, NEW truth \in Truths
  PROVE  \E g : Leading(truth, g, Count)
<1>0. \A f \in 1..Count : truth[f] \in Nat /\ truth[f] < f
  BY DEF Truths
<1> DEFINE T == {n \in 0..Count : ~ (\E g : Leading(truth, g, n))}
<1>1. ASSUME T # {} PROVE FALSE
  <2>1. T \in SUBSET Nat
    OBVIOUS
  <2> HIDE DEF T
  <2>2. PICK n \in T : \A y \in T : n <= y
    BY <1>1, <2>1, LeastNumber
  <2> USE DEF T
  <2>3. n \in 0..Count /\ ~ (\E g : Leading(truth, g, n))
    OBVIOUS
  <2>4. n # 0
    <3>1. ASSUME n = 0 PROVE FALSE
      <4> DEFINE g == [f \in 1..0 |-> f]
      <4>1. g = [f \in 1..0 |-> IF truth[f] = 0 THEN f ELSE g[truth[f]]]
        OBVIOUS
      <4>2. Leading(truth, g, n)
        BY <3>1, <4>1 DEF Leading
      <4>3. QED BY <2>3, <4>2
    <3>2. QED BY <3>1
  <2>5. n - 1 \in 0..Count /\ n - 1 \notin T
    BY <2>2, <2>3, <2>4
  <2>6. PICK g : Leading(truth, g, n - 1)
    BY <2>5
  <2> DEFINE last == IF truth[n] = 0 THEN n ELSE g[truth[n]]
             h == [f \in 1..n |-> IF f = n THEN last ELSE g[f]]
  <2>7. ASSUME NEW f \in 1..n
        PROVE  h[f] = IF truth[f] = 0 THEN f ELSE h[truth[f]]
    <3>1. truth[f] \in Nat /\ truth[f] < f
      BY <1>0, <2>3
    <3>2. truth[f] # 0 => truth[f] \in 1..n /\ truth[f] # n
      BY <2>3, <3>1
    <3>3. truth[f] # 0 => h[truth[f]] = g[truth[f]]
      BY <3>2
    <3>4. CASE f = n
      BY <3>3, <3>4
    <3>5. CASE f # n
      <4>1. f \in 1..(n - 1) /\ h[f] = g[f]
        BY <2>3, <3>5
      <4>2. g[f] = IF truth[f] = 0 THEN f ELSE g[truth[f]]
        BY <2>6, <4>1, Zenon DEF Leading
      <4>3. QED BY <3>3, <4>1, <4>2
    <3>6. QED BY <3>4, <3>5
  <2>8. h = [f \in 1..n |-> h[f]]
    OBVIOUS
  <2> HIDE DEF h
  <2>9. h = [f \in 1..n |-> IF truth[f] = 0 THEN f ELSE h[truth[f]]]
    BY <2>7, <2>8, Zenon
  <2>10. Leading(truth, h, n)
    BY <2>9, Zenon DEF Leading
  <2>11. QED BY <2>3, <2>10
<1>2. Count \notin T
  BY <1>1
<1>3. QED BY <1>2

LEMMA FirstsIs ==
  ASSUME Count \in Nat, NEW truth \in Truths, NEW f \in 1..Count
  PROVE  Firsts(truth)[f] = IF truth[f] = 0 THEN f ELSE Firsts(truth)[truth[f]]
<1> DEFINE All(g) == g = [n \in 1..Count |-> IF truth[n] = 0 THEN n ELSE g[truth[n]]]
           u == CHOOSE g : All(g)
<1>1. Firsts(truth) = u
  BY Zenon DEF Firsts, Filings, None
<1>2. \A g : Leading(truth, g, Count) <=> All(g)
  BY Zenon DEF Leading
<1>3. \E g : All(g)
  BY <1>2, LeadingExists
<1>4. All(u)
  BY <1>3, Zenon
<1> HIDE DEF u
<1>5. u[f] = IF truth[f] = 0 THEN f ELSE u[truth[f]]
  BY <1>4, Zenon
<1>6. QED BY <1>1, <1>5

(* The first filing of a case corrects none, and the filing that another    *)
(* one corrects belongs to the same case.                                   *)
LEMMA FirstIs ==
  ASSUME Count \in Nat, NEW truth \in Truths, NEW f \in 1..Count
  PROVE  LET first == Firsts(truth)
         IN  /\ first[f] \in 1..Count /\ truth[first[f]] = 0 /\ first[first[f]] = first[f]
             /\ truth[f] # 0 => truth[f] \in 1..Count /\ first[truth[f]] = first[f]
<1> DEFINE first == Firsts(truth)
           Good(g) == first[g] \in 1..Count /\ truth[first[g]] = 0
           T == {n \in 1..Count : ~ Good(n)}
<1>1. \A g \in 1..Count : first[g] = IF truth[g] = 0 THEN g ELSE first[truth[g]]
  BY FirstsIs
<1> HIDE DEF first
<1>2. \A g \in 1..Count : truth[g] # 0 => truth[g] \in 1..Count /\ truth[g] < g
  BY DEF Truths
<1>3. ASSUME T # {} PROVE FALSE
  <2>1. T \in SUBSET Nat
    OBVIOUS
  <2> HIDE DEF T, Good
  <2>2. PICK n \in T : \A y \in T : n <= y
    BY <1>3, <2>1, LeastNumber
  <2>3. n \in 1..Count /\ ~ Good(n)
    BY DEF T
  <2>4. truth[n] # 0 => truth[n] \notin T
    BY <1>2, <2>1, <2>2, <2>3
  <2>5. truth[n] # 0 => Good(truth[n])
    BY <1>2, <2>3, <2>4 DEF T
  <2>6. Good(n)
    BY <1>1, <2>3, <2>5 DEF Good
  <2>7. QED BY <2>3, <2>6
<1>4. Good(f)
  BY <1>3
<1>5. first[first[f]] = first[f]
  BY <1>1, <1>4
<1>6. QED BY <1>1, <1>2, <1>4, <1>5 DEF first

-----------------------------------------------------------------------------
(* The union of the code, one filing after the other: before and p are the  *)
(* roots before and after its link.                                         *)
Linked(some, link, n, p) ==
  IF n \notin some \/ link[n] = 0 THEN p
  ELSE [f \in some |-> IF p[f] \in {p[n], p[link[n]]} THEN Min({p[n], p[link[n]]}) ELSE p[f]]

Rooting(some, link, r, last) ==
  r = [n \in 0..last |-> IF n = 0 THEN [f \in some |-> f] ELSE Linked(some, link, n, r[n - 1])]

LEMMA RootingExists ==
  ASSUME Count \in Nat, NEW some, NEW link
  PROVE  \E r : Rooting(some, link, r, Count)
<1> DEFINE T == {n \in 0..Count : ~ (\E r : Rooting(some, link, r, n))}
<1>1. ASSUME T # {} PROVE FALSE
  <2>1. T \in SUBSET Nat
    OBVIOUS
  <2> HIDE DEF T
  <2>2. PICK n \in T : \A y \in T : n <= y
    BY <1>1, <2>1, LeastNumber
  <2> USE DEF T
  <2>3. n \in 0..Count /\ ~ (\E r : Rooting(some, link, r, n))
    OBVIOUS
  <2>4. n # 0
    <3>1. ASSUME n = 0 PROVE FALSE
      <4> DEFINE g == [i \in 0..0 |-> [f \in some |-> f]]
      <4>1. g = [i \in 0..0 |->
                   IF i = 0 THEN [f \in some |-> f] ELSE Linked(some, link, i, g[i - 1])]
        OBVIOUS
      <4>2. Rooting(some, link, g, n)
        BY <3>1, <4>1 DEF Rooting
      <4>3. QED BY <2>3, <4>2
    <3>2. QED BY <3>1
  <2>5. n - 1 \in 0..Count /\ n - 1 \notin T
    BY <2>2, <2>3, <2>4
  <2>6. PICK g : Rooting(some, link, g, n - 1)
    BY <2>5
  <2> DEFINE h == [i \in 0..n |-> IF i = n THEN Linked(some, link, n, g[n - 1]) ELSE g[i]]
  <2>7. ASSUME NEW i \in 0..n
        PROVE  h[i] = IF i = 0 THEN [f \in some |-> f] ELSE Linked(some, link, i, h[i - 1])
    <3>1. CASE i = n
      <4>1. h[i] = Linked(some, link, n, g[n - 1]) /\ h[i - 1] = g[n - 1]
        BY <2>3, <2>4, <3>1
      <4>2. QED BY <2>4, <3>1, <4>1
    <3>2. CASE i # n
      <4>1. i \in 0..(n - 1) /\ h[i] = g[i]
        BY <2>3, <3>2
      <4>2. g[i] = IF i = 0 THEN [f \in some |-> f] ELSE Linked(some, link, i, g[i - 1])
        BY <2>6, <4>1, Zenon DEF Rooting
      <4>3. i # 0 => h[i - 1] = g[i - 1]
        BY <2>3, <4>1
      <4>4. QED BY <4>1, <4>2, <4>3
    <3>3. QED BY <3>1, <3>2
  <2>8. h = [i \in 0..n |-> h[i]]
    OBVIOUS
  <2> HIDE DEF h
  <2>9. h = [i \in 0..n |->
               IF i = 0 THEN [f \in some |-> f] ELSE Linked(some, link, i, h[i - 1])]
    BY <2>7, <2>8, Zenon
  <2>10. Rooting(some, link, h, n)
    BY <2>9, Zenon DEF Rooting
  <2>11. QED BY <2>3, <2>10
<1>2. Count \notin T
  BY <1>1
<1>3. QED BY <1>2

(* The roots, link by link.                                                 *)
Rooted(some, link, r) ==
  r[0] = [f \in some |-> f] /\ \A n \in 1..Count : r[n] = Linked(some, link, n, r[n - 1])

LEMMA RootsIs ==
  ASSUME Count \in Nat, NEW some, NEW link
  PROVE  \E r : Rooted(some, link, r) /\ Roots(some, link) = r[Count]
<1> DEFINE All(r) ==
             r = [n \in 0..Count |->
                    IF n = 0 THEN [f \in some |-> f]
                    ELSE IF n \notin some \/ link[n] = 0 THEN r[n - 1]
                    ELSE [f \in some |-> IF r[n - 1][f] \in {r[n - 1][n], r[n - 1][link[n]]}
                                         THEN Min({r[n - 1][n], r[n - 1][link[n]]})
                                         ELSE r[n - 1][f]]]
           u == CHOOSE r : All(r)
<1>1. Roots(some, link) = u[Count]
  BY Zenon DEF Roots, None
<1>2. \A r : Rooting(some, link, r, Count) <=> All(r)
  BY Zenon DEF Rooting, Linked
<1>3. \E r : All(r)
  BY <1>2, RootingExists
<1>4. Rooting(some, link, u, Count)
  BY <1>2, <1>3, Zenon
<1> HIDE DEF u
<1>5. \A n \in 0..Count :
        u[n] = IF n = 0 THEN [f \in some |-> f] ELSE Linked(some, link, n, u[n - 1])
  BY <1>4, Zenon DEF Rooting
<1>6. 0 \in 0..Count /\ \A n \in 1..Count : n \in 0..Count /\ n # 0
  OBVIOUS
<1>7. u[0] = [f \in some |-> f]
  BY <1>5, <1>6, Zenon
<1>8. \A n \in 1..Count : u[n] = Linked(some, link, n, u[n - 1])
  BY <1>5, <1>6, Zenon
<1>9. QED BY <1>1, <1>7, <1>8, Zenon DEF Rooted

(* The least of two numbers, and the only filing of a set.                  *)
LEMMA MinOfTwo ==
  ASSUME NEW a \in Int, NEW b \in Int
  PROVE  Min({a, b}) \in {a, b}
<1>1. \E x \in {a, b} : \A y \in {a, b} : x <= y
  OBVIOUS
<1>2. QED BY <1>1 DEF Min

-----------------------------------------------------------------------------
(* One link: those of equal root keep equal roots, and the filing and what  *)
(* it links have one root.                                                  *)
LEMMA OneLink ==
  ASSUME NEW some \in SUBSET Nat, NEW link \in [some -> some \cup {0}], NEW n \in Nat,
         NEW p \in [some -> some]
  PROVE  /\ Linked(some, link, n, p) \in [some -> some]
         /\ \A f, g \in some :
              p[f] = p[g] => Linked(some, link, n, p)[f] = Linked(some, link, n, p)[g]
         /\ n \in some /\ link[n] # 0
              => Linked(some, link, n, p)[n] = Linked(some, link, n, p)[link[n]]
<1>1. CASE n \notin some \/ link[n] = 0
  BY <1>1 DEF Linked
<1>2. CASE n \in some /\ link[n] # 0
  <2> DEFINE a == p[n]
             b == p[link[n]]
             m == Min({a, b})
             q == Linked(some, link, n, p)
  <2>1. link[n] \in some /\ a \in some /\ b \in some
    BY <1>2
  <2>2. m \in {a, b}
    <3> HIDE DEF a, b
    <3>1. a \in Int /\ b \in Int
      BY <2>1
    <3>2. QED BY <3>1, MinOfTwo
  <2>3. q = [f \in some |-> IF p[f] \in {a, b} THEN m ELSE p[f]]
    BY <1>2 DEF Linked
  <2> HIDE DEF q, m
  <2>4. \A f \in some : q[f] = IF p[f] \in {a, b} THEN m ELSE p[f]
    BY <2>3
  <2>5. m \in some
    BY <2>1, <2>2
  <2>6. q \in [some -> some]
    BY <2>3, <2>5
  <2>7. q[n] = m /\ q[link[n]] = m
    BY <1>2, <2>1, <2>4
  <2>8. QED BY <2>4, <2>6, <2>7 DEF q
<1>3. QED BY <1>1, <1>2

(* The links made so far are kept: filings of one root have one in the end. *)
LEMMA RootsKept ==
  ASSUME Count \in Nat, NEW some \in SUBSET (1..Count), NEW link \in [some -> some \cup {0}],
         NEW r, Rooted(some, link, r)
  PROVE  \A n \in 0..Count :
           /\ r[n] \in [some -> some]
           /\ \A f, g \in some : r[n][f] = r[n][g] => r[Count][f] = r[Count][g]
<1>1. some \in SUBSET Nat
  OBVIOUS
<1>2. r[0] \in [some -> some]
  BY DEF Rooted
<1>3. \A n \in 1..Count : r[n] = Linked(some, link, n, r[n - 1])
  BY DEF Rooted
<1> DEFINE T == {n \in 0..Count : r[n] \notin [some -> some]}
<1>4. ASSUME T # {} PROVE FALSE
  <2>1. T \in SUBSET Nat
    OBVIOUS
  <2> HIDE DEF T
  <2>2. PICK n \in T : \A y \in T : n <= y
    BY <1>4, <2>1, LeastNumber
  <2>3. n \in 0..Count /\ r[n] \notin [some -> some] /\ n # 0
    BY <1>2 DEF T
  <2>4. n - 1 \in 0..Count /\ n - 1 \notin T /\ n \in 1..Count /\ n \in Nat
    BY <2>1, <2>2, <2>3
  <2>5. r[n - 1] \in [some -> some]
    BY <2>4 DEF T
  <2>6. Linked(some, link, n, r[n - 1]) \in [some -> some]
    BY <1>1, <2>4, <2>5, OneLink
  <2>7. QED BY <1>3, <2>3, <2>4, <2>6
<1>5. \A n \in 0..Count : r[n] \in [some -> some]
  BY <1>4
<1> DEFINE Kept(n) == \A f, g \in some : r[n][f] = r[n][g] => r[Count][f] = r[Count][g]
           L == {m \in 0..Count : ~ Kept(Count - m)}
<1>6. ASSUME L # {} PROVE FALSE
  <2>1. L \in SUBSET Nat
    OBVIOUS
  <2> HIDE DEF L, Kept
  <2>2. PICK m \in L : \A y \in L : m <= y
    BY <1>6, <2>1, LeastNumber
  <2>3. m \in 0..Count /\ ~ Kept(Count - m)
    BY DEF L
  <2>4. m # 0
    <3>1. Kept(Count)
      BY DEF Kept
    <3>2. QED BY <2>3, <3>1
  <2>5. m - 1 \in 0..Count /\ m - 1 \notin L
    BY <2>2, <2>3, <2>4
  <2> DEFINE n == Count - (m - 1)
  <2>6. n \in 1..Count /\ n \in Nat /\ n - 1 = Count - m /\ n - 1 \in 0..Count
    BY <2>3, <2>4
  <2>7. Kept(n)
    BY <2>5 DEF L
  <2> HIDE DEF n
  <2>8. \A f, g \in some : r[n - 1][f] = r[n - 1][g] => r[n][f] = r[n][g]
    <3>1. r[n - 1] \in [some -> some]
      BY <1>5, <2>6
    <3>2. \A f, g \in some :
            r[n - 1][f] = r[n - 1][g]
              => Linked(some, link, n, r[n - 1])[f] = Linked(some, link, n, r[n - 1])[g]
      BY <1>1, <2>6, <3>1, OneLink
    <3>3. QED BY <1>3, <2>6, <3>2
  <2>9. Kept(n - 1)
    BY <2>7, <2>8 DEF Kept
  <2>10. QED BY <2>3, <2>6, <2>9
<1>7. \A n \in 0..Count : Kept(n)
  <2> SUFFICES ASSUME NEW n \in 0..Count PROVE Kept(n)
    OBVIOUS
  <2>1. Count - n \in 0..Count /\ Count - (Count - n) = n
    OBVIOUS
  <2> HIDE DEF Kept
  <2>2. QED BY <1>6, <2>1
<1>8. QED BY <1>5, <1>7

(* What is linked ends in one group.                                        *)
LEMMA LinksKept ==
  ASSUME Count \in Nat, NEW some \in SUBSET (1..Count), NEW link \in [some -> some \cup {0}],
         NEW r, Rooted(some, link, r), NEW f \in some, link[f] # 0
  PROVE  r[Count][f] = r[Count][link[f]]
<1>1. some \in SUBSET Nat /\ f \in 1..Count /\ f \in Nat /\ f - 1 \in 0..Count /\ f \in 0..Count
  OBVIOUS
<1> DEFINE p == r[f - 1]
<1>2. r[f] = Linked(some, link, f, p) /\ p \in [some -> some]
  BY <1>1, RootsKept DEF Rooted
<1> HIDE DEF p
<1>3. r[f][f] = r[f][link[f]]
  BY <1>1, <1>2, OneLink
<1>4. link[f] \in some
  OBVIOUS
<1>5. \A g \in some : r[f][f] = r[f][g] => r[Count][f] = r[Count][g]
  BY <1>1, RootsKept
<1>6. QED BY <1>3, <1>4, <1>5

(* A group holds one case when its links do: joining is by links only.      *)
WithinCases(some, link, root, first, k) ==
  \A f \in some : root[f] = root[k] /\ link[f] # 0 => first[link[f]] = first[f]

LEMMA GroupsOneCase ==
  ASSUME Count \in Nat, NEW some \in SUBSET (1..Count), NEW link \in [some -> some \cup {0}],
         NEW r, Rooted(some, link, r), NEW first, NEW k \in some,
         WithinCases(some, link, r[Count], first, k)
  PROVE  \A f, g \in some :
           r[Count][f] = r[Count][k] /\ r[Count][g] = r[Count][k] => first[f] = first[g]
<1> DEFINE R == r[Count]
           In(f) == f \in some /\ R[f] = R[k]
           Same(n) == \A f, g \in some : In(f) /\ In(g) /\ r[n][f] = r[n][g] => first[f] = first[g]
           T == {n \in 0..Count : ~ Same(n)}
<1>0. \A n \in 0..Count :
        /\ r[n] \in [some -> some]
        /\ \A f, g \in some : r[n][f] = r[n][g] => r[Count][f] = r[Count][g]
  <2> SUFFICES ASSUME NEW n \in 0..Count
               PROVE  /\ r[n] \in [some -> some]
                      /\ \A f, g \in some : r[n][f] = r[n][g] => r[Count][f] = r[Count][g]
    OBVIOUS
  <2>1. r[n] \in [some -> some]
    BY RootsKept
  <2>2. \A f, g \in some : r[n][f] = r[n][g] => r[Count][f] = r[Count][g]
    BY RootsKept
  <2>3. QED BY <2>1, <2>2
<1>1. \A n \in 0..Count :
        /\ r[n] \in [some -> some]
        /\ \A f, g \in some : r[n][f] = r[n][g] => R[f] = R[g]
  BY <1>0, Zenon
<1>2. some \in SUBSET Nat /\ \A f \in some : f \in Int
  OBVIOUS
<1>3. Same(0)
  BY DEF Rooted
<1> HIDE DEF R
<1>4. ASSUME T # {} PROVE FALSE
  <2>1. T \in SUBSET Nat
    OBVIOUS
  <2> HIDE DEF T, Same
  <2>2. PICK n \in T : \A y \in T : n <= y
    BY <1>4, <2>1, LeastNumber
  <2>3. n \in 0..Count /\ ~ Same(n) /\ n # 0
    BY <1>3 DEF T
  <2>4. n - 1 \in 0..Count /\ n - 1 \notin T /\ n \in 1..Count
    BY <2>2, <2>3
  <2>5. Same(n - 1)
    BY <2>4 DEF T
  <2> DEFINE p == r[n - 1]
             q == r[n]
             l == link[n]
             m == Min({p[n], p[l]})
  <2>6. p \in [some -> some] /\ q \in [some -> some]
    BY <1>1, <2>3, <2>4
  <2>7. q = Linked(some, link, n, p)
    BY <2>4 DEF Rooted
  <2>8. ASSUME NEW f \in some, NEW g \in some, In(f), In(g), q[f] = q[g] PROVE first[f] = first[g]
    <3>1. CASE p[f] = p[g]
      BY <2>5, <2>8, <3>1 DEF Same
    <3>2. CASE p[f] # p[g]
      <4>1. n \in some /\ l # 0
        BY <2>7, <2>8, <3>2 DEF Linked
      <4>2. l \in some
        BY <4>1
      <4>3. m \in {p[n], p[l]}
        <5>1. p[n] \in some /\ p[l] \in some
          BY <2>6, <4>1, <4>2
        <5> HIDE DEF p, l
        <5>2. p[n] \in Int /\ p[l] \in Int
          BY <1>2, <5>1
        <5>3. QED BY <5>2, MinOfTwo
      <4>4. q = [h \in some |-> IF p[h] \in {p[n], p[l]} THEN m ELSE p[h]]
        BY <2>7, <4>1 DEF Linked
      <4> HIDE DEF p, q, l, m
      <4>5. \A h \in some : q[h] = IF p[h] \in {p[n], p[l]} THEN m ELSE p[h]
        BY <4>4
      <4>6. p[f] \in {p[n], p[l]} /\ p[g] \in {p[n], p[l]}
        BY <2>8, <3>2, <4>3, <4>5
      <4>7. q[n] = m /\ q[l] = m /\ q[f] = m
        BY <4>1, <4>2, <4>5, <4>6
      <4>8. R[n] = R[f] /\ R[l] = R[f]
        BY <1>1, <2>3, <4>1, <4>2, <4>7 DEF q
      <4>9. In(n) /\ In(l)
        BY <2>8, <4>1, <4>2, <4>8
      <4>10. first[l] = first[n]
        BY <4>1, <4>9 DEF l, R, WithinCases
      <4>11. \A h \in some : In(h) /\ p[h] \in {p[n], p[l]} => first[h] = first[n]
        BY <2>5, <4>1, <4>2, <4>9, <4>10 DEF Same, p
      <4>12. QED BY <2>8, <4>6, <4>11
    <3>3. QED BY <3>1, <3>2
  <2>9. Same(n)
    BY <2>8 DEF Same
  <2>10. QED BY <2>3, <2>9
<1>5. Same(Count)
  BY <1>4
<1>6. QED BY <1>5 DEF R

-----------------------------------------------------------------------------
(* What the texts of the cache tell.                                        *)
LEMMA SmallestIs ==
  ASSUME NEW S \in SUBSET Nat, S # {}
  PROVE  Min(S) \in S
<1>1. PICK m \in S : \A y \in S : m <= y
  BY LeastNumber
<1>2. QED BY <1>1 DEF Min

(* The last of a set of filings; Count - f counts them from the other end.  *)
LEMMA LargestIs ==
  ASSUME Count \in Nat, NEW S \in SUBSET (1..Count), S # {}
  PROVE  Max(S) \in S /\ \A g \in S : Max(S) >= g
<1> DEFINE D == {Count - f : f \in S}
<1>1. D \in SUBSET Nat /\ D # {}
  <2>1. \A f \in S : f \in 1..Count /\ Count - f \in Nat
    OBVIOUS
  <2>2. PICK f \in S : TRUE
    OBVIOUS
  <2>3. Count - f \in D
    BY <2>2
  <2>4. QED BY <2>1, <2>3
<1> HIDE DEF D
<1>2. PICK d \in D : \A y \in D : d <= y
  BY <1>1, LeastNumber
<1>3. PICK f \in S : d = Count - f
  BY DEF D
<1>4. \A g \in S : f >= g
  <2> SUFFICES ASSUME NEW g \in S PROVE f >= g
    OBVIOUS
  <2>1. Count - g \in D
    BY DEF D
  <2>2. Count - f <= Count - g
    BY <1>2, <1>3, <2>1
  <2>3. f \in Nat /\ g \in Nat
    OBVIOUS
  <2>4. QED BY <2>2, <2>3
<1>5. QED BY <1>3, <1>4 DEF Max

(* What the analysis is given: the truth, of which it sees only the texts,  *)
(* the cached filings and those of them with a verified case.               *)
Given ==
  /\ corrects \in Truths /\ cached \in SUBSET (1..Count) /\ confirmed \in SUBSET cached
  /\ \A f \in 1..Count : related[f] \in 0..Count /\ related[f] # f

(* A text links its filing to another of the cache, and to one of its own   *)
(* case when the whole case is there and the related-filing field does not  *)
(* lead out of it: the only filing of a day is then the first one.          *)
LEMMA LinkIs ==
  ASSUME Count \in Nat, Given, NEW f \in cached
  PROVE  /\ LinkTo(f) \in cached \cup {0}
         /\ LinkTo(f) # f
         /\ LinkTo(f) # 0 /\ CaseOf(f) \subseteq cached /\ Sincere(f)
              => FirstOf(LinkTo(f)) = FirstOf(f)
<1> DEFINE first == Firsts(corrects)
           receipt == Stated(f).receipt
           day == Stated(f).date
           same == OfDay(f)
<1>1. f \in 1..Count /\ 0 \notin cached /\ corrects \in Truths
  BY DEF Given
<1>2. /\ first[f] \in 1..Count /\ corrects[first[f]] = 0 /\ first[first[f]] = first[f]
      /\ corrects[f] # 0 => corrects[f] \in 1..Count /\ first[corrects[f]] = first[f]
  BY <1>1, FirstIs
<1>3. \A g : FirstOf(g) = first[g]
  BY DEF FirstOf
<1> HIDE DEF first
<1>4. \/ receipt = 0
      \/ related[f] # 0 /\ receipt = related[f]
      \/ corrects[f] # 0 /\ receipt \in {corrects[f], first[f]}
  BY <1>3, Zenon DEF Stated, Correction, None
<1>11. related[f] # f /\ (corrects[f] # 0 => corrects[f] # f /\ first[f] # f)
  <2>1. corrects[f] < f /\ corrects[f] \in Nat
    BY <1>1 DEF Truths
  <2>2. QED BY <1>1, <1>2, <2>1 DEF Given
<1>12. Sincere(f) /\ related[f] # 0 => first[related[f]] = first[f]
  BY <1>3 DEF Sincere, CaseOf, None
<1>5. day = 0 \/ (corrects[f] # 0 /\ day = date[first[f]])
  BY <1>3 DEF Stated, Correction, None
<1>6. same = {g \in cached \ {f} : date[g] = day}
  BY DEF OfDay
<1>0. LinkTo(f) = IF receipt \in cached THEN receipt
                         ELSE IF day # 0 /\ Cardinality(same) = 1 THEN Min(same) ELSE 0
  BY Zenon DEF LinkTo, None
<1> HIDE DEF receipt, day, same
<1>7. CASE receipt \in cached
  <2>1. LinkTo(f) = receipt
    BY <1>0, <1>7
  <2>2. QED BY <1>1, <1>2, <1>3, <1>4, <1>7, <1>11, <1>12, <2>1
<1>8. CASE receipt \notin cached /\ day # 0 /\ Cardinality(same) = 1
  <2>1. LinkTo(f) = Min(same)
    BY <1>0, <1>8
  <2>2. same \in SUBSET (1..Count) /\ IsFiniteSet(same)
    <3>1. same \in SUBSET (1..Count)
      BY <1>6 DEF Given
    <3>2. IsFiniteSet(1..Count)
      BY FS_Interval
    <3>3. QED BY <3>1, <3>2, FS_Subset
  <2>3. PICK g : same = {g}
    BY <1>8, <2>2, FS_Singleton
  <2>4. Min(same) = g /\ g \in cached /\ g # f
    <3>1. same \in SUBSET Nat /\ same # {}
      BY <2>2, <2>3
    <3>2. QED BY <1>6, <2>3, <3>1, SmallestIs
  <2>5. CaseOf(f) \subseteq cached => g = first[f]
    <3>1. first[f] \in CaseOf(f)
      BY <1>2, <1>3 DEF CaseOf, Filings
    <3>2. first[f] # f
      BY <1>2, <1>5, <1>8
    <3>3. first[f] \in cached => first[f] \in same
      BY <1>5, <1>6, <1>8, <3>2
    <3>4. QED BY <2>3, <3>1, <3>3
  <2>6. corrects[f] # 0
    BY <1>5, <1>8
  <2>7. QED BY <1>2, <1>3, <2>1, <2>4, <2>5, <2>6
<1>9. CASE receipt \notin cached /\ ~ (day # 0 /\ Cardinality(same) = 1)
  <2>1. LinkTo(f) = 0
    BY <1>0, <1>9
  <2>2. QED BY <1>1, <2>1
<1>10. QED BY <1>7, <1>8, <1>9

-----------------------------------------------------------------------------
(* The groups are a partition of the cached filings, in which no link is    *)
(* lost and which joins nothing that is known to be of different cases.     *)
Partition(groups) ==
  /\ \A S \in groups : S \in SUBSET cached /\ S # {}
  /\ \A f \in cached : \E S \in groups : f \in S
  /\ \A S, T \in groups : S # T => S \cap T = {}

LEMMA GroupsAre ==
  ASSUME Count \in Nat, Given
  PROVE  /\ Partition(Groups)
         /\ \A f \in cached :
              LinkTo(f) # 0 => \E S \in Groups : {f, LinkTo(f)} \subseteq S
         /\ \A S \in Groups :
              (\A f \in S : CaseOf(f) \subseteq cached /\ Sincere(f))
                => \A f \in S : S \subseteq CaseOf(f)
<1> DEFINE link == [f \in cached |-> LinkTo(f)]
           R == Roots(cached, link)
           Group(f) == {g \in cached : R[g] = R[f]}
<1>1. link \in [cached -> cached \cup {0}] /\ cached \in SUBSET (1..Count)
  BY LinkIs DEF Given
<1>2. Groups = {Group(f) : f \in cached}
  BY DEF Groups
<1>3. \A f \in cached : link[f] = LinkTo(f)
  OBVIOUS
<1> HIDE DEF link
<1>4. PICK r : Rooted(cached, link, r) /\ R = r[Count]
  BY RootsIs
<1> HIDE DEF R
<1>5. Partition(Groups)
  <2>1. \A f \in cached : Group(f) \in SUBSET cached /\ f \in Group(f)
    OBVIOUS
  <2>2. \A f, g \in cached : Group(f) # Group(g) => Group(f) \cap Group(g) = {}
    OBVIOUS
  <2> HIDE DEF Group
  <2>3. QED BY <1>2, <2>1, <2>2 DEF Partition
<1>6. ASSUME NEW f \in cached, LinkTo(f) # 0
      PROVE  \E S \in Groups : {f, LinkTo(f)} \subseteq S
  <2>1. link[f] \in cached /\ R[f] = R[link[f]]
    BY <1>1, <1>3, <1>4, <1>6, LinksKept
  <2>2. {f, LinkTo(f)} \subseteq Group(f)
    BY <1>3, <2>1
  <2>3. QED BY <1>2, <2>2
<1>7. ASSUME NEW k \in cached, \A f \in Group(k) : CaseOf(f) \subseteq cached /\ Sincere(f)
      PROVE  \A f \in Group(k) : Group(k) \subseteq CaseOf(f)
  <2> DEFINE first == Firsts(corrects)
  <2>1. \A g : FirstOf(g) = first[g]
    BY DEF FirstOf
  <2> HIDE DEF first
  <2>2. WithinCases(cached, link, r[Count], first, k)
    <3> SUFFICES ASSUME NEW f \in cached, R[f] = R[k], link[f] # 0 PROVE first[link[f]] = first[f]
      BY <1>4 DEF WithinCases
    <3>1. CaseOf(f) \subseteq cached /\ Sincere(f)
      BY <1>7
    <3>2. QED BY <1>3, <2>1, <3>1, LinkIs
  <2>3. \A f, g \in cached :
          r[Count][f] = r[Count][k] /\ r[Count][g] = r[Count][k] => first[f] = first[g]
    <3>1. Rooted(cached, link, r) /\ k \in cached
      BY <1>4
    <3>2. QED BY <1>1, <2>2, <3>1, GroupsOneCase
  <2>4. QED BY <1>1, <1>4, <2>1, <2>3 DEF CaseOf, Filings
<1>8. QED BY <1>2, <1>5, <1>6, <1>7

-----------------------------------------------------------------------------
(* What the analysis makes of its groups is sound.                          *)
LEMMA ChainIs ==
  ASSUME Count \in Nat, Given, NEW S \in Groups
  PROVE  /\ Chain(S).members = S /\ Chain(S).complete = Complete(S)
         /\ Chain(S).effective = Effective(S)
         /\ Chain(S).compared \subseteq S
         /\ Effective(S) # 0 =>
              /\ Effective(S) \in S /\ Effective(S) \in Nat /\ \A g \in S : g <= Effective(S)
              /\ ~ FlagCorrected(Effective(S)) /\ ~ FlagWithdrawn(Effective(S))
<1>1. S \in SUBSET (1..Count) /\ S \in SUBSET Nat /\ S # {}
  <2>1. S \in SUBSET cached /\ S # {}
    BY GroupsAre DEF Partition
  <2>2. S \in SUBSET (1..Count)
    BY <2>1 DEF Given
  <2>3. QED BY <2>1, <2>2
<1>2. Min(S) \in S /\ Max(S) \in S /\ \A g \in S : Max(S) >= g
  BY <1>1, SmallestIs, LargestIs
<1>3. Chain(S).compared \subseteq S
  BY <1>2 DEF Chain
<1>4. Effective(S) # 0 =>
        /\ Effective(S) = Max(S)
        /\ ~ FlagCorrected(Effective(S)) /\ ~ FlagWithdrawn(Effective(S))
  BY DEF Effective, None
<1>5. Effective(S) # 0 =>
        Effective(S) \in S /\ Effective(S) \in Nat /\ \A g \in S : g <= Effective(S)
  BY <1>1, <1>2, <1>4
<1>6. QED BY <1>3, <1>4, <1>5 DEF Chain

(* A group that holds a filing and what it links is a chain.                *)
LEMMA TwoAre ==
  ASSUME Count \in Nat, Given, NEW S \in Groups, NEW f \in S, NEW g \in S, f # g
  PROVE  Cardinality(S) > 1
<1>1. IsFiniteSet(S)
  <2>1. S \in SUBSET (1..Count)
    BY GroupsAre DEF Partition, Given
  <2>2. IsFiniteSet(1..Count)
    BY FS_Interval
  <2>3. QED BY <2>1, <2>2, FS_Subset
<1>2. {f, g} \subseteq S /\ Cardinality({f, g}) = 2
  <2>1. Cardinality({f}) = 1 /\ IsFiniteSet({f})
    BY FS_Singleton
  <2>2. Cardinality({f} \cup {g}) = 2
    <3>1. g \notin {f}
      OBVIOUS
    <3>2. Cardinality({f} \cup {g}) = Cardinality({f}) + 1
      BY <2>1, <3>1, FS_AddElement
    <3>3. QED BY <2>1, <3>2
  <2>3. {f, g} = {f} \cup {g}
    OBVIOUS
  <2>4. QED BY <2>2, <2>3
<1>3. Cardinality({f, g}) <= Cardinality(S) /\ Cardinality(S) \in Nat
  BY <1>1, <1>2, FS_Subset, FS_CardinalityType
<1>4. QED BY <1>2, <1>3

LEMMA ChainsSound ==
  ASSUME Count \in Nat, Given, chains = ChainsOf(Groups)
  PROVE  /\ \A chain \in chains :
              /\ chain.complete /\ (\A f \in chain.members : CaseOf(f) \subseteq cached /\ Sincere(f))
                   => \A f \in chain.members :
                        chain.members \cup chain.compared \subseteq CaseOf(f)
              /\ chain.effective # 0 =>
                   /\ chain.effective \in flagged =>
                        ~ Corrected(chain.effective) /\ ~ Withdrawn(chain.effective)
                   /\ \A g \in cached : LinkTo(g) = chain.effective => g < chain.effective
         /\ \A f \in cached : LinkTo(f) # 0 =>
              \E chain \in chains : {f, LinkTo(f)} \subseteq chain.members
<1>1. chains = {Chain(S) : S \in {T \in Groups :
                  Cardinality(T) > 1 \/ \E f \in T : Signals(f)}}
  BY DEF ChainsOf
<1>2. ASSUME NEW chain \in chains
      PROVE  /\ chain.complete /\ (\A f \in chain.members : CaseOf(f) \subseteq cached /\ Sincere(f))
                  => \A f \in chain.members :
                       chain.members \cup chain.compared \subseteq CaseOf(f)
             /\ chain.effective # 0 =>
                  /\ chain.effective \in flagged =>
                       ~ Corrected(chain.effective) /\ ~ Withdrawn(chain.effective)
                  /\ \A g \in cached : LinkTo(g) = chain.effective => g < chain.effective
  <2>1. PICK S \in Groups : chain = Chain(S)
    BY <1>1
  <2> DEFINE e == chain.effective
  <2>2. /\ chain.members = S /\ chain.compared \subseteq S /\ e = Effective(S)
        /\ e # 0 => /\ e \in S /\ e \in Nat /\ \A g \in S : g <= e
                    /\ ~ FlagCorrected(e) /\ ~ FlagWithdrawn(e)
    BY <2>1, ChainIs
  <2>3. (\A f \in S : CaseOf(f) \subseteq cached /\ Sincere(f))
          => \A f \in S : S \subseteq CaseOf(f)
    BY GroupsAre
  <2>4. e # 0 /\ e \in flagged => ~ Corrected(e) /\ ~ Withdrawn(e)
    BY <2>2 DEF FlagCorrected, FlagWithdrawn
  <2> HIDE DEF e
  <2>5. ASSUME e # 0, NEW g \in cached, LinkTo(g) = e PROVE g < e
    <3>1. PICK T \in Groups : {g, LinkTo(g)} \subseteq T
      BY <2>5, GroupsAre
    <3>2. g \in S
      <4>1. e \in S /\ e \in T /\ g \in T
        BY <2>2, <2>5, <3>1
      <4>2. S = T
        BY <4>1, GroupsAre DEF Partition
      <4>3. QED BY <4>1, <4>2
    <3>3. g # e
      BY <2>5, LinkIs
    <3>4. g <= e /\ g \in Nat /\ e \in Nat
      BY <2>2, <2>5, <3>2 DEF Given
    <3>5. QED BY <3>3, <3>4
  <2>6. QED BY <2>2, <2>3, <2>4, <2>5 DEF e
<1>3. ASSUME NEW f \in cached, LinkTo(f) # 0
      PROVE  \E chain \in chains : {f, LinkTo(f)} \subseteq chain.members
  <2>1. PICK S \in Groups : {f, LinkTo(f)} \subseteq S
    BY <1>3, GroupsAre
  <2>2. Cardinality(S) > 1
    BY <2>1, LinkIs, TwoAre
  <2>3. Chain(S) \in chains
    BY <1>1, <2>2
  <2>4. Chain(S).members = S
    BY ChainIs
  <2>5. QED BY <2>1, <2>3, <2>4
<1>4. QED BY <1>2, <1>3

(* The cases of a set of chains of disjoint filings share no verified one.  *)
LEMMA CasesSound ==
  ASSUME Count \in Nat, Given, chains = ChainsOf(Groups),
         results = CasesOf(chains)
  PROVE  /\ confirmed \subseteq UNION results
         /\ \A A \in results : A \cap confirmed # {} /\ \A B \in results : A # B => A \cap B = {}
<1> DEFINE G == Grouped(chains)
<1>1. G \subseteq Groups /\ \A S \in G : S \cap confirmed # {}
  <2>1. ASSUME NEW S \in G PROVE S \in Groups
    <3>1. PICK chain \in chains : S = chain.members
      BY DEF Grouped
    <3>2. PICK T \in Groups : chain = Chain(T)
      BY DEF ChainsOf
    <3>3. chain.members = T
      BY <3>2, ChainIs
    <3>4. QED BY <3>1, <3>3
  <2>2. QED BY <2>1 DEF Grouped
<1>2. results = G \cup {{f} : f \in confirmed \ UNION G}
  BY DEF CasesOf
<1> HIDE DEF G
<1>3. \A S, T \in G : S # T => S \cap T = {}
  BY <1>1, GroupsAre DEF Partition
<1>4. \A f \in confirmed : f \in UNION results
  <2> SUFFICES ASSUME NEW f \in confirmed PROVE f \in UNION results
    OBVIOUS
  <2>1. CASE f \in UNION G
    BY <1>2, <2>1
  <2>2. CASE f \notin UNION G
    <3>1. {f} \in results
      BY <1>2, <2>2
    <3>2. QED BY <3>1
  <2>3. QED BY <2>1, <2>2
<1>5. ASSUME NEW A \in results PROVE A \in G \/ \E f \in confirmed \ UNION G : A = {f}
  BY <1>2
<1>6. ASSUME NEW A \in results PROVE A \cap confirmed # {}
  BY <1>1, <1>5
<1>7. ASSUME NEW A \in results, NEW B \in results, A # B PROVE A \cap B = {}
  <2>1. CASE A \in G /\ B \in G
    BY <1>3, <1>7, <2>1
  <2>2. CASE A \in G /\ \E f \in confirmed \ UNION G : B = {f}
    BY <2>2
  <2>3. CASE (\E f \in confirmed \ UNION G : A = {f}) /\ B \in G
    BY <2>3
  <2>4. CASE (\E f \in confirmed \ UNION G : A = {f}) /\ (\E f \in confirmed \ UNION G : B = {f})
    BY <1>7, <2>4
  <2>5. QED BY <1>5, <2>1, <2>2, <2>3, <2>4
<1>8. QED BY <1>4, <1>6, <1>7

-----------------------------------------------------------------------------
(* The inductive invariant: nothing is told before the analysis, and what   *)
(* is told after it is what it makes of the listing, which it leaves alone. *)
Told ==
  \/ chains = {} /\ results = {}
  \/ /\ cached # {}
     /\ chains = ChainsOf(Groups)
     /\ results = CasesOf(chains)

LEMMA SameListing ==
  ASSUME UNCHANGED listing
  PROVE  /\ Groups' = Groups
         /\ \A groups : ChainsOf(groups)' = ChainsOf(groups)
         /\ \A found : CasesOf(found)' = CasesOf(found)
<1>1. /\ corrects' = corrects /\ date' = date /\ states' = states /\ withdrawn' = withdrawn
      /\ related' = related /\ flagged' = flagged
      /\ cached' = cached /\ confirmed' = confirmed
  BY DEF listing
<1>2. \A f : FirstOf(f)' = FirstOf(f)
  BY <1>1 DEF FirstOf
<1>3. \A f : Correction(f)' <=> Correction(f)
  BY <1>1 DEF Correction
<1>4. \A f : Stated(f)' = Stated(f)
  BY <1>1, <1>2, <1>3 DEF Stated
<1>5. \A f : OfDay(f)' = OfDay(f)
  BY <1>1, <1>4 DEF OfDay
<1>6. \A f : LinkTo(f)' = LinkTo(f)
  BY <1>1, <1>4, <1>5 DEF LinkTo
<1>7. Groups' = Groups
  <2>1. [f \in cached |-> LinkTo(f)]' = [f \in cached |-> LinkTo(f)]
    BY <1>1, <1>6
  <2>2. Roots(cached, [f \in cached |-> LinkTo(f)])'
          = Roots(cached, [f \in cached |-> LinkTo(f)])
    BY <1>1, <2>1
  <2>3. QED BY <1>1, <2>2 DEF Groups
<1>8. \A f : /\ FlagCorrected(f)' <=> FlagCorrected(f)
             /\ FlagWithdrawn(f)' <=> FlagWithdrawn(f)
  BY <1>1 DEF FlagCorrected, FlagWithdrawn, Corrected, Withdrawn
<1>9. \A f : Signals(f)' <=> Signals(f)
  BY <1>3, <1>8 DEF Signals
<1>10. \A S : Complete(S)' = Complete(S)
  BY <1>6 DEF Complete
<1>11. \A S : Effective(S)' = Effective(S)
  BY <1>8, <1>10 DEF Effective
<1>12. \A S : Chain(S)' = Chain(S)
  BY <1>10, <1>11 DEF Chain
<1>13. \A groups : ChainsOf(groups)' = ChainsOf(groups)
  BY <1>9, <1>12 DEF ChainsOf
<1>14. \A found : CasesOf(found)' = CasesOf(found)
  <2>1. \A found : Grouped(found)' = Grouped(found)
    BY <1>1 DEF Grouped
  <2>2. QED BY <1>1, <2>1 DEF CasesOf
<1>15. QED BY <1>7, <1>13, <1>14

LEMMA GivenKept == Count \in Nat /\ Given /\ [ChainsNext]_chainsVars => Given'
<1> SUFFICES ASSUME Count \in Nat, Given, [ChainsNext]_chainsVars PROVE Given'
  OBVIOUS
<1>1. CASE Observe
  <2>1. corrects' \in Truths
    BY <1>1 DEF Observe, Filings, Truths
  <2>2. cached' \in SUBSET (1..Count) /\ cached' # {}
    BY <1>1 DEF Observe, Filings
  <2>3. Max(cached') \in cached'
    BY <2>2, LargestIs
  <2>4. confirmed' \in {cached', {Max(cached')}}
    BY <1>1 DEF Observe
  <2>5. confirmed' \in SUBSET cached'
    BY <2>3, <2>4
  <2>6. \A f \in 1..Count : related'[f] \in 0..Count /\ related'[f] # f
    <3>1. PICK f, g \in 1..Count : related' = [h \in 1..Count |-> IF h = f /\ f # g THEN g ELSE 0]
      BY <1>1 DEF Observe, Filings, None
    <3>2. QED BY <3>1
  <2>7. QED BY <2>1, <2>2, <2>5, <2>6 DEF Given
<1>2. CASE Relate \/ UNCHANGED chainsVars
  BY <1>2 DEF Relate, chainsVars, listing, Given
<1>3. QED BY <1>1, <1>2 DEF ChainsNext

LEMMA ToldKept == Told /\ [ChainsNext]_chainsVars => Told'
<1> SUFFICES ASSUME Told, [ChainsNext]_chainsVars PROVE Told'
  OBVIOUS
<1>1. CASE Observe
  BY <1>1 DEF Observe, Told
<1>2. CASE Relate
  <2>1. /\ cached' # {} /\ UNCHANGED listing
        /\ chains' = ChainsOf(Groups) /\ results' = CasesOf(chains')
    BY <1>2 DEF Relate, listing
  <2>2. QED BY <2>1, SameListing DEF Told
<1>3. CASE UNCHANGED chainsVars
  <2>1. UNCHANGED listing /\ chains' = chains /\ results' = results /\ cached' = cached
    BY <1>3 DEF chainsVars, listing
  <2>2. QED BY <2>1, SameListing DEF Told
<1>4. QED BY <1>1, <1>2, <1>3 DEF ChainsNext

(* For any number of filings, any truth about which corrects which, and     *)
(* whatever their texts state and the cache holds: a complete chain is one  *)
(* case when the cache holds the cases it meets and no related-filing field *)
(* leads out of them; the filing in force was not corrected or withdrawn    *)
(* if it is one of the OpenDART listing, and no later text of the cache     *)
(* links to it; no link is lost; and every verified case is in exactly one  *)
(* result (amendments.py:109-186, engine.py:615-646).                       *)
THEOREM RelationsHold == ChainsSpec => []RelationsSound
<1>0. Count \in Nat
  BY CountAssumption
<1>1. ChainsInit => Given /\ Told
  BY <1>0 DEF ChainsInit, Nothing, Filings, None, Given, Told, Truths
<1>2. Given /\ Told /\ [ChainsNext]_chainsVars => (Given /\ Told)'
  BY <1>0, GivenKept, ToldKept
<1>3. Given /\ Told => RelationsSound
  <2> SUFFICES ASSUME Given, Told PROVE RelationsSound
    OBVIOUS
  <2>1. CASE chains = {} /\ results = {}
    BY <2>1 DEF RelationsSound
  <2>2. CASE chains = ChainsOf(Groups) /\ results = CasesOf(chains)
    BY <1>0, <2>2, ChainsSound, CasesSound DEF RelationsSound, None
  <2>3. QED BY <2>1, <2>2 DEF Told
<1>4. QED BY <1>1, <1>2, <1>3, PTL DEF ChainsSpec
=============================================================================
