-------------------------- MODULE DartSearchProofs --------------------------
(***************************************************************************)
(* For all results, whatever comes into them meanwhile, page sizes, window *)
(* lengths, budgets and limits: a window that is called complete holds     *)
(* every filing found in it, unless the diagnostics say that the pages     *)
(* have changed or a page did not show the number of hits; and whether a   *)
(* filing counts as hit in its body does not depend on how its rows come,  *)
(* unless the first of them has no tag.                                    *)
(***************************************************************************)
EXTENDS DartSearch, FiniteSetTheorems, SequenceTheorems, WellFoundedInduction, TLAPS

-----------------------------------------------------------------------------
(* Induction: of the numbers for which something fails, one is least.       *)
LEMMA LeastNumber ==
  ASSUME NEW I \in SUBSET Nat, I # {}
  PROVE  \E m \in I : \A y \in I : m <= y
<1>1. PICK x \in I : TRUE
  OBVIOUS
<1> DEFINE J == I \cap (0..x)
           U == 0..x
           T == {0..n : n \in J}
<1>2. T \in SUBSET (SUBSET U) /\ T # {} /\ IsFiniteSet(U)
  <2>1. \A n \in J : 0..n \subseteq U
    OBVIOUS
  <2>2. x \in J
    OBVIOUS
  <2>3. IsFiniteSet(U)
    BY FS_Interval
  <2>4. QED BY <2>1, <2>2, <2>3
<1> HIDE DEF T, U
<1>3. IsWellFoundedOn(StrictSubsetOrdering(U), SUBSET U)
  BY <1>2, FS_StrictSubsetOrderingWellFounded, FS_FiniteSubsetsOfFinite
<1>4. PICK s \in T : \A r \in T : ~ (<<r, s>> \in StrictSubsetOrdering(U))
  BY <1>2, <1>3, WFMin
<1>5. PICK m \in J : s = 0..m
  BY DEF T
<1>6. ASSUME NEW y \in J, y < m PROVE FALSE
  <2>1. 0..y \in T /\ 0..y \subseteq s
    BY <1>5, <1>6 DEF T
  <2>2. m \in 0..m /\ m \notin 0..y
    BY <1>5, <1>6
  <2>3. 0..y = s
    BY <1>2, <1>4, <2>1 DEF StrictSubsetOrdering
  <2>4. QED BY <1>5, <2>2, <2>3
<1>7. QED BY <1>5, <1>6

-----------------------------------------------------------------------------
(* The two loops over rows: what comes into the window, and what the rows   *)
(* of a filing merge to.                                                    *)

Empty == [r \in {} |-> "none"]
Looped(loop, span, value, row) ==
  IF loop = "merge" THEN Added(value, row)
  ELSE IF Within(span, row) THEN Append(value, row) ELSE value
Start(loop) == IF loop = "merge" THEN Empty ELSE << >>
Looping(loop, span, sequence, g, n) ==
  g = [i \in 0..n |-> IF i = 0 THEN Start(loop) ELSE Looped(loop, span, g[i - 1], sequence[i])]

LEMMA LoopExists ==
  ASSUME NEW loop, NEW span, NEW sequence, Len(sequence) \in Nat
  PROVE  \E g : Looping(loop, span, sequence, g, Len(sequence))
<1> DEFINE T == {n \in 0..Len(sequence) : ~ (\E g : Looping(loop, span, sequence, g, n))}
<1>1. ASSUME T # {} PROVE FALSE
  <2>1. T \in SUBSET Nat
    OBVIOUS
  <2> HIDE DEF T
  <2>2. PICK n \in T : \A y \in T : n <= y
    BY <1>1, <2>1, LeastNumber
  <2> USE DEF T
  <2>3. n \in 0..Len(sequence) /\ ~ (\E g : Looping(loop, span, sequence, g, n))
    OBVIOUS
  <2>4. n # 0
    <3>1. ASSUME n = 0 PROVE FALSE
      <4> DEFINE g == [i \in 0..0 |-> Start(loop)]
      <4>1. g = [i \in 0..0 |-> IF i = 0 THEN Start(loop) ELSE Looped(loop, span, g[i - 1], sequence[i])]
        OBVIOUS
      <4>2. Looping(loop, span, sequence, g, n)
        BY <3>1, <4>1 DEF Looping
      <4>3. QED BY <2>3, <4>2
    <3>2. QED BY <3>1
  <2>5. n - 1 \in 0..Len(sequence) /\ n - 1 \notin T
    BY <2>2, <2>3, <2>4
  <2>6. PICK g : Looping(loop, span, sequence, g, n - 1)
    BY <2>5
  <2> DEFINE h == [i \in 0..n |-> IF i = n THEN Looped(loop, span, g[n - 1], sequence[n]) ELSE g[i]]
  <2>7. ASSUME NEW i \in 0..n
        PROVE  h[i] = IF i = 0 THEN Start(loop) ELSE Looped(loop, span, h[i - 1], sequence[i])
    <3>1. CASE i = n
      <4>1. h[i] = Looped(loop, span, g[n - 1], sequence[n]) /\ h[i - 1] = g[n - 1]
        BY <2>3, <2>4, <3>1
      <4>2. QED BY <2>4, <3>1, <4>1
    <3>2. CASE i # n
      <4>1. i \in 0..(n - 1) /\ h[i] = g[i]
        BY <2>3, <3>2
      <4>2. g[i] = IF i = 0 THEN Start(loop) ELSE Looped(loop, span, g[i - 1], sequence[i])
        BY <2>6, <4>1, Zenon DEF Looping
      <4>3. i # 0 => h[i - 1] = g[i - 1]
        BY <2>3, <4>1
      <4>4. QED BY <4>1, <4>2, <4>3
    <3>3. QED BY <3>1, <3>2
  <2>8. h = [i \in 0..n |-> h[i]]
    OBVIOUS
  <2> HIDE DEF h
  <2>9. h = [i \in 0..n |-> IF i = 0 THEN Start(loop) ELSE Looped(loop, span, h[i - 1], sequence[i])]
    BY <2>7, <2>8
  <2>10. QED BY <2>3, <2>9 DEF Looping
<1>2. Len(sequence) \notin T
  BY <1>1
<1>3. QED BY <1>2

Selecting(span, sequence, g) ==
  /\ g[0] = << >>
  /\ \A i \in 1..Len(sequence) :
       g[i] = IF Within(span, sequence[i]) THEN Append(g[i - 1], sequence[i]) ELSE g[i - 1]

LEMMA InWindowIs ==
  ASSUME NEW span, NEW sequence, Len(sequence) \in Nat
  PROVE  \E g : Selecting(span, sequence, g) /\ InWindow(span, sequence) = g[Len(sequence)]
<1> DEFINE Selected(g) ==
             g = [n \in 0..Len(sequence) |->
                   IF n = 0 THEN << >>
                   ELSE IF Within(span, sequence[n]) THEN Append(g[n - 1], sequence[n])
                   ELSE g[n - 1]]
           u == CHOOSE g : Selected(g)
<1>1. InWindow(span, sequence) = u[Len(sequence)]
  BY Zenon DEF InWindow
<1>2. \A g : Looping("select", span, sequence, g, Len(sequence)) <=> Selected(g)
  BY Zenon DEF Looping, Looped, Start
<1>3. \E g : Selected(g)
  BY <1>2, LoopExists
<1>4. Selected(u)
  BY <1>3, Zenon
<1> HIDE DEF u
<1>5. \A i \in 0..Len(sequence) :
        u[i] = IF i = 0 THEN << >>
               ELSE IF Within(span, sequence[i]) THEN Append(u[i - 1], sequence[i]) ELSE u[i - 1]
  BY <1>4, Zenon
<1>6. 0 \in 0..Len(sequence) /\ \A i \in 1..Len(sequence) : i \in 0..Len(sequence) /\ i # 0
  OBVIOUS
<1>7. u[0] = << >>
  BY <1>5, <1>6, Zenon
<1>8. \A i \in 1..Len(sequence) :
        u[i] = IF Within(span, sequence[i]) THEN Append(u[i - 1], sequence[i]) ELSE u[i - 1]
  BY <1>5, <1>6, Zenon
<1>9. QED BY <1>1, <1>7, <1>8, Zenon DEF Selecting

Merging(sequence, g) ==
  g[0] = Empty /\ \A i \in 1..Len(sequence) : g[i] = Added(g[i - 1], sequence[i])

LEMMA MergedIs ==
  ASSUME NEW sequence, Len(sequence) \in Nat
  PROVE  \E g : Merging(sequence, g) /\ Merged(sequence) = g[Len(sequence)]
<1> DEFINE All(g) ==
             g = [n \in 0..Len(sequence) |-> IF n = 0 THEN Empty ELSE Added(g[n - 1], sequence[n])]
           u == CHOOSE g : All(g)
<1>1. Merged(sequence) = u[Len(sequence)]
  BY Zenon DEF Merged, Empty
<1>2. \A g : Looping("merge", << >>, sequence, g, Len(sequence)) <=> All(g)
  BY Zenon DEF Looping, Looped, Start
<1>3. \E g : All(g)
  BY <1>2, LoopExists
<1>4. All(u)
  BY <1>3, Zenon
<1> HIDE DEF u
<1>5. \A i \in 0..Len(sequence) : u[i] = IF i = 0 THEN Empty ELSE Added(u[i - 1], sequence[i])
  BY <1>4, Zenon
<1>6. 0 \in 0..Len(sequence) /\ \A i \in 1..Len(sequence) : i \in 0..Len(sequence) /\ i # 0
  OBVIOUS
<1>7. u[0] = Empty
  BY <1>5, <1>6, Zenon
<1>8. \A i \in 1..Len(sequence) : u[i] = Added(u[i - 1], sequence[i])
  BY <1>5, <1>6, Zenon
<1>9. QED BY <1>1, <1>7, <1>8, Zenon DEF Merging

-----------------------------------------------------------------------------
(* What comes into a window: those rows, and a new row first.               *)

LEMMA AppendIs ==
  ASSUME NEW K, NEW s \in Seq(K), NEW r \in K
  PROVE  /\ Append(s, r) \in Seq(K) /\ ToSet(Append(s, r)) = ToSet(s) \cup {r}
         /\ Len(Append(s, r)) = Len(s) + 1
<1> DEFINE t == Append(s, r)
<1>1. /\ t \in Seq(K) /\ Len(t) = Len(s) + 1 /\ t[Len(s) + 1] = r
      /\ \A i \in 1..Len(s) : t[i] = s[i]
  OBVIOUS
<1> HIDE DEF t
<1>2. ToSet(t) = {t[i] : i \in 1..(Len(s) + 1)} /\ ToSet(s) = {s[i] : i \in 1..Len(s)}
  BY <1>1 DEF ToSet
<1>3. \A x \in ToSet(t) : x \in ToSet(s) \cup {r}
  BY <1>1, <1>2
<1>4. \A x \in ToSet(s) : x \in ToSet(t)
  BY <1>1, <1>2
<1>5. r \in ToSet(t)
  BY <1>1, <1>2
<1>6. ToSet(t) = ToSet(s) \cup {r}
  BY <1>3, <1>4, <1>5
<1>7. QED BY <1>1, <1>6 DEF t

LEMMA SelectedIs ==
  ASSUME NEW span, NEW K, NEW s \in Seq(K)
  PROVE  /\ InWindow(span, s) \in Seq(K)
         /\ ToSet(InWindow(span, s)) = {row \in ToSet(s) : Within(span, row)}
<1> Len(s) \in Nat
  OBVIOUS
<1>1. PICK g : Selecting(span, s, g) /\ InWindow(span, s) = g[Len(s)]
  BY InWindowIs
<1> DEFINE Good(n) == /\ g[n] \in Seq(K)
                      /\ ToSet(g[n]) = {row \in {s[i] : i \in 1..n} : Within(span, row)}
           T == {n \in 0..Len(s) : ~ Good(n)}
<1>2. ASSUME T # {} PROVE FALSE
  <2>1. T \in SUBSET Nat
    OBVIOUS
  <2> HIDE DEF T
  <2>2. PICK n \in T : \A y \in T : n <= y
    BY <1>2, <2>1, LeastNumber
  <2> USE DEF T
  <2>3. n \in 0..Len(s) /\ ~ Good(n)
    OBVIOUS
  <2>4. CASE n = 0
    <3>1. g[n] = << >> /\ {s[i] : i \in 1..n} = {}
      BY <1>1, <2>4 DEF Selecting
    <3>2. << >> \in Seq(K) /\ ToSet(<< >>) = {}
      BY DEF ToSet
    <3>3. QED BY <2>3, <3>1, <3>2
  <2>5. CASE n # 0
    <3>1. n - 1 \in 0..Len(s) /\ n - 1 \notin T /\ n \in 1..Len(s) /\ s[n] \in K
      BY <2>2, <2>3, <2>5
    <3>2. Good(n - 1)
      BY <3>1
    <3>3. g[n] = IF Within(span, s[n]) THEN Append(g[n - 1], s[n]) ELSE g[n - 1]
      BY <1>1, <3>1 DEF Selecting
    <3>4. {s[i] : i \in 1..n} = {s[i] : i \in 1..(n - 1)} \cup {s[n]}
      BY <3>1
    <3> HIDE DEF T
    <3>5. \A q \in Seq(K), r \in K : Append(q, r) \in Seq(K) /\ ToSet(Append(q, r)) = ToSet(q) \cup {r}
      BY AppendIs
    <3>6. CASE Within(span, s[n])
      <4>1. g[n] \in Seq(K) /\ ToSet(g[n]) = ToSet(g[n - 1]) \cup {s[n]}
        BY <3>1, <3>2, <3>3, <3>5, <3>6
      <4>2. Good(n)
        BY <3>2, <3>4, <3>6, <4>1
      <4>3. QED BY <2>3, <4>2
    <3>7. CASE ~Within(span, s[n])
      <4>1. g[n] = g[n - 1]
        BY <3>3, <3>7
      <4>2. Good(n)
        BY <3>2, <3>4, <3>7, <4>1
      <4>3. QED BY <2>3, <4>2
    <3>8. QED BY <3>6, <3>7
  <2>6. QED BY <2>4, <2>5
<1>3. Good(Len(s))
  <2>1. Len(s) \in 0..Len(s)
    OBVIOUS
  <2>2. QED BY <1>2, <2>1
<1>4. ToSet(s) = {s[i] : i \in 1..Len(s)}
  BY DEF ToSet
<1>5. QED BY <1>1, <1>3, <1>4

LEMMA SelectedGrows ==
  ASSUME NEW span, NEW K, NEW s \in Seq(K), NEW x \in K
  PROVE  \/ InWindow(span, <<x>> \o s) = InWindow(span, s)
         \/ InWindow(span, <<x>> \o s) = <<x>> \o InWindow(span, s)
<1> DEFINE t == <<x>> \o s
           pre == IF Within(span, x) THEN <<x>> ELSE << >>
<1>1. /\ t \in Seq(K) /\ Len(t) = Len(s) + 1 /\ Len(s) \in Nat /\ t[1] = x
      /\ \A i \in 1..Len(s) : t[i + 1] = s[i]
  OBVIOUS
<1> HIDE DEF t
<1>2. PICK g : Selecting(span, s, g) /\ InWindow(span, s) = g[Len(s)]
  BY <1>1, InWindowIs
<1>3. Len(t) \in Nat
  BY <1>1
<1>4. PICK h : Selecting(span, t, h) /\ InWindow(span, t) = h[Len(t)]
  BY <1>3, InWindowIs
<1> DEFINE Good(n) == g[n] \in Seq(K) /\ h[n + 1] = pre \o g[n]
           T == {n \in 0..Len(s) : ~ Good(n)}
<1>5. pre \in Seq(K)
  OBVIOUS
<1>6. ASSUME T # {} PROVE FALSE
  <2>1. T \in SUBSET Nat
    <3> HIDE DEF Good
    <3>1. QED OBVIOUS
  <2> HIDE DEF T
  <2>2. PICK n \in T : \A y \in T : n <= y
    BY <1>6, <2>1, LeastNumber
  <2> USE DEF T
  <2>3. n \in 0..Len(s) /\ ~ Good(n)
    OBVIOUS
  <2>4. CASE n = 0
    <3>1. g[0] = << >> /\ h[0] = << >>
      BY <1>2, <1>4 DEF Selecting
    <3>2. 1 \in 1..Len(t) /\ 1 - 1 = 0
      BY <1>1
    <3>3. h[1] = IF Within(span, x) THEN Append(<< >>, x) ELSE << >>
      BY <1>1, <1>4, <3>1, <3>2 DEF Selecting
    <3>4. Append(<< >>, x) = <<x>>
      <4>1. << >> \in Seq(K) /\ <<x>> \in Seq(K)
        OBVIOUS
      <4>2. Append(<< >>, x) = << >> \o <<x>>
        BY <4>1, AppendIsConcat
      <4>3. \A q \in Seq(K) : << >> \o q = q
        OBVIOUS
      <4>4. QED BY <4>1, <4>2, <4>3, Zenon
    <3>5. h[1] = pre \o << >>
      <4>1. \A q \in Seq(K) : q \o << >> = q
        OBVIOUS
      <4>2. h[1] = pre
        BY <3>3, <3>4
      <4> HIDE DEF pre
      <4>3. QED BY <1>5, <4>1, <4>2
    <3>6. QED BY <2>3, <2>4, <3>1, <3>5
  <2>5. CASE n # 0
    <3>1. /\ n - 1 \in 0..Len(s) /\ n - 1 \notin T /\ n \in 1..Len(s) /\ s[n] \in K
          /\ n + 1 \in 1..Len(t) /\ t[n + 1] = s[n] /\ n - 1 + 1 = n /\ n + 1 - 1 = n
      <4>1. n - 1 \in 0..Len(s) /\ n \in 1..Len(s) /\ n + 1 \in 1..Len(t) /\ n - 1 + 1 = n /\ n + 1 - 1 = n
        BY <1>1, <2>3, <2>5
      <4>2. n - 1 \notin T
        <5> HIDE DEF T
        <5>1. QED BY <2>2, <4>1
      <4>3. s[n] \in K /\ t[n + 1] = s[n]
        BY <1>1, <4>1
      <4> HIDE DEF T
      <4>4. QED BY <4>1, <4>2, <4>3
    <3>2. Good(n - 1)
      BY <3>1
    <3>3. g[n] = IF Within(span, s[n]) THEN Append(g[n - 1], s[n]) ELSE g[n - 1]
      BY <1>2, <3>1 DEF Selecting
    <3>4. h[n + 1] = IF Within(span, s[n]) THEN Append(h[n], s[n]) ELSE h[n]
      BY <1>4, <3>1 DEF Selecting
    <3> HIDE DEF T, pre
    <3>5. \A p, q \in Seq(K), r \in K :
            Append(q, r) \in Seq(K) /\ Append(p \o q, r) = p \o Append(q, r)
      OBVIOUS
    <3>6. g[n - 1] \in Seq(K) /\ h[n] = pre \o g[n - 1]
      BY <3>1, <3>2
    <3>7. CASE Within(span, s[n])
      <4>1. g[n] = Append(g[n - 1], s[n]) /\ h[n + 1] = Append(pre \o g[n - 1], s[n])
        BY <3>3, <3>4, <3>6, <3>7
      <4> HIDE DEF Good
      <4>2. /\ Append(g[n - 1], s[n]) \in Seq(K)
            /\ Append(pre \o g[n - 1], s[n]) = pre \o Append(g[n - 1], s[n])
        BY <1>5, <3>1, <3>5, <3>6
      <4>3. g[n] \in Seq(K) /\ h[n + 1] = pre \o g[n]
        BY <4>1, <4>2, Zenon
      <4>4. QED BY <2>3, <4>3 DEF Good
    <3>8. CASE ~Within(span, s[n])
      BY <2>3, <3>3, <3>4, <3>6, <3>8
    <3>9. QED BY <3>7, <3>8
  <2>6. QED BY <2>4, <2>5
<1>7. Good(Len(s))
  <2>1. Len(s) \in 0..Len(s)
    OBVIOUS
  <2>2. QED BY <1>6, <2>1
<1>8. InWindow(span, t) = pre \o InWindow(span, s) /\ InWindow(span, s) \in Seq(K)
  BY <1>1, <1>2, <1>4, <1>7
<1>9. QED
  <2>1. \A q \in Seq(K) : << >> \o q = q
    OBVIOUS
  <2>2. QED BY <1>8, <2>1 DEF t

-----------------------------------------------------------------------------
(* The windows: every day of the period is in one of them.                  *)

Spans == [from : Int, to : Int]

Cutting(length, g, c0) ==
  g = [c \in c0..(Period + 1) |->
        IF c > Period THEN << >>
        ELSE <<[from |-> c, to |-> WindowEnd(c, length)]>> \o g[WindowEnd(c, length) + 1]]

LEMMA EndIs ==
  ASSUME NEW length \in Nat \ {0}, NEW c \in 1..Period
  PROVE  WindowEnd(c, length) \in c..Period
  BY SizeAssumption DEF WindowEnd

LEMMA CuttingExists ==
  ASSUME NEW length \in Nat \ {0}
  PROVE  \E g : Cutting(length, g, 1)
<1> DEFINE T == {n \in 0..Period : ~ (\E g : Cutting(length, g, Period + 1 - n))}
<1>0. Period \in Nat \ {0}
  BY SizeAssumption
<1>9. \A c \in 1..Period : WindowEnd(c, length) \in c..Period
  BY EndIs
<1>1. ASSUME T # {} PROVE FALSE
  <2>1. T \in SUBSET Nat
    OBVIOUS
  <2> HIDE DEF T
  <2>2. PICK n \in T : \A y \in T : n <= y
    BY <1>1, <2>1, LeastNumber
  <2> USE DEF T
  <2>3. n \in 0..Period /\ ~ (\E g : Cutting(length, g, Period + 1 - n))
    OBVIOUS
  <2> DEFINE b == Period + 1 - n
  <2>4. n # 0
    <3>1. ASSUME n = 0 PROVE FALSE
      <4> DEFINE g == [c \in (Period + 1)..(Period + 1) |-> << >>]
      <4>1. \A c \in (Period + 1)..(Period + 1) : c > Period
        BY <1>0
      <4>2. g = [c \in (Period + 1)..(Period + 1) |->
                  IF c > Period THEN << >>
                  ELSE <<[from |-> c, to |-> WindowEnd(c, length)]>> \o g[WindowEnd(c, length) + 1]]
        BY <4>1
      <4>3. b = Period + 1
        BY <1>0, <3>1
      <4>4. Cutting(length, g, b)
        BY <4>2, <4>3 DEF Cutting
      <4>5. QED BY <2>3, <4>4
    <3>2. QED BY <3>1
  <2>5. n - 1 \in 0..Period /\ n - 1 \notin T /\ Period + 1 - (n - 1) = b + 1
    BY <1>0, <2>2, <2>3, <2>4
  <2>6. PICK g : Cutting(length, g, b + 1)
    BY <2>5
  <2> HIDE DEF T
  <2>7. b \in 1..Period
    BY <1>0, <2>3, <2>4
  <2> HIDE DEF b
  <2> DEFINE first == <<[from |-> b, to |-> WindowEnd(b, length)]>> \o g[WindowEnd(b, length) + 1]
             h == [c \in b..(Period + 1) |-> IF c = b THEN first ELSE g[c]]
  <2>8. ASSUME NEW c \in b..(Period + 1)
        PROVE  h[c] = IF c > Period THEN << >>
                      ELSE <<[from |-> c, to |-> WindowEnd(c, length)]>> \o h[WindowEnd(c, length) + 1]
    <3>1. CASE c = b
      <4>1. WindowEnd(b, length) + 1 \in b..(Period + 1) /\ WindowEnd(b, length) + 1 # b
        BY <1>0, <1>9, <2>7
      <4>2. h[WindowEnd(b, length) + 1] = g[WindowEnd(b, length) + 1]
        BY <4>1
      <4>3. h[c] = first /\ ~(c > Period)
        BY <1>0, <2>7, <3>1
      <4>4. QED BY <3>1, <4>2, <4>3
    <3>2. CASE c # b
      <4>1. c \in (b + 1)..(Period + 1) /\ h[c] = g[c]
        BY <1>0, <2>7, <3>2
      <4>2. g[c] = IF c > Period THEN << >>
                   ELSE <<[from |-> c, to |-> WindowEnd(c, length)]>> \o g[WindowEnd(c, length) + 1]
        BY <2>6, <4>1, Zenon DEF Cutting
      <4>3. ~(c > Period) => h[WindowEnd(c, length) + 1] = g[WindowEnd(c, length) + 1]
        <5> SUFFICES ASSUME ~(c > Period)
                     PROVE  h[WindowEnd(c, length) + 1] = g[WindowEnd(c, length) + 1]
          OBVIOUS
        <5>1. c \in 1..Period
          BY <1>0, <2>7, <4>1
        <5>2. WindowEnd(c, length) + 1 \in b..(Period + 1) /\ WindowEnd(c, length) + 1 # b
          BY <1>0, <1>9, <2>7, <4>1, <5>1
        <5>3. QED BY <5>2
      <4> HIDE DEF h
      <4>4. QED BY <4>1, <4>2, <4>3
    <3>3. QED BY <3>1, <3>2
  <2>9. h = [c \in b..(Period + 1) |-> h[c]]
    OBVIOUS
  <2> HIDE DEF h
  <2>10. h = [c \in b..(Period + 1) |->
               IF c > Period THEN << >>
               ELSE <<[from |-> c, to |-> WindowEnd(c, length)]>> \o h[WindowEnd(c, length) + 1]]
    BY <2>8, <2>9
  <2>11. Cutting(length, h, b)
    BY <2>10 DEF Cutting
  <2>12. QED BY <2>3, <2>11 DEF b
<1>2. Period \notin T /\ Period \in 0..Period /\ Period + 1 - Period = 1
  BY <1>0, <1>1
<1>3. QED BY <1>2

LEMMA CutIs ==
  ASSUME NEW length \in Nat \ {0}
  PROVE  \E g : /\ DateWindows(length) = g[1] /\ g[Period + 1] = << >>
                /\ \A c \in 1..Period :
                     g[c] = <<[from |-> c, to |-> WindowEnd(c, length)]>> \o g[WindowEnd(c, length) + 1]
<1> DEFINE All(g) ==
             g = [c \in 1..(Period + 1) |->
                   IF c > Period THEN << >>
                   ELSE <<[from |-> c, to |-> WindowEnd(c, length)]>> \o g[WindowEnd(c, length) + 1]]
           u == CHOOSE g : All(g)
<1>1. DateWindows(length) = u[1]
  BY Zenon DEF DateWindows
<1>2. \E g : All(g)
  BY CuttingExists, Zenon DEF Cutting
<1>3. All(u)
  BY <1>2, Zenon
<1> HIDE DEF u
<1>4. \A c \in 1..(Period + 1) :
        u[c] = IF c > Period THEN << >>
               ELSE <<[from |-> c, to |-> WindowEnd(c, length)]>> \o u[WindowEnd(c, length) + 1]
  BY <1>3, Zenon
<1>5. Period + 1 \in 1..(Period + 1) /\ Period + 1 > Period
      /\ \A c \in 1..Period : c \in 1..(Period + 1) /\ ~(c > Period)
  BY SizeAssumption
<1>6. u[Period + 1] = << >>
  BY <1>4, <1>5, Zenon
<1>7. \A c \in 1..Period :
        u[c] = <<[from |-> c, to |-> WindowEnd(c, length)]>> \o u[WindowEnd(c, length) + 1]
  BY <1>4, <1>5, Zenon
<1>8. QED BY <1>1, <1>6, <1>7, Zenon

LEMMA DatesCovered ==
  ASSUME NEW length \in Nat \ {0}
  PROVE  /\ DateWindows(length) \in Seq(Spans) /\ Len(DateWindows(length)) >= 1
         /\ \A day \in 1..Period : \E w \in 1..Len(DateWindows(length)) :
              DateWindows(length)[w].from <= day /\ day <= DateWindows(length)[w].to
<1> DEFINE Covers(s, c) == /\ s \in Seq(Spans)
                           /\ \A day \in c..Period : \E w \in 1..Len(s) : s[w].from <= day /\ day <= s[w].to
<1>0. Period \in Nat \ {0}
  BY SizeAssumption
<1>1. PICK g : /\ DateWindows(length) = g[1] /\ g[Period + 1] = << >>
               /\ \A c \in 1..Period :
                    g[c] = <<[from |-> c, to |-> WindowEnd(c, length)]>> \o g[WindowEnd(c, length) + 1]
  BY CutIs
<1>2. ASSUME NEW s \in Seq(Spans), NEW c \in 1..Period, NEW e \in c..Period, Covers(s, e + 1)
      PROVE  Covers(<<[from |-> c, to |-> e]>> \o s, c) /\ Len(<<[from |-> c, to |-> e]>> \o s) >= 1
  <2> DEFINE r == [from |-> c, to |-> e]
             t == <<r>> \o s
  <2>1. r \in Spans /\ r.from = c /\ r.to = e
    BY DEF Spans
  <2> HIDE DEF r
  <2>2. /\ t \in Seq(Spans) /\ Len(t) = Len(s) + 1 /\ Len(s) \in Nat /\ t[1] = r
        /\ \A i \in 1..Len(s) : t[i + 1] = s[i]
    BY <2>1
  <2> HIDE DEF t
  <2>3. ASSUME NEW day \in c..Period
        PROVE  \E w \in 1..Len(t) : t[w].from <= day /\ day <= t[w].to
    <3>1. CASE day <= e
      <4>1. 1 \in 1..Len(t)
        BY <2>2
      <4>2. QED BY <2>1, <2>2, <3>1, <4>1
    <3>2. CASE day > e
      <4>1. day \in (e + 1)..Period
        BY <1>0, <3>2
      <4>2. PICK w \in 1..Len(s) : s[w].from <= day /\ day <= s[w].to
        BY <1>2, <4>1
      <4>3. w + 1 \in 1..Len(t) /\ t[w + 1] = s[w]
        BY <2>2
      <4>4. QED BY <4>2, <4>3
    <3>3. QED BY <1>0, <3>1, <3>2
  <2>4. QED BY <2>2, <2>3 DEF t, r
<1> DEFINE Good(n) == Covers(g[Period + 1 - n], Period + 1 - n)
           T == {n \in 0..Period : ~ Good(n)}
<1>3. ASSUME T # {} PROVE FALSE
  <2>1. T \in SUBSET Nat
    <3> HIDE DEF Good
    <3>1. QED OBVIOUS
  <2> HIDE DEF T
  <2>2. PICK n \in T : \A y \in T : n <= y
    BY <1>3, <2>1, LeastNumber
  <2>3. n \in 0..Period /\ ~ Good(n)
    <3> HIDE DEF Good
    <3>1. QED BY DEF T
  <2>4. ASSUME NEW m \in 0..Period, m < n PROVE Good(m)
    <3>1. m \notin T
      BY <2>2, <2>3, <2>4
    <3> HIDE DEF Good
    <3>2. QED BY <3>1 DEF T
  <2>5. CASE n = 0
    <3>1. Period + 1 - n = Period + 1
      BY <1>0, <2>5
    <3>2. << >> \in Seq(Spans) /\ \A day \in (Period + 1)..Period : FALSE
      BY <1>0
    <3>3. Covers(<< >>, Period + 1)
      BY <3>2
    <3>4. QED BY <1>1, <2>3, <3>1, <3>3
  <2>6. CASE n # 0
    <3> DEFINE c == Period + 1 - n
               e == WindowEnd(c, length)
    <3>1. c \in 1..Period /\ n = Period + 1 - c
      BY <1>0, <2>3, <2>6
    <3>2. e \in c..Period
      BY <3>1, EndIs
    <3> HIDE DEF c
    <3>3. g[c] = <<[from |-> c, to |-> e]>> \o g[e + 1]
      BY <1>1, <3>1
    <3> HIDE DEF e
    <3>4. Period - e \in 0..Period /\ Period - e < n /\ Period + 1 - (Period - e) = e + 1
      BY <1>0, <3>1, <3>2
    <3>5. Good(Period - e)
      <4> HIDE DEF Good
      <4>1. QED BY <2>4, <3>4
    <3>6. Covers(g[e + 1], e + 1)
      BY <3>4, <3>5
    <3>7. Covers(g[c], c)
      <4> HIDE DEF Covers
      <4>1. g[e + 1] \in Seq(Spans)
        BY <3>6 DEF Covers
      <4>2. QED BY <1>2, <3>1, <3>2, <3>3, <3>6, <4>1
    <3>8. QED BY <2>3, <3>7 DEF c
  <2>7. QED BY <2>5, <2>6
<1>4. Good(Period)
  <2> HIDE DEF Good
  <2>1. Period \in 0..Period
    BY <1>0
  <2>2. QED BY <1>3, <2>1
<1>5. Period + 1 - Period = 1
  BY <1>0
<1>6. Covers(g[1], 1)
  BY <1>4, <1>5
<1>7. Len(g[1]) >= 1
  <2>1. g[1] \in Seq(Spans) /\ 1 \in 1..Period
    BY <1>0, <1>6
  <2>2. \E w \in 1..Len(g[1]) : TRUE
    BY <1>6, <2>1
  <2>3. QED BY <2>1, <2>2
<1>8. QED BY <1>1, <1>6, <1>7

LEMMA WindowsAre ==
  ASSUME limit \in Limits, days \in Lengths
  PROVE  /\ Windows \in Seq(Spans) /\ Len(Windows) \in Nat /\ Len(Windows) >= 1
         /\ \A day \in 1..Period : \E w \in 1..Len(Windows) :
              Windows[w].from <= day /\ day <= Windows[w].to
<1>1. days \in Nat \ {0} /\ Period \in Nat \ {0}
  BY SizeAssumption
<1>2. CASE limit > 0
  <2> DEFINE r == [from |-> 1, to |-> Period]
  <2>1. Windows = <<r>>
    BY <1>2 DEF Windows
  <2>2. r \in Spans /\ r.from = 1 /\ r.to = Period
    BY <1>1 DEF Spans
  <2> HIDE DEF r
  <2>3. Windows \in Seq(Spans) /\ Len(Windows) = 1 /\ Windows[1] = r
    BY <2>1, <2>2
  <2>4. 1 \in 1..Len(Windows)
    BY <2>3
  <2>5. QED BY <2>2, <2>3, <2>4
<1>3. CASE ~(limit > 0)
  <2>1. Windows = DateWindows(days)
    BY <1>3 DEF Windows
  <2> DEFINE all == DateWindows(days)
  <2>2. /\ all \in Seq(Spans) /\ Len(all) >= 1
        /\ \A day \in 1..Period : \E w \in 1..Len(all) : all[w].from <= day /\ day <= all[w].to
    BY <1>1, DatesCovered
  <2> HIDE DEF all
  <2>3. Windows = all /\ Len(all) \in Nat
    BY <2>1, <2>2 DEF all
  <2>4. QED BY <2>2, <2>3, Zenon
<1>4. QED BY <1>2, <1>3

-----------------------------------------------------------------------------
(* Pages: what one shows, and which is the last.                            *)

LEMMA CountIs ==
  ASSUME NEW P \in Nat \ {0}, NEW L \in Nat, NEW n, n = (L + P - 1) \div P
  PROVE  /\ n \in Nat /\ (L >= 1 => n >= 1)
         /\ \A k \in Nat : (k >= n => P * k >= L) /\ (k < n => P * k < L)
<1>1. n \in Nat /\ P * n <= L + P - 1 /\ L + P - 1 < P * n + P
  OBVIOUS
<1>2. L >= 1 => n >= 1
  <2>1. n = 0 => P * n = 0
    OBVIOUS
  <2>2. QED BY <1>1, <2>1
<1>3. ASSUME NEW k \in Nat, k >= n PROVE P * k >= L
  <2>1. P * k = P * n + P * (k - n) /\ P * (k - n) >= 0
    BY <1>1, <1>3
  <2>2. P * k \in Int /\ P * n \in Int
    BY <1>1
  <2>3. QED BY <1>1, <2>1, <2>2
<1>4. ASSUME NEW k \in Nat, k < n PROVE P * k < L
  <2>1. P * n = P * k + P + P * (n - k - 1) /\ P * (n - k - 1) >= 0
    BY <1>1, <1>4
  <2>2. P * k \in Int /\ P * n \in Int
    BY <1>1
  <2>3. QED BY <1>1, <2>1, <2>2
<1>5. QED BY <1>1, <1>2, <1>3, <1>4

LEMMA PartOf ==
  ASSUME NEW K, NEW R \in Seq(K), NEW a \in Nat, NEW b \in 0..Len(R)
  PROVE  /\ SubSeq(R, a + 1, b) \in Seq(K)
         /\ Len(SubSeq(R, a + 1, b)) = IF a < b THEN b - a ELSE 0
         /\ ToSet(SubSeq(R, a + 1, b)) = {R[i] : i \in (a + 1)..b}
<1> DEFINE t == SubSeq(R, a + 1, b)
<1>1. /\ t \in Seq(K) /\ Len(t) = IF a < b THEN b - a ELSE 0
      /\ \A i \in 1..Len(t) : t[i] = R[a + i]
  <2>1. CASE a < b
    <3>1. 1 <= a + 1 /\ a + 1 <= b + 1 /\ b <= Len(R)
      BY <2>1
    <3>2. QED BY <2>1, <3>1, SubSeqProperties
  <2>2. CASE ~(a < b)
    <3>1. t = << >>
      BY <2>2
    <3>2. QED BY <2>2, <3>1
  <2>3. QED BY <2>1, <2>2
<1> HIDE DEF t
<1>2. ToSet(t) = {t[i] : i \in 1..Len(t)}
  BY <1>1 DEF ToSet
<1>3. \A x \in ToSet(t) : x \in {R[i] : i \in (a + 1)..b}
  <2> SUFFICES ASSUME NEW i \in 1..Len(t) PROVE t[i] \in {R[j] : j \in (a + 1)..b}
    BY <1>2
  <2>1. a + i \in (a + 1)..b /\ t[i] = R[a + i]
    BY <1>1
  <2>2. QED BY <2>1
<1>4. \A x \in {R[i] : i \in (a + 1)..b} : x \in ToSet(t)
  <2> SUFFICES ASSUME NEW i \in (a + 1)..b PROVE R[i] \in ToSet(t)
    OBVIOUS
  <2>1. i - a \in 1..Len(t) /\ a + (i - a) = i
    BY <1>1
  <2>2. t[i - a] = R[i]
    BY <1>1, <2>1
  <2>3. QED BY <1>2, <2>1, <2>2
<1>5. QED BY <1>1, <1>3, <1>4 DEF t

LEMMA PageIs ==
  ASSUME NEW K, Result \in Seq(K), size \in Nat \ {0}, page \in Nat \ {0}
  PROVE  /\ PageRows \in Seq(K) /\ ToSet(PageRows) \subseteq ToSet(Result)
         /\ \A i \in 1..Len(Result) :
              size * (page - 1) < i /\ i <= size * page => Result[i] \in ToSet(PageRows)
         /\ size * (page - 1) \in Nat /\ size * page = size * (page - 1) + size
         /\ Len(PageRows) = IF Len(Result) <= size * (page - 1) THEN 0
                            ELSE IF size * page < Len(Result) THEN size
                            ELSE Len(Result) - size * (page - 1)
<1> DEFINE a == size * (page - 1)
           R == Result
           b == IF size * page < Len(R) THEN size * page ELSE Len(R)
<1>1. a \in Nat /\ size * page = a + size
  OBVIOUS
<1>2. PageRows = SubSeq(R, a + 1, b)
  BY DEF PageRows
<1> HIDE DEF a, R
<1>3. R \in Seq(K) /\ Len(R) \in Nat /\ DOMAIN R = 1..Len(R)
  BY DEF R
<1>4. b \in 0..Len(R)
  BY <1>1, <1>3
<1>5. (a + size < Len(R) => b = a + size) /\ (~(a + size < Len(R)) => b = Len(R))
  BY <1>1
<1> HIDE DEF b
<1>6. /\ PageRows \in Seq(K) /\ Len(PageRows) = IF a < b THEN b - a ELSE 0
      /\ ToSet(PageRows) = {R[i] : i \in (a + 1)..b}
  <2>1. \A q \in Seq(K) : \A x \in Nat : \A y \in 0..Len(q) :
          /\ SubSeq(q, x + 1, y) \in Seq(K)
          /\ Len(SubSeq(q, x + 1, y)) = IF x < y THEN y - x ELSE 0
          /\ ToSet(SubSeq(q, x + 1, y)) = {q[i] : i \in (x + 1)..y}
    BY PartOf
  <2>2. /\ SubSeq(R, a + 1, b) \in Seq(K)
        /\ Len(SubSeq(R, a + 1, b)) = IF a < b THEN b - a ELSE 0
        /\ ToSet(SubSeq(R, a + 1, b)) = {R[i] : i \in (a + 1)..b}
    BY <1>1, <1>3, <1>4, <2>1
  <2>3. QED BY <1>2, <2>2, Zenon
<1>7. ToSet(PageRows) \subseteq ToSet(R)
  <2>1. ToSet(R) = {R[i] : i \in 1..Len(R)}
    BY <1>3 DEF ToSet
  <2>2. \A i \in (a + 1)..b : i \in 1..Len(R)
    BY <1>1, <1>3, <1>4
  <2>3. QED BY <1>6, <2>1, <2>2
<1>8. \A i \in 1..Len(R) : a < i /\ i <= a + size => R[i] \in ToSet(PageRows)
  <2>1. \A i \in 1..Len(R) : a < i /\ i <= a + size => i \in (a + 1)..b
    BY <1>1, <1>3, <1>5
  <2>2. QED BY <1>6, <2>1
<1>9. Len(PageRows) = IF Len(R) <= a THEN 0 ELSE IF a + size < Len(R) THEN size ELSE Len(R) - a
  <2>1. CASE a + size < Len(R)
    <3>1. a < b /\ b - a = size /\ ~(Len(R) <= a)
      <4>1. size \in Nat /\ size > 0
        OBVIOUS
      <4>2. b = a + size
        BY <1>5, <2>1
      <4>3. a \in Nat /\ Len(R) \in Nat
        BY <1>1, <1>3
      <4> HIDE DEF R
      <4>4. QED BY <2>1, <4>1, <4>2, <4>3
    <3>2. Len(PageRows) = size
      BY <1>6, <3>1
    <3>3. QED BY <2>1, <3>1, <3>2
  <2>2. CASE ~(a + size < Len(R))
    BY <1>1, <1>3, <1>5, <1>6, <2>2
  <2>3. QED BY <2>1, <2>2
<1>10. QED BY <1>1, <1>6, <1>7, <1>8, <1>9 DEF a, R

-----------------------------------------------------------------------------
(***************************************************************************)
(* What a search has at any moment.                                        *)
(***************************************************************************)

(* Results only get more, and everything collected is one of their rows.    *)
Growing ==
  /\ results \in [1..Queries -> Seq(Rows)] /\ rows \in Seq(Rows)
  /\ \A j \in 1..Queries : ToSet(Listed[j]) \subseteq ToSet(results[j])
  /\ found \in Seq(SUBSET AllOf(Rows)) /\ coverage \in Seq(BOOLEAN)
  /\ pc = "page" => Len(coverage) = window - 1

ListedIn(j) == {row \in ToSet(Listed[j]) : Within(Windows[window], row)}

(* The next page is asked for with all rows of the queries before, and with *)
(* those that stood before this page: new rows only move them further down. *)
(* There is a second page only where pages have the size they should.       *)
Searching ==
  pc = "page" /\ ~bias /\ ~changed /\ ~uncounted =>
    /\ page > 1 => size = PageSize
    /\ \A j \in 1..(query - 1) : AllOf(ListedIn(j)) \subseteq ReceiptsOf(rows)
    /\ \A i \in 1..Len(Result) :
         i <= size * (page - 1) /\ Result[i] \in ToSet(Listed[query])
           => Result[i].receipt \in ReceiptsOf(rows)

FullIn(w) == coverage[w] /\ (limit > 0 => Cardinality(found[w]) < limit)
Covered ==
  ~changed /\ ~uncounted => \A w \in 1..Len(coverage) :
    FullIn(w) => AllOf({row \in RowsOf(Listed) : Within(Windows[w], row)}) \subseteq found[w]

-----------------------------------------------------------------------------
(* Types.                                                                   *)

LEMMA ResultIs ==
  ASSUME TypeOK, Growing
  PROVE  /\ Result \in Seq(Rows)
         /\ ToSet(Result) = {row \in ToSet(results[query]) : Within(Windows[window], row)}
<1>1. results[query] \in Seq(Rows)
  BY DEF TypeOK, Growing
<1>2. QED BY <1>1, SelectedIs DEF Result

LEMMA SizesAre ==
  ASSUME TypeOK
  PROVE  size \in Nat \ {0} /\ PageSize \in Nat \ {0} /\ Queries \in Nat \ {0} /\ Budget \in Nat \ {0}
         /\ page \in Nat \ {0} /\ limit \in Nat
  BY SizeAssumption DEF TypeOK

LEMMA ConcatIs ==
  ASSUME NEW K, NEW s \in Seq(K), NEW t \in Seq(K)
  PROVE  s \o t \in Seq(K) /\ ToSet(s \o t) = ToSet(s) \cup ToSet(t)
<1> DEFINE u == s \o t
<1>1. /\ u \in Seq(K) /\ Len(u) = Len(s) + Len(t)
      /\ \A i \in 1..Len(s) : u[i] = s[i]
      /\ \A i \in 1..Len(t) : u[Len(s) + i] = t[i]
  OBVIOUS
<1>2. Len(s) \in Nat /\ Len(t) \in Nat
  OBVIOUS
<1> HIDE DEF u
<1>3. /\ ToSet(u) = {u[i] : i \in 1..Len(u)}
      /\ ToSet(s) = {s[i] : i \in 1..Len(s)} /\ ToSet(t) = {t[i] : i \in 1..Len(t)}
  <2>1. \A q \in Seq(K) : DOMAIN q = 1..Len(q)
    OBVIOUS
  <2>2. \A q \in Seq(K) : ToSet(q) = {q[i] : i \in 1..Len(q)}
    BY <2>1 DEF ToSet
  <2>3. QED BY <1>1, <2>2
<1>4. ASSUME NEW i \in 1..Len(u) PROVE u[i] \in ToSet(s) \cup ToSet(t)
  <2>1. CASE i <= Len(s)
    <3>1. i \in 1..Len(s)
      BY <1>2, <2>1
    <3>2. QED BY <1>1, <1>3, <3>1
  <2>2. CASE i > Len(s)
    <3>1. i - Len(s) \in 1..Len(t) /\ Len(s) + (i - Len(s)) = i
      BY <1>1, <1>2, <2>2
    <3>2. u[i] = t[i - Len(s)]
      BY <1>1, <3>1
    <3>3. QED BY <1>3, <3>1, <3>2
  <2>3. QED BY <1>1, <1>2, <2>1, <2>2
<1>5. \A i \in 1..Len(s) : s[i] \in ToSet(u)
  <2>1. \A i \in 1..Len(s) : i \in 1..Len(u)
    BY <1>1, <1>2
  <2>2. QED BY <1>1, <1>3, <2>1
<1>6. \A i \in 1..Len(t) : t[i] \in ToSet(u)
  <2>1. \A i \in 1..Len(t) : Len(s) + i \in 1..Len(u)
    BY <1>1, <1>2
  <2>2. QED BY <1>1, <1>3, <2>1
<1>7. ToSet(u) = ToSet(s) \cup ToSet(t)
  BY <1>3, <1>4, <1>5, <1>6
<1>8. QED BY <1>1, <1>7 DEF u

(* A page adds rows of the result to those that are there.                  *)
LEMMA AllIs ==
  ASSUME TypeOK, Growing
  PROVE  /\ rows \o PageRows \in Seq(Rows)
         /\ ToSet(rows \o PageRows) = ToSet(rows) \cup ToSet(PageRows)
         /\ ReceiptsOf(rows \o PageRows) = ReceiptsOf(rows) \cup ReceiptsOf(PageRows)
         /\ ReceiptsOf(rows \o PageRows) \in SUBSET AllOf(Rows)
<1>1. rows \in Seq(Rows)
  BY DEF Growing
<1>2. PageRows \in Seq(Rows)
  BY ResultIs, SizesAre, PageIs
<1> DEFINE all == rows \o PageRows
<1>3. all \in Seq(Rows) /\ ToSet(all) = ToSet(rows) \cup ToSet(PageRows)
  BY <1>1, <1>2, ConcatIs
<1> HIDE DEF all
<1>4. ReceiptsOf(all) = ReceiptsOf(rows) \cup ReceiptsOf(PageRows)
  BY <1>3 DEF ReceiptsOf
<1>5. ToSet(all) \subseteq Rows
  BY <1>3 DEF ToSet
<1>6. ReceiptsOf(all) \in SUBSET AllOf(Rows)
  BY <1>5 DEF ReceiptsOf, AllOf
<1>7. QED BY <1>3, <1>4, <1>6 DEF all

LEMMA PushedIs ==
  ASSUME NEW K, NEW s \in Seq(K), NEW r \in K
  PROVE  /\ Append(s, r) \in Seq(K) /\ Len(Append(s, r)) = Len(s) + 1
         /\ Append(s, r)[Len(s) + 1] = r /\ \A i \in 1..Len(s) : Append(s, r)[i] = s[i]
  OBVIOUS

(* The result of a window grows by a new row on top, if at all.             *)
LEMMA ResultGrows ==
  ASSUME TypeOK, Growing, NEW j \in 1..Queries, NEW row \in Late \ RowsOf(results),
         results' = [results EXCEPT ![j] = <<row>> \o results[j]],
         UNCHANGED <<limit, days, window, query>>
  PROVE  /\ Result' = Result \/ Result' = <<row>> \o Result
         /\ \A q \in 1..Queries : results'[q] \in Seq(Rows) /\ ToSet(results[q]) \subseteq ToSet(results'[q])
<1>1. \A q \in 1..Queries : results[q] \in Seq(Rows)
  BY DEF Growing
<1>2. row \in Rows /\ query \in 1..Queries
  BY DEF Rows, TypeOK
<1>3. results'[j] = <<row>> \o results[j] /\ \A q \in 1..Queries \ {j} : results'[q] = results[q]
  BY DEF Growing
<1>4. Result' = InWindow(Windows[window], results'[query])
  BY DEF Result, Windows
<1>5. Result' = Result \/ Result' = <<row>> \o Result
  <2>1. CASE query = j
    <3>1. \A s \in Seq(Rows) :
            \/ InWindow(Windows[window], <<row>> \o s) = InWindow(Windows[window], s)
            \/ InWindow(Windows[window], <<row>> \o s) = <<row>> \o InWindow(Windows[window], s)
      BY <1>2, SelectedGrows
    <3>2. QED BY <1>1, <1>2, <1>3, <1>4, <2>1, <3>1 DEF Result
  <2>2. CASE query # j
    BY <1>2, <1>3, <1>4, <2>2 DEF Result
  <2>3. QED BY <2>1, <2>2
<1>6. ASSUME NEW q \in 1..Queries
      PROVE  results'[q] \in Seq(Rows) /\ ToSet(results'[q]) \in {ToSet(results[q]), ToSet(results[q]) \cup {row}}
  <2>1. CASE q = j
    <3>1. <<row>> \in Seq(Rows) /\ ToSet(<<row>>) = {row}
      BY <1>2 DEF ToSet
    <3>2. \A s, t \in Seq(Rows) : s \o t \in Seq(Rows) /\ ToSet(s \o t) = ToSet(s) \cup ToSet(t)
      BY ConcatIs
    <3>3. <<row>> \o results[q] \in Seq(Rows) /\ ToSet(<<row>> \o results[q]) = {row} \cup ToSet(results[q])
      BY <1>1, <3>1, <3>2
    <3>4. QED BY <1>3, <2>1, <3>3
  <2>2. CASE q # j
    BY <1>1, <1>3, <2>2
  <2>3. QED BY <2>1, <2>2
<1>7. QED BY <1>5, <1>6

(* What search_variants returns with.                                       *)
LEMMA ReturnsTyped ==
  ASSUME TypeOK, Growing, pc = "page", NEW all \in Seq(Rows), NEW count, NEW biased \in BOOLEAN,
         Returns(all, count, biased), UNCHANGED <<results, asked, active>>,
         requests' \in 0..Budget + 2, bias' \in BOOLEAN, changed' \in BOOLEAN,
         uncounted' \in BOOLEAN, query' \in 1..Queries
  PROVE  TypeOK' /\ Growing'
<1> DEFINE complete == WindowComplete(count, biased)
<1>1. /\ found' = Append(found, ReceiptsOf(all)) /\ coverage' = Append(coverage, complete)
      /\ \/ /\ limit = 0 /\ complete /\ window < Len(Windows)
            /\ window' = window + 1 /\ query' = 1 /\ page' = 1 /\ rows' = << >> /\ pc' = pc
         \/ pc' = "done" /\ rows' = all /\ UNCHANGED <<window, query, page>>
  BY DEF Returns
<1>2. complete \in BOOLEAN
  BY DEF WindowComplete
<1>3. ReceiptsOf(all) \in SUBSET AllOf(Rows)
  BY DEF ReceiptsOf, AllOf, ToSet
<1> HIDE DEF complete
<1>4. found \in Seq(SUBSET AllOf(Rows)) /\ coverage \in Seq(BOOLEAN)
  BY DEF Growing
<1>5. /\ found' \in Seq(SUBSET AllOf(Rows)) /\ coverage' \in Seq(BOOLEAN)
      /\ Len(found') = Len(found) + 1 /\ Len(coverage') = Len(coverage) + 1
  <2>1. \A s \in Seq(SUBSET AllOf(Rows)), r \in SUBSET AllOf(Rows) :
          Append(s, r) \in Seq(SUBSET AllOf(Rows)) /\ Len(Append(s, r)) = Len(s) + 1
    OBVIOUS
  <2>2. \A s \in Seq(BOOLEAN), r \in BOOLEAN :
          Append(s, r) \in Seq(BOOLEAN) /\ Len(Append(s, r)) = Len(s) + 1
    OBVIOUS
  <2>3. QED BY <1>1, <1>2, <1>3, <1>4, <2>1, <2>2, Zenon
<1>6. Windows' = Windows /\ Len(Windows) \in Nat /\ Len(Windows) >= 1
  BY WindowsAre DEF asked, Windows, TypeOK
<1>7. window' \in 1..Len(Windows')
  BY <1>1, <1>6 DEF TypeOK
<1>8. rows' \in Seq(Rows)
  <2>1. rows' = << >> \/ rows' = all
    BY <1>1
  <2>2. << >> \in Seq(Rows)
    OBVIOUS
  <2>3. QED BY <2>1, <2>2
<1>9. pc' \in {"page", "done", "failed"} /\ (pc' = "page" => window' = window + 1)
  BY <1>1
<1>10. page' = 1 \/ page' \in 1..PageCount'
  <2>1. CASE page' = 1
    BY <2>1
  <2>2. CASE page' # 1
    <3>1. UNCHANGED <<window, query, page, results>> /\ Windows' = Windows
      BY <1>1, <1>6, <2>2
    <3>2. PageCount' = PageCount
      BY <3>1 DEF PageCount, Result
    <3>3. QED BY <2>2, <3>1, <3>2 DEF TypeOK
  <2>3. QED BY <2>1, <2>2
<1>11. ToSet(rows') \subseteq Rows
  BY <1>8 DEF ToSet
<1>12. ToSet(coverage') \subseteq BOOLEAN
  BY <1>5 DEF ToSet
<1>13. RowsOf(results') \subseteq Rows /\ limit' \in Limits /\ days' \in Lengths /\ size' \in Sizes
       /\ active' \in BOOLEAN
  BY DEF TypeOK, asked
<1>14. Len(found') = Len(coverage')
  BY <1>5 DEF TypeOK
<1>15. TypeOK'
  BY <1>7, <1>9, <1>10, <1>11, <1>12, <1>13, <1>14 DEF TypeOK
<1>16. pc' = "page" => Len(coverage') = window' - 1
  <2>1. Len(coverage) = window - 1 /\ window \in Int
    BY <1>6 DEF Growing, TypeOK
  <2>2. QED BY <1>5, <1>9, <2>1
<1>17. Growing'
  BY <1>5, <1>8, <1>16 DEF Growing
<1>18. QED BY <1>15, <1>17

LEMMA CountGrows ==
  ASSUME TypeOK, NEW L \in Nat, NEW M \in Nat, L <= M, Len(Result) = L, Len(Result') = M, page' = page
  PROVE  page' = 1 \/ page' \in 1..PageCount'
<1>1. CASE page = 1
  BY <1>1
<1>2. CASE page \in 1..PageCount /\ page # 1
  <2>1. PageSize \in Nat \ {0}
    BY SizeAssumption
  <2>2. PageCount = (L + PageSize - 1) \div PageSize /\ PageCount' = (M + PageSize - 1) \div PageSize
    BY DEF PageCount
  <2>3. PageCount \in Nat /\ \A k \in Nat : k < PageCount => PageSize * k < L
    BY <2>1, <2>2, CountIs
  <2>4. PageCount' \in Nat /\ \A k \in Nat : k >= PageCount' => PageSize * k >= M
    BY <2>1, <2>2, CountIs
  <2>5. page - 1 \in Nat /\ page - 1 < PageCount
    BY <1>2, <2>3
  <2>6. PageSize * (page - 1) < M /\ PageSize * (page - 1) \in Int
    <3>1. PageSize * (page - 1) < L
      BY <2>3, <2>5
    <3>2. PageSize * (page - 1) \in Int
      BY <2>1, <2>5
    <3>3. QED BY <3>1, <3>2
  <2>7. ~(page - 1 >= PageCount')
    BY <2>4, <2>5, <2>6
  <2>8. QED BY <1>2, <2>3, <2>4, <2>5, <2>7
<1>3. QED BY <1>1, <1>2 DEF TypeOK

LEMMA AnsweredTyped ==
  ASSUME TypeOK, Growing, NEW extra \in {0, 2}, Answered(extra)
  PROVE  TypeOK' /\ Growing'
<1>0. PICK linked, shown \in BOOLEAN :
             /\ changed' = (changed \/ ContractChanged(linked, shown))
             /\ uncounted' = (uncounted \/ (~shown /\ PageRows # << >>))
             /\ Follows(rows \o PageRows, requests', EstimatedPages(shown))
  BY DEF Answered
<1> DEFINE all == rows \o PageRows
           count == requests'
           pages == EstimatedPages(shown)
           biased == Bias(all, count, pages)
<1>1. /\ pc = "page" /\ active /\ ~Spent(requests) /\ requests' = requests + 1 + extra
      /\ UNCHANGED <<results, asked, active>> /\ bias' = biased
  BY <1>0 DEF Answered, Follows
<1>2. all \in Seq(Rows)
  BY AllIs
<1>3. requests' \in 0..Budget + 2
  <2>1. requests \in 0..Budget + 2 /\ ~(requests >= Budget) /\ Budget \in Nat
    BY <1>1, SizesAre DEF TypeOK, Spent
  <2>2. QED BY <1>1, <2>1
<1>4. pages = 0 \/ pages = PageCount
  BY DEF EstimatedPages
<1>5. changed' \in BOOLEAN /\ uncounted' \in BOOLEAN
  BY <1>0, Zenon
<1>6. biased \in BOOLEAN
  <2>1. bias \in BOOLEAN
    BY DEF TypeOK
  <2>2. (page < pages) \in BOOLEAN
    OBVIOUS
  <2>3. (bias \/ TooManyPages(count, pages) \/ (~LastPage(pages) /\ Spent(count))) \in BOOLEAN
    BY <2>1, Zenon
  <2>4. QED BY <2>2, <2>3, Zenon DEF Bias
<1> DEFINE moreRows == /\ ~Enough(all) /\ ~TooManyPages(count, pages)
                       /\ ~LastPage(pages) /\ ~Spent(count)
           moreQueries == ~Enough(all) /\ ~Spent(count) /\ query < Queries
<1>7. \/ /\ moreRows
         /\ page' = page + 1 /\ rows' = all
         /\ UNCHANGED <<window, query, found, coverage, pc>>
      \/ /\ ~moreRows /\ moreQueries
         /\ query' = query + 1 /\ page' = 1 /\ rows' = all
         /\ UNCHANGED <<window, found, coverage, pc>>
      \/ ~moreRows /\ ~moreQueries /\ Returns(all, count, biased)
  BY <1>0, Zenon DEF Follows
<1> HIDE DEF all, count, pages, biased, moreRows, moreQueries
<1>8. ToSet(all) \subseteq Rows
  BY <1>2 DEF ToSet
<1>9. CASE moreRows /\ page' = page + 1 /\ rows' = all /\ UNCHANGED <<window, query, found, coverage, pc>>
  <2>1. PageCount' = PageCount
    BY <1>1, <1>9 DEF PageCount, Result, Windows, asked
  <2>2. page < PageCount /\ PageCount \in Int
    <3>1. Len(Result) \in Nat
      BY ResultIs
    <3>2. PageCount \in Int
      BY <3>1, SizesAre DEF PageCount
    <3>3. ~(page >= pages)
      BY <1>9 DEF moreRows, LastPage
    <3>4. QED BY <1>4, <3>2, <3>3, SizesAre
  <2>3. page' \in 1..PageCount'
    BY <1>9, <2>1, <2>2, SizesAre
  <2>4. Windows' = Windows
    BY <1>1 DEF Windows, asked
  <2>5. TypeOK'
    BY <1>1, <1>3, <1>5, <1>6, <1>8, <1>9, <2>3, <2>4 DEF TypeOK, asked
  <2>6. Growing'
    BY <1>1, <1>2, <1>9 DEF Growing
  <2>7. QED BY <2>5, <2>6
<1>10. CASE /\ moreQueries /\ query' = query + 1 /\ page' = 1 /\ rows' = all
            /\ UNCHANGED <<window, found, coverage, pc>>
  <2>1. Windows' = Windows
    BY <1>1 DEF Windows, asked
  <2>2. query' \in 1..Queries
    BY <1>10, SizesAre DEF TypeOK, moreQueries
  <2>3. TypeOK'
    BY <1>1, <1>3, <1>5, <1>6, <1>8, <1>10, <2>1, <2>2 DEF TypeOK, asked
  <2>4. Growing'
    BY <1>1, <1>2, <1>10 DEF Growing
  <2>5. QED BY <2>3, <2>4
<1>11. CASE Returns(all, count, biased)
  <2>1. query' \in 1..Queries
    BY <1>11, SizesAre DEF Returns, TypeOK
  <2>2. bias' \in BOOLEAN
    BY <1>1, <1>6
  <2>3. QED BY <1>1, <1>2, <1>3, <1>5, <1>6, <1>11, <2>1, <2>2, ReturnsTyped
<1>12. QED BY <1>7, <1>9, <1>10, <1>11

LEMMA GrowsTyped ==
  ASSUME TypeOK, Growing, Grows
  PROVE  TypeOK' /\ Growing'
<1>1. PICK row \in Late \ RowsOf(results), j \in 1..Queries :
        results' = [results EXCEPT ![j] = <<row>> \o results[j]]
  BY DEF Grows
<1>2. pc' = pc /\ UNCHANGED <<asked, window, query, page, active, requests, bias, changed, uncounted, rows, found,
                              coverage>>
  BY DEF Grows
<1>3. UNCHANGED <<limit, days, window, query>>
  BY <1>2 DEF asked
<1>4. /\ Result' = Result \/ Result' = <<row>> \o Result
      /\ \A q \in 1..Queries : results'[q] \in Seq(Rows) /\ ToSet(results[q]) \subseteq ToSet(results'[q])
  BY <1>1, <1>3, ResultGrows
<1>5. results' \in [1..Queries -> Seq(Rows)]
  <2>1. results' = [q \in 1..Queries |-> results'[q]]
    BY <1>1 DEF Growing
  <2>2. QED BY <1>4, <2>1
<1>6. RowsOf(results') \subseteq Rows
  <2>1. \A q \in 1..Queries : ToSet(results'[q]) \subseteq Rows
    BY <1>4 DEF ToSet
  <2>2. QED BY <2>1 DEF RowsOf
<1>7. page' = 1 \/ page' \in 1..PageCount'
  <2> DEFINE L == Len(Result)
             M == Len(Result')
  <2>1. Result \in Seq(Rows) /\ row \in Rows
    BY ResultIs DEF Rows
  <2>2. L \in Nat /\ M \in Nat /\ L <= M
    BY <1>4, <2>1
  <2>3. page' = page
    BY <1>2
  <2> HIDE DEF L, M
  <2>4. L = Len(Result) /\ M = Len(Result')
    BY DEF L, M
  <2>5. QED BY <2>2, <2>3, <2>4, CountGrows
<1>8. Windows' = Windows
  BY <1>3 DEF Windows
<1>9. TypeOK'
  BY <1>2, <1>6, <1>7, <1>8 DEF TypeOK, asked
<1>10. Growing'
  <2>1. \A q \in 1..Queries : ToSet(Listed[q]) \subseteq ToSet(results'[q])
    BY <1>4 DEF Growing
  <2>2. QED BY <1>2, <1>5, <2>1 DEF Growing
<1>11. QED BY <1>9, <1>10

LEMMA TypesStep ==
  ASSUME TypeOK, Growing, [Next]_vars
  PROVE  TypeOK' /\ Growing'
<1>1. CASE SetUp
  <2>1. /\ active' = TRUE /\ requests' = requests + 1 /\ ~Spent(requests)
        /\ UNCHANGED <<results, asked, window, query, page, bias, changed, uncounted, rows, found, coverage, pc>>
    BY <1>1 DEF SetUp
  <2>2. Windows' = Windows /\ PageCount' = PageCount
    BY <2>1 DEF Windows, PageCount, Result, asked
  <2>3. requests' \in 0..Budget + 2
    BY <2>1, SizesAre DEF TypeOK, Spent
  <2>4. QED BY <2>1, <2>2, <2>3 DEF TypeOK, Growing, asked
<1>2. CASE Page \/ OddPage
  BY <1>2, AnsweredTyped DEF Page, OddPage
<1>3. CASE PageFails
  <2>1. Windows' = Windows /\ PageCount' = PageCount
    BY <1>3 DEF PageFails, Windows, PageCount, Result, asked
  <2>2. QED BY <1>3, <2>1 DEF PageFails, TypeOK, Growing, asked
<1>4. CASE Grows
  BY <1>4, GrowsTyped
<1>5. CASE UNCHANGED vars
  <2>1. Windows' = Windows /\ PageCount' = PageCount
    BY <1>5 DEF vars, Windows, PageCount, Result, asked
  <2>2. QED BY <1>5, <2>1 DEF vars, TypeOK, Growing, asked
<1>6. QED BY <1>1, <1>2, <1>3, <1>4, <1>5 DEF Next, Rests

-----------------------------------------------------------------------------
(* A page whose number of rows is the expected one.                         *)

LEMMA PageRead ==
  ASSUME TypeOK, Growing, NEW linked, ~ContractChanged(linked, TRUE), page > 1 => size = PageSize
  PROVE  /\ ~LastPage(PageCount) => size = PageSize
         /\ LastPage(PageCount) => \A i \in 1..Len(Result) :
                          size * (page - 1) < i => Result[i] \in ToSet(PageRows)
<1> DEFINE L == Len(Result)
           N == Len(PageRows)
<1>1. L \in Nat /\ size \in Nat \ {0} /\ PageSize \in Nat \ {0} /\ page \in Nat \ {0}
  BY ResultIs, SizesAre
<1>2. /\ PageRows \in Seq(Rows)
      /\ \A i \in 1..L : size * (page - 1) < i /\ i <= size * page => Result[i] \in ToSet(PageRows)
      /\ size * (page - 1) \in Nat /\ size * page = size * (page - 1) + size
      /\ N = IF L <= size * (page - 1) THEN 0
             ELSE IF size * page < L THEN size ELSE L - size * (page - 1)
  BY ResultIs, SizesAre, PageIs
<1>3. /\ PageCount \in Nat /\ (L >= 1 => PageCount >= 1)
      /\ \A k \in Nat : (k >= PageCount => PageSize * k >= L) /\ (k < PageCount => PageSize * k < L)
  <2>1. PageCount = (L + PageSize - 1) \div PageSize
    BY DEF PageCount
  <2> HIDE DEF L
  <2>2. QED BY <1>1, <2>1, CountIs
<1>4. PageRows # << >> /\ page <= PageCount =>
        N = IF PageSize * page < L THEN PageSize ELSE L - PageSize * (page - 1)
  BY DEF ContractChanged
<1>5. N = 0 <=> PageRows = << >>
  BY <1>2
<1> HIDE DEF L, N
<1>6. CASE page = 1
  <2>1. /\ size * (page - 1) = 0 /\ size * page = size
        /\ PageSize * (page - 1) = 0 /\ PageSize * page = PageSize
    BY <1>1, <1>6
  <2>2. N = IF L <= 0 THEN 0 ELSE IF size < L THEN size ELSE L
    BY <1>1, <1>2, <2>1
  <2>3. N # 0 /\ 1 <= PageCount => N = IF PageSize < L THEN PageSize ELSE L
    BY <1>1, <1>4, <1>5, <1>6, <2>1
  <2>4. (1 >= PageCount => PageSize >= L) /\ (1 < PageCount => PageSize < L)
    BY <1>1, <1>3, <1>6, <2>1
  <2>5. ASSUME ~LastPage(PageCount) PROVE size = PageSize
    <3>1. 1 < PageCount /\ N # 0
      BY <1>3, <1>5, <1>6, <2>5 DEF LastPage
    <3>2. QED BY <1>1, <1>3, <2>2, <2>3, <2>4, <3>1
  <2>6. ASSUME LastPage(PageCount), L >= 1 PROVE size >= L
    <3>1. N # 0
      BY <1>1, <2>2, <2>6
    <3>2. PageSize >= L /\ 1 <= PageCount
      BY <1>3, <1>5, <1>6, <2>4, <2>6, <3>1 DEF LastPage
    <3>3. N = L
      BY <1>1, <2>3, <3>1, <3>2
    <3>4. QED BY <1>1, <2>2, <2>6, <3>3
  <2>7. ASSUME LastPage(PageCount), NEW i \in 1..L, size * (page - 1) < i PROVE Result[i] \in ToSet(PageRows)
    <3>1. i <= size * page
      BY <1>1, <2>1, <2>6, <2>7
    <3>2. QED BY <1>2, <2>7, <3>1
  <2>8. QED BY <2>5, <2>7 DEF L
<1>7. CASE page # 1
  <2>1. size = PageSize
    BY <1>1, <1>7
  <2>2. ASSUME LastPage(PageCount), NEW i \in 1..L, size * (page - 1) < i PROVE Result[i] \in ToSet(PageRows)
    <3>1. N # 0
      BY <1>1, <1>2, <2>2
    <3>2. page >= PageCount
      BY <1>5, <2>2, <3>1 DEF LastPage
    <3>3. size * page >= L
      BY <1>1, <1>3, <2>1, <3>2
    <3>4. i <= size * page
      BY <1>1, <1>2, <3>3
    <3>5. QED BY <1>2, <2>2, <3>4
  <2>3. QED BY <2>1, <2>2 DEF L
<1>8. QED BY <1>6, <1>7

(* With the last page, this query and those before it are all there.        *)
LEMMA AllFound ==
  ASSUME TypeOK, Growing, Searching, pc = "page", ~bias, ~changed, ~uncounted,
         NEW linked, ~ContractChanged(linked, TRUE), LastPage(PageCount)
  PROVE  \A j \in 1..query : AllOf(ListedIn(j)) \subseteq ReceiptsOf(rows \o PageRows)
<1>1. /\ page > 1 => size = PageSize
      /\ \A j \in 1..(query - 1) : AllOf(ListedIn(j)) \subseteq ReceiptsOf(rows)
      /\ \A i \in 1..Len(Result) :
           i <= size * (page - 1) /\ Result[i] \in ToSet(Listed[query])
             => Result[i].receipt \in ReceiptsOf(rows)
  BY DEF Searching
<1>2. \A i \in 1..Len(Result) : size * (page - 1) < i => Result[i] \in ToSet(PageRows)
  BY <1>1, PageRead
<1>3. ReceiptsOf(rows \o PageRows) = ReceiptsOf(rows) \cup ReceiptsOf(PageRows)
  BY AllIs
<1>4. ASSUME NEW row \in ListedIn(query) PROVE row.receipt \in ReceiptsOf(rows) \cup ReceiptsOf(PageRows)
  <2>1. row \in ToSet(Listed[query]) /\ Within(Windows[window], row) /\ query \in 1..Queries
    BY DEF ListedIn, TypeOK
  <2>2. row \in ToSet(results[query])
    BY <2>1 DEF Growing
  <2>3. Result \in Seq(Rows) /\ row \in ToSet(Result)
    BY <2>1, <2>2, ResultIs
  <2>4. PICK i \in 1..Len(Result) : row = Result[i]
    BY <2>3 DEF ToSet
  <2>5. CASE i <= size * (page - 1)
    BY <1>1, <2>1, <2>4, <2>5
  <2>6. CASE size * (page - 1) < i
    BY <1>2, <2>4, <2>6 DEF ReceiptsOf
  <2>7. size * (page - 1) \in Int
    BY SizesAre
  <2>8. QED BY <2>5, <2>6, <2>7
<1>5. AllOf(ListedIn(query)) \subseteq ReceiptsOf(rows \o PageRows)
  BY <1>3, <1>4 DEF AllOf
<1>6. \A j \in 1..query : j = query \/ j \in 1..(query - 1)
  BY DEF TypeOK
<1>7. QED BY <1>1, <1>3, <1>5, <1>6

LEMMA ReceiptsCount ==
  ASSUME NEW s \in Seq(Rows)
  PROVE  Cardinality(ReceiptsOf(s)) \in Nat
<1> DEFINE D == 1..Len(s)
           g == [i \in D |-> s[i].receipt]
<1>1. IsFiniteSet(D)
  BY FS_Interval
<1>2. ReceiptsOf(s) = {g[i] : i \in D}
  BY DEF ReceiptsOf, ToSet
<1>3. IsFiniteSet(ReceiptsOf(s))
  <2>1. g \in [D -> ReceiptsOf(s)]
    BY <1>2
  <2>2. g \in Surjection(D, ReceiptsOf(s))
    BY <1>2, <2>1 DEF Surjection
  <2> HIDE DEF D, g
  <2>3. QED BY <1>1, <2>2, FS_Surjection
<1>4. QED BY <1>3, FS_CardinalityType

LEMMA AnsweredSearches ==
  ASSUME TypeOK, Growing, Searching, Covered, NEW extra \in {0, 2}, Answered(extra)
  PROVE  Searching' /\ Covered'
<1>0. PICK linked, shown \in BOOLEAN :
             /\ changed' = (changed \/ ContractChanged(linked, shown))
             /\ uncounted' = (uncounted \/ (~shown /\ PageRows # << >>))
             /\ Follows(rows \o PageRows, requests', EstimatedPages(shown))
  BY DEF Answered
<1> DEFINE all == rows \o PageRows
           count == requests'
           pages == EstimatedPages(shown)
           biased == Bias(all, count, pages)
           moreRows == /\ ~Enough(all) /\ ~TooManyPages(count, pages)
                       /\ ~LastPage(pages) /\ ~Spent(count)
           moreQueries == ~Enough(all) /\ ~Spent(count) /\ query < Queries
<1>1. pc = "page" /\ UNCHANGED <<results, limit, days, size>> /\ bias' = biased
  BY <1>0 DEF Answered, Follows, asked
<1>2. ~changed' /\ ~uncounted' =>
        /\ ~changed /\ ~uncounted /\ ~ContractChanged(linked, TRUE)
        /\ shown \/ PageRows = << >>
  <2>1. ~changed' /\ ~uncounted' =>
          /\ ~changed /\ ~uncounted /\ ~ContractChanged(linked, shown)
          /\ shown \/ PageRows = << >>
    BY <1>0, Zenon
  <2>2. ~ContractChanged(linked, shown) /\ (shown \/ PageRows = << >>) => ~ContractChanged(linked, TRUE)
    BY Zenon DEF ContractChanged
  <2>3. QED BY <2>1, <2>2
<1>3. (shown \/ PageRows = << >>) => (LastPage(pages) <=> LastPage(PageCount))
  BY Zenon DEF EstimatedPages, LastPage
<1>4. \/ /\ moreRows
         /\ page' = page + 1 /\ rows' = all
         /\ UNCHANGED <<window, query, found, coverage, pc>>
      \/ /\ ~moreRows /\ moreQueries
         /\ query' = query + 1 /\ page' = 1 /\ rows' = all
         /\ UNCHANGED <<window, found, coverage, pc>>
      \/ ~moreRows /\ ~moreQueries /\ Returns(all, count, biased)
  BY <1>0, Zenon DEF Follows
<1>5. ~Enough(all) /\ ~biased => ~bias /\ ~TooManyPages(count, pages)
  BY Zenon DEF Bias
<1>6. Windows' = Windows
  BY <1>1 DEF Windows
<1>7. ASSUME ~changed', ~uncounted', ~Enough(all), ~biased
      PROVE  /\ page > 1 => size = PageSize
             /\ \A j \in 1..(query - 1) : AllOf(ListedIn(j)) \subseteq ReceiptsOf(all)
             /\ \A i \in 1..Len(Result) :
                  i <= size * (page - 1) /\ Result[i] \in ToSet(Listed[query])
                    => Result[i].receipt \in ReceiptsOf(all)
  <2>1. ReceiptsOf(rows) \subseteq ReceiptsOf(all)
    BY AllIs
  <2>2. ~bias /\ ~changed /\ ~uncounted
    BY <1>2, <1>5, <1>7
  <2> HIDE DEF all
  <2>3. QED BY <1>1, <2>1, <2>2 DEF Searching
<1>8. ASSUME ~changed', ~uncounted', ~Enough(all), ~biased, LastPage(pages)
      PROVE  \A j \in 1..query : AllOf(ListedIn(j)) \subseteq ReceiptsOf(all)
  <2>1. /\ ~bias /\ ~changed /\ ~uncounted
        /\ ~ContractChanged(linked, TRUE) /\ LastPage(PageCount)
    BY <1>2, <1>3, <1>5, <1>8
  <2>2. QED BY <1>1, <2>1, AllFound
<1>9. ASSUME ~Enough(all), ~biased, ~moreRows, ~Spent(count) PROVE LastPage(pages)
  BY <1>5, <1>9
<1>10. ReceiptsOf(PageRows) \subseteq ReceiptsOf(all)
  BY AllIs
<1>11. CASE moreRows /\ page' = page + 1 /\ rows' = all /\ UNCHANGED <<window, query, found, coverage, pc>>
  <2>1. Covered'
    BY <1>1, <1>2, <1>6, <1>11 DEF Covered, FullIn
  <2>2. SUFFICES ASSUME ~bias', ~changed', ~uncounted' PROVE Searching'
    BY <2>1 DEF Searching
  <2>3. size = PageSize
    <3>1. ~ContractChanged(linked, TRUE) /\ ~LastPage(PageCount)
      BY <1>2, <1>3, <1>11, <2>2
    <3>2. QED BY <1>1, <1>7, <1>11, <2>2, <3>1, PageRead
  <2>4. \A i \in 1..Len(Result) :
          i <= size * page /\ Result[i] \in ToSet(Listed[query]) => Result[i].receipt \in ReceiptsOf(all)
    <3> SUFFICES ASSUME NEW i \in 1..Len(Result), i <= size * page, Result[i] \in ToSet(Listed[query])
                 PROVE  Result[i].receipt \in ReceiptsOf(all)
      OBVIOUS
    <3>1. CASE i <= size * (page - 1)
      BY <1>1, <1>7, <1>11, <2>2, <3>1
    <3>2. CASE size * (page - 1) < i
      <4>1. Result[i] \in ToSet(PageRows)
        BY <3>2, ResultIs, SizesAre, PageIs
      <4>2. QED BY <1>10, <4>1 DEF ReceiptsOf
    <3>3. size * (page - 1) \in Int /\ Len(Result) \in Nat
      BY SizesAre, ResultIs
    <3>4. QED BY <3>1, <3>2, <3>3
  <2>5. Result' = Result /\ size * (page' - 1) = size * page
    BY <1>1, <1>6, <1>11, SizesAre DEF Result
  <2>6. \A j : ListedIn(j)' = ListedIn(j)
    BY <1>6, <1>11 DEF ListedIn
  <2> HIDE DEF all
  <2>7. \A j \in 1..(query - 1) : AllOf(ListedIn(j)) \subseteq ReceiptsOf(all)
    BY <1>1, <1>7, <1>11, <2>2
  <2>8. QED BY <1>1, <1>11, <2>3, <2>4, <2>5, <2>6, <2>7 DEF Searching, AllOf
<1>12. CASE /\ ~moreRows /\ moreQueries /\ query' = query + 1 /\ page' = 1 /\ rows' = all
            /\ UNCHANGED <<window, found, coverage, pc>>
  <2>1. Covered'
    BY <1>1, <1>2, <1>6, <1>12 DEF Covered, FullIn
  <2>2. SUFFICES ASSUME ~bias', ~changed', ~uncounted' PROVE Searching'
    BY <2>1 DEF Searching
  <2>3. \A j \in 1..query : AllOf(ListedIn(j)) \subseteq ReceiptsOf(all)
    BY <1>1, <1>8, <1>9, <1>12, <2>2
  <2>4. \A j : ListedIn(j)' = ListedIn(j)
    BY <1>6, <1>12 DEF ListedIn
  <2>5. query' - 1 = query /\ size * (page' - 1) = 0 /\ ~(page' > 1)
    BY <1>12, SizesAre DEF TypeOK
  <2> HIDE DEF all
  <2>6. \A i \in 1..Len(Result') : ~(i <= size' * (page' - 1))
    BY <1>1, <2>5
  <2>7. QED BY <1>1, <1>12, <2>3, <2>4, <2>5, <2>6 DEF Searching, AllOf
<1>13. CASE ~moreRows /\ ~moreQueries /\ Returns(all, count, biased)
  <2> DEFINE complete == WindowComplete(count, biased)
  <2>1. /\ found' = Append(found, ReceiptsOf(all)) /\ coverage' = Append(coverage, complete)
        /\ \/ /\ window' = window + 1 /\ query' = 1 /\ page' = 1 /\ rows' = << >>
           \/ pc' = "done"
    BY <1>13 DEF Returns
  <2>2. Searching'
    <3>1. CASE pc' = "done"
      BY <3>1 DEF Searching
    <3>2. CASE query' = 1 /\ page' = 1
      <4>1. size' * (page' - 1) = 0 /\ ~(page' > 1) /\ 1..(query' - 1) = {}
        BY <1>1, <3>2, SizesAre
      <4>2. \A i \in 1..Len(Result') : ~(i <= size' * (page' - 1))
        BY <4>1
      <4>3. QED BY <4>1, <4>2 DEF Searching
    <3>3. QED BY <2>1, <3>1, <3>2
  <2>3. Covered'
    <3> SUFFICES ASSUME ~changed', ~uncounted', NEW w \in 1..Len(coverage'), FullIn(w)'
                 PROVE  (AllOf({row \in RowsOf(Listed) : Within(Windows[w], row)}) \subseteq found[w])'
      BY DEF Covered
    <3> DEFINE n == Len(coverage)
    <3>1. n \in Nat /\ Len(found) = n /\ n = window - 1 /\ window \in Int
      <4>1. Len(Windows) \in Nat
        BY WindowsAre DEF TypeOK
      <4>2. QED BY <1>1, <4>1 DEF TypeOK, Growing
    <3>2. /\ Len(coverage') = n + 1 /\ coverage'[n + 1] = complete
          /\ \A i \in 1..n : coverage'[i] = coverage[i]
      <4>1. complete \in BOOLEAN /\ coverage \in Seq(BOOLEAN)
        BY DEF WindowComplete, Growing
      <4> HIDE DEF complete
      <4>2. QED BY <2>1, <4>1, PushedIs
    <3>3. found'[n + 1] = ReceiptsOf(all) /\ \A i \in 1..n : found'[i] = found[i]
      <4>1. ReceiptsOf(all) \in SUBSET AllOf(Rows) /\ found \in Seq(SUBSET AllOf(Rows))
        BY AllIs DEF Growing
      <4> HIDE DEF all
      <4>2. QED BY <2>1, <3>1, <4>1, PushedIs
    <3> HIDE DEF n
    <3>4. CASE w \in 1..n
      <4>1. FullIn(w)
        BY <1>1, <3>2, <3>3, <3>4 DEF FullIn
      <4>2. AllOf({row \in RowsOf(Listed) : Within(Windows[w], row)}) \subseteq found[w]
        BY <1>2, <3>4, <4>1 DEF Covered, n
      <4>3. QED BY <1>6, <3>3, <3>4, <4>2 DEF AllOf
    <3>5. CASE w = n + 1
      <4>1. complete /\ (limit > 0 => Cardinality(ReceiptsOf(all)) < limit)
        BY <1>1, <3>2, <3>3, <3>5 DEF FullIn
      <4>2. ~Spent(count) /\ ~biased
        BY <4>1 DEF WindowComplete
      <4>3. ~Enough(all)
        <5>1. Cardinality(ReceiptsOf(all)) < limit => ~(Cardinality(ReceiptsOf(all)) >= limit) \/ ~(limit > 0)
          <6>1. Cardinality(ReceiptsOf(all)) \in Nat
            BY AllIs, ReceiptsCount
          <6>2. limit \in Nat
            BY SizesAre
          <6> HIDE DEF all
          <6>3. QED BY <6>1, <6>2
        <5>2. QED BY <4>1, <5>1 DEF Enough
      <4>4. LastPage(pages) /\ query = Queries
        BY <1>9, <1>13, <4>2, <4>3, SizesAre DEF TypeOK
      <4>5. \A j \in 1..Queries : AllOf(ListedIn(j)) \subseteq ReceiptsOf(all)
        BY <1>8, <4>2, <4>3, <4>4
      <4>6. w = window
        BY <3>1, <3>5
      <4> HIDE DEF all
      <4>7. \A row \in RowsOf(Listed) : Within(Windows[w], row) => row.receipt \in ReceiptsOf(all)
        BY <4>5, <4>6 DEF RowsOf, ListedIn, AllOf
      <4>8. QED BY <1>6, <3>3, <3>5, <4>7 DEF AllOf
    <3>6. QED BY <3>1, <3>2, <3>4, <3>5
  <2>4. QED BY <2>2, <2>3
<1>14. QED BY <1>4, <1>11, <1>12, <1>13

(* A new row moves the others down, and is none of those first listed.      *)
LEMMA GrowsSearches ==
  ASSUME TypeOK, Growing, Searching, Covered, Grows
  PROVE  Searching' /\ Covered'
<1>1. PICK row \in Late \ RowsOf(results), j \in 1..Queries :
        results' = [results EXCEPT ![j] = <<row>> \o results[j]]
  BY DEF Grows
<1>2. UNCHANGED <<limit, days, size, window, query, page, bias, changed, uncounted, rows, found, coverage, pc>>
  BY DEF Grows, asked
<1>3. Windows' = Windows
  BY <1>2 DEF Windows
<1>4. Covered'
  BY <1>2, <1>3 DEF Covered, FullIn
<1>5. Result' = Result \/ Result' = <<row>> \o Result
  BY <1>1, <1>2, ResultGrows
<1>6. row \in Rows /\ row \notin ToSet(Listed[query])
  <2>1. query \in 1..Queries /\ ToSet(Listed[query]) \subseteq ToSet(results[query])
    BY DEF TypeOK, Growing
  <2>2. ToSet(results[query]) \subseteq RowsOf(results)
    BY <2>1 DEF RowsOf
  <2>3. QED BY <1>1, <2>1, <2>2 DEF Rows
<1>7. \A q : ListedIn(q)' = ListedIn(q)
  BY <1>2, <1>3 DEF ListedIn
<1>8. SUFFICES ASSUME pc = "page", ~bias, ~changed, ~uncounted PROVE Searching'
  BY <1>2, <1>4 DEF Searching
<1>9. /\ page > 1 => size = PageSize
      /\ \A q \in 1..(query - 1) : AllOf(ListedIn(q)) \subseteq ReceiptsOf(rows)
      /\ \A i \in 1..Len(Result) :
           i <= size * (page - 1) /\ Result[i] \in ToSet(Listed[query])
             => Result[i].receipt \in ReceiptsOf(rows)
  BY <1>8 DEF Searching
<1>10. \A i \in 1..Len(Result') :
         i <= size * (page - 1) /\ Result'[i] \in ToSet(Listed[query])
           => Result'[i].receipt \in ReceiptsOf(rows)
  <2>1. CASE Result' = Result
    BY <1>9, <2>1
  <2>2. CASE Result' = <<row>> \o Result
    <3> DEFINE b == size * (page - 1)
               s == <<row>> \o Result
    <3>1. b \in Int
      BY SizesAre
    <3>2. /\ Len(Result) \in Nat /\ Len(s) = Len(Result) + 1 /\ s[1] = row
          /\ \A i \in 1..Len(Result) : s[i + 1] = Result[i]
      BY <1>6, ResultIs
    <3> HIDE DEF b, s
    <3>3. ASSUME NEW i \in 1..Len(s), i <= b, s[i] \in ToSet(Listed[query])
          PROVE  s[i].receipt \in ReceiptsOf(rows)
      <4>1. i # 1
        BY <1>6, <3>2, <3>3
      <4>2. i - 1 \in 1..Len(Result) /\ i - 1 <= b /\ i - 1 + 1 = i
        BY <3>1, <3>2, <3>3, <4>1
      <4>3. s[i] = Result[i - 1]
        BY <3>2, <4>2
      <4>4. QED BY <1>9, <3>3, <4>2, <4>3 DEF b
    <3>4. QED BY <2>2, <3>3 DEF b, s
  <2>3. QED BY <1>5, <2>1, <2>2
<1>11. QED BY <1>2, <1>7, <1>9, <1>10 DEF Searching, AllOf

LEMMA SearchStep ==
  ASSUME TypeOK, Growing, Searching, Covered, [Next]_vars
  PROVE  Searching' /\ Covered'
<1>1. CASE SetUp \/ UNCHANGED vars
  <2>1. UNCHANGED <<results, limit, days, size, window, query, page, bias, changed, uncounted, rows, found,
                    coverage, pc>>
    BY <1>1 DEF SetUp, vars, asked
  <2>2. Windows' = Windows /\ Result' = Result
    BY <2>1 DEF Windows, Result
  <2>3. \A q : ListedIn(q)' = ListedIn(q)
    BY <2>1, <2>2 DEF ListedIn
  <2>4. Covered'
    BY <2>1, <2>2 DEF Covered, FullIn
  <2>5. Searching'
    BY <2>1, <2>2, <2>3 DEF Searching
  <2>6. QED BY <2>4, <2>5
<1>2. CASE Page \/ OddPage
  BY <1>2, AnsweredSearches DEF Page, OddPage
<1>3. CASE PageFails
  <2>1. pc' # "page" /\ UNCHANGED <<limit, days, changed, uncounted, found, coverage>>
    BY <1>3 DEF PageFails, asked
  <2>2. Windows' = Windows
    BY <2>1 DEF Windows
  <2>3. QED BY <2>1, <2>2 DEF Searching, Covered, FullIn
<1>4. CASE Grows
  BY <1>4, GrowsSearches
<1>5. QED BY <1>1, <1>2, <1>3, <1>4 DEF Next, Rests

LEMMA Begins ==
  ASSUME Init
  PROVE  TypeOK /\ Growing /\ Searching /\ Covered
<1>1. /\ results = Listed /\ limit \in Limits /\ days \in Lengths /\ size \in Sizes /\ changed = FALSE
      /\ uncounted = FALSE
      /\ window = 1 /\ query = 1 /\ page = 1 /\ active \in BOOLEAN /\ requests \in {0, 1} /\ bias = FALSE
      /\ rows = << >> /\ found = << >> /\ coverage = << >> /\ pc = "page"
  BY DEF Init
<1>2. Len(Windows) \in Nat /\ Len(Windows) >= 1
  BY <1>1, WindowsAre
<1>3. Budget \in Nat \ {0} /\ Queries \in Nat \ {0}
  BY SizeAssumption
<1>4. RowsOf(results) \subseteq Rows
  BY <1>1 DEF Rows
<1>5. requests \in 0..Budget + 2
  BY <1>1, <1>3
<1>6. ToSet(<< >>) = {} /\ Len(<< >>) = 0 /\ \A K : << >> \in Seq(K)
  BY DEF ToSet
<1>7. TypeOK
  <2>1. window \in 1..Len(Windows) /\ query \in 1..Queries
    BY <1>1, <1>2, <1>3
  <2>2. ToSet(rows) \subseteq Rows /\ Len(found) = Len(coverage) /\ ToSet(coverage) \subseteq BOOLEAN
    BY <1>1, <1>6
  <2>3. QED BY <1>1, <1>4, <1>5, <2>1, <2>2, Zenon DEF TypeOK
<1>8. Growing
  BY <1>1, <1>6, ListedAssumption DEF Growing
<1>9. size * (page - 1) = 0
  BY <1>1, <1>7, SizesAre
<1>10. Searching
  BY <1>1, <1>9 DEF Searching
<1>11. Covered
  BY <1>1, <1>6 DEF Covered
<1>12. QED BY <1>7, <1>8, <1>10, <1>11

(* Every day of the period has its window, so all windows have everything.  *)
LEMMA CoveredIsWhole ==
  ASSUME TypeOK, Covered
  PROVE  CompleteWindowsAreWhole
<1> SUFFICES ASSUME ~changed, ~uncounted
             PROVE  /\ \A w \in 1..Len(coverage) :
                         FullIn(w) => AllOf({row \in RowsOf(Listed) : Within(Windows[w], row)}) \subseteq found[w]
                    /\ Whole /\ (\A w \in 1..Len(coverage) : FullIn(w))
                         => AllOf(RowsOf(Listed)) \subseteq UNION {found[w] : w \in 1..Len(found)}
  BY Zenon DEF CompleteWindowsAreWhole, FullIn
<1>1. \A w \in 1..Len(coverage) :
        FullIn(w) => AllOf({row \in RowsOf(Listed) : Within(Windows[w], row)}) \subseteq found[w]
  BY DEF Covered
<1>2. ASSUME Whole, \A w \in 1..Len(coverage) : FullIn(w), NEW row \in RowsOf(Listed)
      PROVE  \E w \in 1..Len(found) : row.receipt \in found[w]
  <2>1. row.day \in 1..Period
    BY ListedAssumption DEF Rows
  <2>2. PICK w \in 1..Len(Windows) : Windows[w].from <= row.day /\ row.day <= Windows[w].to
    BY <2>1, WindowsAre DEF TypeOK
  <2>3. w \in 1..Len(coverage) /\ w \in 1..Len(found)
    BY <1>2 DEF Whole, TypeOK
  <2>4. row.receipt \in AllOf({other \in RowsOf(Listed) : Within(Windows[w], other)})
    BY <2>2 DEF AllOf, Within
  <2>5. QED BY <1>1, <1>2, <2>3, <2>4
<1>3. QED BY <1>1, <1>2 DEF AllOf

-----------------------------------------------------------------------------
(* What the rows of a filing merge to.                                      *)

Kinds == {"body", "attachment", "mixed"}

(* Hit in its body is a filing with such a row, or with a first row that    *)
(* has neither tag.                                                         *)
Counts(before, row) ==
  row.part = "body" \/ (row.part = "mixed" /\ row.receipt \notin before)

KeepsHits(merged, hits) ==
  /\ hits \subseteq DOMAIN merged
  /\ \A r \in DOMAIN merged : merged[r] \in Kinds /\ (merged[r] \in {"body", "mixed"} <=> r \in hits)

More(merged, hits, row) ==
  hits \cup (IF Counts(DOMAIN merged, row) THEN {row.receipt} ELSE {})
Known(row) == row.part \in Kinds

LEMMA AddedKeeps ==
  ASSUME NEW merged, NEW row, NEW hits, Known(row), KeepsHits(merged, hits)
  PROVE  KeepsHits(Added(merged, row), More(merged, hits, row))
<1>0. /\ hits \subseteq DOMAIN merged
      /\ \A r \in DOMAIN merged : merged[r] \in Kinds /\ (merged[r] \in {"body", "mixed"} <=> r \in hits)
  BY Zenon DEF KeepsHits
<1> row.part \in Kinds
  BY DEF Known
<1>1. DOMAIN Added(merged, row) = DOMAIN merged \cup {row.receipt}
  BY DEF Added
<1>2. ASSUME NEW r \in DOMAIN merged \cup {row.receipt}
      PROVE  /\ Added(merged, row)[r] \in Kinds
             /\ Added(merged, row)[r] \in {"body", "mixed"}
                  <=> r \in hits \/ (r = row.receipt /\ Counts(DOMAIN merged, row))
  <2>1. Added(merged, row)[r] =
          IF r # row.receipt THEN merged[r]
          ELSE IF r \in DOMAIN merged THEN MergedPart(merged[r], row.part) ELSE row.part
    BY DEF Added
  <2>2. CASE r # row.receipt
    BY <1>0, <2>1, <2>2
  <2>3. CASE r = row.receipt /\ r \notin DOMAIN merged
    BY <1>0, <2>1, <2>3 DEF Kinds, Counts
  <2>4. CASE r = row.receipt /\ r \in DOMAIN merged
    <3>1. Added(merged, row)[r] = MergedPart(merged[r], row.part)
      BY <2>1, <2>4
    <3>2. \A c \in Kinds, p \in Kinds :
            /\ MergedPart(c, p) \in Kinds
            /\ MergedPart(c, p) \in {"body", "mixed"} <=> (c \in {"body", "mixed"} \/ p = "body")
      BY DEF MergedPart, Kinds
    <3>3. Counts(DOMAIN merged, row) <=> row.part = "body"
      BY <2>4 DEF Counts
    <3>4. QED BY <1>0, <2>4, <3>1, <3>2, <3>3
  <2>5. QED BY <2>2, <2>3, <2>4
<1>3. \A r : r \in More(merged, hits, row) <=> r \in hits \/ (r = row.receipt /\ Counts(DOMAIN merged, row))
  BY DEF More
<1>4. More(merged, hits, row) \subseteq DOMAIN Added(merged, row)
  BY <1>0, <1>1, <1>3
<1>5. \A r \in DOMAIN Added(merged, row) :
        /\ Added(merged, row)[r] \in Kinds
        /\ Added(merged, row)[r] \in {"body", "mixed"} <=> r \in More(merged, hits, row)
  BY <1>1, <1>2, <1>3
<1>6. QED BY <1>4, <1>5, Zenon DEF KeepsHits

(* The receipts counted among the first n rows.                             *)
Before(s, i) == {s[k].receipt : k \in 1..(i - 1)}
HitsUpTo(s, n) == {s[i].receipt : i \in {k \in 1..n : Counts(Before(s, k), s[k])}}

LEMMA HitsGrow ==
  ASSUME NEW s, NEW n \in Nat \ {0}
  PROVE  HitsUpTo(s, n) = HitsUpTo(s, n - 1)
                            \cup (IF Counts(Before(s, n), s[n]) THEN {s[n].receipt} ELSE {})
<1> DEFINE new == IF Counts(Before(s, n), s[n]) THEN {s[n].receipt} ELSE {}
           some == {k \in 1..n : Counts(Before(s, k), s[k])}
           less == {k \in 1..(n - 1) : Counts(Before(s, k), s[k])}
<1>1. some = less \cup (IF Counts(Before(s, n), s[n]) THEN {n} ELSE {})
  <2>1. 1..n = 1..(n - 1) \cup {n}
    OBVIOUS
  <2>2. n \notin 1..(n - 1)
    OBVIOUS
  <2>3. QED BY <2>1, <2>2
<1>2. HitsUpTo(s, n) = {s[i].receipt : i \in some} /\ HitsUpTo(s, n - 1) = {s[i].receipt : i \in less}
  BY DEF HitsUpTo
<1> HIDE DEF some, less
<1>3. CASE Counts(Before(s, n), s[n])
  BY <1>1, <1>2, <1>3
<1>4. CASE ~Counts(Before(s, n), s[n])
  BY <1>1, <1>2, <1>4
<1>5. QED BY <1>3, <1>4

LEMMA MergedKeeps ==
  ASSUME NEW s \in Seq(Rows)
  PROVE  \A r \in DOMAIN Merged(s) : Merged(s)[r] \in {"body", "mixed"} <=> r \in HitsUpTo(s, Len(s))
<1>1. Len(s) \in Nat /\ \A i \in 1..Len(s) : s[i].part \in Kinds
  BY ListedAssumption DEF Kinds
<1>2. PICK g : Merging(s, g) /\ Merged(s) = g[Len(s)]
  BY <1>1, MergedIs
<1> DEFINE Good(n) == DOMAIN g[n] = Before(s, n + 1) /\ KeepsHits(g[n], HitsUpTo(s, n))
           T == {n \in 0..Len(s) : ~ Good(n)}
<1>3. ASSUME T # {} PROVE FALSE
  <2>1. T \in SUBSET Nat
    <3> HIDE DEF Good
    <3>1. QED BY <1>1
  <2> HIDE DEF T
  <2>2. PICK n \in T : \A y \in T : n <= y
    BY <1>3, <2>1, LeastNumber
  <2>3. n \in 0..Len(s) /\ ~ Good(n)
    <3> HIDE DEF Good
    <3>1. QED BY DEF T
  <2>4. CASE n = 0
    <3>1. Before(s, n + 1) = {} /\ HitsUpTo(s, n) = {}
      BY <2>4 DEF Before, HitsUpTo
    <3>2. DOMAIN g[n] = {}
      BY <1>2, <2>4 DEF Merging, Empty
    <3>3. QED BY <2>3, <3>1, <3>2 DEF KeepsHits
  <2>5. CASE n # 0
    <3>1. n - 1 \in 0..Len(s) /\ n \in 1..Len(s) /\ n - 1 + 1 = n
      BY <1>1, <2>3, <2>5
    <3>2. Good(n - 1)
      <4>1. n - 1 \notin T
        BY <2>2, <3>1
      <4> HIDE DEF Good
      <4>2. QED BY <3>1, <4>1 DEF T
    <3> DEFINE row == s[n]
               merged == g[n - 1]
               hits == HitsUpTo(s, n - 1)
    <3>3. g[n] = Added(merged, row) /\ Known(row)
      BY <1>1, <1>2, <3>1 DEF Merging, Known
    <3>4. Before(s, n + 1) = Before(s, n) \cup {row.receipt}
      <4>1. 1..n + 1 - 1 = 1..(n - 1) \cup {n}
        BY <1>1, <2>3, <2>5
      <4>2. QED BY <4>1 DEF Before
    <3>5. KeepsHits(merged, hits) /\ DOMAIN merged = Before(s, n)
      BY <3>1, <3>2
    <3>6. HitsUpTo(s, n) = More(merged, hits, row)
      BY <3>1, <3>5, HitsGrow DEF More
    <3> HIDE DEF row, merged, hits
    <3>7. KeepsHits(g[n], More(merged, hits, row))
      BY <3>3, <3>5, AddedKeeps
    <3>8. DOMAIN g[n] = DOMAIN merged \cup {row.receipt}
      BY <3>3 DEF Added
    <3>9. QED BY <2>3, <3>4, <3>5, <3>6, <3>7, <3>8
  <2>6. QED BY <2>4, <2>5
<1>4. Good(Len(s))
  <2> HIDE DEF Good
  <2>1. Len(s) \in 0..Len(s)
    BY <1>1
  <2>2. QED BY <1>3, <2>1
<1>5. QED BY <1>2, <1>4 DEF KeepsHits

LEMMA RowsKeepHits ==
  ASSUME Growing
  PROVE  BodyHitsKept
<1> DEFINE merged == Merged(rows)
<1>1. rows \in Seq(Rows)
  BY DEF Growing
<1>2. \A r \in DOMAIN merged : merged[r] \in {"body", "mixed"} <=> r \in HitsUpTo(rows, Len(rows))
  BY <1>1, MergedKeeps
<1> HIDE DEF merged
<1>3. DOMAIN rows = 1..Len(rows) /\ ToSet(rows) = {rows[i] : i \in 1..Len(rows)}
  BY <1>1 DEF ToSet
<1>4. ASSUME NEW r
      PROVE  r \in HitsUpTo(rows, Len(rows)) <=>
               (\E row \in ToSet(rows) : row.receipt = r /\ row.part = "body") \/ FirstUntagged(r)
  <2>1. r \in HitsUpTo(rows, Len(rows)) <=>
          \E i \in 1..Len(rows) : Counts(Before(rows, i), rows[i]) /\ rows[i].receipt = r
    BY DEF HitsUpTo
  <2>2. (\E row \in ToSet(rows) : row.receipt = r /\ row.part = "body")
          <=> \E i \in 1..Len(rows) : rows[i].part = "body" /\ rows[i].receipt = r
    BY <1>3
  <2>3. FirstUntagged(r) <=> \E i \in 1..Len(rows) :
          rows[i].receipt = r /\ rows[i].part = "mixed" /\ r \notin Before(rows, i)
    BY <1>3 DEF FirstUntagged, Before
  <2>4. QED BY <2>1, <2>2, <2>3 DEF Counts
<1>5. QED BY <1>2, <1>4, Zenon DEF BodyHitsKept, merged

-----------------------------------------------------------------------------
(***************************************************************************)
(* The specification.                                                      *)
(***************************************************************************)
Kept == TypeOK /\ Growing /\ Searching /\ Covered

LEMMA KeptAlways == Spec => []Kept
<1>1. Init => Kept
  BY Begins DEF Kept
<1>2. Kept /\ [Next]_vars => Kept'
  BY TypesStep, SearchStep DEF Kept
<1>3. QED BY <1>1, <1>2, PTL DEF Spec

(* Every variable keeps its type; in particular no page is asked for beyond *)
(* the last one, also when the result grows between two pages, and at most  *)
(* one status check and one replay come on top of the budget.               *)
THEOREM SearchTypesHold == Spec => []TypeOK
<1>1. Kept => TypeOK
  BY DEF Kept
<1>2. QED BY <1>1, KeptAlways, PTL

(* A window that is called complete holds every filing that any query found *)
(* in it when the search began, and if all are, the period is covered: for  *)
(* all results, arrivals, window lengths, page sizes, limits and budgets,   *)
(* as long as no page was seen to have another size and every page with     *)
(* rows has shown the number of hits.                                       *)
THEOREM WindowsAreWhole == Spec => []CompleteWindowsAreWhole
<1>1. Kept => CompleteWindowsAreWhole
  BY CoveredIsWhole DEF Kept
<1>2. QED BY <1>1, KeptAlways, PTL

(* However the rows of a filing come over pages and queries, it counts as   *)
(* hit in its body exactly when one of them was, or the first of them has   *)
(* the tag of neither part.                                                 *)
THEOREM BodyHitsStay == Spec => []BodyHitsKept
<1>1. Kept => BodyHitsKept
  BY RowsKeepHits DEF Kept
<1>2. QED BY <1>1, KeptAlways, PTL
=============================================================================
