--------------------------- MODULE BatchJobProofs ---------------------------
(***************************************************************************)
(* Theorems about BatchJob, for every catalog, page size, concurrency      *)
(* setting, target and number of server deaths, in three parts: the types  *)
(* and what follows from them; that no filing is lost (the invariant of    *)
(* BatchJobInvariant is inductive); and that the results add up, so that   *)
(* a save never forgets what the one before it had, a repeated completion  *)
(* writes the same record, and the job implements BatchPromise.            *)
(***************************************************************************)
EXTENDS BatchJobInvariant, FiniteSetTheorems, SequenceTheorems, TLAPS

LEMMA PendingRange ==
  ASSUME TypeOK, NEW n \in row + 1 .. Len(rows)
  PROVE  /\ IsFiniteSet(Pending(n))
         /\ \A k \in Pending(n) : k \in DOMAIN rows /\ k \in Nat /\ rows[k] \in Receipts
  <1>1. row + 1 \in Int /\ n \in Int
    BY DEF TypeOK
  <1>2. IsFiniteSet(row + 1 .. n) /\ Pending(n) \subseteq row + 1 .. n
    BY <1>1, FS_Interval DEF Pending
  <1>3. QED
    BY <1>2, FS_Subset DEF Pending, TypeOK

LEMMA UpdateType ==
  ASSUME NEW j \in States, NEW d \in SUBSET Receipts, NEW s \in SUBSET Receipts,
         NEW r \in SUBSET Receipts, NEW c \in Nat, NEW w \in Nat \ {0}, NEW o \in Nat
  PROVE  [[j EXCEPT !.done = d, !.skipped = s, !.results = r, !.count = c, !.conc = w]
            EXCEPT !.offset = o] \in States
  BY DEF States

(* What judging a batch does to a well-typed dictionary.                    *)
LEMMA JudgedType ==
  ASSUME TypeOK, job \in States, NEW n \in row + 1 .. Len(rows),
         NEW throttled \in SUBSET Pending(n), NEW lost,
         NEW kept \in SUBSET Pending(n), NEW o \in Nat
  PROVE  [Judged(Pending(n), throttled, lost, kept) EXCEPT !.offset = o] \in States
  <1>1. Cardinality(throttled) \in Nat /\ Cardinality(kept) \in Nat
    BY PendingRange, FS_Subset, FS_CardinalityType
  <1>2. {rows[k] : k \in Pending(n) \ lost} \subseteq Receipts
        /\ {rows[k] : k \in Unavailable(Pending(n), lost)} \subseteq Receipts
        /\ {rows[k] : k \in kept} \subseteq Receipts
    BY PendingRange DEF Unavailable
  <1>3. job.conc \in Nat \ {0} /\ job.count \in Nat
    BY DEF States
  <1>4. (IF Cardinality(throttled) >= job.conc THEN 1 ELSE job.conc - Cardinality(throttled)) \in Nat \ {0}
    BY <1>1, <1>3
  <1>5. job.done \cup {rows[k] : k \in Pending(n) \ lost} \in SUBSET Receipts
        /\ job.skipped \cup {rows[k] : k \in Unavailable(Pending(n), lost)} \in SUBSET Receipts
        /\ job.results \cup {rows[k] : k \in kept} \in SUBSET Receipts
        /\ job.count + Cardinality(kept) \in Nat
    BY <1>1, <1>2, <1>3 DEF States
  <1>6. QED
    BY <1>4, <1>5, UpdateType, Zenon DEF Judged

LEMMA SliceType ==
  ASSUME NEW s \in Seq(Receipts), NEW p \in Nat \ {0}, NEW size \in Nat \ {0}
  PROVE  LET start == PageStart(p, size)
             slice == PageOf(s, p, size)
         IN  /\ start \in Nat
             /\ slice \in Seq(Receipts)
             /\ Len(slice) = IF start >= Len(s) THEN 0 ELSE Smaller(start + size, Len(s)) - start
             /\ \A k \in 1..Len(slice) : slice[k] = s[start + k]
  <1> DEFINE start == PageStart(p, size)
             end == Smaller(start + size, Len(s))
             slice == SubSeq(s, start + 1, end)
  <1>1. start \in Nat
    BY DEF PageStart
  <1> HIDE DEF start
  <1>2. end \in Nat /\ end <= Len(s) /\ (end < start + 1 <=> start >= Len(s))
    BY <1>1 DEF Smaller
  <1> HIDE DEF end
  <1>3. \A k \in start + 1 .. end : s[k] \in Receipts
    BY <1>1, <1>2
  <1>4. /\ slice \in Seq(Receipts)
        /\ Len(slice) = IF start + 1 <= end THEN end - (start + 1) + 1 ELSE 0
        /\ \A k \in 1 .. end - (start + 1) + 1 : slice[k] = s[k + (start + 1) - 1]
    BY <1>1, <1>2, <1>3, SubSeqProperties
  <1>5. slice = PageOf(s, p, size)
    BY DEF start, end, PageOf
  <1> HIDE DEF slice
  <1>6. Len(slice) = (IF start >= Len(s) THEN 0 ELSE end - start)
    BY <1>1, <1>2, <1>4
  <1>7. \A k \in 1..Len(slice) : slice[k] = s[start + k]
    BY <1>1, <1>2, <1>4, <1>6
  <1>8. QED
    BY <1>1, <1>4, <1>5, <1>6, <1>7 DEF start, end

(* A well-typed dictionary keeps its type when the cursor moves.            *)
LEMMA CheckedType == \A j \in States : [j EXCEPT !.checked = TRUE] \in States
  BY DEF States

LEMMA WindowType == \A j \in States, w \in Nat \ {0} : [j EXCEPT !.window = w] \in States
  BY DEF States

LEMMA OffsetType == \A j \in States, o \in Nat : [j EXCEPT !.offset = o] \in States
  BY DEF States

LEMMA PhaseType == \A j \in States, ph \in Phases : [j EXCEPT !.phase = ph] \in States
  BY DEF States

LEMMA PageFieldType == \A j \in States, p \in Nat \ {0} : [j EXCEPT !.page = p] \in States
  BY DEF States

LEMMA StartType ==
  ASSUME NEW j \in States, NEW ph \in Phases
  PROVE  [j EXCEPT !.phase = ph, !.window = 1, !.page = 1, !.offset = 0] \in States
  <1> DEFINE j1 == [j EXCEPT !.phase = ph]
             j2 == [j1 EXCEPT !.window = 1]
             j3 == [j2 EXCEPT !.page = 1]
             j4 == [j3 EXCEPT !.offset = 0]
  <1>1. 1 \in Nat \ {0} /\ 0 \in Nat
    OBVIOUS
  <1>2. j1 \in States
    BY PhaseType, Zenon
  <1>3. j2 \in States
    BY <1>1, <1>2, WindowType, Zenon
  <1>4. j3 \in States
    BY <1>1, <1>3, PageFieldType, Zenon
  <1>5. j4 \in States
    BY <1>1, <1>4, OffsetType, Zenon
  <1>6. QED
    BY <1>5, Zenon

LEMMA FallbackType == \A j \in States : Fallback(j) \in States
  BY StartType, Zenon DEF Fallback, Phases

LEMMA VerificationType ==
  \A j \in States :
    [j EXCEPT !.phase = "dart_verification", !.window = 1, !.page = 1, !.offset = 0] \in States
  BY StartType, Zenon DEF Phases

LEMMA PageType ==
  ASSUME NEW j \in States, NEW final
  PROVE  [j EXCEPT !.offset = 0,
                   !.page = IF final THEN 1 ELSE @ + 1,
                   !.window = IF final THEN @ + 1 ELSE @] \in States
  <1> DEFINE j1 == [j EXCEPT !.offset = 0]
             j2 == [j1 EXCEPT !.page = IF final THEN 1 ELSE j1.page + 1]
             j3 == [j2 EXCEPT !.window = IF final THEN j2.window + 1 ELSE j2.window]
  <1>1. j1 \in States
    BY OffsetType
  <1> HIDE DEF j1
  <1>2. (IF final THEN 1 ELSE j1.page + 1) \in Nat \ {0}
    BY <1>1 DEF States
  <1>3. j2 \in States
    BY <1>1, <1>2, PageFieldType, Zenon
  <1> HIDE DEF j2
  <1>4. (IF final THEN j2.window + 1 ELSE j2.window) \in Nat \ {0}
    BY <1>3 DEF States
  <1>5. j3 \in States
    BY <1>3, <1>4, WindowType, Zenon
  <1>6. QED
    BY <1>5, Zenon DEF j1, j2

(* What one page of the body search does to the dictionary.                 *)
SearchedPage(size) == PageOf(DartRows(job.unit), job.unitPage, size)
SearchedRows(size) == RangeOf(SearchedPage(size)) \ RangeOf(job.cands)
SearchedLast == IsLastPage(DartRows(job.unit), job.unitPage, DartPageSize)
SearchedAway(size, shown) ==
  ~(shown \/ SearchedLast) \/ SearchedPage(size) # SearchedPage(DartPageSize)
SearchedUnit(size, shown) ==
  ~(shown \/ SearchedLast) \/ SearchedPage(size) = << >> \/ SearchedLast
Searched(j, cs, away, final) ==
  [j EXCEPT !.cands = @ \o cs,
            !.strayed = @ \/ away,
            !.unit = IF final THEN @ + 1 ELSE @,
            !.unitPage = IF final THEN 1 ELSE @ + 1]

LEMMA SearchSteps ==
  SearchPage =>
    \E size \in ServedSizes, shown \in Shows :
      \E new \in [1..Cardinality(SearchedRows(size)) -> SearchedRows(size)] :
        /\ Merges(new, job.cands, SearchedPage(size))
        /\ job' = Searched(job, new, SearchedAway(size, shown), SearchedUnit(size, shown))
  BY Zenon DEF SearchPage, Searched, SearchedPage, SearchedRows, SearchedLast, SearchedAway,
               SearchedUnit

LEMMA SearchType ==
  ASSUME NEW j \in States, NEW cs, j.cands \o cs \in Seq(Receipts), NEW away, NEW final
  PROVE  Searched(j, cs, away, final) \in States
  <1> DEFINE j0 == [j EXCEPT !.cands = j.cands \o cs]
             j1 == [j0 EXCEPT !.strayed = j0.strayed \/ away]
             j2 == [j1 EXCEPT !.unit = IF final THEN j1.unit + 1 ELSE j1.unit]
             j3 == [j2 EXCEPT !.unitPage = IF final THEN 1 ELSE j2.unitPage + 1]
  <1>0. j0 \in States
    BY DEF States
  <1> HIDE DEF j0
  <1>0a. (j0.strayed \/ away) \in BOOLEAN
    OBVIOUS
  <1>1. j1 \in States
    BY <1>0, <1>0a DEF States
  <1> HIDE DEF j1
  <1>2. (IF final THEN j1.unit + 1 ELSE j1.unit) \in Nat \ {0}
    BY <1>1 DEF States
  <1>3. j2 \in States
    BY <1>1, <1>2 DEF States
  <1> HIDE DEF j2
  <1>4. (IF final THEN 1 ELSE j2.unitPage + 1) \in Nat \ {0}
    BY <1>3 DEF States
  <1>5. j3 \in States
    BY <1>3, <1>4 DEF States
  <1>6. QED
    BY <1>5, Zenon DEF j0, j1, j2, Searched

LEMMA NewStateType == \A setting \in Settings : NewState(setting) \in States
  BY LimitsAssumption DEF NewState, States, Phases

(* The catalog and the filings published since make well-typed listings.    *)
LEMMA ListingType ==
  ASSUME TypeOK
  PROVE  /\ \A w \in Windows : Catalog[w] \in Seq(Receipts) /\ Rows(w) \in Seq(Receipts)
         /\ \A u \in Units : DartCatalog[u] \in Seq(Receipts) /\ DartRows(u) \in Seq(Receipts)
  <1>1. ASSUME NEW w \in Windows PROVE Catalog[w] \in Seq(Receipts) /\ Rows(w) \in Seq(Receipts)
    <2>1. Catalog[w] \in Seq(Receipts)
      BY ReceiptsAssumption, ElementOfSeq DEF Windows
    <2>2. fresh[w] \in Seq(Receipts)
      BY DEF TypeOK
    <2>3. QED
      BY <2>1, <2>2, ConcatProperties DEF Rows
  <1>2. ASSUME NEW u \in Units PROVE DartCatalog[u] \in Seq(Receipts) /\ DartRows(u) \in Seq(Receipts)
    <2>1. DartCatalog[u] \in Seq(Receipts)
      BY ReceiptsAssumption, ElementOfSeq DEF Units
    <2>2. dartFresh[u] \in Seq(Receipts)
      BY DEF TypeOK
    <2>3. QED
      BY <2>1, <2>2, ConcatProperties DEF DartRows
  <1>3. QED
    BY <1>1, <1>2

LEMMA SearchedType ==
  ASSUME TypeOK, job \in States, job.unit \in Units,
         NEW size \in ServedSizes \cup {DartPageSize}
  PROVE  SearchedPage(size) \in Seq(Receipts)
  <1>1. DartRows(job.unit) \in Seq(Receipts)
    BY ListingType
  <1>2. job.unitPage \in Nat \ {0} /\ size \in Nat \ {0}
    BY LimitsAssumption DEF States
  <1>3. QED
    BY <1>1, <1>2, SliceType DEF SearchedPage

(* Being in a segment, the server has a dictionary and a checkpoint.        *)
LEMMA SegmentTyped ==
  ASSUME TypeOK, pc \in Segment
  PROVE  job \in States /\ disk \in States
  BY DEF TypeOK

LEMMA RangeOfConcat ==
  ASSUME NEW a \in Seq(Receipts), NEW b \in Seq(Receipts)
  PROVE  RangeOf(a \o b) = RangeOf(a) \cup RangeOf(b)
  <1> DEFINE c == a \o b
  <1>1. /\ c \in Seq(Receipts) /\ Len(c) = Len(a) + Len(b)
        /\ \A i \in 1..Len(a) : c[i] = a[i]
        /\ \A i \in 1..Len(b) : c[Len(a) + i] = b[i]
        /\ Len(a) \in Nat /\ Len(b) \in Nat
        /\ \A i \in Len(a) + 1 .. Len(a) + Len(b) : c[i] = b[i - Len(a)] /\ i - Len(a) \in 1..Len(b)
    BY ConcatProperties
  <1> HIDE DEF c
  <1>2. DOMAIN c = 1..Len(c) /\ DOMAIN a = 1..Len(a) /\ DOMAIN b = 1..Len(b)
    BY <1>1
  <1>3. ASSUME NEW i \in DOMAIN c PROVE c[i] \in RangeOf(a) \cup RangeOf(b)
    <2>1. CASE i \in 1..Len(a)
      BY <1>1, <1>2, <2>1 DEF RangeOf
    <2>2. CASE i \in Len(a) + 1 .. Len(a) + Len(b)
      <3>1. i - Len(a) \in DOMAIN b /\ c[i] = b[i - Len(a)]
        BY <1>1, <1>2, <2>2
      <3>2. QED
        BY <3>1 DEF RangeOf
    <2>3. QED
      BY <1>1, <1>2, <2>1, <2>2
  <1>4. RangeOf(a) \subseteq RangeOf(c)
    BY <1>1, <1>2 DEF RangeOf
  <1>5. RangeOf(b) \subseteq RangeOf(c)
    <2>1. SUFFICES ASSUME NEW i \in 1..Len(b) PROVE b[i] \in RangeOf(c)
      BY <1>2 DEF RangeOf
    <2>2. Len(a) + i \in DOMAIN c /\ c[Len(a) + i] = b[i]
      BY <1>1, <1>2
    <2>3. QED
      BY <2>2 DEF RangeOf
  <1>6. RangeOf(c) \subseteq RangeOf(a) \cup RangeOf(b)
    BY <1>3 DEF RangeOf
  <1>7. QED
    BY <1>4, <1>5, <1>6 DEF c

(* The candidates of a further result page extend the sequence.             *)
LEMMA MergeType ==
  ASSUME NEW cands \in Seq(Receipts), NEW found \in Seq(Receipts), NEW added,
         added = RangeOf(found) \ RangeOf(cands),
         NEW new \in [1..Cardinality(added) -> added]
  PROVE  /\ new \in Seq(Receipts)
         /\ cands \o new \in Seq(Receipts)
         /\ RangeOf(cands \o new) = RangeOf(cands) \cup RangeOf(new)
  <1>1. IsFiniteSet(added)
    <2>1. DOMAIN found = 1..Len(found) /\ IsFiniteSet(DOMAIN found)
      BY FS_Interval
    <2>2. found \in Surjection(DOMAIN found, RangeOf(found))
      BY DEF Surjection, RangeOf
    <2>3. IsFiniteSet(RangeOf(found))
      BY <2>1, <2>2, FS_Surjection
    <2>4. QED
      BY <2>3, FS_Subset
  <1>2. Cardinality(added) \in Nat /\ added \subseteq Receipts
    BY <1>1, FS_CardinalityType DEF RangeOf
  <1>3. new \in Seq(Receipts)
    <2>1. new \in [1..Cardinality(added) -> Receipts]
      BY <1>2
    <2>2. QED
      BY <1>2, <2>1, SeqDef
  <1>4. RangeOf(cands \o new) = RangeOf(cands) \cup RangeOf(new)
    BY <1>3, RangeOfConcat
  <1>5. QED
    BY <1>3, <1>4, ConcatProperties

THEOREM InitTypeOK == Init => TypeOK
  <1> SUFFICES ASSUME Init PROVE TypeOK
    OBVIOUS
  <1>1. << >> \in Seq(Receipts)
    BY EmptySeq
  <1>2. fresh \in [Windows -> Seq(Receipts)] /\ dartFresh \in [Units -> Seq(Receipts)]
    BY <1>1 DEF Init
  <1>3. last \in BOOLEAN /\ told \in BOOLEAN
    BY Zenon DEF Init
  <1>4. QED
    BY <1>1, <1>2, <1>3, LimitsAssumption DEF Init, TypeOK, Segment

(* The page of the row loop is forgotten.                                   *)
LEMMA BlankType == BlankPage => rows' \in Seq(Receipts) /\ row' \in Nat /\ last' \in BOOLEAN
  <1>1. BlankPage => rows' \in Seq(Receipts) /\ row' \in Nat
    BY EmptySeq DEF BlankPage
  <1>2. BlankPage => last' \in BOOLEAN
    BY Zenon DEF BlankPage
  <1>3. QED
    BY <1>1, <1>2

LEMMA ReturnType ==
  ASSUME TypeOK, NEW tells \in BOOLEAN, Return(tells)
  PROVE  rows' \in Seq(Receipts) /\ row' \in Nat /\ last' \in BOOLEAN /\ told' \in BOOLEAN
  <1>1. told' \in BOOLEAN
    BY Zenon DEF Return, TypeOK
  <1>2. QED
    BY <1>1, BlankType, Zenon DEF Return

(* Type correctness is preserved by every step of the job and around it.    *)
THEOREM NextTypeOK == TypeOK /\ [Next]_vars => TypeOK'
  <1> SUFFICES ASSUME TypeOK, [Next]_vars PROVE TypeOK'
    OBVIOUS
  <1> USE DEF env, reading, store, Save, Segment
  <1>1. CASE Run
    <2>1. job' \in States /\ disk' = job' /\ pc' \in {"discover", "page"}
      BY <1>1, NewStateType DEF Run, Entry
    <2>2. QED
      BY <1>1, <2>1, NoJobAssumption DEF Run, TypeOK
  <1>2. CASE Continue
    BY <1>2, NoJobAssumption DEF Continue, Entry, TypeOK
  <1>3. CASE HealthOk
    <2>1. job \in States
      BY <1>3, SegmentTyped DEF HealthOk
    <2>2. job' \in States
      BY <1>3, <2>1, CheckedType, Zenon DEF HealthOk
    <2>3. QED
      BY <1>3, <2>2, NoJobAssumption DEF HealthOk, TypeOK
  <1>4. CASE DiscoveryFallsBack
    <2>1. job \in States
      BY <1>4, SegmentTyped DEF DiscoveryFallsBack
    <2>2. job' \in States
      BY <1>4, <2>1, FallbackType, Zenon DEF DiscoveryFallsBack
    <2>3. QED
      BY <1>4, <2>2, NoJobAssumption DEF DiscoveryFallsBack, TypeOK
  <1>5. CASE SearchPage
    <2>1. job \in States
      BY <1>5, SegmentTyped DEF SearchPage
    <2>2. PICK size \in ServedSizes, shown \in Shows :
            \E new \in [1..Cardinality(SearchedRows(size)) -> SearchedRows(size)] :
              job' = Searched(job, new, SearchedAway(size, shown), SearchedUnit(size, shown))
      BY <1>5, SearchSteps, Zenon
    <2> DEFINE found == SearchedPage(size)
               added == RangeOf(found) \ RangeOf(job.cands)
    <2>2a. PICK new \in [1..Cardinality(added) -> added] :
             job' = Searched(job, new, SearchedAway(size, shown), SearchedUnit(size, shown))
      BY <2>2, Zenon DEF SearchedRows
    <2>3. found \in Seq(Receipts)
      <3>1. job.unit \in Units
        BY <1>5, Zenon DEF SearchPage
      <3>2. QED
        BY <2>1, <3>1, SearchedType
    <2>4. job.cands \o new \in Seq(Receipts)
      <3>1. job.cands \in Seq(Receipts)
        BY <2>1 DEF States
      <3> HIDE DEF found
      <3>2. QED
        BY <2>3, <3>1, MergeType
    <2> HIDE DEF found, added
    <2>6. job' \in States
      BY <2>1, <2>2a, <2>4, SearchType, Zenon
    <2>7. QED
      BY <1>5, <2>6, NoJobAssumption DEF SearchPage, TypeOK
  <1>6. CASE DiscoveryDone
    <2>1. job \in States
      BY <1>6, SegmentTyped DEF DiscoveryDone
    <2>2. job' \in States
      BY <1>6, <2>1, VerificationType, Zenon DEF DiscoveryDone
    <2>3. QED
      BY <1>6, <2>2, NoJobAssumption DEF DiscoveryDone, TypeOK
  <1>7. CASE DiscoveryStops
    <2>1. job \in States
      BY <1>7, SegmentTyped DEF DiscoveryStops
    <2>2. rows' \in Seq(Receipts) /\ row' \in Nat /\ last' \in BOOLEAN /\ told' \in BOOLEAN
      BY <1>7, ReturnType, Zenon DEF DiscoveryStops
    <2>3. QED
      BY <1>7, <2>1, <2>2 DEF DiscoveryStops, Return, TypeOK
  <1>8. CASE FetchPage
    <2>1. job \in States
      BY <1>8, SegmentTyped DEF FetchPage
    <2>2. job.offset \in Nat /\ job.page \in Nat \ {0} /\ job.cands \in Seq(Receipts)
      BY <2>1 DEF States
    <2>3. job.phase # "dart_verification" => job.window \in Windows
      BY <1>8, <2>1 DEF FetchPage, Listed, WindowCount, Windows, States
    <2>4. rows' \in Seq(Receipts)
      BY <1>8, <2>2, <2>3, SliceType, ListingType, LimitsAssumption DEF FetchPage
    <2>5. row' \in Nat
      BY <1>8, <2>2 DEF FetchPage
    <2>6. last' \in BOOLEAN
      <3>1. CASE job.phase = "dart_verification"
        BY <1>8, <3>1, Zenon DEF FetchPage
      <3>2. CASE job.phase # "dart_verification"
        <4>1. last' = (Len(Rows(job.window)) <= PageStart(job.page, PageSize) + PageSize)
          BY <1>8, <3>2 DEF FetchPage, IsLastPage
        <4>2. QED
          BY <4>1
      <3>3. QED
        BY <3>1, <3>2
    <2>7. QED
      BY <1>8, <2>4, <2>5, <2>6 DEF FetchPage, TypeOK
  <1>9. CASE PageStops \/ PagesDone
    BY <1>9 DEF PageStops, PagesDone, TypeOK
  <1>10. CASE PageFinished
    <2>1. job \in States
      BY <1>10, SegmentTyped DEF PageFinished
    <2>2. last \in BOOLEAN
      BY DEF TypeOK
    <2>3. job' \in States
      BY <1>10, <2>1, <2>2, PageType, Zenon DEF PageFinished
    <2>4. QED
      BY <1>10, <2>3, BlankType, NoJobAssumption DEF PageFinished, TypeOK
  <1>11. CASE RowsStop \/ SkipRows
    <2>1. job \in States
      BY <1>11, SegmentTyped DEF RowsStop, SkipRows
    <2>2. row \in Nat /\ Len(rows) \in Nat
      BY DEF TypeOK
    <2>2a. job' \in States
      BY <1>11, <2>1, <2>2, OffsetType, Zenon DEF RowsStop, SkipRows
    <2>3. QED
      BY <1>11, <2>2, <2>2a, NoJobAssumption DEF RowsStop, SkipRows, TypeOK
  <1>12. CASE BatchSucceeds
    <2>1. job \in States
      BY <1>12, SegmentTyped DEF BatchSucceeds
    <2>2. PICK n \in row + 1 .. Len(rows) : \E kept \in SUBSET Evidence(Pending(n), {}) :
            LET after == [Judged(Pending(n), {}, {}, kept) EXCEPT !.offset = n] IN
            /\ disk' = after
            /\ row' = n
            /\ IF TargetMet(after)
               THEN /\ job' = [after EXCEPT !.window = WindowCount(after) + 1]
                    /\ pc' = "leave"
               ELSE job' = after /\ UNCHANGED pc
      BY <1>12, Zenon DEF BatchSucceeds
    <2>2a. PICK kept \in SUBSET Evidence(Pending(n), {}) :
            LET after == [Judged(Pending(n), {}, {}, kept) EXCEPT !.offset = n] IN
            /\ disk' = after
            /\ row' = n
            /\ IF TargetMet(after)
               THEN /\ job' = [after EXCEPT !.window = WindowCount(after) + 1]
                    /\ pc' = "leave"
               ELSE job' = after /\ UNCHANGED pc
      BY <2>2, Zenon
    <2> DEFINE after == [Judged(Pending(n), {}, {}, kept) EXCEPT !.offset = n]
    <2>3. n \in Nat /\ kept \in SUBSET Pending(n)
      BY DEF TypeOK, Evidence
    <2>4. after \in States
      BY <2>1, <2>3, JudgedType
    <2> HIDE DEF after
    <2>5. WindowCount(after) + 1 \in Nat \ {0}
      BY ReceiptsAssumption DEF WindowCount
    <2>6. [after EXCEPT !.window = WindowCount(after) + 1] \in States
      BY <2>4, <2>5, WindowType, Zenon
    <2>7. job' \in States /\ disk' \in States /\ pc' \in {"leave", pc} /\ row' \in Nat
      BY <2>2a, <2>3, <2>4, <2>6 DEF after
    <2>8. QED
      BY <1>12, <2>7, NoJobAssumption DEF BatchSucceeds, TypeOK
  <1>13. CASE BatchRewinds
    <2>1. job \in States
      BY <1>13, SegmentTyped DEF BatchRewinds
    <2>2. PICK n \in row + 1 .. Len(rows) : \E throttled \in SUBSET Pending(n) :
            \E failed \in SUBSET (Pending(n) \ throttled) :
            LET lost == Rewinding(Pending(n), throttled, failed) IN
            \E kept \in SUBSET Evidence(Pending(n), lost) : \E first \in lost :
               job' = [Judged(Pending(n), throttled, lost, kept) EXCEPT !.offset = first - 1]
      BY <1>13, Zenon DEF BatchRewinds
    <2>2a. PICK throttled \in SUBSET Pending(n) : \E failed \in SUBSET (Pending(n) \ throttled) :
            LET lost == Rewinding(Pending(n), throttled, failed) IN
            \E kept \in SUBSET Evidence(Pending(n), lost) : \E first \in lost :
               job' = [Judged(Pending(n), throttled, lost, kept) EXCEPT !.offset = first - 1]
      BY <2>2, Zenon
    <2>2b. PICK failed \in SUBSET (Pending(n) \ throttled) :
            LET lost == Rewinding(Pending(n), throttled, failed) IN
            \E kept \in SUBSET Evidence(Pending(n), lost) : \E first \in lost :
               job' = [Judged(Pending(n), throttled, lost, kept) EXCEPT !.offset = first - 1]
      BY <2>2a, Zenon
    <2> DEFINE lost == Rewinding(Pending(n), throttled, failed)
    <2>3. PICK kept \in SUBSET Evidence(Pending(n), lost), first \in lost :
               job' = [Judged(Pending(n), throttled, lost, kept) EXCEPT !.offset = first - 1]
      BY <2>2b
    <2>4. first \in Pending(n) /\ kept \in SUBSET Pending(n)
      BY <2>3 DEF Rewinding, Evidence
    <2>5. first - 1 \in Nat
      BY <2>4 DEF Pending, TypeOK
    <2>6. job' \in States
      BY <2>1, <2>3, <2>4, <2>5, JudgedType
    <2>7. QED
      BY <1>13, <2>6, NoJobAssumption DEF BatchRewinds, TypeOK
  <1>14. CASE BatchRaises
    <2>1. rows' \in Seq(Receipts) /\ row' \in Nat /\ last' \in BOOLEAN /\ told' \in BOOLEAN
      BY <1>14, ReturnType, Zenon DEF BatchRaises
    <2>2. pc' = "idle" /\ job' = NoJob
      BY <1>14, Zenon DEF BatchRaises, Return
    <2>3. UNCHANGED <<fresh, dartFresh, disk, records, audits, crashes>>
      BY <1>14 DEF BatchRaises
    <2>4. QED
      BY <2>1, <2>2, <2>3 DEF TypeOK
  <1>15. CASE Leave
    <2>1. job \in States
      BY <1>15, SegmentTyped DEF Leave
    <2>2. CASE Listed(job)
      BY <1>15, <2>1, <2>2, BlankType, NoJobAssumption DEF Leave, TypeOK
    <2>3. CASE ~Listed(job)
      <3>1. rows' \in Seq(Receipts) /\ row' \in Nat /\ last' \in BOOLEAN /\ told' \in BOOLEAN
        BY <1>15, <2>3, ReturnType, Zenon DEF Leave
      <3>2. QED
        BY <1>15, <2>1, <2>3, <3>1 DEF Leave, Return, TypeOK
    <2>4. QED
      BY <2>2, <2>3
  <1>16. CASE SaveRecord
    <2>1. job \in States
      BY <1>16, SegmentTyped DEF SaveRecord
    <2>2. [results |-> job.results, count |-> job.count, skipped |-> job.skipped,
           done |-> job.done] \in Record
      BY <2>1 DEF States, Record
    <2>3. QED
      BY <1>16, <2>2 DEF SaveRecord, TypeOK
  <1>17. CASE AppendAudit
    BY <1>17 DEF AppendAudit, TypeOK
  <1>18. CASE DeleteCheckpoint
    <2>1. told' \in BOOLEAN
      BY <1>18, Zenon DEF DeleteCheckpoint
    <2>2. QED
      BY <1>18, <2>1, BlankType DEF DeleteCheckpoint, TypeOK
  <1>19. CASE Crash
    <2>1. rows' \in Seq(Receipts) /\ row' \in Nat /\ last' \in BOOLEAN /\ told' \in BOOLEAN
      BY <1>19, ReturnType, Zenon DEF Crash
    <2>2. crashes' \in 0..MaxCrashes
      BY <1>19, LimitsAssumption DEF Crash, TypeOK
    <2>3. QED
      BY <1>19, <2>1, <2>2 DEF Crash, Return, TypeOK
  <1>20. CASE Expire
    BY <1>20 DEF Expire, TypeOK
  <1>21. CASE Publish
    <2>1. PICK r \in Receipts :
            /\ fresh' = [fresh EXCEPT ![1] = <<r>> \o @]
            /\ \E units \in SUBSET LiveUnits :
                 dartFresh' = [u \in Units |-> IF u \in units THEN <<r>> \o dartFresh[u]
                                                              ELSE dartFresh[u]]
      BY <1>21, Zenon DEF Publish
    <2>1a. <<r>> \in Seq(Receipts)
      OBVIOUS
    <2>1b. \A s \in Seq(Receipts) : <<r>> \o s \in Seq(Receipts)
      BY <2>1a, ConcatProperties
    <2>2. fresh' \in [Windows -> Seq(Receipts)]
      BY <2>1, <2>1b DEF TypeOK
    <2>2a. dartFresh' \in [Units -> Seq(Receipts)]
      BY <2>1, <2>1b DEF TypeOK
    <2>3. QED
      BY <1>21, <2>2, <2>2a DEF Publish, TypeOK
  <1>22. CASE Terminated \/ UNCHANGED vars
    BY <1>22 DEF Terminated, vars, TypeOK
  <1>23. QED
    BY <1>1, <1>2, <1>3, <1>4, <1>5, <1>6, <1>7, <1>8, <1>9, <1>10, <1>11, <1>12, <1>13,
       <1>14, <1>15, <1>16, <1>17, <1>18, <1>19, <1>20, <1>21, <1>22 DEF Next

(* The job, its checkpoint and its records are always well-typed, and a     *)
(* running segment always has a checkpoint to restart from.                 *)
THEOREM TypeCorrect == Spec => []TypeOK
  BY InitTypeOK, NextTypeOK, PTL DEF Spec

-----------------------------------------------------------------------------
(* No filing is lost.                                                       *)

LEMMA CatalogTyped ==
  /\ \A w \in Windows : /\ Catalog[w] \in Seq(Receipts)
                        /\ DOMAIN Catalog[w] = 1..Len(Catalog[w]) /\ Len(Catalog[w]) \in Nat
  /\ \A u \in Units : /\ DartCatalog[u] \in Seq(Receipts)
                      /\ DOMAIN DartCatalog[u] = 1..Len(DartCatalog[u]) /\ Len(DartCatalog[u]) \in Nat
  /\ Windows \subseteq Nat \ {0} /\ Units \subseteq Nat \ {0}
  /\ 1 \in Windows
  <1>1. \A w \in Windows : Catalog[w] \in Seq(Receipts)
    BY ReceiptsAssumption, ElementOfSeq DEF Windows
  <1>2. \A u \in Units : DartCatalog[u] \in Seq(Receipts)
    BY ReceiptsAssumption, ElementOfSeq DEF Units
  <1>3. Len(Catalog) \in Nat \ {0} /\ Len(DartCatalog) \in Nat
    BY ReceiptsAssumption
  <1>4. Windows \subseteq Nat \ {0} /\ Units \subseteq Nat \ {0} /\ 1 \in Windows
    BY <1>3 DEF Windows, Units
  <1>5. QED
    BY <1>1, <1>2, <1>4

LEMMA FirstPage == \A size \in Nat : PageStart(1, size) = 0
  BY DEF PageStart

(* At the beginning of the windows, or of the body search, nothing is       *)
(* behind the cursor.                                                       *)
LEMMA ListStart ==
  ASSUME NEW f \in [Windows -> Seq(Receipts)], NEW j,
         j.window = 1, j.page = 1, j.offset = 0
  PROVE  ListCovered(f, j)
  <1>1. SUFFICES ASSUME NEW w \in Windows, NEW i \in DOMAIN Catalog[w]
                 PROVE  ~(w < 1) /\ ~(Len(f[w]) + i <= PageStart(1, PageSize) + 0)
    BY DEF ListCovered
  <1>2. w \in Nat \ {0} /\ i \in Nat \ {0} /\ Len(f[w]) \in Nat
    BY CatalogTyped
  <1>3. PageStart(1, PageSize) = 0
    BY FirstPage, LimitsAssumption
  <1>4. QED
    BY <1>2, <1>3

LEMMA FoundStart ==
  ASSUME NEW df \in [Units -> Seq(Receipts)], NEW j, j.unit = 1, j.unitPage = 1
  PROVE  Found(df, j)
  <1>1. SUFFICES ASSUME NEW u \in Units, NEW i \in DOMAIN DartCatalog[u]
                 PROVE  ~(u < 1) /\ ~(Len(df[u]) + i <= PageStart(1, DartPageSize))
    BY DEF Found
  <1>2. u \in Nat \ {0} /\ i \in Nat \ {0} /\ Len(df[u]) \in Nat
    BY CatalogTyped
  <1>3. PageStart(1, DartPageSize) = 0
    BY FirstPage, LimitsAssumption
  <1>4. QED
    BY <1>2, <1>3

LEMMA NewStateCovered ==
  ASSUME NEW f \in [Windows -> Seq(Receipts)], NEW df \in [Units -> Seq(Receipts)],
         NEW setting
  PROVE  /\ Covered(f, df, NewState(setting))
         /\ NewState(setting).phase = IF UseDart THEN "dart_discovery" ELSE "opendart_discovery"
  <1> DEFINE j == NewState(setting)
  <1>1. /\ j.window = 1 /\ j.page = 1 /\ j.offset = 0 /\ j.unit = 1 /\ j.unitPage = 1
        /\ j.phase = IF UseDart THEN "dart_discovery" ELSE "opendart_discovery"
    BY DEF NewState
  <1> HIDE DEF j
  <1>2. ListCovered(f, j) /\ Found(df, j)
    BY <1>1, ListStart, FoundStart
  <1>3. j.phase # "dart_verification"
    BY <1>1
  <1>4. QED
    BY <1>1, <1>2, <1>3 DEF Covered, j

(* What the changes of phase leave alone.                                   *)
LEMMA StartFields ==
  ASSUME NEW j \in States, NEW ph
  PROVE  LET k == [j EXCEPT !.phase = ph, !.window = 1, !.page = 1, !.offset = 0]
         IN  /\ k.phase = ph /\ k.window = 1 /\ k.page = 1 /\ k.offset = 0
             /\ k.unit = j.unit /\ k.unitPage = j.unitPage /\ k.cands = j.cands /\ k.strayed = j.strayed
             /\ k.done = j.done /\ k.count = j.count /\ k.results = j.results
  BY DEF States

LEMMA FoundSame ==
  ASSUME NEW df, NEW j, NEW k, Found(df, j),
         k.unit = j.unit, k.unitPage = j.unitPage, k.cands = j.cands, k.strayed = j.strayed
  PROVE  Found(df, k)
  BY DEF Found

LEMMA FallbackCovered ==
  ASSUME NEW f \in [Windows -> Seq(Receipts)], NEW df \in [Units -> Seq(Receipts)],
         NEW j \in States, Covered(f, df, j)
  PROVE  Covered(f, df, Fallback(j)) /\ Fallback(j).phase = "opendart_discovery"
  <1> DEFINE k == Fallback(j)
  <1>1. /\ k.phase = "opendart_discovery" /\ k.window = 1 /\ k.page = 1 /\ k.offset = 0
        /\ k.unit = j.unit /\ k.unitPage = j.unitPage /\ k.cands = j.cands /\ k.strayed = j.strayed
    BY StartFields, Zenon DEF Fallback
  <1> HIDE DEF k
  <1>2. ListCovered(f, k)
    BY <1>1, ListStart
  <1>3. Found(df, k)
    BY <1>1, FoundSame DEF Covered
  <1>4. QED
    BY <1>1, <1>2, <1>3 DEF Covered, k

(* At the end of the discovery the verification starts with every candidate *)
(* before it.                                                               *)
LEMMA VerificationCovered ==
  ASSUME NEW f, NEW df, NEW j \in States, Covered(f, df, j), j.unit \notin Units
  PROVE  LET k == [j EXCEPT !.phase = "dart_verification", !.window = 1, !.page = 1, !.offset = 0]
         IN  Covered(f, df, k) /\ k.phase = "dart_verification"
  <1> DEFINE k == [j EXCEPT !.phase = "dart_verification", !.window = 1, !.page = 1, !.offset = 0]
  <1>1. /\ k.phase = "dart_verification" /\ k.window = 1 /\ k.page = 1 /\ k.offset = 0
        /\ k.unit = j.unit /\ k.unitPage = j.unitPage /\ k.cands = j.cands /\ k.strayed = j.strayed
    BY StartFields, Zenon
  <1>2. j.cands \in Seq(Receipts)
    BY DEF States
  <1> HIDE DEF k
  <1>3. CandsCovered(Newcomers(f, df), k)
    BY <1>1, <1>2 DEF CandsCovered
  <1>4. Found(df, k)
    BY <1>1, FoundSame DEF Covered
  <1>5. Covered(f, df, k)
    BY <1>1, <1>3, <1>4 DEF Covered
  <1>6. QED
    BY <1>1, <1>5 DEF k

LEMMA CheckedCovered ==
  ASSUME NEW f, NEW df, NEW j \in States, Covered(f, df, j)
  PROVE  LET k == [j EXCEPT !.checked = TRUE]
         IN  Covered(f, df, k) /\ k.phase = j.phase
  <1> DEFINE k == [j EXCEPT !.checked = TRUE]
  <1>1. /\ k.phase = j.phase /\ k.window = j.window /\ k.page = j.page /\ k.offset = j.offset
        /\ k.unit = j.unit /\ k.unitPage = j.unitPage /\ k.cands = j.cands /\ k.strayed = j.strayed
        /\ k.done = j.done /\ k.count = j.count
    BY DEF States
  <1> HIDE DEF k
  <1>1a. Found(df, k)
    BY <1>1, FoundSame DEF Covered
  <1>2. Covered(f, df, k)
    BY <1>1, <1>1a DEF Covered, ListCovered, CandsCovered, TargetMet
  <1>3. QED
    BY <1>1, <1>2 DEF k

(* A row of a listing is on the page its position says.                     *)
LEMMA SliceMember ==
  ASSUME NEW s \in Seq(Receipts), NEW p \in Nat \ {0}, NEW size \in Nat \ {0},
         NEW q \in 1..Len(s), PageStart(p, size) < q, q <= PageStart(p, size) + size
  PROVE  /\ q - PageStart(p, size) \in 1..Len(PageOf(s, p, size))
         /\ PageOf(s, p, size)[q - PageStart(p, size)] = s[q]
         /\ s[q] \in RangeOf(PageOf(s, p, size))
  <1> DEFINE start == PageStart(p, size)
             slice == PageOf(s, p, size)
  <1>1. /\ start \in Nat /\ slice \in Seq(Receipts)
        /\ Len(slice) = IF start >= Len(s) THEN 0 ELSE Smaller(start + size, Len(s)) - start
        /\ \A k \in 1..Len(slice) : slice[k] = s[start + k]
    BY SliceType
  <1>2. start < q /\ q <= start + size
    OBVIOUS
  <1> HIDE DEF start, slice
  <1>3. q - start \in 1..Len(slice) /\ start + (q - start) = q
    BY <1>1, <1>2 DEF Smaller
  <1>4. slice[q - start] = s[q]
    BY <1>1, <1>3
  <1>5. s[q] \in RangeOf(slice)
    BY <1>1, <1>3, <1>4 DEF RangeOf
  <1>6. QED
    BY <1>3, <1>4, <1>5 DEF start, slice

LEMMA PageStartNat == \A p \in Nat \ {0}, size \in Nat \ {0} : PageStart(p, size) \in Nat
  BY DEF PageStart

LEMMA NextPage ==
  \A p \in Nat \ {0}, size \in Nat \ {0} : PageStart(p + 1, size) = PageStart(p, size) + size
  BY DEF PageStart

(* The filings listed at approval follow those published since.             *)
LEMMA CatalogPlace ==
  ASSUME NEW a \in Seq(Receipts), NEW b \in Seq(Receipts), NEW i \in 1..Len(b)
  PROVE  /\ Len(a) + i \in 1..Len(a \o b) /\ (a \o b)[Len(a) + i] = b[i]
         /\ Len(a) \in Nat /\ Len(b) \in Nat /\ Len(a \o b) = Len(a) + Len(b)
  <1>1. /\ Len(a \o b) = Len(a) + Len(b) /\ Len(a) \in Nat /\ Len(b) \in Nat
        /\ (a \o b)[Len(a) + i] = b[i]
    BY ConcatProperties
  <1>2. QED
    BY <1>1

(* Such a filing is behind the page, on it, or after a page that is not the *)
(* last.                                                                    *)
LEMMA PageRow ==
  ASSUME NEW a \in Seq(Receipts), NEW b \in Seq(Receipts), NEW i \in 1..Len(b),
         NEW p \in Nat \ {0}, NEW size \in Nat \ {0}, PageStart(p, size) < Len(a) + i,
         IsLastPage(a \o b, p, size) \/ Len(a) + i <= PageStart(p, size) + size
  PROVE  /\ (Len(a) + i) - PageStart(p, size) \in 1..Len(PageOf(a \o b, p, size))
         /\ PageOf(a \o b, p, size)[(Len(a) + i) - PageStart(p, size)] = b[i]
         /\ b[i] \in RangeOf(PageOf(a \o b, p, size))
  <1> DEFINE s == a \o b
             q == Len(a) + i
             start == PageStart(p, size)
  <1>1. q \in 1..Len(s) /\ s[q] = b[i] /\ Len(s) \in Nat
    BY CatalogPlace
  <1>2. s \in Seq(Receipts)
    BY ConcatProperties
  <1>3. start \in Nat
    BY DEF PageStart
  <1>4. IsLastPage(s, p, size) => Len(s) <= start + size
    BY DEF IsLastPage
  <1>5. start < q /\ (IsLastPage(s, p, size) \/ q <= start + size)
    OBVIOUS
  <1> HIDE DEF s, q, start
  <1>6. q <= start + size
    BY <1>1, <1>3, <1>4, <1>5
  <1>7. /\ q - PageStart(p, size) \in 1..Len(PageOf(s, p, size))
        /\ PageOf(s, p, size)[q - PageStart(p, size)] = s[q]
        /\ s[q] \in RangeOf(PageOf(s, p, size))
    BY <1>1, <1>2, <1>5, <1>6, SliceMember DEF start
  <1>8. /\ q - PageStart(p, size) \in 1..Len(PageOf(s, p, size))
        /\ PageOf(s, p, size)[q - PageStart(p, size)] = b[i]
        /\ b[i] \in RangeOf(PageOf(s, p, size))
    BY <1>1, <1>7, Zenon
  <1>9. QED
    BY <1>8, Zenon DEF s, q

(* One page of the body search: its rows become candidates.                 *)
LEMMA SearchFound ==
  ASSUME NEW df \in [Units -> Seq(Receipts)], NEW j \in States, Found(df, j), ~j.strayed,
         j.unit \in Units, NEW i \in DOMAIN DartCatalog[j.unit],
         \/ IsLastPage(df[j.unit] \o DartCatalog[j.unit], j.unitPage, DartPageSize)
         \/ Len(df[j.unit]) + i <= PageStart(j.unitPage, DartPageSize) + DartPageSize
  PROVE  DartCatalog[j.unit][i] \in
           RangeOf(j.cands)
             \cup RangeOf(PageOf(df[j.unit] \o DartCatalog[j.unit], j.unitPage, DartPageSize))
  <1> DEFINE start == PageStart(j.unitPage, DartPageSize)
  <1>1. j.unit \in Nat \ {0} /\ j.unitPage \in Nat \ {0} /\ DartPageSize \in Nat \ {0}
    BY LimitsAssumption DEF States
  <1>2. start \in Nat
    BY <1>1, PageStartNat
  <1>3. /\ df[j.unit] \in Seq(Receipts) /\ DartCatalog[j.unit] \in Seq(Receipts)
        /\ i \in 1..Len(DartCatalog[j.unit])
    BY CatalogTyped
  <1>4. Len(df[j.unit]) + i \in Int
    BY <1>3
  <1>5. CASE Len(df[j.unit]) + i <= start
    BY <1>5 DEF Found
  <1>6. CASE start < Len(df[j.unit]) + i
    BY <1>1, <1>3, <1>6, PageRow, Zenon
  <1>7. QED
    BY <1>2, <1>4, <1>5, <1>6

LEMMA SearchCovered ==
  ASSUME NEW df \in [Units -> Seq(Receipts)], NEW j \in States, Found(df, j), ~j.strayed,
         j.unit \in Units, NEW final, NEW k, RangeOf(j.cands) \subseteq RangeOf(k.cands),
         \A i \in DOMAIN DartCatalog[j.unit] :
           final \/ Len(df[j.unit]) + i <= PageStart(j.unitPage, DartPageSize) + DartPageSize
             => DartCatalog[j.unit][i] \in RangeOf(k.cands),
         k.unit = (IF final THEN j.unit + 1 ELSE j.unit),
         k.unitPage = (IF final THEN 1 ELSE j.unitPage + 1)
  PROVE  Found(df, k)
  <1> DEFINE start == PageStart(j.unitPage, DartPageSize)
  <1>1. /\ k.unit = (IF final THEN j.unit + 1 ELSE j.unit)
        /\ k.unitPage = (IF final THEN 1 ELSE j.unitPage + 1)
    OBVIOUS
  <1>2. /\ j.unit \in Nat \ {0} /\ j.unitPage \in Nat \ {0} /\ DartPageSize \in Nat \ {0}
    BY LimitsAssumption DEF States
  <1>3. RangeOf(j.cands) \subseteq RangeOf(k.cands)
    OBVIOUS
  <1>4. start \in Nat /\ PageStart(j.unitPage + 1, DartPageSize) = start + DartPageSize
    BY <1>2, PageStartNat, NextPage
  <1>5. \A i \in DOMAIN DartCatalog[j.unit] :
          final \/ Len(df[j.unit]) + i <= start + DartPageSize
            => DartCatalog[j.unit][i] \in RangeOf(k.cands)
    OBVIOUS
  <1> HIDE DEF start
  <1>6. ASSUME NEW u \in Units, NEW i \in DOMAIN DartCatalog[u],
               u < k.unit \/ (u = k.unit /\ Len(df[u]) + i <= PageStart(k.unitPage, DartPageSize))
        PROVE  DartCatalog[u][i] \in RangeOf(k.cands)
    <2>1. u \in Nat \ {0} /\ i \in Nat \ {0} /\ Len(df[u]) \in Nat
      BY CatalogTyped
    <2>2. CASE u < j.unit
      BY <1>3, <2>2 DEF Found
    <2>3. CASE u = j.unit
      <3>1. final \/ Len(df[u]) + i <= start + DartPageSize
        <4>1. CASE ~final
          <5>1. k.unit = j.unit /\ k.unitPage = j.unitPage + 1
            BY <1>1, <4>1
          <5>2. ~(u < k.unit)
            BY <1>2, <2>3, <5>1
          <5>3. QED
            BY <1>4, <1>6, <5>1, <5>2
        <4>2. QED
          BY <4>1
      <3>2. QED
        BY <1>5, <2>3, <3>1
    <2>4. CASE j.unit < u
      <3>1. u = k.unit /\ k.unitPage = 1
        BY <1>1, <1>2, <1>6, <2>1, <2>4
      <3>2. PageStart(k.unitPage, DartPageSize) = 0
        BY <3>1, FirstPage, LimitsAssumption
      <3>3. QED
        BY <1>6, <2>1, <3>1, <3>2
    <2>5. QED
      BY <1>2, <2>1, <2>2, <2>3, <2>4
  <1>7. QED
    BY <1>6 DEF Found

(* A page that the row loop has just received.                              *)
LEMMA FetchVerification ==
  ASSUME NEW f, NEW df, NEW j \in States, j.phase = "dart_verification",
         CandsCovered(Newcomers(f, df), j)
  PROVE  PageCovered(f, df, j, j.cands, j.offset, TRUE)
  BY DEF PageCovered, CandsCovered

LEMMA SliceLength ==
  ASSUME NEW s \in Seq(Receipts), NEW p \in Nat \ {0}, NEW size \in Nat \ {0}
  PROVE  /\ Len(PageOf(s, p, size)) \in Nat /\ Len(PageOf(s, p, size)) <= size
         /\ ~IsLastPage(s, p, size) => Len(PageOf(s, p, size)) = size
  <1> DEFINE start == PageStart(p, size)
             slice == PageOf(s, p, size)
  <1>1. /\ start \in Nat /\ slice \in Seq(Receipts)
        /\ Len(slice) = IF start >= Len(s) THEN 0 ELSE Smaller(start + size, Len(s)) - start
    BY SliceType
  <1>2. ~IsLastPage(s, p, size) => Len(s) > start + size
    BY <1>1 DEF IsLastPage
  <1> HIDE DEF start, slice
  <1>3. Len(slice) \in Nat /\ Len(slice) <= size /\ (~IsLastPage(s, p, size) => Len(slice) = size)
    BY <1>1, <1>2 DEF Smaller
  <1>4. QED
    BY <1>3 DEF slice

(* A page without rows is behind the last row.                              *)
LEMMA SearchedNone ==
  ASSUME TypeOK, job \in States, job.unit \in Units, SearchedPage(DartPageSize) = << >>
  PROVE  SearchedLast
  <1>1. DartRows(job.unit) \in Seq(Receipts)
    BY ListingType
  <1>2. job.unitPage \in Nat \ {0} /\ DartPageSize \in Nat \ {0}
    BY LimitsAssumption DEF States
  <1>3. Len(SearchedPage(DartPageSize)) = 0
    OBVIOUS
  <1>4. ~SearchedLast => Len(SearchedPage(DartPageSize)) = DartPageSize
    BY <1>1, <1>2, SliceLength DEF SearchedPage, SearchedLast
  <1>5. QED
    BY <1>2, <1>3, <1>4

LEMMA FetchRows ==
  ASSUME NEW a \in Seq(Receipts), NEW b \in Seq(Receipts), NEW p \in Nat \ {0},
         NEW size \in Nat \ {0}, NEW o \in Nat, NEW done, NEW new, RangeOf(a) \subseteq new,
         \A i \in 1..Len(b) : Len(a) + i <= PageStart(p, size) + o => b[i] \in done
  PROVE  LET slice == PageOf(a \o b, p, size)
             final == IsLastPage(a \o b, p, size)
         IN  /\ \A m \in DOMAIN slice : m <= o => slice[m] \in done \cup new
             /\ \A i \in 1..Len(b) :
                  /\ \A k \in 0..Len(slice) :
                       Len(a) + i <= PageStart(p, size) + k =>
                         b[i] \in done \cup {slice[m] : m \in 1..k}
                  /\ final => b[i] \in done \cup RangeOf(slice)
                  /\ ~final => Len(slice) = size
  <1> DEFINE s == a \o b
             start == PageStart(p, size)
             slice == PageOf(s, p, size)
             final == IsLastPage(s, p, size)
  <1>1. /\ s \in Seq(Receipts) /\ Len(s) = Len(a) + Len(b) /\ Len(a) \in Nat /\ Len(b) \in Nat
        /\ \A q \in 1..Len(a) : s[q] = a[q]
        /\ \A i \in 1..Len(b) : s[Len(a) + i] = b[i]
    BY ConcatProperties
  <1>2. start \in Nat
    BY PageStartNat
  <1>3. \A i \in 1..Len(b) : start < Len(a) + i /\ (final \/ Len(a) + i <= start + size) =>
          /\ (Len(a) + i) - start \in 1..Len(slice) /\ slice[(Len(a) + i) - start] = b[i]
          /\ b[i] \in RangeOf(slice)
    <2> SUFFICES ASSUME NEW i \in 1..Len(b), start < Len(a) + i,
                        final \/ Len(a) + i <= start + size
                 PROVE  /\ (Len(a) + i) - start \in 1..Len(slice)
                        /\ slice[(Len(a) + i) - start] = b[i]
                        /\ b[i] \in RangeOf(slice)
      BY Zenon
    <2>1. QED
      BY PageRow, Zenon
  <1>4. \A i \in 1..Len(b) : Len(a) + i <= start + o => b[i] \in done
    OBVIOUS
  <1> HIDE DEF s, start
  <1>5. /\ slice \in Seq(Receipts) /\ \A m \in 1..Len(slice) : slice[m] = s[start + m]
        /\ Len(slice) = IF start >= Len(s) THEN 0 ELSE Smaller(start + size, Len(s)) - start
    BY <1>1, SliceType DEF start
  <1>6. Len(slice) \in Nat /\ Len(slice) <= size /\ (~final => Len(slice) = size)
    BY <1>1, SliceLength
  <1> HIDE DEF slice, final
  <1>7. DOMAIN slice = 1..Len(slice) /\ \A m \in 1..Len(slice) : start + m <= Len(s)
    <2>1. ASSUME NEW m \in 1..Len(slice) PROVE start + m <= Len(s)
      <3>1. Len(s) \in Nat
        BY <1>1
      <3>2. QED
        BY <1>2, <1>5, <1>6, <2>1, <3>1 DEF Smaller
    <2>2. QED
      BY <1>5, <2>1
  <1>8. ASSUME NEW m \in 1..Len(slice), m <= o
        PROVE  slice[m] \in done \cup new
    <2>1. slice[m] = s[start + m] /\ start + m <= Len(a) + Len(b) /\ start + m \in Nat \ {0}
      BY <1>1, <1>2, <1>5, <1>7
    <2>2. CASE start + m <= Len(a)
      <3>1. start + m \in 1..Len(a) /\ s[start + m] = a[start + m]
        BY <1>1, <2>1, <2>2
      <3>2. a[start + m] \in RangeOf(a)
        BY <3>1 DEF RangeOf
      <3>3. QED
        BY <2>1, <3>1, <3>2
    <2>3. CASE start + m > Len(a)
      <3>1. PICK i \in 1..Len(b) : Len(a) + i = start + m
        <4>1. (start + m) - Len(a) \in 1..Len(b) /\ Len(a) + ((start + m) - Len(a)) = start + m
          BY <1>1, <2>1, <2>3
        <4>2. QED
          BY <4>1
      <3>2. Len(a) + i <= start + o
        BY <1>1, <1>2, <1>8, <3>1
      <3>3. s[Len(a) + i] = b[i]
        BY <1>1
      <3>4. QED
        BY <1>4, <2>1, <3>1, <3>2, <3>3
    <2>4. QED
      BY <1>1, <2>1, <2>2, <2>3
  <1>9. ASSUME NEW i \in 1..Len(b), NEW k \in 0..Len(slice), Len(a) + i <= start + k
        PROVE  b[i] \in done \cup {slice[m] : m \in 1..k}
    <2>1. CASE Len(a) + i <= start
      <3>1. Len(a) + i <= start + o
        BY <1>1, <1>2, <2>1
      <3>2. QED
        BY <1>4, <3>1
    <2>2. CASE start < Len(a) + i
      <3>1. Len(a) + i <= start + size
        BY <1>1, <1>2, <1>6, <1>9
      <3>2. slice[(Len(a) + i) - start] = b[i]
        BY <1>3, <2>2, <3>1
      <3>3. (Len(a) + i) - start \in 1..k
        BY <1>1, <1>2, <1>6, <1>9, <2>2
      <3>4. QED
        BY <3>2, <3>3
    <2>3. QED
      BY <1>1, <1>2, <2>1, <2>2
  <1>10. ASSUME NEW i \in 1..Len(b), final
         PROVE  b[i] \in done \cup RangeOf(slice)
    <2>1. CASE Len(a) + i <= start
      <3>1. Len(a) + i <= start + o
        BY <1>1, <1>2, <2>1
      <3>2. QED
        BY <1>4, <3>1
    <2>2. CASE start < Len(a) + i
      BY <1>3, <1>10, <2>2
    <2>3. QED
      BY <1>1, <1>2, <2>1, <2>2
  <1>11. /\ \A m \in DOMAIN slice : m <= o => slice[m] \in done \cup new
         /\ \A i \in 1..Len(b) :
              /\ \A k \in 0..Len(slice) :
                   Len(a) + i <= start + k => b[i] \in done \cup {slice[m] : m \in 1..k}
              /\ final => b[i] \in done \cup RangeOf(slice)
              /\ ~final => Len(slice) = size
    BY <1>6, <1>7, <1>8, <1>9, <1>10
  <1>12. QED
    BY <1>11, Zenon DEF s, start, slice, final

LEMMA FetchWindow ==
  ASSUME NEW f \in [Windows -> Seq(Receipts)], NEW df, NEW j \in States,
         j.phase = "opendart_discovery", j.window \in Windows, ListCovered(f, j)
  PROVE  PageCovered(f, df, j, PageOf(f[j.window] \o Catalog[j.window], j.page, PageSize),
                     j.offset, IsLastPage(f[j.window] \o Catalog[j.window], j.page, PageSize))
  <1>1. j.page \in Nat \ {0} /\ PageSize \in Nat \ {0} /\ j.offset \in Nat
    BY LimitsAssumption DEF States
  <1>2. /\ f[j.window] \in Seq(Receipts) /\ Catalog[j.window] \in Seq(Receipts)
        /\ DOMAIN Catalog[j.window] = 1..Len(Catalog[j.window])
    BY CatalogTyped
  <1>3. RangeOf(f[j.window]) \subseteq Newcomers(f, df)
    BY Zenon DEF Newcomers
  <1>4. \A i \in 1..Len(Catalog[j.window]) :
          Len(f[j.window]) + i <= PageStart(j.page, PageSize) + j.offset =>
            Catalog[j.window][i] \in j.done
    BY <1>2, Zenon DEF ListCovered
  <1> DEFINE slice == PageOf(f[j.window] \o Catalog[j.window], j.page, PageSize)
             final == IsLastPage(f[j.window] \o Catalog[j.window], j.page, PageSize)
  <1>5. /\ \A m \in DOMAIN slice : m <= j.offset => slice[m] \in j.done \cup Newcomers(f, df)
        /\ \A i \in 1..Len(Catalog[j.window]) :
             /\ \A k \in 0..Len(slice) :
                  Len(f[j.window]) + i <= PageStart(j.page, PageSize) + k =>
                    Catalog[j.window][i] \in j.done \cup {slice[m] : m \in 1..k}
             /\ final => Catalog[j.window][i] \in j.done \cup RangeOf(slice)
             /\ ~final => Len(slice) = PageSize
    <2> DEFINE a == f[j.window]
               b == Catalog[j.window]
               done == j.done
               new == Newcomers(f, df)
               p == j.page
               o == j.offset
    <2>1. /\ a \in Seq(Receipts) /\ b \in Seq(Receipts) /\ p \in Nat \ {0} /\ o \in Nat
          /\ PageSize \in Nat \ {0} /\ RangeOf(a) \subseteq new
          /\ \A i \in 1..Len(b) : Len(a) + i <= PageStart(p, PageSize) + o => b[i] \in done
      BY <1>1, <1>2, <1>3, <1>4
    <2> HIDE DEF a, b, done, new, p, o
    <2>2. /\ \A m \in DOMAIN PageOf(a \o b, p, PageSize) :
                m <= o => PageOf(a \o b, p, PageSize)[m] \in done \cup new
          /\ \A i \in 1..Len(b) :
               /\ \A k \in 0..Len(PageOf(a \o b, p, PageSize)) :
                    Len(a) + i <= PageStart(p, PageSize) + k =>
                      b[i] \in done \cup {PageOf(a \o b, p, PageSize)[m] : m \in 1..k}
               /\ IsLastPage(a \o b, p, PageSize) =>
                    b[i] \in done \cup RangeOf(PageOf(a \o b, p, PageSize))
               /\ ~IsLastPage(a \o b, p, PageSize) => Len(PageOf(a \o b, p, PageSize)) = PageSize
      BY <2>1, FetchRows
    <2>3. QED
      BY <2>2, Zenon DEF a, b, done, new, p, o
  <1> HIDE DEF slice, final
  <1>6. PageCovered(f, df, j, slice, j.offset, final)
    BY <1>2, <1>5, Zenon DEF PageCovered
  <1>7. QED
    BY <1>6, Zenon DEF slice, final

(* A filing is in a catalog when it is a row of one of its listings.        *)
LEMMA CatalogMember ==
  /\ \A w \in Windows : \A i \in DOMAIN Catalog[w] : Catalog[w][i] \in CatalogRows
  /\ \A S : (\A w \in Windows : \A i \in DOMAIN Catalog[w] : Catalog[w][i] \in S)
            => CatalogRows \subseteq S
  /\ \A S : (\A u \in Units : \A i \in DOMAIN DartCatalog[u] : DartCatalog[u][i] \in S)
            => DartCatalogRows \subseteq S
  <1>1. \A w \in Windows : \A i \in DOMAIN Catalog[w] : Catalog[w][i] \in CatalogRows
    <2>1. \A w \in Windows : \A i \in DOMAIN Catalog[w] : Catalog[w][i] \in RangeOf(Catalog[w])
      BY DEF RangeOf
    <2>2. QED
      BY <2>1 DEF CatalogRows
  <1>2. \A S : (\A w \in Windows : \A i \in DOMAIN Catalog[w] : Catalog[w][i] \in S)
               => CatalogRows \subseteq S
    BY DEF CatalogRows, RangeOf
  <1>3. \A S : (\A u \in Units : \A i \in DOMAIN DartCatalog[u] : DartCatalog[u][i] \in S)
               => DartCatalogRows \subseteq S
    BY DEF DartCatalogRows, RangeOf
  <1>4. QED
    BY <1>1, <1>2, <1>3

(* Enough results excuse every cursor.                                      *)
LEMMA TargetCovered ==
  ASSUME NEW f, NEW df, NEW j, NEW k, Covered(f, df, j), TargetMet(k),
         k.phase = j.phase, k.unit = j.unit, k.unitPage = j.unitPage, k.cands = j.cands, k.strayed = j.strayed
  PROVE  Covered(f, df, k)
  <1>1. Found(df, k)
    BY FoundSame DEF Covered
  <1>2. QED
    BY <1>1 DEF Covered

LEMMA WindowInRange ==
  ASSUME NEW j \in States, ~Listed(j), j.phase # "dart_verification"
  PROVE  j.window \in Windows
  <1>1. j.window \in Nat \ {0} /\ Len(Catalog) \in Nat
    BY ReceiptsAssumption DEF States
  <1>2. QED
    BY <1>1 DEF Listed, WindowCount, Windows

LEMMA PhaseCases ==
  ASSUME NEW j \in States, j.phase # "dart_discovery"
  PROVE  j.phase = "dart_verification" \/ j.phase = "opendart_discovery"
  BY DEF States, Phases

(* The row loop moves the cursor within its page, over rows that are all    *)
(* processed or new.                                                        *)
LEMMA AdvanceCovered ==
  ASSUME NEW f \in [Windows -> Seq(Receipts)], NEW df, NEW j \in States,
         Newcomers(f, df) \cap CatalogRows = {},
         Covered(f, df, j), ~TargetMet(j), ~Listed(j), j.phase # "dart_discovery",
         NEW rs \in Seq(Receipts), NEW r, NEW final, PageCovered(f, df, j, rs, r, final),
         NEW k, k.phase = j.phase, k.unit = j.unit, k.unitPage = j.unitPage,
         k.cands = j.cands, k.strayed = j.strayed, k.window = j.window, k.page = j.page, j.done \subseteq k.done,
         k.offset \in 0..Len(rs),
         \A m \in 1..k.offset : rs[m] \in k.done \cup Newcomers(f, df)
  PROVE  Covered(f, df, k) /\ PageCovered(f, df, k, rs, k.offset, final)
  <1>1. DOMAIN rs = 1..Len(rs) /\ Len(rs) \in Nat /\ k.offset \in Nat
    OBVIOUS
  <1>2. Found(df, k)
    BY FoundSame DEF Covered
  <1>3. ASSUME k.phase = "dart_verification" PROVE CandsCovered(Newcomers(f, df), k)
    <2>1. rs = k.cands
      BY <1>3, Zenon DEF PageCovered
    <2>2. \A m \in DOMAIN k.cands : m <= k.offset => k.cands[m] \in k.done \cup Newcomers(f, df)
      BY <1>1, <2>1
    <2>3. ~(k.window > 1)
      BY <1>3 DEF Listed, WindowCount
    <2>4. QED
      BY <2>2, <2>3 DEF CandsCovered
  <1>4. ASSUME k.phase = "opendart_discovery" PROVE ListCovered(f, k)
    <2>1. j.window \in Windows
      BY <1>4, WindowInRange
    <2>2. ListCovered(f, j)
      BY <1>4 DEF Covered
    <2>3. ASSUME NEW i \in DOMAIN Catalog[j.window],
                 Len(f[j.window]) + i <= PageStart(j.page, PageSize) + k.offset
          PROVE  Catalog[j.window][i] \in k.done
      <3>1. Catalog[j.window][i] \in j.done \cup {rs[m] : m \in 1..k.offset}
        BY <1>4, <2>3, Zenon DEF PageCovered
      <3>2. Catalog[j.window][i] \in CatalogRows
        BY <2>1, CatalogMember, Zenon
      <3>3. QED
        BY <3>1, <3>2
    <2>4. ASSUME NEW w \in Windows, NEW i \in DOMAIN Catalog[w], w < j.window
          PROVE  Catalog[w][i] \in k.done
      BY <2>2, <2>4 DEF ListCovered
    <2>5. QED
      BY <2>3, <2>4 DEF ListCovered
  <1>5. Covered(f, df, k)
    BY <1>2, <1>3, <1>4 DEF Covered
  <1>6. \A m \in DOMAIN rs : m <= k.offset => rs[m] \in k.done \cup Newcomers(f, df)
    BY <1>1
  <1>7. PageCovered(f, df, k, rs, k.offset, final)
    BY <1>6 DEF PageCovered
  <1>8. QED
    BY <1>5, <1>7

LEMMA PageFields ==
  ASSUME NEW j \in States, NEW final
  PROVE  LET k == [j EXCEPT !.offset = 0,
                            !.page = IF final THEN 1 ELSE @ + 1,
                            !.window = IF final THEN @ + 1 ELSE @]
         IN  /\ k.phase = j.phase /\ k.unit = j.unit /\ k.unitPage = j.unitPage
             /\ k.cands = j.cands /\ k.strayed = j.strayed /\ k.done = j.done /\ k.count = j.count
             /\ k.offset = 0 /\ k.page = (IF final THEN 1 ELSE j.page + 1)
             /\ k.window = (IF final THEN j.window + 1 ELSE j.window)
  BY DEF States

(* The last row of a page is done: the next page, or the next window.       *)
LEMMA PageDoneCovered ==
  ASSUME NEW f \in [Windows -> Seq(Receipts)], NEW df, NEW j \in States,
         Newcomers(f, df) \cap CatalogRows = {},
         Covered(f, df, j), ~TargetMet(j), ~Listed(j), j.phase # "dart_discovery",
         NEW rs \in Seq(Receipts), NEW r \in Nat, r >= Len(rs), NEW final,
         PageCovered(f, df, j, rs, r, final),
         NEW k, k.phase = j.phase, k.unit = j.unit, k.unitPage = j.unitPage,
         k.cands = j.cands, k.strayed = j.strayed, k.done = j.done, k.offset = 0,
         k.page = (IF final THEN 1 ELSE j.page + 1),
         k.window = (IF final THEN j.window + 1 ELSE j.window)
  PROVE  Covered(f, df, k)
  <1>1. DOMAIN rs = 1..Len(rs) /\ Len(rs) \in Nat
    OBVIOUS
  <1>2. \A m \in DOMAIN rs : rs[m] \in k.done \cup Newcomers(f, df)
    BY <1>1 DEF PageCovered
  <1>3. Found(df, k)
    BY FoundSame DEF Covered
  <1>4. ASSUME k.phase = "dart_verification" PROVE CandsCovered(Newcomers(f, df), k)
    <2>1. rs = k.cands
      BY <1>4, Zenon DEF PageCovered
    <2>2. QED
      BY <1>2, <2>1 DEF CandsCovered
  <1>5. ASSUME k.phase = "opendart_discovery" PROVE ListCovered(f, k)
    <2>1. j.window \in Windows
      BY <1>5, WindowInRange
    <2>2. ListCovered(f, j)
      BY <1>5 DEF Covered
    <2>3. j.page \in Nat \ {0} /\ j.window \in Nat \ {0} /\ PageSize \in Nat \ {0}
      BY LimitsAssumption DEF States
    <2>4. ASSUME NEW i \in DOMAIN Catalog[j.window],
                 \/ Catalog[j.window][i] \in j.done \cup {rs[m] : m \in 1..Len(rs)}
                 \/ Catalog[j.window][i] \in j.done \cup RangeOf(rs)
          PROVE  Catalog[j.window][i] \in k.done
      <3>1. Catalog[j.window][i] \in CatalogRows
        BY <2>1, CatalogMember, Zenon
      <3>2. Catalog[j.window][i] \in k.done \cup Newcomers(f, df)
        BY <1>1, <1>2, <2>4 DEF RangeOf
      <3>3. QED
        BY <3>1, <3>2
    <2>5. ASSUME NEW w \in Windows, NEW i \in DOMAIN Catalog[w], w < j.window
          PROVE  Catalog[w][i] \in k.done
      BY <2>2, <2>5 DEF ListCovered
    <2>6. CASE final
      <3>1. k.window = j.window + 1 /\ k.page = 1
        BY <2>6
      <3>2. ASSUME NEW i \in DOMAIN Catalog[j.window] PROVE Catalog[j.window][i] \in k.done
        <4>1. Catalog[j.window][i] \in j.done \cup RangeOf(rs)
          BY <1>5, <2>6, Zenon DEF PageCovered
        <4>2. QED
          BY <2>4, <4>1
      <3>3. ASSUME NEW w \in Windows, NEW i \in DOMAIN Catalog[w],
                   w < k.window
                     \/ (w = k.window /\ Len(f[w]) + i <= PageStart(k.page, PageSize) + k.offset)
            PROVE  Catalog[w][i] \in k.done
        <4>1. w \in Nat \ {0} /\ i \in Nat \ {0} /\ Len(f[w]) \in Nat
          BY CatalogTyped
        <4>2. PageStart(k.page, PageSize) + k.offset = 0
          BY <2>3, <3>1, FirstPage
        <4>3. w < k.window
          BY <3>3, <4>1, <4>2
        <4>4. w < j.window \/ w = j.window
          BY <2>3, <3>1, <4>1, <4>3
        <4>5. QED
          BY <2>5, <3>2, <4>4
      <3>4. QED
        BY <3>3 DEF ListCovered
    <2>7. CASE ~final
      <3>1. k.window = j.window /\ k.page = j.page + 1
        BY <2>7
      <3>2. ASSUME NEW i \in DOMAIN Catalog[j.window],
                   Len(f[j.window]) + i <= PageStart(k.page, PageSize) + k.offset
            PROVE  Catalog[j.window][i] \in k.done
        <4>1. Len(rs) = PageSize
          BY <1>5, <2>7, Zenon DEF PageCovered
        <4>2. PageStart(k.page, PageSize) + k.offset = PageStart(j.page, PageSize) + Len(rs)
          <5>1. PageStart(k.page, PageSize) = PageStart(j.page, PageSize) + PageSize
            BY <2>3, <3>1, NextPage
          <5>2. PageStart(j.page, PageSize) \in Nat
            BY <2>3, PageStartNat
          <5>3. QED
            BY <1>1, <4>1, <5>1, <5>2
        <4>3. Len(rs) \in 0..Len(rs)
          BY <1>1
        <4>4. Catalog[j.window][i] \in j.done \cup {rs[m] : m \in 1..Len(rs)}
          BY <1>5, <3>2, <4>2, <4>3, Zenon DEF PageCovered
        <4>5. QED
          BY <2>4, <4>4
      <3>3. QED
        BY <2>5, <3>1, <3>2 DEF ListCovered
    <2>8. QED
      BY <2>6, <2>7
  <1>6. QED
    BY <1>3, <1>4, <1>5 DEF Covered

(* Publication only moves listed rows away from the cursors.                *)
LEMMA PublishedCovered ==
  ASSUME NEW f \in [Windows -> Seq(Receipts)], NEW df \in [Units -> Seq(Receipts)],
         NEW g \in [Windows -> Seq(Receipts)], NEW dg \in [Units -> Seq(Receipts)],
         \A w \in Windows : Len(f[w]) <= Len(g[w]),
         \A u \in Units : Len(df[u]) <= Len(dg[u]),
         Newcomers(f, df) \subseteq Newcomers(g, dg),
         NEW j \in States
  PROVE  /\ Covered(f, df, j) => Covered(g, dg, j)
         /\ \A rs, r, final :
              j.window \in Windows \/ j.phase # "opendart_discovery" =>
                (PageCovered(f, df, j, rs, r, final) => PageCovered(g, dg, j, rs, r, final))
  <1>1. ASSUME NEW u \in Units, NEW i \in DOMAIN DartCatalog[u], NEW n,
               n = PageStart(j.unitPage, DartPageSize), Len(dg[u]) + i <= n
        PROVE  Len(df[u]) + i <= n
    <2>1. n \in Nat
      BY <1>1, PageStartNat, LimitsAssumption DEF States
    <2>2. Len(df[u]) \in Nat /\ Len(dg[u]) \in Nat /\ i \in Nat
      BY CatalogTyped
    <2>3. QED
      BY <1>1, <2>1, <2>2
  <1>2. ASSUME NEW w \in Windows, NEW i \in DOMAIN Catalog[w], NEW n \in Nat,
               Len(g[w]) + i <= PageStart(j.page, PageSize) + n
        PROVE  Len(f[w]) + i <= PageStart(j.page, PageSize) + n
    <2>1. PageStart(j.page, PageSize) \in Nat
      BY PageStartNat, LimitsAssumption DEF States
    <2>2. Len(f[w]) \in Nat /\ Len(g[w]) \in Nat /\ i \in Nat
      BY CatalogTyped
    <2>3. QED
      BY <1>2, <2>1, <2>2
  <1>3. Found(df, j) => Found(dg, j)
    BY <1>1 DEF Found
  <1>4. j.offset \in Nat
    BY DEF States
  <1>5. ListCovered(f, j) => ListCovered(g, j)
    BY <1>2, <1>4, Zenon DEF ListCovered
  <1>6. CandsCovered(Newcomers(f, df), j) => CandsCovered(Newcomers(g, dg), j)
    BY DEF CandsCovered
  <1>7. Covered(f, df, j) => Covered(g, dg, j)
    BY <1>3, <1>5, <1>6, Zenon DEF Covered
  <1>8. ASSUME NEW rs, NEW r, NEW final, j.window \in Windows \/ j.phase # "opendart_discovery",
               PageCovered(f, df, j, rs, r, final)
        PROVE  PageCovered(g, dg, j, rs, r, final)
    <2>1. \A m \in DOMAIN rs : m <= r => rs[m] \in j.done \cup Newcomers(g, dg)
      BY <1>8 DEF PageCovered
    <2>2. ASSUME j.phase = "opendart_discovery", NEW i \in DOMAIN Catalog[j.window],
                 NEW k \in 0..Len(rs), Len(g[j.window]) + i <= PageStart(j.page, PageSize) + k
          PROVE  Catalog[j.window][i] \in j.done \cup {rs[m] : m \in 1..k}
      <3>1. k \in Nat /\ j.window \in Windows
        BY <1>8, <2>2
      <3>2. Len(f[j.window]) + i <= PageStart(j.page, PageSize) + k
        BY <1>2, <2>2, <3>1
      <3>3. QED
        BY <1>8, <2>2, <3>2, Zenon DEF PageCovered
    <2>3. QED
      BY <1>8, <2>1, <2>2, Zenon DEF PageCovered
  <1>9. QED
    BY <1>7, <1>8

(* What the cursor means once every window is behind it.                    *)
LEMMA CandidatesComplete ==
  ASSUME NEW f, NEW df, NEW j \in States, Covered(f, df, j), j.phase = "dart_verification",
         ~j.strayed
  PROVE  DartCatalogRows \subseteq RangeOf(j.cands)
  <1>1. j.unit \in Nat \ {0} /\ Len(DartCatalog) \in Nat
    BY ReceiptsAssumption DEF States
  <1>2. j.unit \notin Units /\ Found(df, j)
    BY DEF Covered
  <1>3. \A u \in Units : u < j.unit
    BY <1>1, <1>2 DEF Units
  <1>4. QED
    BY <1>2, <1>3, CatalogMember, Zenon DEF Found

LEMMA ListedDone ==
  ASSUME NEW f, NEW df, NEW j \in States, Covered(f, df, j), Listed(j),
         j.phase # "dart_discovery", ~TargetMet(j),
         Newcomers(f, df) \cap (CatalogRows \cup DartCatalogRows) = {}
  PROVE  IF j.phase = "dart_verification"
         THEN /\ RangeOf(j.cands) \cap DartCatalogRows \subseteq j.done
              /\ j.strayed \/ DartCatalogRows \subseteq j.done
         ELSE CatalogRows \subseteq j.done
  <1>1. j.window \in Nat \ {0} /\ Len(Catalog) \in Nat
    BY ReceiptsAssumption DEF States
  <1>2. CASE j.phase = "dart_verification"
    <2>1. CandsCovered(Newcomers(f, df), j)
      BY <1>2 DEF Covered
    <2>2. j.window > 1
      BY <1>2 DEF Listed, WindowCount
    <2>3. RangeOf(j.cands) \subseteq j.done \cup Newcomers(f, df)
      BY <2>1, <2>2, Zenon DEF CandsCovered, RangeOf
    <2>4. RangeOf(j.cands) \cap DartCatalogRows \subseteq j.done
      BY <2>3
    <2>5. j.strayed \/ DartCatalogRows \subseteq RangeOf(j.cands)
      BY <1>2, CandidatesComplete
    <2>6. QED
      BY <1>2, <2>4, <2>5
  <1>3. CASE j.phase = "opendart_discovery"
    <2>1. ListCovered(f, j)
      BY <1>3 DEF Covered
    <2>2. \A w \in Windows : w < j.window
      BY <1>1, <1>3 DEF Listed, WindowCount, Windows
    <2>3. CatalogRows \subseteq j.done
      BY <2>1, <2>2, CatalogMember, Zenon DEF ListCovered
    <2>4. QED
      BY <1>3, <2>3
  <1>4. QED
    BY <1>2, <1>3, PhaseCases

-----------------------------------------------------------------------------
(* The invariant is inductive.                                              *)

LEMMA CoverageInit == Init => Coverage
  <1> SUFFICES ASSUME Init PROVE Coverage
    OBVIOUS
  <1>1. Newcomers(fresh, dartFresh) = {}
    <2>1. \A w \in Windows : RangeOf(fresh[w]) = {}
      BY DEF Init, RangeOf
    <2>2. \A u \in Units : RangeOf(dartFresh[u]) = {}
      BY DEF Init, RangeOf
    <2>3. QED
      BY <2>1, <2>2 DEF Newcomers
  <1>2. QED
    BY <1>1 DEF Init, Coverage, Segment

(* What is left to show of a step of the job; the listings do not change.   *)
LEMMA CoverageStep ==
  ASSUME Coverage, fresh' = fresh, dartFresh' = dartFresh,
         job' = NoJob \/ Covered(fresh, dartFresh, job'),
         disk' = NoJob \/ Covered(fresh, dartFresh, disk'),
         pc' = "discover" => job'.phase = "dart_discovery",
         pc' \in Segment \ {"discover"} => job'.phase # "dart_discovery",
         pc' = "rows" => ~Listed(job'),
         pc' \in {"record", "audit", "delete"} => Listed(job'),
         pc' = "rows" => \/ TargetMet(job')
                         \/ PageCovered(fresh, dartFresh, job', rows', row', last')
  PROVE  Coverage'
  BY DEF Coverage

LEMMA CoverageNow ==
  ASSUME TypeOK, Coverage, pc \in Segment
  PROVE  /\ job \in States /\ job # NoJob /\ Covered(fresh, dartFresh, job)
         /\ disk \in States /\ disk # NoJob /\ Covered(fresh, dartFresh, disk)
         /\ fresh \in [Windows -> Seq(Receipts)] /\ dartFresh \in [Units -> Seq(Receipts)]
         /\ rows \in Seq(Receipts) /\ row \in Nat
         /\ Newcomers(fresh, dartFresh) \cap CatalogRows = {}
         /\ Newcomers(fresh, dartFresh) \cap (CatalogRows \cup DartCatalogRows) = {}
         /\ pc # "discover" => job.phase # "dart_discovery"
  BY DEF TypeOK, Coverage

LEMMA OffsetFields ==
  ASSUME NEW j \in States, NEW o
  PROVE  LET k == [j EXCEPT !.offset = o]
         IN  /\ k.phase = j.phase /\ k.unit = j.unit /\ k.unitPage = j.unitPage
             /\ k.cands = j.cands /\ k.strayed = j.strayed /\ k.done = j.done /\ k.count = j.count
             /\ k.window = j.window /\ k.page = j.page /\ k.offset = o
  BY DEF States

LEMMA WindowFields ==
  ASSUME NEW j \in States, NEW w
  PROVE  LET k == [j EXCEPT !.window = w]
         IN  /\ k.phase = j.phase /\ k.unit = j.unit /\ k.unitPage = j.unitPage
             /\ k.cands = j.cands /\ k.strayed = j.strayed /\ k.done = j.done /\ k.count = j.count
             /\ k.window = w
  BY DEF States

(* The dictionary a judged batch leaves, its offset at o.                   *)
Moves(k, batch, throttled, lost, kept, o) ==
  k = [Judged(batch, throttled, lost, kept) EXCEPT !.offset = o]

LEMMA JudgedFields ==
  ASSUME job \in States, NEW batch, NEW throttled, NEW lost, NEW kept, NEW o,
         NEW k, Moves(k, batch, throttled, lost, kept, o)
  PROVE  /\ k.phase = job.phase /\ k.unit = job.unit /\ k.unitPage = job.unitPage
         /\ k.cands = job.cands /\ k.strayed = job.strayed /\ k.window = job.window /\ k.page = job.page
         /\ k.done = job.done \cup {rows[m] : m \in batch \ lost}
         /\ k.skipped = job.skipped \cup {rows[m] : m \in Unavailable(batch, lost)}
         /\ k.results = job.results \cup {rows[m] : m \in kept}
         /\ k.count = job.count + Cardinality(kept) /\ k.offset = o
  <1> DEFINE d == job.done \cup {rows[m] : m \in batch \ lost}
             s == job.skipped \cup {rows[m] : m \in Unavailable(batch, lost)}
             r == job.results \cup {rows[m] : m \in kept}
             c == job.count + Cardinality(kept)
             w == IF Cardinality(throttled) >= job.conc THEN 1 ELSE job.conc - Cardinality(throttled)
  <1>1. k = [[job EXCEPT !.done = d, !.skipped = s, !.results = r, !.count = c, !.conc = w]
               EXCEPT !.offset = o]
    BY Zenon DEF Judged, Moves
  <1> HIDE DEF d, s, r, c, w
  <1>2. /\ k.phase = job.phase /\ k.unit = job.unit /\ k.unitPage = job.unitPage
        /\ k.cands = job.cands /\ k.strayed = job.strayed /\ k.window = job.window /\ k.page = job.page
        /\ k.done = d /\ k.skipped = s /\ k.results = r /\ k.count = c /\ k.offset = o
    BY <1>1 DEF States
  <1>3. QED
    BY <1>2, Zenon DEF d, s, r, c

(* Moving the cursor of the running segment within its page.                *)
LEMMA CursorMove ==
  ASSUME TypeOK, Coverage, pc = "rows",
         NEW k, k.phase = job.phase, k.unit = job.unit, k.unitPage = job.unitPage,
         k.cands = job.cands, k.strayed = job.strayed, k.window = job.window, k.page = job.page,
         job.done \subseteq k.done, TargetMet(job) => TargetMet(k),
         k.offset \in 0..Len(rows),
         \A m \in row + 1 .. k.offset : rows[m] \in k.done
  PROVE  /\ Covered(fresh, dartFresh, k)
         /\ ~Listed(k) /\ k.phase # "dart_discovery"
         /\ TargetMet(k) \/ PageCovered(fresh, dartFresh, k, rows, k.offset, last)
  <1>1. /\ job \in States /\ Covered(fresh, dartFresh, job)
        /\ fresh \in [Windows -> Seq(Receipts)]
        /\ rows \in Seq(Receipts) /\ row \in Nat
        /\ Newcomers(fresh, dartFresh) \cap CatalogRows = {}
        /\ job.phase # "dart_discovery"
    BY CoverageNow DEF Segment
  <1>2. ~Listed(job) /\ (TargetMet(job) \/ PageCovered(fresh, dartFresh, job, rows, row, last))
    BY DEF Coverage
  <1>3. ~Listed(k) /\ k.phase # "dart_discovery"
    BY <1>1, <1>2 DEF Listed, WindowCount
  <1>4. CASE TargetMet(job)
    <2>1. TargetMet(k)
      BY <1>4
    <2>2. Covered(fresh, dartFresh, k)
      BY <1>1, <2>1, TargetCovered
    <2>3. QED
      BY <1>3, <2>1, <2>2
  <1>5. CASE ~TargetMet(job)
    <2>1. PageCovered(fresh, dartFresh, job, rows, row, last)
      BY <1>2, <1>5
    <2>2. ASSUME NEW m \in 1..k.offset
          PROVE  rows[m] \in k.done \cup Newcomers(fresh, dartFresh)
      <3>1. m \in DOMAIN rows /\ m \in Nat
        BY <1>1
      <3>2. CASE m <= row
        BY <2>1, <3>1, <3>2 DEF PageCovered
      <3>3. CASE m > row
        <4>1. m \in row + 1 .. k.offset
          BY <1>1, <3>1, <3>3
        <4>2. QED
          BY <4>1
      <3>4. QED
        BY <1>1, <3>1, <3>2, <3>3
    <2>3. /\ Covered(fresh, dartFresh, k)
          /\ PageCovered(fresh, dartFresh, k, rows, k.offset, last)
      BY <1>1, <1>2, <1>5, <2>1, <2>2, AdvanceCovered
    <2>4. QED
      BY <1>3, <2>3
  <1>6. QED
    BY <1>4, <1>5

LEMMA RunCovered == TypeOK /\ Coverage /\ Run => Coverage'
  <1> SUFFICES ASSUME TypeOK, Coverage, Run PROVE Coverage'
    OBVIOUS
  <1>1. PICK setting \in Settings : job' = NewState(setting)
    BY Zenon DEF Run
  <1>2. disk' = job' /\ pc' = Entry(job') /\ fresh' = fresh /\ dartFresh' = dartFresh
    BY DEF Run, Save, env
  <1>3. /\ Covered(fresh, dartFresh, job')
        /\ job'.phase = IF UseDart THEN "dart_discovery" ELSE "opendart_discovery"
    BY <1>1, NewStateCovered, Zenon DEF TypeOK
  <1>4. pc' = (IF UseDart THEN "discover" ELSE "page")
    BY <1>2, <1>3 DEF Entry
  <1>5. QED
    BY <1>2, <1>3, <1>4, CoverageStep

LEMMA ContinueCovered == TypeOK /\ Coverage /\ Continue => Coverage'
  <1> SUFFICES ASSUME TypeOK, Coverage, Continue PROVE Coverage'
    OBVIOUS
  <1>1. /\ disk # NoJob /\ job' = disk /\ disk' = disk /\ pc' = Entry(disk)
        /\ fresh' = fresh /\ dartFresh' = dartFresh
    BY DEF Continue, store, env
  <1>2. Covered(fresh, dartFresh, disk)
    BY <1>1 DEF Coverage
  <1>3. pc' \in {"discover", "page"} /\ (pc' = "discover" <=> job'.phase = "dart_discovery")
    BY <1>1 DEF Entry
  <1>4. QED
    BY <1>1, <1>2, <1>3, CoverageStep DEF Segment

LEMMA DiscoveryCovered ==
  ASSUME TypeOK, Coverage,
         HealthOk \/ DiscoveryFallsBack \/ SearchPage \/ DiscoveryDone \/ DiscoveryStops
  PROVE  Coverage'
  <1>1. pc = "discover" /\ fresh' = fresh /\ dartFresh' = dartFresh
    BY DEF HealthOk, DiscoveryFallsBack, SearchPage, DiscoveryDone, DiscoveryStops, env
  <1>2. /\ job \in States /\ Covered(fresh, dartFresh, job) /\ Covered(fresh, dartFresh, disk)
        /\ fresh \in [Windows -> Seq(Receipts)] /\ dartFresh \in [Units -> Seq(Receipts)]
        /\ job.phase = "dart_discovery"
    BY <1>1, CoverageNow DEF Segment, Coverage
  <1>3. CASE HealthOk
    <2>1. job' = [job EXCEPT !.checked = TRUE] /\ pc' = "discover" /\ disk' = disk
      BY <1>3 DEF HealthOk, store
    <2>2. Covered(fresh, dartFresh, job') /\ job'.phase = "dart_discovery"
      BY <1>2, <2>1, CheckedCovered, Zenon
    <2>3. QED
      BY <1>1, <1>2, <2>1, <2>2, CoverageStep
  <1>4. CASE DiscoveryFallsBack
    <2>1. job' = Fallback(job) /\ pc' = "page" /\ disk' = disk
      BY <1>4 DEF DiscoveryFallsBack, store
    <2>2. Covered(fresh, dartFresh, job') /\ job'.phase = "opendart_discovery"
      BY <1>2, <2>1, FallbackCovered, Zenon
    <2>3. QED
      BY <1>1, <1>2, <2>1, <2>2, CoverageStep
  <1>5. CASE SearchPage
    <2>1. /\ job.unit \in Units /\ disk' = job' /\ pc' = "discover"
      BY <1>5, <1>1, Zenon DEF SearchPage, Save
    <2>2. PICK size \in ServedSizes, shown \in Shows :
            \E cs \in [1..Cardinality(SearchedRows(size)) -> SearchedRows(size)] :
              /\ Merges(cs, job.cands, SearchedPage(size))
              /\ job' = Searched(job, cs, SearchedAway(size, shown), SearchedUnit(size, shown))
      BY <1>5, SearchSteps, Zenon
    <2> DEFINE found == SearchedPage(size)
               added == RangeOf(found) \ RangeOf(job.cands)
               away == SearchedAway(size, shown)
               final == SearchedUnit(size, shown)
    <2>3. PICK new \in [1..Cardinality(added) -> added] :
            /\ RangeOf(new) = RangeOf(found) \ RangeOf(job.cands)
            /\ job' = Searched(job, new, away, final)
      BY <2>2, Zenon DEF SearchedRows, Merges
    <2>4. /\ found \in Seq(Receipts) /\ SearchedPage(DartPageSize) \in Seq(Receipts)
          /\ job.cands \in Seq(Receipts)
      BY <1>2, <2>1, SearchedType, LimitsAssumption DEF States
    <2> HIDE DEF found
    <2>5. new \in Seq(Receipts)
      BY <2>4, MergeType, Zenon
    <2> HIDE DEF added, away, final
    <2>6. /\ job'.phase = job.phase /\ job'.cands = job.cands \o new
          /\ job'.unit = (IF final THEN job.unit + 1 ELSE job.unit)
          /\ job'.unitPage = (IF final THEN 1 ELSE job.unitPage + 1)
          /\ job'.strayed <=> (job.strayed \/ away)
      BY <1>2, <2>3 DEF States, Searched
    <2>7. RangeOf(job'.cands) = RangeOf(job.cands) \cup RangeOf(found)
      BY <2>3, <2>4, <2>5, <2>6, RangeOfConcat
    <2>8. Found(dartFresh, job')
      <3>1. CASE job.strayed \/ away
        BY <2>6, <3>1 DEF Found
      <3>2. CASE ~job.strayed /\ ~away
        <4>1. found = SearchedPage(DartPageSize) /\ (final => SearchedLast)
          <5>1. found = SearchedPage(DartPageSize) /\ (shown \/ SearchedLast)
            BY <3>2, Zenon DEF away, found, SearchedAway
          <5>2. found = << >> => SearchedLast
            BY <1>2, <2>1, <5>1, SearchedNone
          <5>3. final => ~(shown \/ SearchedLast) \/ found = << >> \/ SearchedLast
            BY Zenon DEF final, found, SearchedUnit
          <5>4. QED
            BY <5>1, <5>2, <5>3
        <4>2. ASSUME NEW i \in DOMAIN DartCatalog[job.unit],
                     final \/ Len(dartFresh[job.unit]) + i
                                <= PageStart(job.unitPage, DartPageSize) + DartPageSize
              PROVE  DartCatalog[job.unit][i] \in RangeOf(job'.cands)
          <5>1. \/ IsLastPage(dartFresh[job.unit] \o DartCatalog[job.unit], job.unitPage, DartPageSize)
                \/ Len(dartFresh[job.unit]) + i
                      <= PageStart(job.unitPage, DartPageSize) + DartPageSize
            BY <4>1, <4>2, Zenon DEF SearchedLast, DartRows
          <5>2. DartCatalog[job.unit][i] \in
                  RangeOf(job.cands)
                    \cup RangeOf(PageOf(dartFresh[job.unit] \o DartCatalog[job.unit],
                                        job.unitPage, DartPageSize))
            BY <1>2, <2>1, <3>2, <5>1, SearchFound, Zenon DEF Covered
          <5>3. PageOf(dartFresh[job.unit] \o DartCatalog[job.unit], job.unitPage, DartPageSize)
                  = found
            BY <4>1, Zenon DEF SearchedPage, DartRows
          <5>4. QED
            BY <2>7, <5>2, <5>3
        <4>3. QED
          BY <1>2, <2>1, <2>6, <2>7, <3>2, <4>2, SearchCovered DEF Covered
      <3>3. QED
        BY <3>1, <3>2
    <2>9. Covered(fresh, dartFresh, job') /\ job'.phase = "dart_discovery"
      BY <1>2, <2>6, <2>8 DEF Covered
    <2>10. QED
      BY <1>1, <2>1, <2>9, CoverageStep
  <1>6. CASE DiscoveryDone
    <2>1. /\ job' = [job EXCEPT !.phase = "dart_verification",
                                !.window = 1, !.page = 1, !.offset = 0]
          /\ pc' = "page" /\ disk' = job' /\ job.unit \notin Units
      BY <1>6 DEF DiscoveryDone, Save
    <2>2. Covered(fresh, dartFresh, job') /\ job'.phase = "dart_verification"
      BY <1>2, <2>1, VerificationCovered, Zenon
    <2>3. QED
      BY <1>1, <1>2, <2>1, <2>2, CoverageStep
  <1>7. CASE DiscoveryStops
    <2>1. disk' = job /\ job' = NoJob /\ pc' = "idle"
      BY <1>7 DEF DiscoveryStops, Save, Return
    <2>2. QED
      BY <1>1, <1>2, <2>1, CoverageStep DEF Segment
  <1>8. QED
    BY <1>3, <1>4, <1>5, <1>6, <1>7

LEMMA FetchCovered == TypeOK /\ Coverage /\ FetchPage => Coverage'
  <1> SUFFICES ASSUME TypeOK, Coverage, FetchPage PROVE Coverage'
    OBVIOUS
  <1>1. /\ pc = "page" /\ ~Listed(job) /\ fresh' = fresh /\ dartFresh' = dartFresh
        /\ job' = job /\ disk' = disk /\ row' = job.offset /\ pc' = "rows"
    BY DEF FetchPage, env, store
  <1>2. /\ job \in States /\ Covered(fresh, dartFresh, job) /\ Covered(fresh, dartFresh, disk)
        /\ fresh \in [Windows -> Seq(Receipts)] /\ job.phase # "dart_discovery"
    BY <1>1, CoverageNow DEF Segment
  <1>3. ASSUME ~TargetMet(job)
        PROVE  PageCovered(fresh, dartFresh, job, rows', row', last')
    <2>1. CASE job.phase = "dart_verification"
      <3>1. rows' = job.cands /\ last' = TRUE
        BY <2>1, Zenon DEF FetchPage
      <3>2. CandsCovered(Newcomers(fresh, dartFresh), job)
        BY <1>2, <1>3, <2>1 DEF Covered
      <3>3. PageCovered(fresh, dartFresh, job, job.cands, job.offset, TRUE)
        BY <1>2, <2>1, <3>2, FetchVerification, Zenon
      <3>4. QED
        BY <1>1, <3>1, <3>3, Zenon
    <2>2. CASE job.phase = "opendart_discovery"
      <3>1. /\ rows' = PageOf(fresh[job.window] \o Catalog[job.window], job.page, PageSize)
            /\ last' = IsLastPage(fresh[job.window] \o Catalog[job.window], job.page, PageSize)
        <4>1. job.phase # "dart_verification"
          BY <2>2
        <4>2. QED
          BY <4>1, Zenon DEF FetchPage, Rows
      <3>2. job.window \in Windows
        BY <1>1, <1>2, <2>2, WindowInRange
      <3>3. ListCovered(fresh, job)
        BY <1>2, <1>3, <2>2 DEF Covered
      <3>4. PageCovered(fresh, dartFresh, job,
              PageOf(fresh[job.window] \o Catalog[job.window], job.page, PageSize), job.offset,
              IsLastPage(fresh[job.window] \o Catalog[job.window], job.page, PageSize))
        BY <1>2, <2>2, <3>2, <3>3, FetchWindow, Zenon
      <3>5. QED
        BY <1>1, <3>1, <3>4, Zenon
    <2>3. QED
      BY <1>2, <2>1, <2>2, PhaseCases
  <1>4. QED
    BY <1>1, <1>2, <1>3, CoverageStep DEF Segment

LEMMA PageCoverage ==
  ASSUME TypeOK, Coverage, PageStops \/ PagesDone \/ PageFinished
  PROVE  Coverage'
  <1>1. CASE PageStops \/ PagesDone
    <2>1. /\ pc = "page" /\ pc' = "leave" /\ fresh' = fresh /\ dartFresh' = dartFresh
          /\ job' = job /\ disk' = disk
      BY <1>1 DEF PageStops, PagesDone, env, store
    <2>2. /\ Covered(fresh, dartFresh, job) /\ Covered(fresh, dartFresh, disk)
          /\ job.phase # "dart_discovery"
      BY <2>1, CoverageNow DEF Segment
    <2>3. QED
      BY <2>1, <2>2, CoverageStep
  <1>2. CASE PageFinished
    <2> DEFINE k == [job EXCEPT !.offset = 0,
                               !.page = IF last THEN 1 ELSE @ + 1,
                               !.window = IF last THEN @ + 1 ELSE @]
    <2>1. /\ pc = "rows" /\ pc' = "page" /\ row >= Len(rows) /\ fresh' = fresh
          /\ dartFresh' = dartFresh /\ disk' = job'
      BY <1>2 DEF PageFinished, env, Save
    <2>2. job' = k
      BY <1>2, Zenon DEF PageFinished
    <2>3. /\ job \in States /\ Covered(fresh, dartFresh, job)
          /\ fresh \in [Windows -> Seq(Receipts)]
          /\ rows \in Seq(Receipts) /\ row \in Nat
          /\ Newcomers(fresh, dartFresh) \cap CatalogRows = {}
          /\ job.phase # "dart_discovery"
      BY <2>1, CoverageNow DEF Segment
    <2>4. ~Listed(job) /\ (TargetMet(job) \/ PageCovered(fresh, dartFresh, job, rows, row, last))
      BY <2>1 DEF Coverage
    <2>5. /\ k.phase = job.phase /\ k.unit = job.unit /\ k.unitPage = job.unitPage
          /\ k.cands = job.cands /\ k.strayed = job.strayed /\ k.done = job.done /\ k.count = job.count
          /\ k.offset = 0 /\ k.page = (IF last THEN 1 ELSE job.page + 1)
          /\ k.window = (IF last THEN job.window + 1 ELSE job.window)
      BY <2>3, PageFields
    <2> HIDE DEF k
    <2>6. Covered(fresh, dartFresh, k)
      <3>1. CASE TargetMet(job)
        <4>1. TargetMet(k)
          BY <2>5, <3>1 DEF TargetMet
        <4>2. QED
          BY <2>3, <2>5, <4>1, TargetCovered
      <3>2. CASE ~TargetMet(job)
        <4>1. PageCovered(fresh, dartFresh, job, rows, row, last) /\ row >= Len(rows)
          BY <2>1, <2>4, <3>2
        <4>2. QED
          BY <2>3, <2>4, <2>5, <3>2, <4>1, PageDoneCovered, SMTT(60)
      <3>3. QED
        BY <3>1, <3>2
    <2>7. QED
      BY <2>1, <2>2, <2>3, <2>5, <2>6, CoverageStep
  <1>3. QED
    BY <1>1, <1>2

LEMMA RowsCoverage ==
  ASSUME TypeOK, Coverage, RowsStop \/ SkipRows
  PROVE  Coverage'
  <1> DEFINE o == IF RowsStop THEN row ELSE Len(rows)
             k == [job EXCEPT !.offset = o]
  <1>1. /\ pc = "rows" /\ row < Len(rows) /\ fresh' = fresh /\ dartFresh' = dartFresh
        /\ disk' = disk
    BY DEF RowsStop, SkipRows, env, store
  <1>2. /\ job \in States /\ rows \in Seq(Receipts) /\ row \in Nat
        /\ Covered(fresh, dartFresh, disk)
    BY <1>1, CoverageNow DEF Segment
  <1>3. /\ k.phase = job.phase /\ k.unit = job.unit /\ k.unitPage = job.unitPage
        /\ k.cands = job.cands /\ k.strayed = job.strayed /\ k.done = job.done /\ k.count = job.count
        /\ k.window = job.window /\ k.page = job.page /\ k.offset = o
    BY <1>2, OffsetFields
  <1> HIDE DEF k
  <1>4. k.offset \in 0..Len(rows)
    BY <1>1, <1>2, <1>3
  <1>5. \A m \in row + 1 .. k.offset : rows[m] \in k.done
    <2>1. CASE RowsStop
      BY <1>2, <1>3, <2>1
    <2>2. CASE SkipRows
      <3>1. \A m \in row + 1 .. Len(rows) : rows[m] \in job.done
        BY <2>2 DEF SkipRows, Pending
      <3>2. CASE o = row
        BY <1>2, <1>3, <3>2
      <3>3. CASE o = Len(rows)
        BY <1>3, <3>1, <3>3
      <3>4. QED
        BY <3>2, <3>3
    <2>3. QED
      BY <2>1, <2>2
  <1>6. TargetMet(job) => TargetMet(k)
    BY <1>3 DEF TargetMet
  <1>7. /\ Covered(fresh, dartFresh, k) /\ ~Listed(k) /\ k.phase # "dart_discovery"
        /\ TargetMet(k) \/ PageCovered(fresh, dartFresh, k, rows, k.offset, last)
    BY <1>1, <1>3, <1>4, <1>5, <1>6, CursorMove
  <1>8. CASE RowsStop
    <2>1. job' = k /\ pc' = "leave"
      BY <1>8 DEF RowsStop, k
    <2>2. QED
      BY <1>1, <1>2, <1>7, <2>1, CoverageStep
  <1>9. CASE SkipRows /\ ~RowsStop
    <2>1. job' = k /\ pc' = "rows" /\ rows' = rows /\ row' = Len(rows) /\ last' = last
          /\ o = Len(rows)
      BY <1>1, <1>9 DEF SkipRows, k
    <2>2. QED
      BY <1>1, <1>2, <1>3, <1>7, <2>1, CoverageStep
  <1>10. QED
    BY <1>8, <1>9

(* A judged batch whose rewound rows are all behind the new offset.         *)
LEMMA BatchMove ==
  ASSUME TypeOK, Coverage, pc = "rows", NEW n \in row + 1 .. Len(rows),
         NEW throttled \in SUBSET Pending(n), NEW lost, NEW kept \in SUBSET Pending(n),
         NEW o \in 0..n, \A m \in lost : m \in Nat /\ m > o,
         NEW k, Moves(k, Pending(n), throttled, lost, kept, o)
  PROVE  /\ k \in States /\ Covered(fresh, dartFresh, k)
         /\ ~Listed(k) /\ k.phase # "dart_discovery" /\ k.offset = o
         /\ TargetMet(k) \/ PageCovered(fresh, dartFresh, k, rows, k.offset, last)
  <1>1. /\ job \in States /\ rows \in Seq(Receipts) /\ row \in Nat
    BY CoverageNow DEF Segment
  <1>2. n \in Nat /\ n <= Len(rows) /\ o \in Nat
    BY <1>1
  <1>3. k \in States
    BY <1>1, <1>2, JudgedType DEF Moves
  <1>4. /\ k.phase = job.phase /\ k.unit = job.unit /\ k.unitPage = job.unitPage
        /\ k.cands = job.cands /\ k.strayed = job.strayed /\ k.window = job.window /\ k.page = job.page
        /\ k.done = job.done \cup {rows[m] : m \in Pending(n) \ lost}
        /\ k.count = job.count + Cardinality(kept) /\ k.offset = o
    BY <1>1, JudgedFields
  <1>5. TargetMet(job) => TargetMet(k)
    <2>1. Cardinality(kept) \in Nat
      BY PendingRange, FS_Subset, FS_CardinalityType
    <2>2. job.count \in Nat /\ Target \in Nat
      BY <1>1, LimitsAssumption DEF States
    <2>3. QED
      BY <1>4, <2>1, <2>2 DEF TargetMet
  <1>6. k.offset \in 0..Len(rows)
    BY <1>1, <1>2, <1>4
  <1>7. ASSUME NEW m \in row + 1 .. k.offset PROVE rows[m] \in k.done
    <2>1. m \in row + 1 .. n /\ m \in Nat /\ m <= o
      BY <1>1, <1>2, <1>4
    <2>2. m \notin lost
      BY <1>2, <2>1
    <2>3. rows[m] \in job.done \/ m \in Pending(n)
      BY <2>1 DEF Pending
    <2>4. QED
      BY <1>4, <2>2, <2>3
  <1>8. /\ Covered(fresh, dartFresh, k) /\ ~Listed(k) /\ k.phase # "dart_discovery"
        /\ TargetMet(k) \/ PageCovered(fresh, dartFresh, k, rows, k.offset, last)
    BY <1>4, <1>5, <1>6, <1>7, CursorMove
  <1>9. QED
    BY <1>3, <1>4, <1>8

LEMMA SuccessCovered == TypeOK /\ Coverage /\ BatchSucceeds => Coverage'
  <1> SUFFICES ASSUME TypeOK, Coverage, BatchSucceeds PROVE Coverage'
    OBVIOUS
  <1>1. PICK n \in row + 1 .. Len(rows) : \E kept \in SUBSET Evidence(Pending(n), {}) :
          LET after == [Judged(Pending(n), {}, {}, kept) EXCEPT !.offset = n] IN
          /\ disk' = after
          /\ row' = n
          /\ IF TargetMet(after)
             THEN /\ job' = [after EXCEPT !.window = WindowCount(after) + 1]
                  /\ pc' = "leave"
             ELSE job' = after /\ UNCHANGED pc
    BY Zenon DEF BatchSucceeds, Save
  <1>2. PICK kept \in SUBSET Evidence(Pending(n), {}) :
          LET after == [Judged(Pending(n), {}, {}, kept) EXCEPT !.offset = n] IN
          /\ disk' = after
          /\ row' = n
          /\ IF TargetMet(after)
             THEN /\ job' = [after EXCEPT !.window = WindowCount(after) + 1]
                  /\ pc' = "leave"
             ELSE job' = after /\ UNCHANGED pc
    BY <1>1, Zenon
  <1> DEFINE after == [Judged(Pending(n), {}, {}, kept) EXCEPT !.offset = n]
             final == [after EXCEPT !.window = WindowCount(after) + 1]
  <1>3. /\ disk' = after /\ row' = n
        /\ TargetMet(after) => job' = final /\ pc' = "leave"
        /\ ~TargetMet(after) => job' = after /\ pc' = pc
    BY <1>2, Zenon
  <1>4. /\ pc = "rows" /\ fresh' = fresh /\ dartFresh' = dartFresh
        /\ rows' = rows /\ last' = last
    BY DEF BatchSucceeds, env
  <1>5. /\ after \in States /\ Covered(fresh, dartFresh, after)
        /\ ~Listed(after) /\ after.phase # "dart_discovery" /\ after.offset = n
        /\ TargetMet(after) \/ PageCovered(fresh, dartFresh, after, rows, after.offset, last)
    <2>1. n \in 0..n /\ {} \in SUBSET Pending(n) /\ kept \in SUBSET Pending(n)
          /\ \A m \in {} : m \in Nat /\ m > n
      BY DEF TypeOK, Evidence
    <2>2. QED
      <3>1. Moves(after, Pending(n), {}, {}, kept, n)
        BY Zenon DEF Moves
      <3> HIDE DEF after
      <3>2. QED
        BY <1>4, <2>1, <3>1, BatchMove, Zenon
  <1> HIDE DEF after
  <1>6. /\ final.phase = after.phase /\ final.unit = after.unit /\ final.unitPage = after.unitPage
        /\ final.cands = after.cands /\ final.strayed = after.strayed /\ final.count = after.count
    BY <1>5, WindowFields
  <1> HIDE DEF final
  <1>7. CASE TargetMet(after)
    <2>1. TargetMet(final)
      BY <1>6, <1>7 DEF TargetMet
    <2>2. Covered(fresh, dartFresh, final)
      BY <1>5, <1>6, <2>1, TargetCovered
    <2>3. QED
      BY <1>3, <1>4, <1>5, <1>6, <1>7, <2>2, CoverageStep
  <1>8. CASE ~TargetMet(after)
    BY <1>3, <1>4, <1>5, <1>8, CoverageStep
  <1>9. QED
    BY <1>7, <1>8

LEMMA RewindCovered == TypeOK /\ Coverage /\ BatchRewinds => Coverage'
  <1> SUFFICES ASSUME TypeOK, Coverage, BatchRewinds PROVE Coverage'
    OBVIOUS
  <1>1. PICK n \in row + 1 .. Len(rows) : \E throttled \in SUBSET Pending(n) :
          \E failed \in SUBSET (Pending(n) \ throttled) :
          LET lost == Rewinding(Pending(n), throttled, failed) IN
          \E kept \in SUBSET Evidence(Pending(n), lost) : \E first \in lost :
             /\ \A k \in lost : first <= k
             /\ job' = [Judged(Pending(n), throttled, lost, kept) EXCEPT !.offset = first - 1]
    BY Zenon DEF BatchRewinds
  <1>2. PICK throttled \in SUBSET Pending(n) : \E failed \in SUBSET (Pending(n) \ throttled) :
          LET lost == Rewinding(Pending(n), throttled, failed) IN
          \E kept \in SUBSET Evidence(Pending(n), lost) : \E first \in lost :
             /\ \A k \in lost : first <= k
             /\ job' = [Judged(Pending(n), throttled, lost, kept) EXCEPT !.offset = first - 1]
    BY <1>1, Zenon
  <1>3. PICK failed \in SUBSET (Pending(n) \ throttled) :
          LET lost == Rewinding(Pending(n), throttled, failed) IN
          \E kept \in SUBSET Evidence(Pending(n), lost) : \E first \in lost :
             /\ \A k \in lost : first <= k
             /\ job' = [Judged(Pending(n), throttled, lost, kept) EXCEPT !.offset = first - 1]
    BY <1>2, Zenon
  <1> DEFINE lost == Rewinding(Pending(n), throttled, failed)
  <1>4. PICK kept \in SUBSET Evidence(Pending(n), lost) : \E first \in lost :
             /\ \A k \in lost : first <= k
             /\ job' = [Judged(Pending(n), throttled, lost, kept) EXCEPT !.offset = first - 1]
    BY <1>3, Zenon
  <1>5. PICK first \in lost :
             /\ \A k \in lost : first <= k
             /\ job' = [Judged(Pending(n), throttled, lost, kept) EXCEPT !.offset = first - 1]
    BY <1>4, Zenon
  <1>6. lost \subseteq Pending(n) /\ kept \in SUBSET Pending(n)
    BY DEF Rewinding, Evidence
  <1>7. /\ pc = "rows" /\ pc' = "leave" /\ fresh' = fresh /\ dartFresh' = dartFresh /\ disk' = disk
    BY DEF BatchRewinds, env, store
  <1>8. row \in Nat /\ rows \in Seq(Receipts) /\ Covered(fresh, dartFresh, disk)
    BY <1>7, CoverageNow DEF Segment
  <1> HIDE DEF lost
  <1>9. first - 1 \in 0..n /\ \A m \in lost : m \in Nat /\ m > first - 1
    <2>1. lost \subseteq row + 1 .. n
      BY <1>6 DEF Pending
    <2>2. QED
      BY <1>5, <1>8, <2>1
  <1> DEFINE k == [Judged(Pending(n), throttled, lost, kept) EXCEPT !.offset = first - 1]
  <1>10. Covered(fresh, dartFresh, k) /\ k.phase # "dart_discovery"
    <2>1. lost \in SUBSET Pending(n) /\ throttled \in SUBSET Pending(n)
      BY <1>6
    <2>2. pc = "rows"
      BY <1>7
    <2>3. QED
      <3>1. PICK o : o = first - 1
        OBVIOUS
      <3>2. o \in 0..n /\ \A m \in lost : m \in Nat /\ m > o
        BY <1>9, <3>1
      <3>3. Moves(k, Pending(n), throttled, lost, kept, o)
        BY <3>1, Zenon DEF Moves
      <3> HIDE DEF k
      <3>4. QED
        BY <1>6, <2>1, <2>2, <3>2, <3>3, BatchMove
  <1>11. job' = k
    BY <1>5, Zenon
  <1> HIDE DEF k
  <1>12. QED
    BY <1>7, <1>8, <1>10, <1>11, CoverageStep

LEMMA EndCovered ==
  ASSUME TypeOK, Coverage,
         \/ BatchRaises \/ Leave \/ SaveRecord \/ AppendAudit \/ DeleteCheckpoint
         \/ Crash \/ Expire
  PROVE  Coverage'
  <1> USE DEF env, store, Save, Return
  <1>1. CASE BatchRaises \/ DeleteCheckpoint \/ Crash \/ Expire
    <2>1. /\ fresh' = fresh /\ dartFresh' = dartFresh /\ (disk' = disk \/ disk' = NoJob)
          /\ pc' \notin Segment
      BY <1>1, Zenon DEF BatchRaises, DeleteCheckpoint, Crash, Expire, Segment
    <2>2. job' = NoJob \/ job' = job
      BY <1>1, Zenon DEF BatchRaises, DeleteCheckpoint, Crash, Expire
    <2>3. /\ disk = NoJob \/ Covered(fresh, dartFresh, disk)
          /\ job = NoJob \/ Covered(fresh, dartFresh, job)
      BY DEF Coverage
    <2>4. QED
      BY <2>1, <2>2, <2>3, CoverageStep DEF Segment
  <1>2. CASE Leave
    <2>1. /\ pc = "leave" /\ fresh' = fresh /\ dartFresh' = dartFresh /\ disk' = job
          /\ \/ Listed(job) /\ pc' = "record" /\ job' = job
             \/ pc' = "idle" /\ job' = NoJob
      BY <1>2 DEF Leave
    <2>2. Covered(fresh, dartFresh, job) /\ job.phase # "dart_discovery"
      BY <2>1, CoverageNow DEF Segment
    <2>3. QED
      BY <2>1, <2>2, CoverageStep DEF Segment
  <1>3. CASE SaveRecord \/ AppendAudit
    <2>1. /\ pc \in {"record", "audit"} /\ pc' \in {"audit", "delete"} /\ fresh' = fresh
          /\ dartFresh' = dartFresh /\ disk' = disk /\ job' = job
      BY <1>3 DEF SaveRecord, AppendAudit
    <2>2. /\ Covered(fresh, dartFresh, job) /\ Covered(fresh, dartFresh, disk)
          /\ job.phase # "dart_discovery"
      BY <2>1, CoverageNow DEF Segment
    <2>3. Listed(job)
      BY <2>1 DEF Coverage
    <2>4. QED
      BY <2>1, <2>2, <2>3, CoverageStep
  <1>4. QED
    BY <1>1, <1>2, <1>3

(* A function of lists whose every list gained at most the row r in front.  *)
LEMMA ListGrows ==
  ASSUME NEW I, NEW r, NEW g \in [I -> Seq(Receipts)], NEW h \in [I -> Seq(Receipts)],
         \A i \in I : h[i] = g[i] \/ h[i] = <<r>> \o g[i],
         \A s \in Seq(Receipts) :
           Len(s) <= Len(<<r>> \o s) /\ RangeOf(<<r>> \o s) = {r} \cup RangeOf(s)
  PROVE  \A i \in I : /\ Len(g[i]) <= Len(h[i])
                      /\ RangeOf(g[i]) \subseteq RangeOf(h[i])
                      /\ RangeOf(h[i]) \subseteq {r} \cup RangeOf(g[i])
  <1> SUFFICES ASSUME NEW i \in I
               PROVE  /\ Len(g[i]) <= Len(h[i])
                      /\ RangeOf(g[i]) \subseteq RangeOf(h[i])
                      /\ RangeOf(h[i]) \subseteq {r} \cup RangeOf(g[i])
    BY Zenon
  <1>1. g[i] \in Seq(Receipts) /\ Len(g[i]) \in Nat
    OBVIOUS
  <1>2. CASE h[i] = g[i]
    BY <1>1, <1>2
  <1>3. CASE h[i] = <<r>> \o g[i]
    <2>1. Len(g[i]) <= Len(<<r>> \o g[i]) /\ RangeOf(<<r>> \o g[i]) = {r} \cup RangeOf(g[i])
      BY <1>1, Zenon
    <2>2. Len(g[i]) <= Len(h[i]) /\ RangeOf(h[i]) = {r} \cup RangeOf(g[i])
      BY <1>3, <2>1, Zenon
    <2>3. QED
      BY <2>2
  <1>4. QED
    BY <1>2, <1>3, Zenon

LEMMA NewcomersGrow ==
  ASSUME NEW f, NEW df, NEW g, NEW dg, NEW r,
         \A w \in Windows : /\ RangeOf(f[w]) \subseteq RangeOf(g[w])
                            /\ RangeOf(g[w]) \subseteq {r} \cup RangeOf(f[w]),
         \A u \in Units : /\ RangeOf(df[u]) \subseteq RangeOf(dg[u])
                          /\ RangeOf(dg[u]) \subseteq {r} \cup RangeOf(df[u])
  PROVE  /\ Newcomers(f, df) \subseteq Newcomers(g, dg)
         /\ Newcomers(g, dg) \subseteq {r} \cup Newcomers(f, df)
  <1>1. ASSUME NEW a, NEW b, NEW x
        PROVE  x \in Newcomers(a, b) <=> \/ \E w \in Windows : x \in RangeOf(a[w])
                                         \/ \E u \in Units : x \in RangeOf(b[u])
    <2>1. x \in UNION {RangeOf(a[w]) : w \in Windows} <=> \E w \in Windows : x \in RangeOf(a[w])
      OBVIOUS
    <2>2. x \in UNION {RangeOf(b[u]) : u \in Units} <=> \E u \in Units : x \in RangeOf(b[u])
      OBVIOUS
    <2>3. QED
      BY <2>1, <2>2, Zenon DEF Newcomers
  <1>2. ASSUME NEW x \in Newcomers(f, df) PROVE x \in Newcomers(g, dg)
    BY <1>1, Zenon
  <1>3. ASSUME NEW x \in Newcomers(g, dg) PROVE x \in {r} \cup Newcomers(f, df)
    <2>1. x = r \/ x \in Newcomers(f, df)
      BY <1>1, Zenon
    <2>2. QED
      BY <2>1
  <1>4. QED
    BY <1>2, <1>3

LEMMA PublishCovered == TypeOK /\ TypeOK' /\ Coverage /\ Publish => Coverage'
  <1> SUFFICES ASSUME TypeOK, TypeOK', Coverage, Publish PROVE Coverage'
    OBVIOUS
  <1>1. PICK r \in Receipts \ (Published \cup CatalogRows \cup DartCatalogRows) :
          /\ fresh' = [fresh EXCEPT ![1] = <<r>> \o @]
          /\ \E units \in SUBSET LiveUnits :
               dartFresh' = [u \in Units |-> IF u \in units THEN <<r>> \o dartFresh[u]
                                                            ELSE dartFresh[u]]
    BY Zenon DEF Publish
  <1>2. PICK units \in SUBSET LiveUnits :
          dartFresh' = [u \in Units |-> IF u \in units THEN <<r>> \o dartFresh[u]
                                                       ELSE dartFresh[u]]
    BY <1>1, Zenon
  <1>3. /\ fresh \in [Windows -> Seq(Receipts)] /\ dartFresh \in [Units -> Seq(Receipts)]
        /\ fresh' \in [Windows -> Seq(Receipts)] /\ dartFresh' \in [Units -> Seq(Receipts)]
    BY DEF TypeOK
  <1>4. /\ pc' = pc /\ job' = job /\ disk' = disk /\ rows' = rows /\ row' = row /\ last' = last
    BY DEF Publish, reading, store
  <1>5. ASSUME NEW s \in Seq(Receipts)
        PROVE  Len(s) <= Len(<<r>> \o s) /\ RangeOf(<<r>> \o s) = {r} \cup RangeOf(s)
    <2>1. <<r>> \in Seq(Receipts) /\ Len(<<r>>) = 1
      OBVIOUS
    <2>2. RangeOf(<<r>>) = {r}
      BY DEF RangeOf
    <2>3. RangeOf(<<r>> \o s) = RangeOf(<<r>>) \cup RangeOf(s)
      BY <2>1, RangeOfConcat
    <2>4. Len(<<r>> \o s) = 1 + Len(s)
      BY <2>1, ConcatProperties
    <2>5. QED
      BY <2>2, <2>3, <2>4
  <1>6. \A w \in Windows : /\ Len(fresh[w]) <= Len(fresh'[w])
                           /\ RangeOf(fresh[w]) \subseteq RangeOf(fresh'[w])
                           /\ RangeOf(fresh'[w]) \subseteq {r} \cup RangeOf(fresh[w])
    <2>1. ASSUME NEW w \in Windows PROVE fresh'[w] = fresh[w] \/ fresh'[w] = <<r>> \o fresh[w]
      BY <1>1, <1>3
    <2>2. QED
      BY <1>3, <1>5, <2>1, ListGrows
  <1>7. \A u \in Units : /\ Len(dartFresh[u]) <= Len(dartFresh'[u])
                         /\ RangeOf(dartFresh[u]) \subseteq RangeOf(dartFresh'[u])
                         /\ RangeOf(dartFresh'[u]) \subseteq {r} \cup RangeOf(dartFresh[u])
    <2>1. ASSUME NEW u \in Units
          PROVE  dartFresh'[u] = dartFresh[u] \/ dartFresh'[u] = <<r>> \o dartFresh[u]
      BY <1>2, Zenon
    <2>2. QED
      BY <1>3, <1>5, <2>1, ListGrows
  <1>8. /\ Newcomers(fresh, dartFresh) \subseteq Newcomers(fresh', dartFresh')
        /\ Newcomers(fresh', dartFresh') \subseteq {r} \cup Newcomers(fresh, dartFresh)
    BY <1>6, <1>7, NewcomersGrow
  <1>9. Newcomers(fresh', dartFresh') \cap (CatalogRows \cup DartCatalogRows) = {}
    BY <1>1, <1>8 DEF Coverage
  <1>10. ASSUME NEW j \in {job, disk} \ {NoJob} PROVE Covered(fresh', dartFresh', j)
    <2>1. j \in States /\ Covered(fresh, dartFresh, j)
      BY DEF TypeOK, Coverage
    <2>2. QED
      BY <1>3, <1>6, <1>7, <1>8, <2>1, PublishedCovered
  <1>11. ASSUME pc = "rows", ~TargetMet(job)
         PROVE  PageCovered(fresh', dartFresh', job, rows, row, last)
    <2>1. job \in States /\ ~Listed(job) /\ PageCovered(fresh, dartFresh, job, rows, row, last)
      BY <1>11, CoverageNow DEF Segment, Coverage
    <2>2. job.window \in Windows \/ job.phase # "opendart_discovery"
      BY <2>1, WindowInRange
    <2>3. QED
      BY <1>3, <1>6, <1>7, <1>8, <2>1, <2>2, PublishedCovered
  <1>12. QED
    BY <1>4, <1>9, <1>10, <1>11 DEF Coverage

THEOREM CoverageNext == TypeOK /\ Coverage /\ [Next]_vars => Coverage'
  <1> SUFFICES ASSUME TypeOK, Coverage, [Next]_vars PROVE Coverage'
    OBVIOUS
  <1>1. TypeOK'
    BY NextTypeOK
  <1>2. CASE UNCHANGED vars
    BY <1>2 DEF vars, Coverage
  <1>3. CASE Next
    <2>1. CASE Run \/ Continue
      BY <2>1, RunCovered, ContinueCovered
    <2>2. CASE HealthOk \/ DiscoveryFallsBack \/ SearchPage \/ DiscoveryDone \/ DiscoveryStops
      BY <2>2, DiscoveryCovered
    <2>3. CASE FetchPage
      BY <2>3, FetchCovered
    <2>4. CASE PageStops \/ PagesDone \/ PageFinished
      BY <2>4, PageCoverage
    <2>5. CASE RowsStop \/ SkipRows
      BY <2>5, RowsCoverage
    <2>6. CASE BatchSucceeds \/ BatchRewinds
      BY <2>6, SuccessCovered, RewindCovered
    <2>7. CASE BatchRaises \/ Leave \/ SaveRecord \/ AppendAudit \/ DeleteCheckpoint
               \/ Crash \/ Expire
      BY <2>7, EndCovered
    <2>8. CASE Publish
      BY <1>1, <2>8, PublishCovered
    <2>9. CASE Terminated
      BY <2>9 DEF Terminated, vars, Coverage
    <2>10. QED
      BY <1>3, <2>1, <2>2, <2>3, <2>4, <2>5, <2>6, <2>7, <2>8, <2>9 DEF Next
  <1>4. QED
    BY <1>2, <1>3

(* Nothing that was listed at approval is behind a cursor without having    *)
(* been processed: _execute_segment may be interrupted anywhere, and rows   *)
(* may shift at any time.                                                   *)
THEOREM CoverageAlways == Spec => []Coverage
  <1>1. Init => TypeOK /\ Coverage
    BY InitTypeOK, CoverageInit
  <1>2. TypeOK /\ Coverage /\ [Next]_vars => (TypeOK /\ Coverage)'
    BY NextTypeOK, CoverageNext
  <1>3. QED
    BY <1>1, <1>2, PTL DEF Spec

(* A job that writes its record has looked at every filing listed at        *)
(* approval in the channel it ended up using, or has reached its target.    *)
THEOREM NothingLost == Spec => []NoFilingLost
  <1>1. TypeOK /\ Coverage => NoFilingLost
    <2> SUFFICES ASSUME TypeOK, Coverage, pc \in {"record", "audit", "delete"}, ~TargetMet(job)
                 PROVE  IF job.phase = "dart_verification"
                        THEN /\ RangeOf(job.cands) \cap DartCatalogRows \subseteq job.done
                             /\ job.strayed \/ DartCatalogRows \subseteq job.done
                        ELSE CatalogRows \subseteq job.done
      BY DEF NoFilingLost
    <2>1. /\ job \in States /\ Covered(fresh, dartFresh, job) /\ job.phase # "dart_discovery"
          /\ Newcomers(fresh, dartFresh) \cap (CatalogRows \cup DartCatalogRows) = {}
      BY CoverageNow DEF Segment
    <2>2. Listed(job)
      BY DEF Coverage
    <2>3. QED
      BY <2>1, <2>2, ListedDone, Zenon
  <1>2. QED
    BY <1>1, TypeCorrect, CoverageAlways, PTL

-----------------------------------------------------------------------------
(* The results add up.                                                      *)

(* Dictionaries that record the same work.                                  *)

Alike(k, j) ==
  /\ k.done = j.done /\ k.skipped = j.skipped /\ k.results = j.results
  /\ k.count = j.count

LEMMA AlikeBalanced ==
  ASSUME NEW j, NEW k, Balanced(j), Alike(k, j), Distinct(k.cands),
         UseDart \/ k.phase = "opendart_discovery", PagesAsCounted => ~k.strayed
  PROVE  Balanced(k)
  BY DEF Balanced, Alike, Accounted, TargetMet

LEMMA AlikeContinues ==
  ASSUME NEW j, NEW k, NEW d, Continues(j, d), Alike(k, j),
         j.phase = "dart_verification" => k.phase = j.phase /\ k.cands = j.cands
  PROVE  Continues(k, d)
  BY DEF Continues, Alike

LEMMA ContinuesItself ==
  ASSUME NEW j \in States
  PROVE  Continues(j, j)
  <1>1. j.count \in Nat
    BY DEF States
  <1>2. QED
    BY <1>1 DEF Continues

LEMMA ContinuesOn ==
  ASSUME NEW k \in States, NEW j \in States, NEW d \in States, Continues(k, j), Continues(j, d)
  PROVE  Continues(k, d)
  <1>1. k.count \in Nat /\ j.count \in Nat /\ d.count \in Nat
    BY DEF States
  <1>2. QED
    BY <1>1 DEF Continues

-----------------------------------------------------------------------------
(* Lists without repetitions.                                               *)

LEMMA CatalogDistinct == \A w \in Windows : Distinct(Catalog[w])
  BY ListingAssumption DEF Distinct

LEMMA PushDistinct ==
  ASSUME NEW s \in Seq(Receipts), NEW r \in Receipts, r \notin RangeOf(s), Distinct(s)
  PROVE  Distinct(<<r>> \o s)
  <1> DEFINE c == <<r>> \o s
  <1>1. <<r>> \in Seq(Receipts) /\ Len(<<r>>) = 1 /\ <<r>>[1] = r
    OBVIOUS
  <1>2. /\ c \in Seq(Receipts) /\ Len(c) = 1 + Len(s) /\ c[1] = r
        /\ \A i \in 2 .. 1 + Len(s) : c[i] = s[i - 1] /\ i - 1 \in 1..Len(s)
    BY <1>1, ConcatProperties
  <1>3. DOMAIN c = 1..(1 + Len(s)) /\ DOMAIN s = 1..Len(s) /\ Len(s) \in Nat
    BY <1>2
  <1> HIDE DEF c
  <1>4. \A i \in DOMAIN c : i = 1 \/ i \in 2 .. 1 + Len(s)
    BY <1>3
  <1>5. \A i \in 2 .. 1 + Len(s) : c[i] \in RangeOf(s)
    BY <1>2, <1>3 DEF RangeOf
  <1>6. ASSUME NEW a \in DOMAIN c, NEW b \in DOMAIN c, c[a] = c[b] PROVE a = b
    <2>1. CASE a = 1 /\ b = 1
      BY <2>1
    <2>2. CASE a = 1 /\ b # 1
      BY <1>2, <1>4, <1>5, <1>6, <2>2
    <2>3. CASE a # 1 /\ b = 1
      BY <1>2, <1>4, <1>5, <1>6, <2>3
    <2>4. CASE a # 1 /\ b # 1
      <3>1. a \in 2 .. 1 + Len(s) /\ b \in 2 .. 1 + Len(s)
        BY <1>4, <2>4
      <3>2. /\ s[a - 1] = s[b - 1] /\ a - 1 \in DOMAIN s /\ b - 1 \in DOMAIN s
        BY <1>2, <1>3, <1>6, <3>1
      <3>3. a - 1 = b - 1
        BY <3>2 DEF Distinct
      <3>4. QED
        BY <1>3, <3>1, <3>3
    <2>5. QED
      BY <2>1, <2>2, <2>3, <2>4
  <1>7. QED
    BY <1>6 DEF c, Distinct

LEMMA PublishDistinct ==
  ASSUME NEW f \in Seq(Receipts), NEW c \in Seq(Receipts), NEW r \in Receipts,
         r \notin RangeOf(f \o c), Distinct(f \o c)
  PROVE  Distinct((<<r>> \o f) \o c)
  <1>1. f \o c \in Seq(Receipts)
    BY ConcatProperties
  <1>2. Distinct(<<r>> \o (f \o c))
    BY <1>1, PushDistinct
  <1>3. (<<r>> \o f) \o c = <<r>> \o (f \o c)
    OBVIOUS
  <1>4. QED
    BY <1>2, <1>3

LEMMA SliceDistinct ==
  ASSUME NEW s \in Seq(Receipts), Distinct(s), NEW p \in Nat \ {0}, NEW size \in Nat \ {0}
  PROVE  Distinct(PageOf(s, p, size))
  <1> DEFINE slice == PageOf(s, p, size)
             start == PageStart(p, size)
  <1>1. /\ start \in Nat /\ slice \in Seq(Receipts)
        /\ Len(slice) = IF start >= Len(s) THEN 0 ELSE Smaller(start + size, Len(s)) - start
        /\ \A k \in 1..Len(slice) : slice[k] = s[start + k]
    BY SliceType, Zenon
  <1> HIDE DEF slice, start
  <1>2. \A k \in DOMAIN slice : k \in 1..Len(slice) /\ start + k \in DOMAIN s
    BY <1>1 DEF Smaller
  <1>3. ASSUME NEW a \in DOMAIN slice, NEW b \in DOMAIN slice, slice[a] = slice[b] PROVE a = b
    <2>1. s[start + a] = s[start + b]
      BY <1>1, <1>2, <1>3
    <2>2. start + a = start + b
      BY <1>2, <2>1 DEF Distinct
    <2>3. QED
      BY <1>1, <1>2, <2>2
  <1>4. QED
    BY <1>3 DEF slice, Distinct

(* Candidates merged from a further result page are new and in an order of  *)
(* their own, so none of them is there twice.                               *)
LEMMA MergeDistinct ==
  ASSUME NEW cands \in Seq(Receipts), Distinct(cands), NEW found \in Seq(Receipts),
         NEW new \in Seq(Receipts), Merges(new, cands, found)
  PROVE  Distinct(cands \o new)
  <1> DEFINE c == cands \o new
  <1>1. /\ c \in Seq(Receipts) /\ Len(c) = Len(cands) + Len(new)
        /\ \A i \in 1..Len(cands) : c[i] = cands[i]
        /\ \A i \in Len(cands) + 1 .. Len(cands) + Len(new) :
             c[i] = new[i - Len(cands)] /\ i - Len(cands) \in 1..Len(new)
        /\ Len(cands) \in Nat /\ Len(new) \in Nat
    BY ConcatProperties
  <1>2. DOMAIN c = 1..Len(c) /\ DOMAIN cands = 1..Len(cands) /\ DOMAIN new = 1..Len(new)
    BY <1>1
  <1> HIDE DEF c
  <1>3. ASSUME NEW a \in DOMAIN new, NEW b \in DOMAIN new, a < b PROVE new[a] # new[b]
    <2>1. PICK i \in DOMAIN found : /\ found[i] = new[a]
                                   /\ \A j \in DOMAIN found : found[j] = new[b] => i < j
      BY <1>3 DEF Merges
    <2>2. i \in Nat
      OBVIOUS
    <2>3. QED
      BY <2>1, <2>2
  <1>4. Distinct(new)
    <2>1. SUFFICES ASSUME NEW a \in DOMAIN new, NEW b \in DOMAIN new, new[a] = new[b] PROVE a = b
      BY DEF Distinct
    <2>2. a \in Nat /\ b \in Nat /\ ~(a < b) /\ ~(b < a)
      BY <1>2, <1>3, <2>1
    <2>3. QED
      BY <2>2
  <1>5. \A a \in DOMAIN cands, b \in DOMAIN new : cands[a] # new[b]
    <2>1. RangeOf(new) \cap RangeOf(cands) = {}
      BY DEF Merges
    <2>2. QED
      BY <2>1 DEF RangeOf
  <1>6. \A i \in DOMAIN c :
          \/ i \in DOMAIN cands /\ c[i] = cands[i]
          \/ i - Len(cands) \in DOMAIN new /\ c[i] = new[i - Len(cands)]
    BY <1>1, <1>2
  <1>7. ASSUME NEW a \in DOMAIN c, NEW b \in DOMAIN c, c[a] = c[b] PROVE a = b
    <2>1. CASE a \in DOMAIN cands /\ b \in DOMAIN cands
      <3>1. c[a] = cands[a] /\ c[b] = cands[b]
        BY <1>1, <1>2, <2>1
      <3>2. QED
        BY <1>7, <2>1, <3>1 DEF Distinct
    <2>2. CASE a \notin DOMAIN cands /\ b \notin DOMAIN cands
      <3>1. /\ a - Len(cands) \in DOMAIN new /\ c[a] = new[a - Len(cands)]
            /\ b - Len(cands) \in DOMAIN new /\ c[b] = new[b - Len(cands)]
        BY <1>6, <2>2
      <3>2. a - Len(cands) = b - Len(cands)
        BY <1>4, <1>7, <3>1 DEF Distinct
      <3>3. QED
        BY <1>1, <1>2, <3>2
    <2>3. CASE a \in DOMAIN cands /\ b \notin DOMAIN cands
      <3>1. /\ c[a] = cands[a]
            /\ b - Len(cands) \in DOMAIN new /\ c[b] = new[b - Len(cands)]
        BY <1>1, <1>2, <1>6, <2>3
      <3>2. QED
        BY <1>5, <1>7, <2>3, <3>1
    <2>4. CASE a \notin DOMAIN cands /\ b \in DOMAIN cands
      <3>1. /\ c[b] = cands[b]
            /\ a - Len(cands) \in DOMAIN new /\ c[a] = new[a - Len(cands)]
        BY <1>1, <1>2, <1>6, <2>4
      <3>2. QED
        BY <1>5, <1>7, <2>4, <3>1
    <2>5. QED
      BY <2>1, <2>2, <2>3, <2>4
  <1>8. QED
    BY <1>7 DEF c, Distinct

-----------------------------------------------------------------------------
(* A judged batch.                                                          *)

LEMMA DistinctImage ==
  ASSUME NEW s, NEW K, IsFiniteSet(K), \A a, b \in K : s[a] = s[b] => a = b
  PROVE  /\ IsFiniteSet({s[m] : m \in K})
         /\ Cardinality({s[m] : m \in K}) = Cardinality(K)
  <1> DEFINE image == {s[m] : m \in K}
             f == [m \in K |-> s[m]]
  <1>1. f \in Bijection(K, image)
    <2>1. f \in [K -> image] /\ \A a \in K : f[a] = s[a]
      OBVIOUS
    <2>2. \A a, b \in K : f[a] = f[b] => a = b
      BY <2>1
    <2>3. \A t \in image : \E a \in K : f[a] = t
      BY <2>1
    <2> HIDE DEF f, image
    <2>4. QED
      BY <2>1, <2>2, <2>3 DEF Bijection, Injection, IsInjective, Surjection
  <1>2. ExistsBijection(K, image)
    BY <1>1 DEF ExistsBijection
  <1>3. QED
    BY <1>2, FS_Bijection

(* The rows judged, and those that become results, are new to the job.      *)
LEMMA PendingNew ==
  ASSUME TypeOK, Distinct(rows), NEW n \in row + 1 .. Len(rows), NEW kept \in SUBSET Pending(n)
  PROVE  /\ IsFiniteSet({rows[m] : m \in kept})
         /\ Cardinality({rows[m] : m \in kept}) = Cardinality(kept)
         /\ {rows[m] : m \in kept} \cap job.done = {}
         /\ Cardinality(kept) \in Nat
  <1>1. IsFiniteSet(kept) /\ kept \subseteq DOMAIN rows
    BY PendingRange, FS_Subset
  <1>2. \A a, b \in kept : rows[a] = rows[b] => a = b
    BY <1>1 DEF Distinct
  <1>3. {rows[m] : m \in kept} \cap job.done = {}
    BY DEF Pending
  <1>4. QED
    BY <1>1, <1>2, <1>3, DistinctImage, FS_CardinalityType

(* Appending results keeps their number within the target, and leaves one   *)
(* out only when the target is reached.                                     *)
LEMMA AppendedRoom ==
  ASSUME job \in States, NEW hits, IsFiniteSet(hits), NEW kept, Appended(kept, hits),
         Exhaustive \/ job.count <= Target
  PROVE  /\ Exhaustive \/ job.count + Cardinality(kept) <= Target
         /\ kept = hits \/ (~Exhaustive /\ job.count + Cardinality(kept) >= Target)
  <1>1. kept \subseteq hits /\ Cardinality(hits) \in Nat /\ Cardinality(kept) \in Nat
    BY FS_Subset, FS_CardinalityType DEF Appended
  <1>2. job.count \in Nat /\ Target \in Nat
    BY LimitsAssumption DEF States
  <1>3. CASE Exhaustive \/ job.count + Cardinality(hits) <= Target
    BY <1>3 DEF Appended
  <1>4. CASE ~(Exhaustive \/ job.count + Cardinality(hits) <= Target)
    <2>1. Cardinality(kept) = IF job.count < Target THEN Target - job.count ELSE 0
      BY <1>4 DEF Appended
    <2>2. job.count <= Target
      BY <1>4
    <2>3. job.count + Cardinality(kept) = Target
      BY <1>1, <1>2, <2>1, <2>2
    <2>4. QED
      BY <1>2, <1>4, <2>3
  <1>5. QED
    BY <1>3, <1>4

LEMMA JudgedBalanced ==
  ASSUME TypeOK, job \in States, Balanced(job), Distinct(rows), NEW n \in row + 1 .. Len(rows),
         NEW throttled, NEW lost,
         \A m \in Pending(n) : Kind[rows[m]] = "broken" => m \in lost,
         NEW kept, Appended(kept, Evidence(Pending(n), lost)),
         NEW o, NEW k, Moves(k, Pending(n), throttled, lost, kept, o)
  PROVE  Balanced(k) /\ Continues(k, job)
  <1> DEFINE batch == Pending(n)
             hits == Evidence(batch, lost)
             new == {rows[m] : m \in kept}
             judged == {rows[m] : m \in batch \ lost}
             evidence(S) == {r \in S : Kind[r] = "evidence"}
  <1>1. kept \subseteq hits /\ hits \subseteq batch
    BY DEF Appended, Evidence
  <1>2. /\ k.phase = job.phase /\ k.cands = job.cands /\ k.strayed = job.strayed
        /\ k.done = job.done \cup judged
        /\ k.skipped = job.skipped \cup {rows[m] : m \in Unavailable(batch, lost)}
        /\ k.results = job.results \cup new
        /\ k.count = job.count + Cardinality(kept)
    BY JudgedFields
  <1>3. /\ IsFiniteSet(new) /\ Cardinality(new) = Cardinality(kept) /\ new \cap job.done = {}
        /\ Cardinality(kept) \in Nat
    BY <1>1, PendingNew
  <1>4. /\ Exhaustive \/ k.count <= Target
        /\ kept = hits \/ TargetMet(k)
    <2>1. IsFiniteSet(hits)
      BY <1>1, PendingRange, FS_Subset
    <2>2. QED
      BY <1>2, <2>1, AppendedRoom DEF Balanced, TargetMet
  <1>5. /\ job.count \in Nat /\ Target \in Nat /\ IsFiniteSet(job.results)
        /\ job.count = Cardinality(job.results) /\ job.results \subseteq evidence(job.done)
        /\ TargetMet(job) \/ evidence(job.done) \subseteq job.results
        /\ job.skipped = {r \in job.done : Kind[r] = "unavailable"}
        /\ \A r \in job.done : Kind[r] # "broken"
        /\ Distinct(job.cands) /\ (UseDart \/ job.phase = "opendart_discovery")
        /\ PagesAsCounted => ~job.strayed
    BY LimitsAssumption DEF Balanced, Accounted, States
  <1>6. IsFiniteSet(k.results) /\ k.count = Cardinality(k.results)
    <2>1. job.results \cap new = {}
      BY <1>3, <1>5
    <2>2. Cardinality(job.results \cap new) = 0
      BY <2>1, FS_EmptySet
    <2>3. /\ IsFiniteSet(job.results \cup new)
          /\ Cardinality(job.results \cup new)
               = Cardinality(job.results) + Cardinality(new) - Cardinality(job.results \cap new)
      BY <1>3, <1>5, FS_Union
    <2>4. Cardinality(job.results \cup new) = job.count + Cardinality(kept)
      BY <1>3, <1>5, <2>2, <2>3
    <2>5. QED
      BY <1>2, <2>3, <2>4
  <1>7. new \subseteq evidence(judged)
    BY <1>1 DEF Evidence
  <1>8. evidence(judged) \subseteq {rows[m] : m \in hits}
    BY DEF Evidence
  <1>9. k.skipped = {r \in k.done : Kind[r] = "unavailable"}
    <2>1. {rows[m] : m \in Unavailable(batch, lost)} = {r \in judged : Kind[r] = "unavailable"}
      BY DEF Unavailable
    <2>2. QED
      BY <1>2, <1>5, <2>1
  <1>10. \A r \in judged : Kind[r] # "broken"
    OBVIOUS
  <1>11. TargetMet(job) => TargetMet(k)
    BY <1>2, <1>3, <1>5 DEF TargetMet
  <1> HIDE DEF batch, hits, judged
  <1>12. TargetMet(k) \/ evidence(k.done) \subseteq k.results
    <2>1. CASE kept = hits /\ ~TargetMet(job)
      BY <1>2, <1>5, <1>8, <2>1
    <2>2. CASE TargetMet(job) \/ kept # hits
      BY <1>4, <1>11, <2>2
    <2>3. QED
      BY <2>1, <2>2
  <1>13. k.results \subseteq evidence(k.done)
    BY <1>2, <1>5, <1>7
  <1>14. Balanced(k)
    BY <1>2, <1>4, <1>5, <1>6, <1>9, <1>10, <1>12, <1>13 DEF Balanced, Accounted
  <1>15. Continues(k, job)
    BY <1>2, <1>3, <1>5 DEF Continues
  <1>16. QED
    BY <1>14, <1>15

-----------------------------------------------------------------------------
(* Steps that leave the work as it is.                                      *)

Unmoved(k, j) ==
  /\ k \in States /\ Alike(k, j) /\ k.cands = j.cands /\ k.strayed = j.strayed
  /\ k.phase = j.phase \/ j.phase = "dart_discovery"

LEMMA UnmovedKeeps ==
  ASSUME NEW j \in States, NEW k, NEW d, Unmoved(k, j), Balanced(j), Continues(j, d)
  PROVE  k \in States /\ Balanced(k) /\ Continues(k, d) /\ Continues(k, j)
  <1>1. /\ Distinct(k.cands) /\ (UseDart \/ k.phase = "opendart_discovery")
        /\ PagesAsCounted => ~k.strayed
    BY DEF Unmoved, Balanced
  <1>2. /\ Alike(k, j) /\ k \in States
        /\ j.phase = "dart_verification" => k.phase = j.phase /\ k.cands = j.cands
    BY DEF Unmoved
  <1>3. QED
    BY <1>1, <1>2, AlikeBalanced, AlikeContinues, ContinuesItself

LEMMA CheckedUnmoved ==
  ASSUME NEW j \in States
  PROVE  Unmoved([j EXCEPT !.checked = TRUE], j)
  <1> DEFINE k == [j EXCEPT !.checked = TRUE]
  <1>1. k \in States
    BY CheckedType
  <1>2. Alike(k, j) /\ k.cands = j.cands /\ k.strayed = j.strayed /\ k.phase = j.phase
    BY DEF States, Alike
  <1>3. QED
    BY <1>1, <1>2 DEF Unmoved

LEMMA OffsetUnmoved ==
  ASSUME NEW j \in States, NEW o \in Nat
  PROVE  Unmoved([j EXCEPT !.offset = o], j)
  <1> DEFINE k == [j EXCEPT !.offset = o]
  <1>1. k \in States
    BY OffsetType
  <1>2. Alike(k, j) /\ k.cands = j.cands /\ k.strayed = j.strayed /\ k.phase = j.phase
    BY DEF States, Alike
  <1>3. QED
    BY <1>1, <1>2 DEF Unmoved

LEMMA WindowUnmoved ==
  ASSUME NEW j \in States, NEW w \in Nat \ {0}
  PROVE  Unmoved([j EXCEPT !.window = w], j)
  <1> DEFINE k == [j EXCEPT !.window = w]
  <1>1. k \in States
    BY WindowType
  <1>2. Alike(k, j) /\ k.cands = j.cands /\ k.strayed = j.strayed /\ k.phase = j.phase
    BY DEF States, Alike
  <1>3. QED
    BY <1>1, <1>2 DEF Unmoved

LEMMA StartUnmoved ==
  ASSUME NEW j \in States, NEW ph \in Phases,
         j.phase = "dart_discovery"
  PROVE  Unmoved([j EXCEPT !.phase = ph, !.window = 1, !.page = 1, !.offset = 0], j)
  <1> DEFINE k == [j EXCEPT !.phase = ph, !.window = 1, !.page = 1, !.offset = 0]
  <1>1. k \in States
    BY StartType, Zenon
  <1>2. Alike(k, j) /\ k.cands = j.cands /\ k.strayed = j.strayed
    BY DEF States, Alike
  <1> HIDE DEF k
  <1>3. Unmoved(k, j)
    BY <1>1, <1>2 DEF Unmoved
  <1>4. QED
    BY <1>3, Zenon DEF k

LEMMA PageUnmoved ==
  ASSUME NEW j \in States, NEW final
  PROVE  Unmoved([j EXCEPT !.offset = 0,
                           !.page = IF final THEN 1 ELSE @ + 1,
                           !.window = IF final THEN @ + 1 ELSE @], j)
  <1> DEFINE k == [j EXCEPT !.offset = 0,
                            !.page = IF final THEN 1 ELSE @ + 1,
                            !.window = IF final THEN @ + 1 ELSE @]
  <1>1. k \in States
    BY PageType, Zenon
  <1>2. Alike(k, j) /\ k.cands = j.cands /\ k.strayed = j.strayed /\ k.phase = j.phase
    BY DEF States, Alike
  <1> HIDE DEF k
  <1>3. Unmoved(k, j)
    BY <1>1, <1>2 DEF Unmoved
  <1>4. QED
    BY <1>3, Zenon DEF k

-----------------------------------------------------------------------------
(* Steps of a segment.                                                      *)

LEMMA BooksNow ==
  ASSUME TypeOK, Bookkeeping, pc \in Segment
  PROVE  /\ job \in States /\ job # NoJob /\ Balanced(job)
         /\ disk \in States /\ disk # NoJob /\ Balanced(disk)
         /\ Continues(job, disk)
  BY DEF TypeOK, Bookkeeping

(* While a segment has something left to do, no record has been written.    *)
LEMMA NoRecordYet ==
  ASSUME TypeOK, Bookkeeping,
         pc \in {"approved", "discover", "rows"} \/ (pc = "page" /\ ~Listed(job))
  PROVE  records = {}
  <1>1. CASE pc = "approved"
    BY <1>1 DEF Bookkeeping
  <1>2. CASE pc # "approved"
    <2>1. pc \in Segment /\ pc \notin {"leave", "record", "audit", "delete"}
          /\ (pc = "page" => ~Listed(job))
      BY <1>2 DEF Segment
    <2>2. disk # NoJob /\ job # NoJob
      BY <2>1, BooksNow
    <2>3. SUFFICES ASSUME records # {} PROVE FALSE
      OBVIOUS
    <2>4. Listed(disk) /\ job = disk /\ pc \in {"page", "leave", "record", "audit", "delete"}
      BY <2>2, <2>3 DEF Bookkeeping, Concluded
    <2>5. QED
      BY <2>1, <2>4
  <1>3. QED
    BY <1>1, <1>2

(* A segment at work: it adds to the checkpoint or leaves it alone.         *)
Works ==
  /\ records = {} /\ records' = {}
  /\ disk' \in States /\ Balanced(disk')
  /\ disk = NoJob \/ Continues(disk', disk)
  /\ pc # "expired" /\ pc' # "expired"

LEMMA WorkBooks ==
  ASSUME TypeOK, Bookkeeping, records = {}, records' = records, fresh' = fresh,
         pc' \in {"discover", "page", "rows", "leave"},
         Balanced(job'), Balanced(disk'), Continues(job', disk'),
         disk' \in States, disk = NoJob \/ Continues(disk', disk),
         pc # "expired", pc' = "rows" => Distinct(rows')
  PROVE  Bookkeeping' /\ Works
  <1>1. Works
    BY DEF Works
  <1>2. \A w \in Windows : Distinct(Rows(w))'
    BY DEF Bookkeeping, Rows
  <1>3. \A j \in ({job, disk} \ {NoJob})' : Balanced(j)
    OBVIOUS
  <1>4. RecordsAgree'
    BY DEF RecordsAgree
  <1>5. Bookkeeping'
    BY <1>2, <1>3, <1>4 DEF Bookkeeping, Segment
  <1>6. QED
    BY <1>1, <1>5

LEMMA RunBooks == TypeOK /\ Bookkeeping /\ Run => Bookkeeping' /\ Works
  <1> SUFFICES ASSUME TypeOK, Bookkeeping, Run PROVE Bookkeeping' /\ Works
    OBVIOUS
  <1>1. PICK setting \in Settings : job' = NewState(setting)
    BY Zenon DEF Run
  <1>2. /\ pc = "approved" /\ disk' = job' /\ records' = records /\ fresh' = fresh
        /\ pc' = Entry(job')
    BY DEF Run, Save, env
  <1>3. job' \in States
    BY <1>1, NewStateType, Zenon
  <1>4. Balanced(job')
    <2>1. /\ job'.done = {} /\ job'.skipped = {} /\ job'.results = {} /\ job'.count = 0
          /\ job'.cands = << >> /\ job'.strayed = FALSE
          /\ job'.phase = IF UseDart THEN "dart_discovery" ELSE "opendart_discovery"
      BY <1>1 DEF NewState
    <2>2. IsFiniteSet({}) /\ Cardinality({}) = 0
      BY FS_EmptySet
    <2>3. Distinct(job'.cands)
      BY <2>1 DEF Distinct
    <2>4. QED
      BY <2>1, <2>2, <2>3, LimitsAssumption DEF Balanced, Accounted
  <1>5. Continues(job', disk')
    BY <1>2, <1>3, ContinuesItself
  <1>6. pc' \in {"discover", "page"} /\ records = {} /\ disk = NoJob
    BY <1>2 DEF Entry, Bookkeeping
  <1>7. QED
    BY <1>2, <1>3, <1>4, <1>5, <1>6, WorkBooks

(* A step of a segment that saves its dictionary or does not.               *)
LEMMA SegmentBooks ==
  ASSUME TypeOK, Bookkeeping, pc \in Segment, records = {}, records' = records, fresh' = fresh,
         pc' \in {"discover", "page", "rows", "leave"},
         job' \in States, Balanced(job'), Continues(job', job), disk' \in {disk, job'},
         pc' = "rows" => Distinct(rows')
  PROVE  Bookkeeping' /\ Works
  <1>1. /\ job \in States /\ disk \in States /\ disk # NoJob /\ Balanced(disk)
        /\ Continues(job, disk)
    BY BooksNow
  <1>2. Continues(job', disk) /\ Continues(job', job') /\ Continues(disk, disk)
    BY <1>1, ContinuesOn, ContinuesItself
  <1>3. disk' \in States /\ Balanced(disk') /\ Continues(job', disk') /\ Continues(disk', disk)
    BY <1>1, <1>2
  <1>4. QED
    BY <1>3, WorkBooks DEF Segment

(* A step that leaves the work of the segment as it is.                     *)
LEMMA UnmovedBooks ==
  ASSUME TypeOK, Bookkeeping, pc \in Segment, records = {}, records' = records, fresh' = fresh,
         pc' \in {"discover", "page", "rows", "leave"},
         Unmoved(job', job), disk' \in {disk, job'}, pc' = "rows" => Distinct(rows')
  PROVE  Bookkeeping' /\ Works
  <1>1. /\ job \in States /\ Balanced(job) /\ Continues(job, disk)
    BY BooksNow
  <1>2. job' \in States /\ Balanced(job') /\ Continues(job', job)
    BY <1>1, UnmovedKeeps
  <1>3. QED
    BY <1>2, SegmentBooks

LEMMA SearchBooks == TypeOK /\ Coverage /\ Bookkeeping /\ SearchPage => Bookkeeping' /\ Works
  <1> SUFFICES ASSUME TypeOK, Coverage, Bookkeeping, SearchPage PROVE Bookkeeping' /\ Works
    OBVIOUS
  <1>1. /\ pc = "discover" /\ pc' = "discover" /\ disk' = job' /\ records' = records
        /\ fresh' = fresh /\ job.unit \in Units
    BY Zenon DEF SearchPage, Save, env
  <1>2. /\ job \in States /\ Balanced(job) /\ records = {} /\ job.phase = "dart_discovery"
    BY <1>1, BooksNow, NoRecordYet DEF Segment, Coverage
  <1>3. PICK size \in ServedSizes, shown \in Shows :
          \E cs \in [1..Cardinality(SearchedRows(size)) -> SearchedRows(size)] :
            /\ Merges(cs, job.cands, SearchedPage(size))
            /\ job' = Searched(job, cs, SearchedAway(size, shown), SearchedUnit(size, shown))
    BY SearchSteps, Zenon
  <1> DEFINE found == SearchedPage(size)
             added == RangeOf(found) \ RangeOf(job.cands)
             away == SearchedAway(size, shown)
             final == SearchedUnit(size, shown)
  <1>3a. PICK new \in [1..Cardinality(added) -> added] :
           /\ Merges(new, job.cands, found)
           /\ job' = Searched(job, new, away, final)
    BY <1>3, Zenon DEF SearchedRows
  <1>4. found \in Seq(Receipts) /\ job.cands \in Seq(Receipts)
    BY <1>1, <1>2, SearchedType DEF States
  <1> HIDE DEF found
  <1>5. new \in Seq(Receipts) /\ job.cands \o new \in Seq(Receipts)
    BY <1>4, MergeType, Zenon
  <1>6. Distinct(job.cands \o new)
    <2>1. Distinct(job.cands) /\ Merges(new, job.cands, found)
      BY <1>2, <1>3a, Zenon DEF Balanced
    <2>2. QED
      BY <1>4, <1>5, <2>1, MergeDistinct
  <1>6a. PagesAsCounted => ~away
    <2>1. PagesAsCounted => shown /\ size = DartPageSize
      BY <1>3 DEF PagesAsCounted
    <2>2. QED
      BY <2>1 DEF SearchedAway
  <1> HIDE DEF added, away, final
  <1>7. job' \in States
    BY <1>2, <1>3a, <1>5, SearchType, Zenon
  <1>8. Alike(job', job) /\ job'.cands = job.cands \o new /\ job'.phase = job.phase
        /\ (job'.strayed <=> (job.strayed \/ away))
    BY <1>2, <1>3a DEF States, Alike, Searched
  <1>10. Balanced(job') /\ Continues(job', job)
    <2>1. (UseDart \/ job'.phase = "opendart_discovery") /\ (PagesAsCounted => ~job'.strayed)
      BY <1>2, <1>6a, <1>8 DEF Balanced
    <2>2. Continues(job, job)
      BY <1>2, ContinuesItself
    <2>3. QED
      BY <1>2, <1>6, <1>8, <2>1, <2>2, AlikeBalanced, AlikeContinues
  <1>11. QED
    BY <1>1, <1>2, <1>7, <1>10, SegmentBooks DEF Segment

LEMMA DiscoveryBooks ==
  ASSUME TypeOK, Coverage, Bookkeeping, HealthOk \/ DiscoveryFallsBack \/ DiscoveryDone
  PROVE  Bookkeeping' /\ Works
  <1>1. /\ pc = "discover" /\ pc \in Segment /\ records' = records /\ fresh' = fresh
        /\ pc' \in {"discover", "page"} /\ disk' \in {disk, job'}
    BY DEF HealthOk, DiscoveryFallsBack, DiscoveryDone, env, store, Save, Segment
  <1>2. job \in States /\ records = {} /\ job.phase = "dart_discovery"
    BY <1>1, BooksNow, NoRecordYet DEF Coverage
  <1>3. Unmoved(job', job)
    <2>1. CASE HealthOk
      BY <1>2, <2>1, CheckedUnmoved DEF HealthOk
    <2>2. CASE DiscoveryFallsBack
      BY <1>2, <2>2, StartUnmoved, Zenon DEF DiscoveryFallsBack, Fallback, Phases
    <2>3. CASE DiscoveryDone
      BY <1>2, <2>3, StartUnmoved, Zenon DEF DiscoveryDone, Phases
    <2>4. QED
      BY <2>1, <2>2, <2>3
  <1>4. QED
    BY <1>1, <1>2, <1>3, UnmovedBooks

LEMMA FetchBooks == TypeOK /\ Coverage /\ Bookkeeping /\ FetchPage => Bookkeeping' /\ Works
  <1> SUFFICES ASSUME TypeOK, Coverage, Bookkeeping, FetchPage PROVE Bookkeeping' /\ Works
    OBVIOUS
  <1>1. /\ pc = "page" /\ pc \in Segment /\ ~Listed(job) /\ pc' = "rows" /\ job' = job
        /\ disk' = disk /\ records' = records /\ fresh' = fresh
    BY DEF FetchPage, env, store, Segment
  <1>2. job \in States /\ Balanced(job) /\ records = {} /\ job.phase # "dart_discovery"
    BY <1>1, BooksNow, NoRecordYet, CoverageNow
  <1>3. Distinct(rows')
    <2>1. CASE job.phase = "dart_verification"
      BY <1>2, <2>1 DEF FetchPage, Balanced
    <2>2. CASE job.phase = "opendart_discovery"
      <3>1. job.window \in Windows
        BY <1>1, <1>2, <2>2, WindowInRange
      <3>2. Rows(job.window) \in Seq(Receipts) /\ Distinct(Rows(job.window))
        BY <3>1, ListingType DEF Bookkeeping
      <3>3. job.page \in Nat \ {0} /\ PageSize \in Nat \ {0}
        BY <1>2, LimitsAssumption DEF States
      <3>4. rows' = PageOf(Rows(job.window), job.page, PageSize)
        <4>1. job.phase # "dart_verification"
          BY <2>2
        <4>2. QED
          BY <4>1, Zenon DEF FetchPage
      <3>5. QED
        BY <3>2, <3>3, <3>4, SliceDistinct
    <2>3. QED
      BY <1>2, <2>1, <2>2, PhaseCases
  <1>4. Unmoved(job, job)
    BY <1>2 DEF Unmoved, Alike
  <1>5. QED
    BY <1>1, <1>2, <1>3, <1>4, UnmovedBooks

LEMMA PageBooks ==
  ASSUME TypeOK, Bookkeeping, PageStops \/ PageFinished \/ RowsStop \/ SkipRows
  PROVE  Bookkeeping' /\ Works
  <1>1. /\ pc \in {"page", "rows"} /\ (pc = "page" => ~Listed(job))
        /\ records' = records /\ fresh' = fresh
        /\ pc' \in {"page", "rows", "leave"} /\ disk' \in {disk, job'}
        /\ pc' = "rows" => pc = "rows" /\ rows' = rows
    BY DEF PageStops, PageFinished, RowsStop, SkipRows, env, store, Save, reading, Segment
  <1>2. pc \in Segment
    BY <1>1 DEF Segment
  <1>3. job \in States /\ records = {}
    BY <1>1, <1>2, BooksNow, NoRecordYet
  <1>4. Unmoved(job', job)
    <2>1. CASE PageStops
      BY <1>3, <2>1 DEF PageStops, Unmoved, Alike
    <2>2. CASE PageFinished
      BY <1>3, <2>2, PageUnmoved, Zenon DEF PageFinished
    <2>3. CASE RowsStop
      <3>1. row \in Nat
        BY DEF TypeOK
      <3>2. QED
        BY <1>3, <2>3, <3>1, OffsetUnmoved DEF RowsStop
    <2>4. CASE SkipRows
      <3>1. Len(rows) \in Nat
        BY DEF TypeOK
      <3>2. QED
        BY <1>3, <2>4, <3>1, OffsetUnmoved DEF SkipRows
    <2>5. QED
      BY <2>1, <2>2, <2>3, <2>4
  <1>5. pc' = "rows" => Distinct(rows')
    BY <1>1 DEF Bookkeeping
  <1>6. QED
    BY <1>1, <1>2, <1>3, <1>4, <1>5, UnmovedBooks

-----------------------------------------------------------------------------
(* Steps that judge a batch.                                                *)

LEMMA SuccessBooks == TypeOK /\ Bookkeeping /\ BatchSucceeds => Bookkeeping' /\ Works
  <1> SUFFICES ASSUME TypeOK, Bookkeeping, BatchSucceeds PROVE Bookkeeping' /\ Works
    OBVIOUS
  <1>1. PICK n \in row + 1 .. Len(rows) :
          /\ Rewinding(Pending(n), {}, {}) = {}
          /\ \E kept \in SUBSET Evidence(Pending(n), {}) :
               LET after == [Judged(Pending(n), {}, {}, kept) EXCEPT !.offset = n] IN
               /\ Appended(kept, Evidence(Pending(n), {}))
               /\ disk' = after
               /\ IF TargetMet(after)
                  THEN /\ job' = [after EXCEPT !.window = WindowCount(after) + 1]
                       /\ pc' = "leave"
                  ELSE job' = after /\ UNCHANGED pc
    BY Zenon DEF BatchSucceeds, Save
  <1>2. PICK kept \in SUBSET Evidence(Pending(n), {}) :
          LET after == [Judged(Pending(n), {}, {}, kept) EXCEPT !.offset = n] IN
          /\ Appended(kept, Evidence(Pending(n), {}))
          /\ disk' = after
          /\ IF TargetMet(after)
             THEN /\ job' = [after EXCEPT !.window = WindowCount(after) + 1]
                  /\ pc' = "leave"
             ELSE job' = after /\ UNCHANGED pc
    BY <1>1, Zenon
  <1> DEFINE after == [Judged(Pending(n), {}, {}, kept) EXCEPT !.offset = n]
             final == [after EXCEPT !.window = WindowCount(after) + 1]
  <1>3. /\ disk' = after /\ Appended(kept, Evidence(Pending(n), {}))
        /\ \/ job' = final /\ pc' = "leave"
           \/ job' = after /\ pc' = pc
    BY <1>2, Zenon
  <1>4. /\ pc = "rows" /\ records' = records /\ fresh' = fresh /\ rows' = rows
    BY DEF BatchSucceeds, Save, env
  <1>5. /\ job \in States /\ Balanced(job) /\ Continues(job, disk) /\ disk \in States
        /\ records = {} /\ Distinct(rows)
    BY <1>4, BooksNow, NoRecordYet DEF Bookkeeping, Segment
  <1>6. Moves(after, Pending(n), {}, {}, kept, n)
    BY Zenon DEF Moves
  <1>7. after \in States
    <2>1. {} \in SUBSET Pending(n) /\ kept \in SUBSET Pending(n) /\ n \in Nat
      BY DEF TypeOK, Evidence
    <2>2. QED
      BY <1>5, <2>1, JudgedType, Zenon
  <1> HIDE DEF after
  <1>8. Balanced(after) /\ Continues(after, job)
    <2>1. \A m \in Pending(n) : Kind[rows[m]] = "broken" => m \in {}
      BY <1>1 DEF Rewinding
    <2>2. QED
      BY <1>3, <1>5, <1>6, <2>1, JudgedBalanced, Zenon
  <1>9. Unmoved(final, after)
    <2>1. WindowCount(after) + 1 \in Nat \ {0}
      BY ReceiptsAssumption DEF WindowCount
    <2>2. QED
      BY <1>7, <2>1, WindowUnmoved
  <1>10. /\ Continues(after, disk) /\ Continues(after, after)
    BY <1>5, <1>7, <1>8, ContinuesOn, ContinuesItself
  <1>11. Balanced(final) /\ Continues(final, after)
    BY <1>7, <1>8, <1>9, <1>10, UnmovedKeeps
  <1> HIDE DEF final
  <1>12. Balanced(job') /\ Continues(job', disk')
    BY <1>3, <1>8, <1>10, <1>11
  <1>13. pc' \in {"rows", "leave"}
    BY <1>3, <1>4
  <1>14. QED
    BY <1>3, <1>4, <1>5, <1>7, <1>8, <1>10, <1>12, <1>13, WorkBooks

LEMMA RewindBooks == TypeOK /\ Bookkeeping /\ BatchRewinds => Bookkeeping' /\ Works
  <1> SUFFICES ASSUME TypeOK, Bookkeeping, BatchRewinds PROVE Bookkeeping' /\ Works
    OBVIOUS
  <1> DEFINE Ends(n, throttled, failed) ==
        LET lost == Rewinding(Pending(n), throttled, failed) IN
        \E kept \in SUBSET Evidence(Pending(n), lost) :
          /\ Appended(kept, Evidence(Pending(n), lost))
          /\ \E first \in lost :
               job' = [Judged(Pending(n), throttled, lost, kept) EXCEPT !.offset = first - 1]
  <1>1. PICK n \in row + 1 .. Len(rows) : \E throttled \in SUBSET Pending(n) :
          \E failed \in SUBSET (Pending(n) \ throttled) : Ends(n, throttled, failed)
    BY Zenon DEF BatchRewinds
  <1>2. PICK throttled \in SUBSET Pending(n) :
          \E failed \in SUBSET (Pending(n) \ throttled) : Ends(n, throttled, failed)
    BY <1>1, Zenon
  <1> HIDE DEF Ends
  <1>2a. PICK failed \in SUBSET (Pending(n) \ throttled) : Ends(n, throttled, failed)
    BY <1>2, Zenon
  <1> DEFINE lost == Rewinding(Pending(n), throttled, failed)
  <1>3. PICK kept \in SUBSET Evidence(Pending(n), lost) :
          /\ Appended(kept, Evidence(Pending(n), lost))
          /\ \E first \in lost :
               job' = [Judged(Pending(n), throttled, lost, kept) EXCEPT !.offset = first - 1]
    BY <1>2a, Zenon DEF Ends
  <1>4. PICK first \in lost :
          job' = [Judged(Pending(n), throttled, lost, kept) EXCEPT !.offset = first - 1]
    BY <1>3, Zenon
  <1>5. /\ pc = "rows" /\ pc' = "leave" /\ records' = records /\ fresh' = fresh /\ disk' = disk
    BY DEF BatchRewinds, env, store
  <1>6. /\ job \in States /\ Balanced(job) /\ records = {} /\ Distinct(rows)
    BY <1>5, BooksNow, NoRecordYet DEF Bookkeeping, Segment
  <1>7. /\ \A m \in Pending(n) : Kind[rows[m]] = "broken" => m \in lost
        /\ lost \subseteq Pending(n)
    BY DEF Rewinding
  <1>8. first - 1 \in Nat
    <2>1. row \in Nat /\ Pending(n) \subseteq row + 1 .. n
      BY DEF TypeOK, Pending
    <2>2. QED
      BY <1>7, <2>1
  <1> HIDE DEF lost
  <1>9. job' \in States
    <2>1. kept \in SUBSET Pending(n)
      BY DEF Evidence
    <2>2. QED
      BY <1>4, <1>6, <1>8, <2>1, JudgedType, Zenon
  <1>10. Balanced(job') /\ Continues(job', job)
    <2>1. PICK k : k = job'
      OBVIOUS
    <2>2. Moves(k, Pending(n), throttled, lost, kept, first - 1)
      BY <1>4, <2>1, Zenon DEF Moves
    <2>3. Balanced(k) /\ Continues(k, job)
      BY <1>3, <1>6, <1>7, <2>2, JudgedBalanced, Zenon
    <2>4. QED
      BY <2>1, <2>3
  <1>11. QED
    BY <1>5, <1>6, <1>9, <1>10, SegmentBooks DEF Segment

-----------------------------------------------------------------------------
(* The end of a segment, and what happens around a job.                     *)

(* A step that touches neither the checkpoint nor the records.              *)
Keeps ==
  /\ disk' = disk /\ records' = records
  /\ pc' = "expired" <=> pc = "expired"

(* What is left of the invariant when the job, its checkpoint and its       *)
(* records are known: everything about the listings.                        *)
LEMMA RowsSame ==
  ASSUME Bookkeeping, fresh' = fresh
  PROVE  \A w \in Windows : Distinct(Rows(w))'
  BY DEF Bookkeeping, Rows

LEMMA ContinueBooks == TypeOK /\ Bookkeeping /\ Continue => Bookkeeping' /\ Keeps
  <1> SUFFICES ASSUME TypeOK, Bookkeeping, Continue PROVE Bookkeeping' /\ Keeps
    OBVIOUS
  <1>1. /\ pc = "idle" /\ disk # NoJob /\ job' = disk /\ disk' = disk /\ pc' = Entry(disk)
        /\ records' = records /\ fresh' = fresh
    BY DEF Continue, store, env
  <1>2. /\ pc' \in {"discover", "page"} /\ Keeps
        /\ disk.phase # "dart_discovery" => pc' = "page"
    BY <1>1 DEF Entry, Keeps
  <1>3. disk \in States /\ Balanced(disk) /\ Continues(disk, disk)
    BY <1>1, ContinuesItself DEF TypeOK, Bookkeeping
  <1>4. RecordsAgree' /\ (records' # {} => Concluded')
    BY <1>1, <1>2 DEF Bookkeeping, RecordsAgree, Concluded
  <1>5. Bookkeeping'
    BY <1>1, <1>2, <1>3, <1>4, RowsSame DEF Bookkeeping, Segment
  <1>6. QED
    BY <1>2, <1>5

LEMMA PagesDoneBooks == TypeOK /\ Bookkeeping /\ PagesDone => Bookkeeping' /\ Keeps
  <1> SUFFICES ASSUME TypeOK, Bookkeeping, PagesDone PROVE Bookkeeping' /\ Keeps
    OBVIOUS
  <1>1. /\ pc = "page" /\ pc' = "leave" /\ job' = job /\ disk' = disk
        /\ records' = records /\ fresh' = fresh
    BY DEF PagesDone, store, env
  <1>2. Keeps
    BY <1>1 DEF Keeps
  <1>3. RecordsAgree' /\ (records' # {} => Concluded')
    BY <1>1 DEF Bookkeeping, RecordsAgree, Concluded
  <1>4. Bookkeeping'
    BY <1>1, <1>3, RowsSame DEF Bookkeeping, Segment
  <1>5. QED
    BY <1>2, <1>4

LEMMA RaiseBooks ==
  ASSUME TypeOK, Bookkeeping, BatchRaises \/ Crash
  PROVE  Bookkeeping' /\ Keeps
  <1>1. /\ pc # "expired" /\ pc' = "idle" /\ job' = NoJob /\ disk' = disk
        /\ records' = records /\ fresh' = fresh
    BY DEF BatchRaises, Crash, Ended, Return, store, env
  <1>2. Keeps
    BY <1>1 DEF Keeps
  <1>3. RecordsAgree' /\ (records' # {} => Concluded')
    BY <1>1 DEF Bookkeeping, RecordsAgree, Concluded
  <1>4. Bookkeeping'
    BY <1>1, <1>3, RowsSame DEF Bookkeeping, Segment
  <1>5. QED
    BY <1>2, <1>4

LEMMA StopBooks == TypeOK /\ Bookkeeping /\ DiscoveryStops => Bookkeeping' /\ Works
  <1> SUFFICES ASSUME TypeOK, Bookkeeping, DiscoveryStops PROVE Bookkeeping' /\ Works
    OBVIOUS
  <1>1. /\ pc = "discover" /\ pc' = "idle" /\ job' = NoJob /\ disk' = job
        /\ records' = records /\ fresh' = fresh
    BY DEF DiscoveryStops, Save, Return, env
  <1>2. /\ job \in States /\ Balanced(job) /\ Continues(job, disk) /\ records = {}
    BY <1>1, BooksNow, NoRecordYet DEF Segment
  <1>3. Works
    BY <1>1, <1>2 DEF Works
  <1>4. RecordsAgree'
    BY <1>1, <1>2 DEF RecordsAgree
  <1>5. Bookkeeping'
    BY <1>1, <1>2, <1>4, RowsSame DEF Bookkeeping, Segment
  <1>6. QED
    BY <1>3, <1>5

LEMMA LeaveBooks ==
  TypeOK /\ Coverage /\ Bookkeeping /\ Leave => Bookkeeping' /\ (Works \/ Keeps)
  <1> SUFFICES ASSUME TypeOK, Coverage, Bookkeeping, Leave PROVE Bookkeeping' /\ (Works \/ Keeps)
    OBVIOUS
  <1>1. /\ pc = "leave" /\ disk' = job /\ records' = records /\ fresh' = fresh
        /\ \/ Listed(job) /\ pc' = "record" /\ job' = job
           \/ pc' = "idle" /\ job' = NoJob
    BY DEF Leave, Save, Return, env
  <1>2. /\ job \in States /\ Balanced(job) /\ Continues(job, disk) /\ Continues(job, job)
        /\ job # NoJob
    BY <1>1, BooksNow, ContinuesItself DEF Segment
  <1>3. records # {} => job = disk
    BY <1>2 DEF Bookkeeping, Concluded
  <1>4. Works \/ Keeps
    <2>1. CASE records = {}
      BY <1>1, <1>2, <2>1 DEF Works
    <2>2. CASE records # {}
      BY <1>1, <1>3, <2>2 DEF Keeps
    <2>3. QED
      BY <2>1, <2>2
  <1>5. RecordsAgree' /\ (records' # {} => Concluded')
    BY <1>1, <1>2, <1>3 DEF Bookkeeping, RecordsAgree, Concluded
  <1>6. Bookkeeping'
    BY <1>1, <1>2, <1>5, RowsSame DEF Bookkeeping, Segment
  <1>7. QED
    BY <1>4, <1>6

(* The first record written, or once more the record that is there.         *)
Records ==
  /\ disk' = disk /\ disk # NoJob /\ job = disk /\ pc = "record" /\ pc' # "expired"
  /\ records' = records \cup {Outcome(disk)}

LEMMA SaveRecordBooks ==
  TypeOK /\ Coverage /\ Bookkeeping /\ SaveRecord => Bookkeeping' /\ Records
  <1> SUFFICES ASSUME TypeOK, Coverage, Bookkeeping, SaveRecord PROVE Bookkeeping' /\ Records
    OBVIOUS
  <1>1. /\ pc = "record" /\ pc' = "audit" /\ job' = job /\ disk' = disk /\ fresh' = fresh
        /\ records' = records \cup {Outcome(job)}
    BY DEF SaveRecord, Outcome, env
  <1>2. job # NoJob /\ job = disk /\ job.phase # "dart_discovery" /\ Listed(job)
    BY <1>1, BooksNow, CoverageNow DEF Bookkeeping, Coverage, Segment
  <1>3. records # {} => \A r \in records : r = Outcome(disk)
    BY <1>2 DEF Bookkeeping, Concluded
  <1>4. RecordsAgree' /\ (records' # {} => Concluded')
    BY <1>1, <1>2, <1>3 DEF RecordsAgree, Concluded
  <1>5. Bookkeeping'
    BY <1>1, <1>4, RowsSame DEF Bookkeeping, Segment
  <1>6. Records
    BY <1>1, <1>2 DEF Records
  <1>7. QED
    BY <1>5, <1>6

LEMMA AuditBooks == TypeOK /\ Bookkeeping /\ AppendAudit => Bookkeeping' /\ Keeps
  <1> SUFFICES ASSUME TypeOK, Bookkeeping, AppendAudit PROVE Bookkeeping' /\ Keeps
    OBVIOUS
  <1>1. /\ pc = "audit" /\ pc' = "delete" /\ job' = job /\ disk' = disk /\ fresh' = fresh
        /\ records' = records
    BY DEF AppendAudit, env
  <1>2. RecordsAgree' /\ (records' # {} => Concluded')
    BY <1>1 DEF Bookkeeping, RecordsAgree, Concluded
  <1>3. Bookkeeping'
    BY <1>1, <1>2, RowsSame DEF Bookkeeping, Segment
  <1>4. QED
    BY <1>1, <1>3 DEF Keeps

(* The checkpoint goes: the job has its record, or has expired without one. *)
Removes ==
  /\ disk' = NoJob /\ records' = records
  /\ records # {} \/ (pc # "expired" /\ pc' = "expired")

LEMMA RemoveBooks ==
  ASSUME TypeOK, Bookkeeping, DeleteCheckpoint \/ Expire
  PROVE  Bookkeeping' /\ Removes
  <1>1. /\ pc \in {"delete", "idle"} /\ job' = NoJob /\ disk' = NoJob /\ fresh' = fresh
        /\ records' = records
        /\ pc' = IF pc = "delete" THEN "completed" ELSE "expired"
    BY DEF DeleteCheckpoint, Expire, env, Bookkeeping, Segment
  <1>2. pc = "delete" => records # {}
    BY DEF Bookkeeping
  <1>3. RecordsAgree' /\ (records' # {} => Concluded')
    BY <1>1 DEF Bookkeeping, RecordsAgree, Concluded
  <1>4. Bookkeeping'
    BY <1>1, <1>2, <1>3, RowsSame DEF Bookkeeping, Segment
  <1>5. QED
    BY <1>1, <1>2, <1>4 DEF Removes

LEMMA PublishBooks == TypeOK /\ Bookkeeping /\ Publish => Bookkeeping' /\ Keeps
  <1> SUFFICES ASSUME TypeOK, Bookkeeping, Publish PROVE Bookkeeping' /\ Keeps
    OBVIOUS
  <1>1. PICK r \in Receipts \ (Published \cup CatalogRows \cup DartCatalogRows) :
          fresh' = [fresh EXCEPT ![1] = <<r>> \o @]
    BY Zenon DEF Publish
  <1>2. /\ pc' = pc /\ job' = job /\ rows' = rows /\ disk' = disk /\ records' = records
    BY DEF Publish, reading, store
  <1>3. /\ fresh \in [Windows -> Seq(Receipts)]
        /\ \A w \in Windows : Catalog[w] \in Seq(Receipts) /\ Rows(w) \in Seq(Receipts)
        /\ 1 \in Windows
    BY ListingType, CatalogTyped DEF TypeOK
  <1>4. ASSUME NEW w \in Windows PROVE Distinct(Rows(w))'
    <2>1. Distinct(Rows(w))
      BY DEF Bookkeeping
    <2>2. CASE w # 1
      <3>1. fresh'[w] = fresh[w]
        BY <1>1, <1>3, <2>2
      <3>2. QED
        BY <2>1, <3>1 DEF Rows
    <2>3. CASE w = 1
      <3>1. fresh'[w] = <<r>> \o fresh[w]
        BY <1>1, <1>3, <2>3
      <3>2. r \notin RangeOf(Rows(w))
        <4>1. RangeOf(Rows(w)) = RangeOf(fresh[w]) \cup RangeOf(Catalog[w])
          BY <1>3, RangeOfConcat DEF Rows
        <4>2. RangeOf(fresh[w]) \subseteq Published /\ RangeOf(Catalog[w]) \subseteq CatalogRows
          BY DEF Published, CatalogRows
        <4>3. QED
          BY <1>1, <4>1, <4>2
      <3>3. Distinct((<<r>> \o fresh[w]) \o Catalog[w])
        BY <1>3, <2>1, <3>2, PublishDistinct DEF Rows
      <3>4. QED
        BY <3>1, <3>3 DEF Rows
    <2>4. QED
      BY <2>2, <2>3
  <1>5. RecordsAgree' /\ (records' # {} => Concluded')
    BY <1>2 DEF Bookkeeping, RecordsAgree, Concluded
  <1>6. Bookkeeping'
    BY <1>2, <1>4, <1>5 DEF Bookkeeping
  <1>7. QED
    BY <1>2, <1>6 DEF Keeps

-----------------------------------------------------------------------------
(* The invariant, and what a step does to the files.                        *)

LEMMA BooksInit == Init => Bookkeeping
  <1> SUFFICES ASSUME Init PROVE Bookkeeping
    OBVIOUS
  <1>1. ASSUME NEW w \in Windows PROVE Distinct(Rows(w))
    <2>1. fresh[w] = << >> /\ Catalog[w] \in Seq(Receipts)
      BY CatalogTyped DEF Init
    <2>2. Rows(w) = Catalog[w]
      BY <2>1, ConcatEmptySeq DEF Rows
    <2>3. QED
      BY <2>2, CatalogDistinct
  <1>2. QED
    BY <1>1 DEF Init, Bookkeeping, RecordsAgree, Segment

(* Every step keeps the files, adds to the checkpoint, writes the record or *)
(* removes the checkpoint.                                                  *)
LEMMA BooksNext ==
  TypeOK /\ Coverage /\ Bookkeeping /\ [Next]_vars =>
    Bookkeeping' /\ (Keeps \/ Works \/ Records \/ Removes)
  <1> SUFFICES ASSUME TypeOK, Coverage, Bookkeeping, [Next]_vars
               PROVE  Bookkeeping' /\ (Keeps \/ Works \/ Records \/ Removes)
    OBVIOUS
  <1>1. CASE UNCHANGED vars
    <2>1. Keeps
      BY <1>1 DEF vars, Keeps
    <2>2. RecordsAgree' /\ (records' # {} => Concluded')
      BY <1>1 DEF vars, Bookkeeping, RecordsAgree, Concluded
    <2>3. Bookkeeping'
      BY <1>1, <2>2, RowsSame DEF vars, Bookkeeping
    <2>4. QED
      BY <2>1, <2>3
  <1>2. CASE Run \/ Continue
    BY <1>2, RunBooks, ContinueBooks
  <1>3. CASE HealthOk \/ DiscoveryFallsBack \/ DiscoveryDone
    BY <1>3, DiscoveryBooks
  <1>4. CASE SearchPage \/ DiscoveryStops
    BY <1>4, SearchBooks, StopBooks
  <1>5. CASE FetchPage \/ PagesDone
    BY <1>5, FetchBooks, PagesDoneBooks
  <1>6. CASE PageStops \/ PageFinished \/ RowsStop \/ SkipRows
    BY <1>6, PageBooks
  <1>7. CASE BatchSucceeds \/ BatchRewinds
    BY <1>7, SuccessBooks, RewindBooks
  <1>8. CASE BatchRaises \/ Crash
    BY <1>8, RaiseBooks
  <1>9. CASE Leave \/ SaveRecord \/ AppendAudit
    BY <1>9, LeaveBooks, SaveRecordBooks, AuditBooks
  <1>10. CASE DeleteCheckpoint \/ Expire
    BY <1>10, RemoveBooks
  <1>11. CASE Publish
    BY <1>11, PublishBooks
  <1>12. CASE Terminated
    BY <1>1, <1>12 DEF Terminated
  <1>13. QED
    BY <1>1, <1>2, <1>3, <1>4, <1>5, <1>6, <1>7, <1>8, <1>9, <1>10, <1>11, <1>12 DEF Next

(* For every catalog in which a window lists a filing once, and for every   *)
(* number of deaths and rewinds: the inductive invariant of the theorems    *)
(* below.                                                                   *)
THEOREM BooksKept == Spec => []Bookkeeping
  <1>1. Init => TypeOK /\ Coverage /\ Bookkeeping
    BY InitTypeOK, CoverageInit, BooksInit
  <1>2. TypeOK /\ Coverage /\ Bookkeeping /\ [Next]_vars => (TypeOK /\ Coverage /\ Bookkeeping)'
    BY NextTypeOK, CoverageNext, BooksNext
  <1>3. QED
    BY <1>1, <1>2, PTL DEF Spec

(* For every kind of every document: what _execute_segment has processed is *)
(* in the results, on the list of diagnostics or without a passage, in      *)
(* memory and in the checkpoint, and nothing is there twice.                *)
THEOREM AllAccounted == Spec => []NothingSilentlyDropped
  <1>1. Bookkeeping => NothingSilentlyDropped
    BY DEF Bookkeeping, Balanced, NothingSilentlyDropped
  <1>2. QED
    BY <1>1, BooksKept, PTL

(* For every target and batch width: no segment lists more results than     *)
(* were asked for.                                                          *)
THEOREM TargetKept == Spec => []TargetRespected
  <1>1. Bookkeeping => TargetRespected
    BY DEF Bookkeeping, Balanced, TargetRespected
  <1>2. QED
    BY <1>1, BooksKept, PTL

(* However often the server dies between the record, the audit line and the *)
(* removal of the checkpoint, the record is the same.                       *)
THEOREM RecordsSame == Spec => []RecordsAgree
  <1>1. Bookkeeping => RecordsAgree
    BY DEF Bookkeeping
  <1>2. QED
    BY <1>1, BooksKept, PTL

(* No save of a job, by any segment, forgets what the checkpoint had.       *)
THEOREM ProgressDurable == Spec => DurableProgress
  <1>1. TypeOK /\ Coverage /\ Bookkeeping /\ [Next]_vars =>
          [disk # NoJob /\ disk' # NoJob =>
             /\ disk.done \subseteq disk'.done
             /\ disk.results \subseteq disk'.results
             /\ disk.count <= disk'.count]_vars
    <2> SUFFICES ASSUME TypeOK, Coverage, Bookkeeping, [Next]_vars, disk # NoJob, disk' # NoJob
                 PROVE  /\ disk.done \subseteq disk'.done
                        /\ disk.results \subseteq disk'.results
                        /\ disk.count <= disk'.count
      OBVIOUS
    <2>1. disk' = disk \/ Continues(disk', disk)
      BY BooksNext DEF Keeps, Works, Records, Removes
    <2>2. disk \in States
      BY DEF TypeOK
    <2>3. Continues(disk, disk)
      BY <2>2, ContinuesItself
    <2>4. QED
      BY <2>1, <2>3 DEF Continues
  <1>2. QED
    BY <1>1, TypeCorrect, CoverageAlways, BooksKept, PTL DEF Spec, DurableProgress

-----------------------------------------------------------------------------
(* The job keeps BatchPromise.                                              *)

(* BatchPromise counts the way BatchJob does.                               *)
LEMMA SameCardinality == \A S : Promise!Cardinality(S) = Cardinality(S)
  BY DEF Cardinality, Promise!Cardinality

LEMMA PromiseInit == Init => Promise!Init
  BY DEF Init, Promise!Init, Durable, Nothing, Withheld

(* What the files say: the record once there is one, then the checkpoint.   *)
LEMMA DurableWith ==
  /\ records = {} /\ disk # NoJob => Durable = disk
  /\ records = {} /\ disk = NoJob => Durable = Nothing
  /\ records # {} => Durable = Final
  BY DEF Durable

LEMMA DurableNext ==
  /\ records' = {} /\ disk' # NoJob => Durable' = disk'
  /\ records' = {} /\ disk' = NoJob => Durable' = Nothing
  /\ records' = records /\ records # {} => Durable' = Final
  /\ records' = records /\ disk' = disk => Durable' = Durable
  <1>1. records' = records => Final' = Final
    BY Zenon DEF Final
  <1>2. QED
    BY <1>1 DEF Durable

(* What is withheld comes out when the discovery is done, and stays.        *)
LEMMA WithheldWith ==
  /\ records # {} \/ disk = NoJob => Withheld = {}
  /\ records = {} /\ disk # NoJob /\ disk.phase = "dart_verification" =>
       Withheld = DartCatalogRows \ RangeOf(disk.cands)
  /\ disk # NoJob /\ disk.phase # "dart_verification" => Withheld = {}
  BY DEF Withheld

LEMMA WithheldNext ==
  /\ records' # {} \/ disk' = NoJob => Withheld' = {}
  /\ records' = {} /\ disk' # NoJob /\ disk'.phase = "dart_verification" =>
       Withheld' = DartCatalogRows \ RangeOf(disk'.cands)
  /\ disk' # NoJob /\ disk'.phase # "dart_verification" => Withheld' = {}
  /\ records' = records /\ disk' = disk => Withheld' = Withheld
  BY DEF Withheld

LEMMA WithheldOnce ==
  ASSUME TypeOK, Works, disk' \in States,
         disk' # NoJob => Covered(fresh', dartFresh', disk')
  PROVE  \/ Withheld' = Withheld
         \/ Withheld = {} /\ Withheld' \subseteq (IF PagesAsCounted THEN {} ELSE DartCatalogRows)
  <1>1. /\ records = {} /\ records' = {} /\ disk' # NoJob /\ Balanced(disk')
        /\ disk = NoJob \/ Continues(disk', disk)
    BY NoJobAssumption DEF Works
  <1>2. CASE disk # NoJob /\ disk.phase = "dart_verification"
    <2>1. disk'.phase = "dart_verification" /\ disk'.cands = disk.cands
      BY <1>1, <1>2 DEF Continues
    <2>2. QED
      BY <1>1, <1>2, <2>1, WithheldWith, WithheldNext
  <1>3. CASE disk = NoJob \/ disk.phase # "dart_verification"
    <2>1. Withheld = {}
      BY <1>3, WithheldWith
    <2>2. CASE disk'.phase # "dart_verification"
      BY <1>1, <2>1, <2>2, WithheldNext
    <2>3. CASE disk'.phase = "dart_verification"
      <3>1. Withheld' = DartCatalogRows \ RangeOf(disk'.cands)
        BY <1>1, <2>3, WithheldNext
      <3>2. PagesAsCounted => ~disk'.strayed
        BY <1>1 DEF Balanced
      <3>3. ~disk'.strayed => DartCatalogRows \subseteq RangeOf(disk'.cands)
        BY <1>1, <2>3, CandidatesComplete
      <3>4. QED
        BY <2>1, <3>1, <3>2, <3>3
    <2>4. QED
      BY <2>2, <2>3
  <1>4. QED
    BY <1>2, <1>3

(* A step of a segment settles some filings, or does not show.              *)
LEMMA PromiseWorks ==
  ASSUME TypeOK, Bookkeeping, Coverage', Works
  PROVE  Promise!Settle \/ UNCHANGED Promise!vars
  <1> DEFINE more == disk'.done \ Durable.done
             found == disk'.results \ Durable.results
  <1>1. /\ records = {} /\ records' = {} /\ disk' \in States /\ disk' # NoJob /\ Balanced(disk')
        /\ pc # "expired" /\ pc' # "expired"
    BY NoJobAssumption DEF Works
  <1>2. Durable' = disk'
    BY <1>1, DurableNext
  <1>3. /\ Durable.done \subseteq disk'.done /\ Durable.results \subseteq disk'.results
        /\ disk'.results \cap Durable.done \subseteq Durable.results
    <2>1. CASE disk = NoJob
      BY <1>1, <2>1, DurableWith DEF Nothing
    <2>2. CASE disk # NoJob
      BY <1>1, <2>2, DurableWith DEF Works, Continues
    <2>3. QED
      BY <2>1, <2>2
  <1>4. /\ disk'.count = Cardinality(disk'.results) /\ (Exhaustive \/ disk'.count <= Target)
        /\ disk'.results \subseteq {r \in disk'.done : Kind[r] = "evidence"}
        /\ \/ ~Exhaustive /\ disk'.count >= Target
           \/ {r \in disk'.done : Kind[r] = "evidence"} \subseteq disk'.results
        /\ disk'.done \subseteq Receipts
    BY <1>1 DEF Balanced, Accounted, TargetMet, States
  <1>5. /\ more \in SUBSET (Receipts \ Durable.done) /\ disk'.done = Durable.done \cup more
        /\ found \in SUBSET (more \cap {r \in Receipts : Kind[r] = "evidence"})
        /\ disk'.results = Durable.results \cup found
    BY <1>3, <1>4
  <1>6. \/ ~Exhaustive /\ Cardinality(disk'.results) >= Target
        \/ found = more \cap {r \in Receipts : Kind[r] = "evidence"}
    <2>1. CASE ~Exhaustive /\ disk'.count >= Target
      BY <1>4, <2>1
    <2>2. CASE {r \in disk'.done : Kind[r] = "evidence"} \subseteq disk'.results
      <3>1. Durable.results \subseteq Durable.done
        <4>1. CASE disk = NoJob
          BY <1>1, <4>1, DurableWith DEF Nothing
        <4>2. CASE disk # NoJob
          BY <1>1, <4>2, DurableWith DEF Bookkeeping, Balanced, Accounted
        <4>3. QED
          BY <4>1, <4>2
      <3>2. QED
        BY <1>5, <2>2, <3>1
    <2>3. QED
      BY <1>4, <2>1, <2>2
  <1> HIDE DEF more, found
  <1>6a. \/ Withheld' = Withheld
         \/ Withheld = {} /\ Withheld' \subseteq (IF PagesAsCounted THEN {} ELSE DartCatalogRows)
    BY <1>1, WithheldOnce DEF Coverage
  <1>7. CASE more = {} /\ Withheld' = Withheld
    BY <1>1, <1>2, <1>5, <1>7 DEF Promise!vars
  <1>8. CASE more # {} \/ Withheld' # Withheld
    <2>1. Durable'.done = Durable.done \cup more /\ Durable'.results = Durable.results \cup found
      BY <1>2, <1>5
    <2>2. found = more \cap {r \in Receipts : Kind[r] = "evidence"} \/ Promise!Enough'
      BY <1>2, <1>6, SameCardinality DEF Promise!Enough
    <2>3. Exhaustive \/ Promise!Cardinality(Durable'.results) <= Target
      BY <1>2, <1>4, SameCardinality
    <2>4. QED
      BY <1>1, <1>5, <1>6a, <1>8, <2>1, <2>2, <2>3 DEF Promise!Settle
  <1>9. QED
    BY <1>7, <1>8

(* The first record delivers what the checkpoint holds; the same record     *)
(* once more does not show.                                                 *)
LEMMA PromiseRecords ==
  ASSUME TypeOK, Coverage, Bookkeeping, NoFilingLost, Records
  PROVE  Promise!Deliver \/ UNCHANGED Promise!vars
  <1>1. /\ disk # NoJob /\ disk' = disk /\ job = disk /\ pc = "record" /\ pc' # "expired"
        /\ records' = records \cup {Outcome(disk)}
    BY DEF Records
  <1>2. CASE records # {}
    <2>1. records' = records
      BY <1>1, <1>2 DEF Bookkeeping, Concluded
    <2>2. QED
      BY <1>1, <1>2, <2>1, DurableNext, WithheldNext DEF Promise!vars
  <1>3. CASE records = {}
    <2>1. records' = {Outcome(disk)}
      BY <1>1, <1>3
    <2>2. Durable = disk /\ Durable' = Outcome(disk)
      BY <1>1, <1>3, <2>1, DurableWith DEF Durable, Final
    <2>3. Durable'.done = Durable.done /\ Durable'.results = Durable.results
      BY <2>2 DEF Outcome
    <2>4. /\ disk \in States /\ disk.count = Cardinality(disk.results)
          /\ UseDart \/ disk.phase = "opendart_discovery"
      BY <1>1 DEF TypeOK, Bookkeeping, Balanced, Accounted
    <2>5. \/ ~Exhaustive /\ Cardinality(Durable.results) >= Target
          \/ \E scope \in {CatalogRows} \cup (IF UseDart THEN {DartCatalogRows} ELSE {}) :
               scope \ Withheld \subseteq Durable.done
      <3>1. \/ TargetMet(disk)
            \/ /\ disk.phase = "dart_verification"
               /\ RangeOf(disk.cands) \cap DartCatalogRows \subseteq disk.done
            \/ CatalogRows \subseteq disk.done
        BY <1>1 DEF NoFilingLost
      <3>2. CASE TargetMet(disk)
        BY <2>2, <2>4, <3>2 DEF TargetMet
      <3>3. CASE /\ disk.phase = "dart_verification"
                 /\ RangeOf(disk.cands) \cap DartCatalogRows \subseteq disk.done
        <4>1. Withheld = DartCatalogRows \ RangeOf(disk.cands)
          BY <1>1, <1>3, <3>3, WithheldWith
        <4>2. DartCatalogRows \ Withheld \subseteq Durable.done
          BY <2>2, <3>3, <4>1
        <4>3. QED
          BY <2>4, <3>3, <4>2
      <3>4. CASE CatalogRows \subseteq disk.done
        BY <2>2, <3>4
      <3>5. QED
        BY <3>1, <3>2, <3>3, <3>4
    <2>6. Promise!Enough \/ \E scope \in {CatalogRows} \cup (IF UseDart THEN {DartCatalogRows} ELSE {}) :
               scope \ Withheld \subseteq Durable.done
      BY <2>5, SameCardinality DEF Promise!Enough
    <2>6a. Withheld' = {}
      BY <2>1, WithheldNext
    <2>7. records' # {}
      BY <2>1
    <2>8. QED
      BY <1>1, <1>3, <2>3, <2>6, <2>6a, <2>7 DEF Promise!Deliver
  <1>4. QED
    BY <1>2, <1>3

LEMMA PromiseRemoves ==
  ASSUME TypeOK, Bookkeeping, Removes
  PROVE  Promise!GiveUp \/ UNCHANGED Promise!vars
  <1>1. disk' = NoJob /\ records' = records
    BY DEF Removes
  <1>2. CASE records # {}
    BY <1>1, <1>2, DurableWith, DurableNext, WithheldWith, WithheldNext DEF Promise!vars
  <1>3. CASE records = {}
    <2>1. pc # "expired" /\ pc' = "expired" /\ Durable' = Nothing
      BY <1>1, <1>3, DurableNext DEF Removes
    <2>2. QED
      BY <1>1, <1>3, <2>1, WithheldNext DEF Promise!GiveUp, Nothing
  <1>4. QED
    BY <1>2, <1>3

LEMMA PromiseKeeps ==
  ASSUME Keeps
  PROVE  UNCHANGED Promise!vars
  <1>1. Durable' = Durable /\ Withheld' = Withheld
    BY DurableNext, WithheldNext DEF Keeps
  <1>2. QED
    BY <1>1 DEF Keeps, Promise!vars

(* The batch job implements BatchPromise: whatever segments, failures,      *)
(* fallbacks, rewinds and deaths it goes through, its files only ever       *)
(* settle more filings, deliver once what was asked for, or give up.        *)
THEOREM JobKeepsPromise == Spec => PromiseKept
  <1>1. Init => Promise!Init
    BY PromiseInit
  <1>2. TypeOK /\ Coverage /\ Bookkeeping /\ NoFilingLost /\ [Next]_vars
          => [Promise!Next]_(Promise!vars)
    <2> SUFFICES ASSUME TypeOK, Coverage, Bookkeeping, NoFilingLost, [Next]_vars
                 PROVE  Promise!Next \/ UNCHANGED Promise!vars
      OBVIOUS
    <2>1. Keeps \/ Works \/ Records \/ Removes
      BY BooksNext
    <2>2. Coverage'
      BY CoverageNext
    <2>3. QED
      BY <2>1, <2>2, PromiseKeeps, PromiseWorks, PromiseRecords, PromiseRemoves DEF Promise!Next
  <1>3. QED
    BY <1>1, <1>2, TypeCorrect, CoverageAlways, NothingLost, BooksKept, PTL
       DEF Spec, PromiseKept, Promise!Spec
=============================================================================
