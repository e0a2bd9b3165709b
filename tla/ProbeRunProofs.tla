--------------------------- MODULE ProbeRunProofs ---------------------------
(***************************************************************************)
(* For all servers, runs, request limits and sizes of the measurements: a  *)
(* run that holds the lock is alone, what passed is true of the server,    *)
(* and the golden files are those of the completed run that the manifest   *)
(* names, until a rebuild dies or runs beside a run.                       *)
(***************************************************************************)
EXTENDS ProbeRun, FiniteSetTheorems, SequenceTheorems, WellFoundedInduction, TLAPS


(***************************************************************************)
(* What the golden files and the manifests are between the steps of a run  *)
(* and of a rebuild.                                                       *)
(***************************************************************************)
Gates == [Names -> Verdicts]
Files == Names \cup {"findings"}

GoldenOf(run, gates) == \A f \in Files : golden[f] = [run |-> run, gates |-> Told(f, gates)]
WholeOf(run, gates) == GoldenOf(run, gates) /\ listing = [run |-> run, files |-> golden]

(* Verdicts of a run: those of the measurements it has finished, and all of *)
(* them once it writes; a pass is what the measurement says.                *)
MeasuredOf(r) ==
  /\ phase[r] = "new" => probe[r] = 1 /\ verdicts[r] = Nothing
  /\ phase[r] = "probing" => DOMAIN verdicts[r] = {Probes[i] : i \in 1..(probe[r] - 1)}
  /\ phase[r] \in {"writing", "listing"} => verdicts[r] \in Gates
  /\ phase[r] \in {"leaving", "unlocking"} => failed[r] \/ verdicts[r] \in Gates
  /\ failed[r] => phase[r] \in {"leaving", "unlocking"}
  /\ \A n \in DOMAIN verdicts[r] :
       verdicts[r][n] = "passed" => Measurement(server, n).verdict = "passed"

Measured ==
  /\ verdicts \in [Runs -> UNION {[D -> Verdicts] : D \in SUBSET Names}]
  /\ \A r \in Runs : MeasuredOf(r)

(* The files and the rebuild have their form; a number of written files is  *)
(* that of the run at work.                                                 *)
Shaped ==
  /\ golden = [f \in Files |-> golden[f]]
  /\ root = [run |-> root.run, status |-> root.status, gates |-> root.gates]
  /\ rebuild = [phase |-> rebuild.phase, root |-> rebuild.root, source |-> rebuild.source,
                gates |-> rebuild.gates, done |-> rebuild.done, count |-> rebuild.count]
  /\ rebuild.phase \in {"off", "read", "write", "list", "sync"}
  /\ rebuild.phase # "off" =>
       rebuild.root = [run |-> rebuild.root.run, status |-> "completed", gates |-> rebuild.root.gates]
  /\ rebuild.phase = "read" => rebuild.done = 0
  /\ rebuild.phase = "write" => rebuild.done \in 0..2
  /\ written \in 0..5
  /\ (\A r \in Runs : phase[r] # "writing") => written = 0

(* A run that no rebuild disturbs: what it has written is its own.          *)
RunWrites(r) ==
  /\ phase[r] \in {"probing", "writing", "listing", "leaving"} => root.status = "running"
  /\ phase[r] = "writing" =>
       \A i \in 1..written :
         golden[GoldenFiles[i]] = [run |-> r, gates |-> Told(GoldenFiles[i], verdicts[r])]
  /\ phase[r] = "listing" => GoldenOf(r, verdicts[r])
  /\ phase[r] = "leaving" => failed[r] \/ WholeOf(r, verdicts[r])

(* A rebuild that no run disturbs: what it has not written yet is as the    *)
(* manifest it began with says, which the manifest still does.              *)
RebuildsRoot ==
  /\ rebuild.phase = "off" /\ root.status = "completed" =>
       root.gates \in Gates /\ WholeOf(root.run, root.gates)
  /\ rebuild.phase # "off" =>
       rebuild.root = root /\ root.status = "completed" /\ root.gates \in Gates
  /\ rebuild.phase = "read" => WholeOf(root.run, root.gates)
  /\ rebuild.phase \in {"write", "list", "sync"} => rebuild.gates \in Gates
  /\ rebuild.phase = "write" =>
       /\ rebuild.source = root.run
       /\ \A f \in Files :
            \/ golden[f] = [run |-> root.run, gates |-> Told(f, rebuild.gates)]
            \/ f \in {Rebuilt[i] : i \in (rebuild.done + 1)..3}
  /\ rebuild.phase = "list" => GoldenOf(root.run, rebuild.gates)
  /\ rebuild.phase = "sync" => WholeOf(root.run, rebuild.gates)

Undisturbed ==
  ~mixed =>
    /\ lock # NoRun => rebuild.phase = "off"
    /\ \A r \in Runs : RunWrites(r)
    /\ RebuildsRoot

-----------------------------------------------------------------------------
(* What a measurement asks and concludes.                                   *)

(* Induction: of the numbers for which something fails, one is least.       *)
LEMMA LeastNumber ==
  ASSUME NEW I \in SUBSET Nat, I # {}
  PROVE  \E m \in I : \A y \in I : m <= y
<1>1. PICK x \in I : TRUE
  OBVIOUS
<1> DEFINE J == I \cap (0..x)
           U == 0..x
           T == {0..n : n \in J}
<1>2. T \in SUBSET (SUBSET U) /\ T # {} /\ IsFiniteSet(U)
  <2>1. \A n \in J : 0..n \subseteq U
    OBVIOUS
  <2>2. x \in J
    OBVIOUS
  <2>3. IsFiniteSet(U)
    BY FS_Interval
  <2>4. QED BY <2>1, <2>2, <2>3
<1> HIDE DEF T, U
<1>3. IsWellFoundedOn(StrictSubsetOrdering(U), SUBSET U)
  BY <1>2, FS_StrictSubsetOrderingWellFounded, FS_FiniteSubsetsOfFinite
<1>4. PICK s \in T : \A r \in T : ~ (<<r, s>> \in StrictSubsetOrdering(U))
  BY <1>2, <1>3, WFMin
<1>5. PICK m \in J : s = 0..m
  BY DEF T
<1>6. ASSUME NEW y \in J, y < m PROVE FALSE
  <2>1. 0..y \in T /\ 0..y \subseteq s
    BY <1>5, <1>6 DEF T
  <2>2. m \in 0..m /\ m \notin 0..y
    BY <1>5, <1>6
  <2>3. 0..y = s
    BY <1>2, <1>4, <2>1 DEF StrictSubsetOrdering
  <2>4. QED BY <1>5, <2>2, <2>3
<1>7. QED BY <1>5, <1>6

(* A set of numbers up to n has a greatest one, and one of any numbers has  *)
(* a least one.                                                             *)
LEMMA MaxIs ==
  ASSUME NEW n \in Nat, NEW T \in SUBSET (0..n), T # {}
  PROVE  Max(T) \in T /\ Max(T) \in 0..n
<1> DEFINE D == {n - t : t \in T}
<1>1. D \in SUBSET Nat /\ D # {}
  <2>1. \A t \in T : t \in 0..n /\ n - t \in Nat
    OBVIOUS
  <2>2. PICK t \in T : TRUE
    OBVIOUS
  <2>3. n - t \in D
    BY <2>2
  <2>4. QED BY <2>1, <2>3
<1> HIDE DEF D
<1>2. PICK d \in D : \A y \in D : d <= y
  BY <1>1, LeastNumber
<1>3. PICK t \in T : d = n - t
  BY DEF D
<1>4. \A y \in T : t >= y
  <2> SUFFICES ASSUME NEW y \in T PROVE t >= y
    OBVIOUS
  <2>1. n - y \in D
    BY DEF D
  <2>2. n - t <= n - y
    BY <1>2, <1>3, <2>1
  <2>3. t \in Nat /\ y \in Nat
    OBVIOUS
  <2>4. QED BY <2>2, <2>3
<1>5. QED BY <1>3, <1>4 DEF Max

LEMMA MinIs ==
  ASSUME NEW T \in SUBSET Nat, T # {}
  PROVE  Min(T) \in T
<1>1. \E m \in T : \A y \in T : m <= y
  BY LeastNumber
<1>2. QED BY <1>1 DEF Min

LEMMA NamesAre ==
  /\ Names = {"query_switch", "page_size", "date_window", "rm_withdrawal", "rm_bond"}
  /\ \A i \in 1..5 : Probes[i] \in Names
  /\ \A i, j \in 1..5 : Probes[i] = Probes[j] => i = j
  /\ Len(GoldenFiles) = 6 /\ Len(Rebuilt) = 3
  /\ \A i \in 1..5 : GoldenFiles[i] = Probes[i]
  /\ GoldenFiles[6] = "findings"
  /\ Rebuilt[1] = "rm_withdrawal" /\ Rebuilt[2] = "rm_bond" /\ Rebuilt[3] = "findings"
<1>1. Names = {"query_switch", "page_size", "date_window", "rm_withdrawal", "rm_bond"}
  <2>1. \A i \in 1..5 : Probes[i] \in
          {"query_switch", "page_size", "date_window", "rm_withdrawal", "rm_bond"}
    BY DEF Probes
  <2>2. /\ Probes[1] = "query_switch" /\ Probes[2] = "page_size" /\ Probes[3] = "date_window"
        /\ Probes[4] = "rm_withdrawal" /\ Probes[5] = "rm_bond"
    BY DEF Probes
  <2>3. {Probes[1], Probes[2], Probes[3], Probes[4], Probes[5]} \subseteq Names
    BY DEF Names
  <2>4. QED BY <2>1, <2>2, <2>3 DEF Names
<1>2. \A i \in 1..5 : Probes[i] \in Names
  BY DEF Names
<1>3. \A i, j \in 1..5 : Probes[i] = Probes[j] => i = j
  BY DEF Probes
<1>4. Len(GoldenFiles) = 6 /\ GoldenFiles[6] = "findings" /\ \A i \in 1..5 : GoldenFiles[i] = Probes[i]
  <2> DEFINE K == {"query_switch", "page_size", "date_window", "rm_withdrawal", "rm_bond"}
  <2>1. Probes \in Seq(K) /\ Len(Probes) = 5
    BY DEF Probes
  <2>2. \A p \in Seq(K) : /\ Len(Append(p, "findings")) = Len(p) + 1
                         /\ Append(p, "findings")[Len(p) + 1] = "findings"
                         /\ \A i \in 1..Len(p) : Append(p, "findings")[i] = p[i]
    OBVIOUS
  <2> HIDE DEF K
  <2>3. /\ Len(GoldenFiles) = 5 + 1 /\ GoldenFiles[5 + 1] = "findings"
        /\ \A i \in 1..5 : GoldenFiles[i] = Probes[i]
    BY <2>1, <2>2, Zenon DEF GoldenFiles
  <2>4. QED BY <2>3
<1>5. /\ Len(Rebuilt) = 3
      /\ Rebuilt[1] = "rm_withdrawal" /\ Rebuilt[2] = "rm_bond" /\ Rebuilt[3] = "findings"
  BY DEF Rebuilt
<1>6. QED BY <1>1, <1>2, <1>3, <1>4, <1>5

LEMMA VerdictIs ==
  ASSUME NEW s, NEW i \in 1..5
  PROVE  Measurement(s, Probes[i]).verdict \in Verdicts
<1>1. Probes[i] \in {"query_switch", "page_size", "date_window", "rm_withdrawal", "rm_bond"}
  BY NamesAre
<1>2. QuerySwitch(s).verdict \in Verdicts
  BY DEF QuerySwitch, Verdicts
<1>3. PageSize(s).verdict \in Verdicts
  BY DEF PageSize, Verdicts
<1>4. DateWindow(s).verdict \in Verdicts
  BY DEF DateWindow, Verdicts
<1>5. RmWithdrawal(s).verdict \in Verdicts
  BY DEF RmWithdrawal, WithdrawalVerdict, Verdicts
<1>6. RmBond(s).verdict \in Verdicts
  BY DEF RmBond, BondVerdict, Verdicts
<1>7. QED BY <1>1, <1>2, <1>3, <1>4, <1>5, <1>6 DEF Measurement

LEMMA DaysFinite ==
  ASSUME NEW s \in Servers, NEW D \in SUBSET (1..Days)
  PROVE  IsFiniteSet(UNION {Filings(s, day) : day \in D})
<1> DEFINE N == {Filings(s, day) : day \in D}
           g == [day \in D |-> Filings(s, day)]
<1>1. \A day \in D : IsFiniteSet(Filings(s, day))
  <2> SUFFICES ASSUME NEW day \in D PROVE IsFiniteSet(Filings(s, day))
    OBVIOUS
  <2>1. s.filings[day] \in Nat
    BY ServersAssumption
  <2>2. IsFiniteSet({day}) /\ IsFiniteSet(1..s.filings[day])
    <3>1. IsFiniteSet({day})
      BY FS_Singleton
    <3>2. IsFiniteSet(1..s.filings[day])
      BY <2>1, FS_Interval
    <3>3. QED BY <3>1, <3>2
  <2>3. QED BY <2>2, FS_Product DEF Filings
<1>2. IsFiniteSet(1..Days)
  BY FS_Interval, GateAssumption
<1>3. IsFiniteSet(D)
  BY <1>2, FS_Subset
<1>4. g \in Surjection(D, N)
  BY DEF Surjection
<1> HIDE DEF g
<1>5. IsFiniteSet(N)
  <2> HIDE DEF N
  <2>1. QED BY <1>3, <1>4, FS_Surjection
<1>6. \A T \in N : IsFiniteSet(T)
  BY <1>1
<1> HIDE DEF N
<1>7. IsFiniteSet(UNION N)
  BY <1>5, <1>6, FS_UNION
<1>8. QED BY <1>7 DEF N

LEMMA SearchAsks ==
  ASSUME NEW s \in Servers, NEW from, NEW to
  PROVE  DateSearch(s, from, to).requests \in Nat \ {0}
<1> DEFINE D == {d \in 1..Days : InPeriod(s, d, from, to)}
           found == UNION {Filings(s, day) : day \in D}
           receipts == IF s.up THEN found ELSE {}
           n == Cardinality(receipts)
           size == IF receipts = {} THEN 1 ELSE Smallest(n, OrdinarySize)
           expected == IF receipts = {} THEN 1 ELSE (n + size - 1) \div size
           fetched == Smallest(expected, 5)
<1>1. IsFiniteSet(found)
  <2>1. D \in SUBSET (1..Days)
    OBVIOUS
  <2> HIDE DEF D
  <2>2. QED BY <2>1, DaysFinite
<1>2. IsFiniteSet(receipts)
  BY <1>1, FS_EmptySet
<1> HIDE DEF found, receipts
<1>3. n \in Nat /\ (receipts # {} => n # 0)
  BY <1>2, FS_CardinalityType, FS_EmptySet
<1>4. size \in Nat \ {0}
  BY <1>3, GateAssumption DEF Smallest
<1>5. expected \in Nat
  <2>1. CASE receipts = {}
    BY <2>1
  <2>2. CASE receipts # {}
    <3>1. expected = (n + size - 1) \div size
      BY <2>2
    <3>2. n + size - 1 \in Nat
      BY <1>3, <1>4
    <3> HIDE DEF n, size
    <3>3. (n + size - 1) \div size \in Nat
      BY <1>4, <3>2
    <3>4. QED BY <3>1, <3>3
  <2>3. QED BY <2>1, <2>2
<1>6. fetched \in Nat
  <2> HIDE DEF expected
  <2>1. QED BY <1>5 DEF Smallest
<1>7. DateSearch(s, from, to).requests = 1 + fetched
  BY DEF DateSearch, found, receipts
<1> HIDE DEF fetched
<1>8. QED BY <1>6, <1>7

LEMMA RequestsAre ==
  ASSUME NEW s \in Servers, NEW i \in 1..5
  PROVE  Measurement(s, Probes[i]).requests \in Nat \ {0}
<1>1. Probes[i] \in {"query_switch", "page_size", "date_window", "rm_withdrawal", "rm_bond"}
  BY NamesAre
<1>2. QuerySwitch(s).requests \in Nat \ {0}
  <2>1. Len(Asked) = Len(Terms) + 1 /\ Len(Terms) \in Nat
    BY GateAssumption DEF Asked
  <2>2. QuerySwitch(s).requests = 2 + 3 * (Len(Asked) - 1)
    BY DEF QuerySwitch
  <2>3. QED BY <2>1, <2>2
<1>3. PageSize(s).requests \in Nat \ {0}
  <2>1. Cardinality(PageSizes) \in Nat
    BY GateAssumption, FS_CardinalityType
  <2>2. \/ PageSize(s).requests = 1 + 2 * Cardinality(PageSizes)
        \/ PageSize(s).requests = 1 + 2 * Cardinality(PageSizes) + 2
    <3>1. \/ PageSize(s).requests = 1 + 2 * Cardinality(PageSizes) + 0
          \/ PageSize(s).requests = 1 + 2 * Cardinality(PageSizes) + 2
      BY DEF PageSize
    <3>2. QED BY <2>1, <3>1
  <2>3. QED BY <2>1, <2>2
<1>4. DateWindow(s).requests \in Nat \ {0}
  <2>1. DateWindow(s).requests
          = DateSearch(s, 1, Days).requests + DateSearch(s, 1, BoundaryDay - 1).requests
              + DateSearch(s, BoundaryDay, BoundaryDay).requests
              + DateSearch(s, BoundaryDay + 1, Days).requests
    BY DEF DateWindow
  <2>2. QED BY <2>1, SearchAsks
<1>5. RmWithdrawal(s).requests \in Nat \ {0}
  <2>1. IsFiniteSet(NewPairs)
    BY GateAssumption, FS_Subset
  <2>2. /\ Cardinality(Withdrawals) \in Nat /\ Cardinality(NewPairs) \in Nat
        /\ ListCalls \in Nat \ {0}
    BY <2>1, GateAssumption, FS_CardinalityType
  <2>3. RmWithdrawal(s).requests = ListCalls + Cardinality(Withdrawals) + Cardinality(NewPairs)
    BY DEF RmWithdrawal
  <2>4. QED BY <2>2, <2>3
<1>6. RmBond(s).requests \in Nat \ {0}
  <2>1. Len(s.bonds) \in Nat \ {0}
    BY ServersAssumption
  <2> DEFINE enough == {n \in 1..Len(s.bonds) : SamplesUntil(s, n) >= BondTarget}
  <2>2. enough \in SUBSET Nat
    OBVIOUS
  <2>3. enough # {} => Min(enough) \in enough
    <3> HIDE DEF enough
    <3>1. QED BY <2>2, MinIs
  <2>4. RmBond(s).requests = IF enough = {} THEN Len(s.bonds) ELSE Min(enough)
    BY DEF RmBond, BondWindowsRead
  <2>5. enough # {} => Min(enough) \in Nat \ {0}
    BY <2>1, <2>3
  <2> HIDE DEF enough
  <2>6. QED BY <2>1, <2>4, <2>5
<1>7. QED BY <1>1, <1>2, <1>3, <1>4, <1>5, <1>6 DEF Measurement

-----------------------------------------------------------------------------
(* What passed is true of the server.                                       *)

LEMMA SwitchSound ==
  ASSUME NEW s, QuerySwitch(s).verdict = "passed", s.up,
         NEW k \in 2..Len(Asked), s.hits[Asked[k]] # s.hits[Asked[k - 1]]
  PROVE  ~s.sticky
<1>1. \A i \in 2..Len(Asked) : Direct(s, i) = Control(s, i)
  BY DEF QuerySwitch
<1>2. Direct(s, k) = Control(s, k)
  BY <1>1
<1>3. QED BY <1>2 DEF Direct, Control, Answer

LEMMA SizeSound ==
  ASSUME NEW s \in Servers, PageSize(s).verdict = "passed"
  PROVE  s.honours \/ s.withCb
<1> SUFFICES ASSUME ~s.honours, ~s.withCb PROVE FALSE
  OBVIOUS
<1> DEFINE plain == {RowsOnPage(s, size, FALSE) : size \in PageSizes}
           again == Max(plain) <= OrdinarySize
           largest == RowsOnPage(s, Max(PageSizes), TRUE)
           effective == IF again THEN Max(plain \cup {largest}) ELSE Max(plain)
<1>1. \A size, cb : RowsOnPage(s, size, cb) \in 0..OrdinarySize
  BY ServersAssumption, GateAssumption DEF RowsOnPage, Smallest
<1>2. plain \in SUBSET (0..OrdinarySize) /\ plain # {} /\ largest \in 0..OrdinarySize
  BY <1>1, GateAssumption
<1>3. OrdinarySize \in Nat
  BY GateAssumption
<1> HIDE DEF plain, largest
<1>4. Max(plain) \in 0..OrdinarySize
  BY <1>2, <1>3, MaxIs
<1>5. Max(plain \cup {largest}) \in 0..OrdinarySize
  <2> DEFINE both == plain \cup {largest}
  <2>1. both \in SUBSET (0..OrdinarySize) /\ both # {}
    BY <1>2
  <2> HIDE DEF both
  <2>2. Max(both) \in 0..OrdinarySize
    BY <1>3, <2>1, MaxIs
  <2>3. QED BY <2>2 DEF both
<1>6. ~ (effective > OrdinarySize)
  BY <1>3, <1>4, <1>5
<1>7. effective > OrdinarySize
  BY DEF PageSize, plain, largest
<1>8. QED BY <1>6, <1>7

LEMMA WindowSound ==
  ASSUME NEW s, DateWindow(s).verdict = "passed"
  PROVE  /\ s.first /\ s.last
         /\ \A day \in 1..Days : \A cut \in {BoundaryDay - 1, BoundaryDay} :
              InPeriod(s, day, 1, cut) \/ InPeriod(s, day, cut + 1, Days)
<1>1. BoundaryFound(DateSearch(s, BoundaryDay, BoundaryDay))
  BY DEF DateWindow
<1>2. DateSearch(s, BoundaryDay, BoundaryDay).receipts # {}
  BY <1>1 DEF BoundaryFound
<1>3. {d \in 1..Days : InPeriod(s, d, BoundaryDay, BoundaryDay)} # {}
  <2> SUFFICES ASSUME {d \in 1..Days : InPeriod(s, d, BoundaryDay, BoundaryDay)} = {} PROVE FALSE
    OBVIOUS
  <2>1. UNION {Filings(s, day) : day \in {}} = {}
    OBVIOUS
  <2>2. DateSearch(s, BoundaryDay, BoundaryDay).receipts = {}
    BY <2>1, Zenon DEF DateSearch
  <2>3. QED BY <1>2, <2>2
<1>4. PICK d \in 1..Days : InPeriod(s, d, BoundaryDay, BoundaryDay)
  BY <1>3
<1>5. BoundaryDay \in Int /\ Days \in Nat
  BY GateAssumption
<1>6. s.first /\ s.last
  BY <1>4, <1>5 DEF InPeriod
<1>7. QED BY <1>5, <1>6 DEF InPeriod

LEMMA LinksSound ==
  ASSUME NEW s, RmWithdrawal(s).verdict = "passed"
  PROVE  \E links \in SUBSET Withdrawals :
           /\ Cardinality({s.cases[w].source : w \in links}) >= ConfirmedLinks
           /\ \A w \in links : LET case == s.cases[w] IN
                case.pair /\ (case.receipt \/ ~case.plan \/ w \in NewPairs)
<1> DEFINE links == {v \in Withdrawals : s.cases[v].pair /\ DocumentLink(s.cases[v], v \in NewPairs)}
<1>1. Cardinality(Linked(s)) >= ConfirmedLinks
  BY DEF RmWithdrawal, WithdrawalVerdict
<1>2. Linked(s) = {s.cases[w].source : w \in links}
  BY DEF Linked
<1>3. \A w \in links : LET case == s.cases[w] IN
        case.pair /\ (case.receipt \/ ~case.plan \/ w \in NewPairs)
  BY DEF DocumentLink
<1>4. links \in SUBSET Withdrawals
  OBVIOUS
<1> HIDE DEF links
<1>5. QED BY <1>1, <1>2, <1>3, <1>4

LEMMA MeasuredSound ==
  ASSUME server \in Servers, Measured
  PROVE  VerdictsSound
<1> SUFFICES ASSUME NEW r \in Runs
             PROVE
    LET Passed(name) == name \in DOMAIN verdicts[r] /\ verdicts[r][name] = "passed" IN
    /\ /\ Passed("query_switch") /\ server.up
       /\ \E i \in 2..Len(Asked) : server.hits[Asked[i]] # server.hits[Asked[i - 1]]
       => ~server.sticky
    /\ Passed("date_window") =>
         /\ server.first /\ server.last
         /\ \A day \in 1..Days : \A cut \in {BoundaryDay - 1, BoundaryDay} :
              InPeriod(server, day, 1, cut) \/ InPeriod(server, day, cut + 1, Days)
    /\ Passed("page_size") => server.honours \/ server.withCb
    /\ Passed("rm_withdrawal") =>
         \E links \in SUBSET Withdrawals :
           /\ Cardinality({server.cases[w].source : w \in links}) >= ConfirmedLinks
           /\ \A w \in links : LET case == server.cases[w] IN
                case.pair /\ (case.receipt \/ ~case.plan \/ w \in NewPairs)
  BY DEF VerdictsSound
<1> DEFINE Passed(name) == name \in DOMAIN verdicts[r] /\ verdicts[r][name] = "passed"
<1>1. \A name : Passed(name) => Measurement(server, name).verdict = "passed"
  BY DEF Measured, MeasuredOf
<1> HIDE DEF Passed
<1>2. ASSUME Passed("query_switch"), server.up,
             NEW i \in 2..Len(Asked), server.hits[Asked[i]] # server.hits[Asked[i - 1]]
      PROVE  ~server.sticky
  <2>1. QuerySwitch(server).verdict = "passed"
    BY <1>1, <1>2 DEF Measurement
  <2>2. QED BY <1>2, <2>1, SwitchSound
<1>3. ASSUME Passed("date_window")
      PROVE  /\ server.first /\ server.last
             /\ \A day \in 1..Days : \A cut \in {BoundaryDay - 1, BoundaryDay} :
                  InPeriod(server, day, 1, cut) \/ InPeriod(server, day, cut + 1, Days)
  <2>1. DateWindow(server).verdict = "passed"
    BY <1>1, <1>3 DEF Measurement
  <2>2. QED BY <2>1, WindowSound
<1>4. ASSUME Passed("page_size") PROVE server.honours \/ server.withCb
  <2>1. PageSize(server).verdict = "passed"
    BY <1>1, <1>4 DEF Measurement
  <2>2. QED BY <2>1, SizeSound
<1>5. ASSUME Passed("rm_withdrawal")
      PROVE  \E links \in SUBSET Withdrawals :
               /\ Cardinality({server.cases[w].source : w \in links}) >= ConfirmedLinks
               /\ \A w \in links : LET case == server.cases[w] IN
                    case.pair /\ (case.receipt \/ ~case.plan \/ w \in NewPairs)
  <2>1. RmWithdrawal(server).verdict = "passed"
    BY <1>1, <1>5 DEF Measurement
  <2>2. QED BY <2>1, LinksSound
<1>6. QED BY <1>2, <1>3, <1>4, <1>5 DEF Passed

-----------------------------------------------------------------------------
(* Runs measure, one after the other.                                       *)

(* A step of one run.                                                       *)
Only(r) ==
  /\ server' = server
  /\ \A q \in Runs \ {r} :
       /\ phase'[q] = phase[q] /\ probe'[q] = probe[q]
       /\ verdicts'[q] = verdicts[q] /\ failed'[q] = failed[q]

LEMMA OneMeasures ==
  ASSUME Measured, NEW r \in Runs, Only(r), MeasuredOf(r)',
         verdicts' \in [Runs -> UNION {[D -> Verdicts] : D \in SUBSET Names}]
  PROVE  Measured'
<1>1. ASSUME NEW q \in Runs \ {r} PROVE MeasuredOf(q)'
  BY DEF Only, Measured, MeasuredOf
<1>2. QED BY <1>1 DEF Measured

(* A verdict more.                                                          *)
LEMMA ConcludesOne ==
  ASSUME TypeOK, Measured, NEW r \in Runs, phase[r] = "probing", NEW verdict \in Verdicts,
         Concludes(r, verdict), server' = server, UNCHANGED failed,
         verdict = "passed" => Measurement(server, Probes[probe[r]]).verdict = "passed"
  PROVE  /\ Measured' /\ probe' \in [Runs -> 1..5]
         /\ phase' = [phase EXCEPT ![r] = "writing"] \/ phase' = phase
<1> DEFINE name == Probes[probe[r]]
           more == [n \in DOMAIN verdicts[r] \cup {name} |->
                     IF n = name THEN verdict ELSE verdicts[r][n]]
           V == UNION {[D -> Verdicts] : D \in SUBSET Names}
<1>1. probe[r] \in 1..5 /\ name \in Names
  BY NamesAre DEF TypeOK
<1>2. verdicts[r] \in V /\ verdicts \in [Runs -> V]
  BY DEF Measured
<1>3. PICK D \in SUBSET Names : verdicts[r] \in [D -> Verdicts]
  BY <1>2
<1>4. DOMAIN verdicts[r] = D /\ D = {Probes[i] : i \in 1..(probe[r] - 1)}
  BY <1>3 DEF Measured, MeasuredOf
<1>5. /\ DOMAIN more = D \cup {name}
      /\ more[name] = verdict
      /\ \A n \in D : more[n] = verdicts[r][n]
      /\ more = [n \in D \cup {name} |-> more[n]]
  <2>1. name \notin D
    <3>1. \A i \in 1..(probe[r] - 1) : i \in 1..5 /\ i # probe[r]
      BY <1>1
    <3>2. \A i \in 1..(probe[r] - 1) : Probes[i] # name
      BY <1>1, <3>1, NamesAre
    <3>3. QED BY <1>4, <3>2
  <2>2. more = [n \in D \cup {name} |-> IF n = name THEN verdict ELSE verdicts[r][n]]
    BY <1>4
  <2> HIDE DEF more, name
  <2>3. QED BY <2>1, <2>2
<1>6. more \in [D \cup {name} -> Verdicts]
  <2> HIDE DEF more, name
  <2>1. QED BY <1>3, <1>5
<1>7. more \in V
  <2> HIDE DEF more, name
  <2>1. D \cup {name} \in SUBSET Names
    BY <1>1
  <2>2. QED BY <1>6, <2>1
<1>8. verdicts' = [verdicts EXCEPT ![r] = more]
  BY DEF Concludes
<1> HIDE DEF more, V
<1>9. verdicts' \in [Runs -> V] /\ verdicts'[r] = more
  BY <1>2, <1>7, <1>8
<1>10. \A q \in Runs \ {r} : verdicts'[q] = verdicts[q]
  BY <1>2, <1>8
<1>11. \A n \in DOMAIN more : more[n] = "passed" => Measurement(server, n).verdict = "passed"
  BY <1>4, <1>5 DEF Measured, MeasuredOf
<1>12. CASE probe[r] < 5
  <2>1. probe' = [probe EXCEPT ![r] = probe[r] + 1] /\ phase' = phase
    BY <1>12 DEF Concludes
  <2>2. probe' \in [Runs -> 1..5] /\ probe'[r] = probe[r] + 1
        /\ \A q \in Runs \ {r} : probe'[q] = probe[q]
    BY <1>1, <1>12, <2>1 DEF TypeOK
  <2>3. DOMAIN more = {Probes[i] : i \in 1..(probe'[r] - 1)}
    <3>1. 1..(probe'[r] - 1) = 1..(probe[r] - 1) \cup {probe[r]}
      BY <1>1, <2>2
    <3>2. QED BY <1>4, <1>5, <3>1
  <2>4. ~failed'[r] /\ phase'[r] = "probing"
    BY <2>1 DEF Measured, MeasuredOf
  <2>5. MeasuredOf(r)'
    BY <1>9, <1>11, <2>3, <2>4 DEF MeasuredOf
  <2>6. Only(r)
    BY <1>10, <2>1, <2>2 DEF Only
  <2>7. QED BY <1>9, <2>1, <2>2, <2>5, <2>6, OneMeasures DEF V
<1>13. CASE probe[r] = 5
  <2>1. phase' = [phase EXCEPT ![r] = "writing"] /\ probe' = probe
    BY <1>13 DEF Concludes
  <2>2. phase'[r] = "writing" /\ \A q \in Runs \ {r} : phase'[q] = phase[q]
    BY <2>1 DEF TypeOK
  <2>3. D \cup {name} = Names
    <3>1. 1..5 = 1..(probe[r] - 1) \cup {probe[r]}
      BY <1>13
    <3>2. QED BY <1>4, <3>1 DEF Names
  <2>4. more \in Gates
    BY <1>6, <2>3 DEF Gates
  <2>5. ~failed'[r]
    BY DEF Measured, MeasuredOf
  <2>6. MeasuredOf(r)'
    BY <1>9, <1>11, <2>2, <2>4, <2>5 DEF MeasuredOf
  <2>7. Only(r)
    BY <1>10, <2>1, <2>2 DEF Only
  <2>8. QED BY <1>9, <2>1, <2>6, <2>7, OneMeasures DEF V, TypeOK
<1>14. QED BY <1>1, <1>12, <1>13

(* A step that leaves the verdicts alone.                                   *)
LEMMA KeepsVerdicts ==
  ASSUME TypeOK, Measured, NEW r \in Runs, NEW p, phase' = [phase EXCEPT ![r] = p],
         UNCHANGED <<server, probe, verdicts>>, NEW b \in BOOLEAN, failed' = [failed EXCEPT ![r] = b],
         \/ phase[r] = "new" /\ p = "probing" /\ ~b
         \/ p = "leaving" /\ b
         \/ phase[r] = "writing" /\ p \in {"writing", "listing"} /\ ~b
         \/ phase[r] = "listing" /\ p = "leaving" /\ ~b
         \/ phase[r] = "leaving" /\ p = "unlocking" /\ b = failed[r]
         \/ p = "gone" /\ ~b
  PROVE  Measured'
<1>1. phase'[r] = p /\ failed'[r] = b
      /\ \A q \in Runs \ {r} : phase'[q] = phase[q] /\ failed'[q] = failed[q]
  BY DEF TypeOK
<1>2. Only(r)
  BY <1>1 DEF Only
<1>3. MeasuredOf(r)
  BY DEF Measured
<1>4. MeasuredOf(r)'
  <2>1. CASE phase[r] = "new" /\ p = "probing" /\ ~b
    <3>1. DOMAIN verdicts[r] = {} /\ probe[r] = 1
      BY <1>3, <2>1 DEF MeasuredOf, Nothing
    <3>2. {Probes[i] : i \in 1..(probe[r] - 1)} = {}
      BY <3>1
    <3>3. QED BY <1>1, <1>3, <2>1, <3>1, <3>2 DEF MeasuredOf
  <2>2. CASE p # "probing"
    BY <1>1, <1>3, <2>2 DEF MeasuredOf
  <2>3. QED BY <2>1, <2>2
<1>5. QED BY <1>2, <1>4, OneMeasures DEF Measured

LEMMA MeasuredStep ==
  ASSUME TypeOK, Measured, [Next]_vars
  PROVE  Measured'
<1> USE DEF own, files
<1>1. ASSUME NEW r \in Runs, Enter(r) PROVE Measured'
  <2>1. failed' = [failed EXCEPT ![r] = FALSE]
    BY <1>1 DEF Enter, Measured, MeasuredOf, TypeOK
  <2>2. QED BY <1>1, <2>1, KeepsVerdicts DEF Enter
<1>2. ASSUME NEW r \in Runs, Refused(r) PROVE Measured'
  <2>1. failed' = [failed EXCEPT ![r] = FALSE]
    BY <1>2 DEF Refused, Measured, MeasuredOf, TypeOK
  <2>2. QED BY <1>2, <2>1, KeepsVerdicts DEF Refused
<1>3. ASSUME NEW r \in Runs, Request(r) \/ NotRun(r) PROVE Measured'
  <2>1. CASE NotRun(r)
    BY <1>3, <2>1, ConcludesOne DEF NotRun, Verdicts
  <2>2. CASE Request(r)
    <3> DEFINE measured == Measurement(server, Probes[probe[r]])
               rest == (IF left[r] = 0 THEN measured.requests ELSE left[r]) - 1
    <3>1. /\ phase[r] = "probing" /\ UNCHANGED <<server, failed>>
          /\ IF rest = 0 THEN Concludes(r, measured.verdict) ELSE UNCHANGED <<verdicts, probe, phase>>
      BY <2>2 DEF Request
    <3>2. CASE rest = 0
      <4>1. measured.verdict \in Verdicts
        BY VerdictIs DEF TypeOK
      <4> HIDE DEF measured
      <4>2. Concludes(r, measured.verdict)
        BY <3>1, <3>2
      <4>3. QED BY <3>1, <4>1, <4>2, ConcludesOne DEF measured
    <3>3. CASE rest # 0
      BY <3>1, <3>3 DEF Measured, MeasuredOf
    <3>4. QED BY <3>2, <3>3
  <2>3. QED BY <1>3, <2>1, <2>2
<1>4. ASSUME NEW r \in Runs, Stops(r) \/ RequestFails(r) PROVE Measured'
  BY <1>4, KeepsVerdicts DEF Stops, RequestFails, Fails
<1>5. ASSUME NEW r \in Runs, Signalled(r) PROVE Measured'
  BY <1>5 DEF Signalled, Measured, MeasuredOf
<1>6. ASSUME NEW r \in Runs, WriteGolden(r) PROVE Measured'
  <2>1. failed' = [failed EXCEPT ![r] = FALSE]
    BY <1>6 DEF WriteGolden, Measured, MeasuredOf, TypeOK
  <2>2. PICK p \in {"writing", "listing"} : phase' = [phase EXCEPT ![r] = p]
    BY <1>6 DEF WriteGolden
  <2>3. QED BY <1>6, <2>1, <2>2, KeepsVerdicts DEF WriteGolden
<1>7. ASSUME NEW r \in Runs, ListGolden(r) PROVE Measured'
  <2>1. failed' = [failed EXCEPT ![r] = FALSE]
    BY <1>7 DEF ListGolden, Measured, MeasuredOf, TypeOK
  <2>2. QED BY <1>7, <2>1, KeepsVerdicts DEF ListGolden
<1>8. ASSUME NEW r \in Runs, Exit(r) PROVE Measured'
  <2>1. failed' = [failed EXCEPT ![r] = failed[r]] /\ failed[r] \in BOOLEAN
    BY <1>8 DEF Exit, TypeOK
  <2>2. QED BY <1>8, <2>1, KeepsVerdicts DEF Exit
<1>9. ASSUME NEW r \in Runs, NEW as \in {"gone", "dead"}, Ends(r, as), server' = server
      PROVE  Measured'
  <2>1. /\ phase'[r] = as /\ verdicts'[r] = Nothing /\ ~failed'[r]
        /\ \A q \in Runs \ {r} : /\ phase'[q] = phase[q] /\ probe'[q] = probe[q]
                                 /\ verdicts'[q] = verdicts[q] /\ failed'[q] = failed[q]
    BY <1>9 DEF Ends, TypeOK, Measured
  <2>2. Nothing \in [{} -> Verdicts] /\ DOMAIN Nothing = {}
    BY DEF Nothing
  <2>3. verdicts' \in [Runs -> UNION {[D -> Verdicts] : D \in SUBSET Names}]
    <3> DEFINE V == UNION {[D -> Verdicts] : D \in SUBSET Names}
    <3>1. Nothing \in V
      BY <2>2
    <3>2. verdicts \in [Runs -> V]
      BY DEF Measured
    <3>3. verdicts' = [verdicts EXCEPT ![r] = Nothing]
      BY <1>9 DEF Ends
    <3> HIDE DEF V
    <3>4. verdicts' \in [Runs -> V]
      BY <3>1, <3>2, <3>3
    <3>5. QED BY <3>4 DEF V
  <2>4. MeasuredOf(r)'
    BY <2>1, <2>2 DEF MeasuredOf
  <2>5. QED BY <1>9, <2>1, <2>3, <2>4, OneMeasures DEF Only
<1>10. ASSUME NEW r \in Runs, Unlock(r) \/ Die(r) PROVE Measured'
  BY <1>9, <1>10 DEF Unlock, Die
<1>11. CASE RemoveLock
  BY <1>11 DEF RemoveLock, Measured, MeasuredOf
<1>12. CASE RebuildStarts \/ RebuildJudges \/ RebuildWrites \/ RebuildLists \/ RebuildEnds \/ RebuildDies
  <2>1. UNCHANGED <<server, own>>
    BY <1>12 DEF RebuildStarts, RebuildJudges, RebuildWrites, RebuildLists, RebuildEnds, RebuildDies,
                 Rebuilds
  <2>2. QED BY <2>1 DEF Measured, MeasuredOf
<1>13. CASE Rests \/ UNCHANGED vars
  BY <1>13 DEF Rests, vars, Measured, MeasuredOf
<1>14. QED
  BY <1>1, <1>2, <1>3, <1>4, <1>5, <1>6, <1>7, <1>8, <1>10, <1>11, <1>12, <1>13 DEF Next

-----------------------------------------------------------------------------
(* Types, the request limit and the lock.                                   *)

LEMMA TypedStep ==
  ASSUME TypeOK, Measured, Shaped, [Next]_vars
  PROVE  TypeOK'
<1> USE DEF own, files
<1>1. \A r \in Runs : DOMAIN verdicts'[r] \subseteq Names
                      /\ \A n \in DOMAIN verdicts'[r] : verdicts'[r][n] \in Verdicts
  <2>1. Measured'
    BY MeasuredStep
  <2> SUFFICES ASSUME NEW r \in Runs
               PROVE  DOMAIN verdicts'[r] \subseteq Names
                      /\ \A n \in DOMAIN verdicts'[r] : verdicts'[r][n] \in Verdicts
    OBVIOUS
  <2>2. PICK D \in SUBSET Names : verdicts'[r] \in [D -> Verdicts]
    BY <2>1 DEF Measured
  <2>3. QED BY <2>2
<1>2. NoRun \notin Runs /\ MaxRequests \in Nat \ {0}
  BY RunAssumption
<1>3. ASSUME NEW r \in Runs, Enter(r) PROVE TypeOK'
  BY <1>1, <1>2, <1>3 DEF Enter, Synced, TypeOK, Working
<1>4. ASSUME NEW r \in Runs, Refused(r) PROVE TypeOK'
  BY <1>1, <1>4 DEF Refused, TypeOK, Working
<1>5. ASSUME NEW r \in Runs, Request(r) \/ NotRun(r) PROVE TypeOK'
  <2>1. /\ phase[r] = "probing" /\ UNCHANGED <<server, cancel, failed, lock, mixed>>
        /\ root'.status = "running" \/ root' = root
    BY <1>5 DEF Request, NotRun, Synced
  <2>2. /\ probe' \in [Runs -> 1..5]
        /\ phase' = [phase EXCEPT ![r] = "writing"] \/ phase' = phase
    <3>1. CASE NotRun(r)
      BY <2>1, <3>1, ConcludesOne DEF NotRun, Verdicts
    <3>2. CASE Request(r)
      <4> DEFINE measured == Measurement(server, Probes[probe[r]])
      <4>1. Concludes(r, measured.verdict) \/ UNCHANGED <<verdicts, probe, phase>>
        BY <3>2 DEF Request
      <4>2. measured.verdict \in Verdicts
        BY VerdictIs DEF TypeOK
      <4>3. CASE Concludes(r, measured.verdict)
        <5> HIDE DEF measured
        <5>1. measured.verdict = "passed" => Measurement(server, Probes[probe[r]]).verdict = "passed"
          BY DEF measured
        <5>2. QED BY <2>1, <4>2, <4>3, <5>1, ConcludesOne
      <4>4. QED BY <4>1, <4>3 DEF TypeOK
    <3>3. QED BY <1>5, <3>1, <3>2
  <2>3. left' \in [Runs -> Nat] /\ sent' \in [Runs -> 0..MaxRequests]
    <3>1. CASE NotRun(r)
      BY <3>1 DEF NotRun, TypeOK
    <3>2. CASE Request(r)
      <4> DEFINE asks == Measurement(server, Probes[probe[r]]).requests
                 rest == (IF left[r] = 0 THEN asks ELSE left[r]) - 1
      <4>1. asks \in Nat \ {0}
        BY RequestsAre DEF TypeOK
      <4> HIDE DEF asks
      <4>2. rest \in Nat
        BY <4>1 DEF TypeOK
      <4>3. left' = [left EXCEPT ![r] = rest]
        BY <3>2 DEF Request, asks
      <4> HIDE DEF rest
      <4>4. left' \in [Runs -> Nat]
        BY <4>2, <4>3 DEF TypeOK
      <4>5. sent' \in [Runs -> 0..MaxRequests]
        BY <3>2, <1>2 DEF Request, MayAsk, TypeOK
      <4>6. QED BY <4>4, <4>5
    <3>3. QED BY <1>5, <3>1, <3>2
  <2>4. phase' \in [Runs -> Working \cup {"new", "gone", "dead"}]
        /\ \A q \in Runs : phase'[q] \in Working => lock = q
    BY <2>1, <2>2 DEF TypeOK, Working
  <2>5. QED BY <1>1, <2>1, <2>2, <2>3, <2>4 DEF TypeOK
<1>6. ASSUME NEW r \in Runs, Stops(r) \/ RequestFails(r) PROVE TypeOK'
  <2>1. PICK asked \in BOOLEAN : Fails(r, asked)
    BY <1>6 DEF Stops, RequestFails
  <2>2. phase' = [phase EXCEPT ![r] = "leaving"] /\ failed' = [failed EXCEPT ![r] = TRUE]
        /\ phase[r] = "probing" /\ UNCHANGED <<server, probe, left, verdicts, cancel, files, mixed>>
    BY <2>1 DEF Fails
  <2>3. sent' \in [Runs -> 0..MaxRequests]
    <3>1. (sent' = [sent EXCEPT ![r] = sent[r] + 1] /\ sent[r] < MaxRequests) \/ sent' = sent
      <4>1. CASE asked
        BY <2>1, <4>1 DEF Fails, MayAsk
      <4>2. CASE ~asked
        <5>1. sent' = [sent EXCEPT ![r] = sent[r]]
          BY <2>1, <4>2 DEF Fails
        <5>2. QED BY <5>1 DEF TypeOK
      <4>3. QED BY <4>1, <4>2
    <3>2. QED BY <1>2, <3>1 DEF TypeOK
  <2>4. phase' \in [Runs -> Working \cup {"new", "gone", "dead"}] /\ failed' \in [Runs -> BOOLEAN]
        /\ \A q \in Runs : phase'[q] \in Working => lock = q
    BY <2>2 DEF TypeOK, Working
  <2>5. QED BY <1>1, <2>2, <2>3, <2>4 DEF TypeOK
<1>7. ASSUME NEW r \in Runs, Signalled(r) PROVE TypeOK'
  BY <1>1, <1>7 DEF Signalled, TypeOK, Working
<1>8. ASSUME NEW r \in Runs, WriteGolden(r) \/ ListGolden(r) PROVE TypeOK'
  <2>1. PICK p \in {"writing", "listing", "leaving"} : phase' = [phase EXCEPT ![r] = p]
    BY <1>8 DEF WriteGolden, ListGolden
  <2>2. /\ phase[r] \in Working /\ UNCHANGED <<server, probe, left, sent, cancel, failed, lock, mixed>>
        /\ (root'.status = "running" \/ root' = root)
    BY <1>8 DEF WriteGolden, ListGolden, Synced, Working
  <2>3. phase' \in [Runs -> Working \cup {"new", "gone", "dead"}]
        /\ \A q \in Runs : phase'[q] \in Working => lock = q
    BY <2>1, <2>2 DEF TypeOK, Working
  <2>4. QED BY <1>1, <2>2, <2>3 DEF TypeOK
<1>9. ASSUME NEW r \in Runs, Exit(r) PROVE TypeOK'
  BY <1>1, <1>9 DEF Exit, Synced, TypeOK, Working
<1>10. ASSUME NEW r \in Runs, Unlock(r) PROVE TypeOK'
  BY <1>1, <1>2, <1>10 DEF Unlock, Ends, TypeOK, Working
<1>11. ASSUME NEW r \in Runs, Die(r) PROVE TypeOK'
  BY <1>1, <1>2, <1>11 DEF Die, Ends, TypeOK, Working
<1>12. CASE RemoveLock
  BY <1>1, <1>2, <1>12 DEF RemoveLock, TypeOK, Working
<1>13. CASE RebuildStarts \/ RebuildJudges \/ RebuildWrites \/ RebuildLists \/ RebuildEnds \/ RebuildDies
  <2>1. UNCHANGED <<server, own, lock>> /\ mixed' \in BOOLEAN
        /\ (root' = root \/ root'.status = "completed")
    <3>1. CASE RebuildStarts
      BY <3>1 DEF RebuildStarts, Rebuilds, TypeOK
    <3>2. CASE RebuildJudges
      BY <3>2 DEF RebuildJudges, Rebuilds, TypeOK
    <3>3. CASE RebuildWrites \/ RebuildLists \/ RebuildDies
      BY <3>3 DEF RebuildWrites, RebuildLists, RebuildDies, Rebuilds, TypeOK
    <3>4. CASE RebuildEnds
      <4>1. rebuild.root.status = "completed"
            /\ rebuild.root = [run |-> rebuild.root.run, status |-> "completed", gates |-> rebuild.root.gates]
        BY <3>4 DEF RebuildEnds, Shaped
      <4>2. root' = [rebuild.root EXCEPT !.gates = rebuild.gates]
        BY <3>4 DEF RebuildEnds
      <4>3. root'.status = "completed"
        BY <4>1, <4>2
      <4>4. QED BY <3>4, <4>3 DEF RebuildEnds, Rebuilds, TypeOK
    <3>5. QED BY <1>13, <3>1, <3>2, <3>3, <3>4
  <2>2. QED BY <1>1, <2>1 DEF TypeOK
<1>14. CASE Rests \/ UNCHANGED vars
  BY <1>14 DEF Rests, vars, TypeOK
<1>15. QED
  BY <1>3, <1>4, <1>5, <1>6, <1>7, <1>8, <1>9, <1>10, <1>11, <1>12, <1>13, <1>14 DEF Next

-----------------------------------------------------------------------------
(* The form of the files and of the rebuild.                                *)

LEMMA FilesAre ==
  /\ Files = {"query_switch", "page_size", "date_window", "rm_withdrawal", "rm_bond", "findings"}
  /\ \A i \in 1..6 : GoldenFiles[i] \in Files
  /\ \A i, j \in 1..6 : GoldenFiles[i] = GoldenFiles[j] => i = j
  /\ \A f \in Files : \E i \in 1..6 : f = GoldenFiles[i]
  /\ \A i \in 1..3 : Rebuilt[i] \in Files
<1>1. Files = {"query_switch", "page_size", "date_window", "rm_withdrawal", "rm_bond", "findings"}
  BY NamesAre DEF Files
<1>2. \A i \in 1..6 : i \in 1..5 \/ i = 6
  OBVIOUS
<1>3. "findings" \notin Names
  BY NamesAre
<1>4. \A i \in 1..6 : GoldenFiles[i] \in Files
  BY <1>2, NamesAre DEF Files
<1>5. \A i, j \in 1..6 : GoldenFiles[i] = GoldenFiles[j] => i = j
  BY <1>2, <1>3, NamesAre
<1>6. \A f \in Files : \E i \in 1..6 : f = GoldenFiles[i]
  <2> SUFFICES ASSUME NEW f \in Files PROVE \E i \in 1..6 : f = GoldenFiles[i]
    OBVIOUS
  <2>1. CASE f = "findings"
    BY <2>1, NamesAre
  <2>2. CASE f \in Names
    <3>1. PICK i \in 1..5 : f = Probes[i]
      BY <2>2 DEF Names
    <3>2. i \in 1..6 /\ f = GoldenFiles[i]
      BY <3>1, NamesAre
    <3>3. QED BY <3>2
  <2>3. QED BY <2>1, <2>2 DEF Files
<1>7. \A i \in 1..3 : Rebuilt[i] \in Files
  <2>1. \A i \in 1..3 : i = 1 \/ i = 2 \/ i = 3
    OBVIOUS
  <2>2. QED BY <1>1, <2>1, NamesAre
<1>8. QED BY <1>1, <1>4, <1>5, <1>6, <1>7

(* Where only one run works, no other is writing.                           *)
LEMMA Alone ==
  ASSUME TypeOK, NEW r \in Runs, phase[r] \in Working
  PROVE  lock = r /\ lock # NoRun /\ \A q \in Runs \ {r} : phase[q] \notin Working
<1>1. NoRun \notin Runs
  BY RunAssumption
<1>2. QED BY <1>1 DEF TypeOK

LEMMA ShapedRun ==
  ASSUME TypeOK, Shaped, NEW r \in Runs, UNCHANGED rebuild,
         golden' = [f \in Files |-> golden'[f]],
         root' = root \/ \E status, gates : Synced(r, status, gates),
         written' \in 0..5,
         (\A q \in Runs : phase'[q] # "writing") => written' = 0
  PROVE  Shaped'
<1>1. root' = [run |-> root'.run, status |-> root'.status, gates |-> root'.gates]
  BY DEF Synced, Shaped
<1>2. QED BY <1>1 DEF Shaped

LEMMA ShapedStep ==
  ASSUME TypeOK, Shaped, [Next]_vars
  PROVE  Shaped'
<1> USE DEF own, files
<1>1. golden = [f \in Files |-> golden[f]]
  BY DEF Shaped
<1>2. ASSUME NEW r \in Runs, Enter(r) \/ Refused(r) PROVE Shaped'
  <2>1. /\ UNCHANGED <<rebuild, golden, written>>
        /\ root' = root \/ \E status, gates : Synced(r, status, gates)
    BY <1>2 DEF Enter, Refused
  <2>2. phase[r] = "new" /\ \A q \in Runs \ {r} : phase'[q] = phase[q]
    BY <1>2 DEF Enter, Refused, TypeOK
  <2>3. (\A q \in Runs : phase'[q] # "writing") => written = 0
    BY <2>2 DEF Shaped
  <2>4. written' \in 0..5
    BY <2>1 DEF Shaped
  <2>5. golden' = [f \in Files |-> golden'[f]]
    BY <1>1, <2>1
  <2>6. QED BY <2>1, <2>3, <2>4, <2>5, ShapedRun
<1>3. ASSUME NEW r \in Runs, phase[r] \in Working, phase[r] # "writing",
             UNCHANGED <<rebuild, golden, written>>,
             root' = root \/ \E status, gates : Synced(r, status, gates)
      PROVE  Shaped'
  <2>1. written = 0
    BY <1>3, Alone DEF Shaped, Working
  <2>2. QED BY <1>1, <1>3, <2>1, ShapedRun
<1>4. ASSUME NEW r \in Runs, Request(r) \/ NotRun(r) PROVE Shaped'
  <2>1. phase[r] = "probing" /\ UNCHANGED <<rebuild, golden, written>>
        /\ (root' = root \/ \E status, gates : Synced(r, status, gates))
    BY <1>4 DEF Request, NotRun
  <2>2. QED BY <1>3, <2>1 DEF Working
<1>5. ASSUME NEW r \in Runs, Stops(r) \/ RequestFails(r) PROVE Shaped'
  BY <1>3, <1>5 DEF Stops, RequestFails, Fails, Working
<1>6. ASSUME NEW r \in Runs, Signalled(r) PROVE Shaped'
  <2>1. UNCHANGED <<rebuild, golden, written, root, phase>>
    BY <1>6 DEF Signalled
  <2>2. QED BY <2>1 DEF Shaped
<1>7. ASSUME NEW r \in Runs, WriteGolden(r) PROVE Shaped'
  <2>1. written' = (written + 1) % 6 /\ UNCHANGED <<rebuild, root>> /\ written \in 0..5
    BY <1>7, NamesAre DEF WriteGolden, Shaped
  <2>2. written' \in 0..5
    BY <2>1
  <2>3. golden' = [f \in Files |-> golden'[f]]
    BY <1>1, <1>7 DEF WriteGolden
  <2>4. written' # 0 => phase'[r] = "writing"
    BY <1>7 DEF WriteGolden, TypeOK
  <2>5. QED BY <2>1, <2>2, <2>3, <2>4, ShapedRun
<1>8. ASSUME NEW r \in Runs, ListGolden(r) PROVE Shaped'
  BY <1>3, <1>8 DEF ListGolden, Working
<1>9. ASSUME NEW r \in Runs, Exit(r) PROVE Shaped'
  BY <1>3, <1>9 DEF Exit, Working
<1>10. ASSUME NEW r \in Runs, Unlock(r) PROVE Shaped'
  BY <1>3, <1>10 DEF Unlock, Working
<1>11. ASSUME NEW r \in Runs, Die(r) PROVE Shaped'
  <2>1. written' = 0 /\ UNCHANGED <<rebuild, golden, root>>
    BY <1>11 DEF Die
  <2>2. QED BY <1>1, <2>1, ShapedRun
<1>12. CASE RemoveLock \/ Rests \/ UNCHANGED vars
  <2>1. UNCHANGED <<rebuild, golden, written, root, phase>>
    BY <1>12 DEF RemoveLock, Rests, vars
  <2>2. QED BY <2>1 DEF Shaped
<1> DEFINE Formed(b) == b = [phase |-> b.phase, root |-> b.root, source |-> b.source,
                             gates |-> b.gates, done |-> b.done, count |-> b.count]
<1>13. ASSUME UNCHANGED <<written, phase>>, Formed(rebuild'),
              rebuild'.phase \in {"off", "read", "write", "list", "sync"},
              rebuild'.phase # "off" => rebuild'.root = [run |-> rebuild'.root.run, status |-> "completed",
                                                         gates |-> rebuild'.root.gates],
              rebuild'.phase = "read" => rebuild'.done = 0,
              rebuild'.phase = "write" => rebuild'.done \in 0..2,
              golden' = [f \in Files |-> golden'[f]],
              root' = [run |-> root'.run, status |-> root'.status, gates |-> root'.gates]
       PROVE  Shaped'
  BY <1>13 DEF Shaped
<1>14. Formed(rebuild) /\ root = [run |-> root.run, status |-> root.status, gates |-> root.gates]
  BY DEF Shaped
<1>15. CASE RebuildStarts
  <2>1. rebuild' = [Idle EXCEPT !.phase = "read", !.root = root, !.count = rebuild.count + 1]
        /\ UNCHANGED <<written, phase, golden, root>> /\ root.status = "completed"
    BY <1>15 DEF RebuildStarts, Rebuilds
  <2>2. rebuild' = [phase |-> "read", root |-> root, source |-> NoRun, gates |-> Nothing,
                    done |-> 0, count |-> rebuild.count + 1]
    BY <2>1 DEF Idle
  <2>3. rebuild'.phase = "read" /\ rebuild'.done = 0 /\ rebuild'.root = root /\ Formed(rebuild')
    BY <2>2
  <2> HIDE DEF Formed
  <2>4. root = [run |-> root.run, status |-> "completed", gates |-> root.gates]
    BY <1>14, <2>1
  <2>5. golden' = [f \in Files |-> golden'[f]]
        /\ root' = [run |-> root'.run, status |-> root'.status, gates |-> root'.gates]
    BY <1>1, <1>14, <2>1
  <2>6. QED BY <1>13, <2>1, <2>3, <2>4, <2>5
<1>16. CASE RebuildJudges
  <2>1. PICK gates : rebuild' = [rebuild EXCEPT !.phase = "write", !.gates = gates,
                                                !.source = golden["findings"].run]
    BY <1>16 DEF RebuildJudges, Rebuilds
  <2>2. rebuild' = [phase |-> "write", root |-> rebuild.root, source |-> golden["findings"].run,
                    gates |-> gates, done |-> rebuild.done, count |-> rebuild.count]
    BY <1>14, <2>1
  <2>3. UNCHANGED <<written, phase, golden, root>> /\ rebuild.phase = "read"
    BY <1>16 DEF RebuildJudges, Rebuilds
  <2>4. rebuild.done = 0 /\ rebuild.root = [run |-> rebuild.root.run, status |-> "completed",
                                            gates |-> rebuild.root.gates]
    BY <2>3 DEF Shaped
  <2>5. QED BY <1>1, <1>13, <1>14, <2>2, <2>3, <2>4
<1>17. CASE RebuildWrites
  <2> DEFINE p == IF rebuild.done + 1 = Len(Rebuilt) THEN "list" ELSE rebuild.phase
  <2>1. rebuild' = [rebuild EXCEPT !.done = rebuild.done + 1, !.phase = p]
    BY <1>17 DEF RebuildWrites, Rebuilds
  <2>2. rebuild' = [phase |-> p, root |-> rebuild.root, source |-> rebuild.source,
                    gates |-> rebuild.gates, done |-> rebuild.done + 1, count |-> rebuild.count]
    BY <1>14, <2>1
  <2>3. UNCHANGED <<written, phase, root>> /\ rebuild.phase = "write"
        /\ golden' = [f \in Files |-> golden'[f]]
    BY <1>1, <1>17 DEF RebuildWrites, Rebuilds
  <2>4. rebuild.done \in 0..2 /\ rebuild.root = [run |-> rebuild.root.run, status |-> "completed",
                                                 gates |-> rebuild.root.gates]
    BY <2>3 DEF Shaped
  <2>5. p = "list" \/ (p = "write" /\ rebuild.done + 1 \in 0..2)
    <3>1. Len(Rebuilt) = 3
      BY DEF Rebuilt
    <3>2. rebuild.done + 1 = 3 \/ rebuild.done + 1 \in 0..2
      BY <2>4
    <3>3. CASE rebuild.done + 1 = 3
      BY <3>1, <3>3
    <3>4. CASE rebuild.done + 1 # 3
      BY <2>3, <3>1, <3>2, <3>4
    <3>5. QED BY <3>3, <3>4
  <2> HIDE DEF p
  <2>6. QED BY <1>13, <1>14, <2>2, <2>3, <2>4, <2>5
<1>18. CASE RebuildLists
  <2>1. rebuild' = [rebuild EXCEPT !.phase = "sync"]
        /\ UNCHANGED <<written, phase, root, golden>> /\ rebuild.phase = "list"
    BY <1>18 DEF RebuildLists, Rebuilds
  <2>2. rebuild' = [phase |-> "sync", root |-> rebuild.root, source |-> rebuild.source,
                    gates |-> rebuild.gates, done |-> rebuild.done, count |-> rebuild.count]
    BY <1>14, <2>1
  <2>3. rebuild.root = [run |-> rebuild.root.run, status |-> "completed", gates |-> rebuild.root.gates]
    BY <2>1 DEF Shaped
  <2>4. QED BY <1>1, <1>13, <1>14, <2>1, <2>2, <2>3
<1>19. CASE RebuildEnds \/ RebuildDies
  <2>1. rebuild' = [Idle EXCEPT !.count = rebuild.count] /\ UNCHANGED <<written, phase, golden>>
    BY <1>19 DEF RebuildEnds, RebuildDies, Rebuilds
  <2>2. rebuild' = [phase |-> "off", root |-> NoRoot, source |-> NoRun, gates |-> Nothing,
                    done |-> 0, count |-> rebuild.count]
    BY <2>1 DEF Idle
  <2>3. root' = [run |-> root'.run, status |-> root'.status, gates |-> root'.gates]
    <3>1. CASE RebuildDies
      BY <1>14, <3>1 DEF RebuildDies
    <3>2. CASE RebuildEnds
      <4>1. rebuild.root = [run |-> rebuild.root.run, status |-> "completed", gates |-> rebuild.root.gates]
        BY <3>2 DEF RebuildEnds, Shaped
      <4>2. root' = [rebuild.root EXCEPT !.gates = rebuild.gates]
        BY <3>2 DEF RebuildEnds
      <4>3. root' = [run |-> rebuild.root.run, status |-> "completed", gates |-> rebuild.gates]
        BY <4>1, <4>2
      <4>4. QED BY <4>3
    <3>3. QED BY <1>19, <3>1, <3>2
  <2>4. rebuild'.phase = "off" /\ Formed(rebuild')
    BY <2>2
  <2>5. golden' = [f \in Files |-> golden'[f]]
    BY <1>1, <2>1
  <2> HIDE DEF Formed
  <2>6. QED BY <1>13, <2>1, <2>3, <2>4, <2>5
<1>20. QED
  BY <1>2, <1>4, <1>5, <1>6, <1>7, <1>8, <1>9, <1>10, <1>11, <1>12, <1>15, <1>16, <1>17, <1>18, <1>19
     DEF Next

-----------------------------------------------------------------------------
(* What the files tell of, as long as nothing is mixed.                     *)

(* A step of the run at work: no rebuild is under way.                      *)
LEMMA RunsOn ==
  ASSUME TypeOK, Undisturbed, ~mixed, UNCHANGED rebuild, NEW r \in Runs, phase[r] \in Working,
         \A q \in Runs \ {r} : phase'[q] = phase[q],
         RunWrites(r)',
         root'.status = "completed" => root'.gates \in Gates /\ WholeOf(root.run, root.gates)'
  PROVE  Undisturbed'
<1>1. lock # NoRun /\ \A q \in Runs \ {r} : phase[q] \notin Working
  BY Alone
<1>2. rebuild.phase = "off"
  BY <1>1 DEF Undisturbed
<1>3. ASSUME NEW q \in Runs \ {r} PROVE RunWrites(q)'
  BY <1>1 DEF RunWrites, Working
<1>4. \A q \in Runs : RunWrites(q)'
  BY <1>3
<1>5. RebuildsRoot'
  BY <1>2 DEF RebuildsRoot
<1>6. QED BY <1>2, <1>4, <1>5 DEF Undisturbed

(* A step of the rebuild: no run is at work.                                *)
LEMMA RebuildGoesOn ==
  ASSUME TypeOK, lock = NoRun, UNCHANGED <<lock, phase>>, RebuildsRoot'
  PROVE  Undisturbed'
<1>1. \A q \in Runs : phase[q] \notin Working
  BY RunAssumption DEF TypeOK
<1>2. \A q \in Runs : RunWrites(q)'
  BY <1>1 DEF RunWrites, Working
<1>3. QED BY <1>2 DEF Undisturbed

LEMMA UndisturbedStep ==
  ASSUME TypeOK, Measured, Shaped, Undisturbed, [Next]_vars
  PROVE  Undisturbed'
<1> USE DEF own, files
<1>1. ASSUME NEW r \in Runs, Enter(r) PROVE Undisturbed'
  <2> SUFFICES ASSUME ~mixed' PROVE Undisturbed'
    BY DEF Undisturbed
  <2>1. rebuild'.phase = "off" /\ lock = NoRun /\ root'.status = "running"
        /\ phase'[r] = "probing" /\ \A q \in Runs \ {r} : phase'[q] = phase[q]
    BY <1>1 DEF Enter, Synced, TypeOK
  <2>2. \A q \in Runs : phase[q] \notin Working
    BY <2>1, RunAssumption DEF TypeOK
  <2>3. \A q \in Runs : RunWrites(q)'
    BY <2>1, <2>2 DEF RunWrites, Working
  <2>4. RebuildsRoot'
    BY <2>1 DEF RebuildsRoot
  <2>5. QED BY <2>1, <2>3, <2>4 DEF Undisturbed
<1>2. CASE mixed'
  BY <1>2 DEF Undisturbed
<1>3. ASSUME NEW r \in Runs, Refused(r), ~mixed' PROVE Undisturbed'
  <2>1. /\ UNCHANGED <<rebuild, root, lock, golden, listing, mixed>> /\ phase'[r] = "gone"
        /\ \A q \in Runs \ {r} : /\ phase'[q] = phase[q] /\ verdicts'[q] = verdicts[q]
                                 /\ failed'[q] = failed[q] /\ written' = written
    BY <1>3 DEF Refused, TypeOK
  <2>2. \A q \in Runs : RunWrites(q)'
    <3>1. RunWrites(r)'
      BY <2>1 DEF RunWrites
    <3>2. ASSUME NEW q \in Runs \ {r} PROVE RunWrites(q)'
      BY <1>3, <2>1 DEF RunWrites, Undisturbed, GoldenOf, WholeOf
    <3>3. QED BY <3>1, <3>2
  <2>3. RebuildsRoot'
    BY <1>3, <2>1 DEF Undisturbed, RebuildsRoot, GoldenOf, WholeOf
  <2>4. QED BY <1>3, <2>1, <2>2, <2>3 DEF Undisturbed
<1>4. ASSUME NEW r \in Runs, Request(r) \/ NotRun(r), ~mixed' PROVE Undisturbed'
  <2>1. phase[r] = "probing" /\ UNCHANGED <<rebuild, written, mixed>>
        /\ (root' = root \/ root'.status = "running")
        /\ (phase' = phase \/ phase' = [phase EXCEPT ![r] = "writing"])
    BY <1>4 DEF Request, NotRun, Synced, Concludes
  <2>2. root'.status = "running"
    BY <1>4, <2>1 DEF Undisturbed, RunWrites
  <2>3. written = 0
    BY <2>1, Alone DEF Shaped, Working
  <2>4. phase'[r] \in {"probing", "writing"} /\ \A q \in Runs \ {r} : phase'[q] = phase[q]
    BY <2>1 DEF TypeOK
  <2>5. RunWrites(r)'
    BY <2>1, <2>2, <2>3, <2>4 DEF RunWrites
  <2>6. QED BY <1>4, <2>1, <2>2, <2>4, <2>5, RunsOn DEF Working
<1>5. ASSUME NEW r \in Runs, Stops(r) \/ RequestFails(r), ~mixed' PROVE Undisturbed'
  <2>1. phase[r] = "probing" /\ UNCHANGED <<rebuild, root, mixed>> /\ failed'[r]
        /\ phase'[r] = "leaving" /\ \A q \in Runs \ {r} : phase'[q] = phase[q]
    BY <1>5 DEF Stops, RequestFails, Fails, TypeOK
  <2>2. root'.status = "running"
    BY <1>5, <2>1 DEF Undisturbed, RunWrites
  <2>3. RunWrites(r)'
    BY <2>1, <2>2 DEF RunWrites
  <2>4. QED BY <1>5, <2>1, <2>2, <2>3, RunsOn DEF Working
<1>6. ASSUME UNCHANGED <<phase, verdicts, failed, root, golden, listing, written, rebuild, mixed>>,
             lock' = lock \/ lock' = NoRun
      PROVE  Undisturbed'
  <2>1. ~mixed => \A q \in Runs : RunWrites(q)'
    BY <1>6 DEF Undisturbed, RunWrites, GoldenOf, WholeOf
  <2>2. ~mixed => RebuildsRoot'
    BY <1>6 DEF Undisturbed, RebuildsRoot, GoldenOf, WholeOf
  <2>3. QED BY <1>6, <2>1, <2>2 DEF Undisturbed
<1>7. ASSUME NEW r \in Runs, Signalled(r) PROVE Undisturbed'
  BY <1>6, <1>7 DEF Signalled
<1>8. ASSUME NEW r \in Runs, WriteGolden(r), ~mixed' PROVE Undisturbed'
  <2> DEFINE name == GoldenFiles[written + 1]
             entry == [run |-> r, gates |-> Told(name, verdicts[r])]
  <2>1. /\ phase[r] = "writing" /\ UNCHANGED <<rebuild, root, mixed, verdicts>>
        /\ golden' = [golden EXCEPT ![name] = entry]
        /\ written' = (written + 1) % 6
        /\ phase' = [phase EXCEPT ![r] = IF written' = 0 THEN "listing" ELSE phase[r]]
    BY <1>8, NamesAre DEF WriteGolden
  <2>2. RunWrites(r) /\ root.status = "running"
    BY <1>8, <2>1 DEF Undisturbed, RunWrites
  <2>3. written \in 0..5 /\ DOMAIN golden = Files
    BY DEF Shaped
  <2>4. name \in Files /\ \A i \in 1..written : GoldenFiles[i] \in Files /\ GoldenFiles[i] # name
    <3>1. written + 1 \in 1..6 /\ \A i \in 1..written : i \in 1..6 /\ i # written + 1
      BY <2>3
    <3>2. QED BY <3>1, FilesAre
  <2>5. \A i \in 1..written : golden[GoldenFiles[i]] = [run |-> r, gates |-> Told(GoldenFiles[i], verdicts[r])]
    BY <2>1, <2>2 DEF RunWrites
  <2>6. golden'[name] = entry /\ \A f \in Files : f # name => golden'[f] = golden[f]
    <3> HIDE DEF name, entry
    <3>1. QED BY <2>1, <2>3, <2>4
  <2>7. \A i \in 1..(written + 1) :
          golden'[GoldenFiles[i]] = [run |-> r, gates |-> Told(GoldenFiles[i], verdicts[r])]
    <3>1. \A i \in 1..(written + 1) : i \in 1..written \/ i = written + 1
      BY <2>3
    <3> SUFFICES ASSUME NEW i \in 1..(written + 1)
                 PROVE  golden'[GoldenFiles[i]] = [run |-> r, gates |-> Told(GoldenFiles[i], verdicts[r])]
      OBVIOUS
    <3>2. CASE i = written + 1
      BY <2>6, <3>2, Zenon
    <3>3. CASE i \in 1..written
      <4> HIDE DEF name
      <4>1. QED BY <2>4, <2>5, <2>6, <3>3
    <3>4. QED BY <3>1, <3>2, <3>3
  <2> HIDE DEF name, entry
  <2>8. \A q \in Runs \ {r} : phase'[q] = phase[q]
    BY <2>1 DEF TypeOK
  <2>9. RunWrites(r)'
    <3>1. CASE written = 5
      <4>1. written' = 0 /\ phase'[r] = "listing"
        BY <2>1, <3>1 DEF TypeOK
      <4>2. \A i \in 1..6 : golden'[GoldenFiles[i]] = [run |-> r, gates |-> Told(GoldenFiles[i], verdicts[r])]
        BY <2>7, <3>1
      <4>3. \A f \in Files : golden'[f] = [run |-> r, gates |-> Told(f, verdicts[r])]
        BY <4>2, FilesAre
      <4>4. QED BY <2>1, <2>2, <4>1, <4>3 DEF RunWrites, GoldenOf
    <3>2. CASE written # 5
      <4>1. written' = written + 1 /\ written' # 0
        BY <2>1, <2>3, <3>2
      <4>2. phase'[r] = "writing"
        BY <2>1, <4>1 DEF TypeOK
      <4>3. QED BY <2>1, <2>2, <2>7, <4>1, <4>2 DEF RunWrites
    <3>3. QED BY <3>1, <3>2
  <2>10. QED BY <1>8, <2>1, <2>2, <2>8, <2>9, RunsOn DEF Working
<1>9. ASSUME NEW r \in Runs, ListGolden(r), ~mixed' PROVE Undisturbed'
  <2>1. phase[r] = "listing" /\ UNCHANGED <<rebuild, mixed, golden, verdicts>>
        /\ listing' = [run |-> r, files |-> golden] /\ root'.status = "running"
        /\ phase'[r] = "leaving" /\ \A q \in Runs \ {r} : phase'[q] = phase[q]
    BY <1>9 DEF ListGolden, Synced, TypeOK
  <2>2. GoldenOf(r, verdicts[r])
    BY <1>9, <2>1 DEF Undisturbed, RunWrites
  <2>3. RunWrites(r)'
    BY <2>1, <2>2 DEF RunWrites, WholeOf, GoldenOf
  <2>4. QED BY <1>9, <2>1, <2>3, RunsOn DEF Working
<1>10. ASSUME NEW r \in Runs, Exit(r), ~mixed' PROVE Undisturbed'
  <2>1. phase[r] = "leaving" /\ UNCHANGED <<rebuild, mixed, golden, listing, verdicts>>
        /\ phase'[r] = "unlocking" /\ \A q \in Runs \ {r} : phase'[q] = phase[q]
    BY <1>10 DEF Exit, TypeOK
  <2>2. RunWrites(r)'
    BY <2>1 DEF RunWrites
  <2>3. root'.status = "completed" => root'.gates \in Gates /\ WholeOf(root.run, root.gates)'
    <3>1. CASE failed[r]
      BY <1>10, <3>1 DEF Exit, Synced
    <3>2. CASE ~failed[r]
      <4>1. root'.run = r /\ root'.gates = verdicts[r]
        BY <1>10, <3>2 DEF Exit, Synced
      <4>2. verdicts[r] \in Gates
        BY <2>1, <3>2 DEF Measured, MeasuredOf
      <4>3. WholeOf(r, verdicts[r])
        BY <1>10, <2>1, <3>2 DEF Undisturbed, RunWrites
      <4>4. QED BY <2>1, <4>1, <4>2, <4>3 DEF WholeOf, GoldenOf
    <3>3. QED BY <3>1, <3>2
  <2>4. QED BY <1>10, <2>1, <2>2, <2>3, RunsOn DEF Working
<1>11. ASSUME NEW r \in Runs, Unlock(r) \/ Die(r), ~mixed' PROVE Undisturbed'
  <2>1. phase[r] \in Working /\ UNCHANGED <<rebuild, mixed, golden, listing, root>>
        /\ phase'[r] \in {"gone", "dead"} /\ \A q \in Runs \ {r} : phase'[q] = phase[q]
    BY <1>11 DEF Unlock, Die, Ends, TypeOK, Working
  <2>2. RunWrites(r)'
    BY <2>1 DEF RunWrites
  <2>3. rebuild.phase = "off"
    BY <1>11, <2>1, Alone DEF Undisturbed
  <2>4. root'.status = "completed" => root'.gates \in Gates /\ WholeOf(root.run, root.gates)'
    BY <1>11, <2>1, <2>3 DEF Undisturbed, RebuildsRoot, WholeOf, GoldenOf
  <2>5. QED BY <1>11, <2>1, <2>2, <2>4, RunsOn
<1>12. CASE RemoveLock \/ Rests \/ UNCHANGED vars
  BY <1>6, <1>12 DEF RemoveLock, Rests, vars
<1>13. CASE ~mixed' /\ RebuildStarts
  <2>1. ~mixed /\ lock = NoRun /\ rebuild.phase = "off" /\ root.status = "completed"
        /\ UNCHANGED <<lock, phase, root, golden, listing>>
    BY <1>13 DEF RebuildStarts, Rebuilds
  <2>2. rebuild'.phase = "read" /\ rebuild'.root = root
    BY <1>13 DEF RebuildStarts, Rebuilds, Idle
  <2>3. root.gates \in Gates /\ WholeOf(root.run, root.gates)
    BY <2>1 DEF Undisturbed, RebuildsRoot
  <2>4. WholeOf(root.run, root.gates)'
    BY <2>1, <2>3 DEF WholeOf, GoldenOf
  <2>5. RebuildsRoot'
    BY <2>1, <2>2, <2>3, <2>4 DEF RebuildsRoot
  <2>6. QED BY <2>1, <2>5, RebuildGoesOn
<1>14. ASSUME ~mixed', UNCHANGED mixed, rebuild.phase # "off"
       PROVE  lock = NoRun /\ RebuildsRoot /\ rebuild.root = root
              /\ root.status = "completed" /\ root.gates \in Gates
  BY <1>14 DEF Undisturbed, RebuildsRoot
<1>15. CASE ~mixed' /\ RebuildJudges
  <2>1. PICK links \in 0..Cardinality(Withdrawals) :
          rebuild' = [rebuild EXCEPT !.phase = "write",
                        !.gates = [golden["findings"].gates EXCEPT
                                     !["rm_withdrawal"] = WithdrawalVerdict(links)],
                        !.source = golden["findings"].run]
    BY <1>15 DEF RebuildJudges, Rebuilds
  <2> DEFINE gates == [golden["findings"].gates EXCEPT !["rm_withdrawal"] = WithdrawalVerdict(links)]
  <2>2. rebuild.phase = "read" /\ UNCHANGED <<lock, phase, root, golden, listing, mixed>>
    BY <1>15 DEF RebuildJudges, Rebuilds
  <2>3. /\ lock = NoRun /\ rebuild.root = root /\ root.status = "completed" /\ root.gates \in Gates
        /\ WholeOf(root.run, root.gates) /\ rebuild.done = 0
    BY <1>14, <1>15, <2>2 DEF RebuildsRoot, Shaped
  <2>4. golden["findings"].run = root.run /\ golden["findings"].gates = root.gates
    BY <2>3, FilesAre DEF WholeOf, GoldenOf, Told
  <2>5. gates = [root.gates EXCEPT !["rm_withdrawal"] = WithdrawalVerdict(links)]
    BY <2>4
  <2>6. WithdrawalVerdict(links) \in Verdicts
    BY DEF WithdrawalVerdict, Verdicts
  <2> HIDE DEF gates
  <2>7. gates \in Gates /\ \A n \in Names : n # "rm_withdrawal" => gates[n] = root.gates[n]
    BY <2>3, <2>5, <2>6 DEF Gates
  <2>8. /\ rebuild'.phase = "write" /\ rebuild'.gates = gates /\ rebuild'.source = root.run
        /\ rebuild'.root = root /\ rebuild'.done = 0
    <3>1. rebuild' = [rebuild EXCEPT !.phase = "write", !.gates = gates, !.source = golden["findings"].run]
      BY <2>1 DEF gates
    <3>2. rebuild = [phase |-> rebuild.phase, root |-> rebuild.root, source |-> rebuild.source,
                     gates |-> rebuild.gates, done |-> rebuild.done, count |-> rebuild.count]
      BY DEF Shaped
    <3>3. QED BY <2>3, <2>4, <3>1, <3>2
  <2>9. ASSUME NEW f \in Files
        PROVE  \/ golden[f] = [run |-> root.run, gates |-> Told(f, gates)]
               \/ f \in {Rebuilt[i] : i \in 1..3}
    <3>1. golden[f] = [run |-> root.run, gates |-> Told(f, root.gates)]
      BY <2>3 DEF WholeOf, GoldenOf
    <3>2. CASE f = "findings" \/ f = "rm_withdrawal"
      <4>1. 1 \in 1..3 /\ 3 \in 1..3
        OBVIOUS
      <4>2. QED BY <3>2, <4>1, NamesAre
    <3>3. CASE f # "findings" /\ f # "rm_withdrawal"
      <4>1. gates[f] = root.gates[f]
        BY <2>7, <3>3 DEF Files
      <4>2. Told(f, gates) = Told(f, root.gates)
        BY <3>3, <4>1 DEF Told
      <4>3. QED BY <3>1, <4>2
    <3>4. QED BY <3>2, <3>3
  <2>10. RebuildsRoot'
    <3>1. 0 + 1 = 1
      OBVIOUS
    <3>2. \A f \in Files : \/ golden'[f] = [run |-> root'.run, gates |-> Told(f, rebuild'.gates)]
                           \/ f \in {Rebuilt[i] : i \in (rebuild'.done + 1)..3}
      BY <2>2, <2>8, <2>9, <3>1
    <3>3. QED BY <2>2, <2>3, <2>7, <2>8, <3>2 DEF RebuildsRoot
  <2>11. QED BY <2>2, <2>3, <2>10, RebuildGoesOn
<1>16. CASE ~mixed' /\ RebuildWrites
  <2> DEFINE done == rebuild.done
             name == Rebuilt[done + 1]
             entry == [run |-> rebuild.source, gates |-> Told(name, rebuild.gates)]
             p == IF done + 1 = 3 THEN "list" ELSE "write"
  <2>1. /\ rebuild.phase = "write" /\ golden' = [golden EXCEPT ![name] = entry]
        /\ UNCHANGED <<lock, phase, root, listing, mixed>>
    BY <1>16 DEF RebuildWrites, Rebuilds
  <2>2. rebuild' = [rebuild EXCEPT !.done = done + 1, !.phase = p]
    BY <1>16, <2>1, NamesAre DEF RebuildWrites, Rebuilds
  <2>3. /\ lock = NoRun /\ rebuild.root = root /\ root.status = "completed" /\ root.gates \in Gates
        /\ rebuild.gates \in Gates /\ rebuild.source = root.run
        /\ \A f \in Files : \/ golden[f] = [run |-> root.run, gates |-> Told(f, rebuild.gates)]
                            \/ f \in {Rebuilt[i] : i \in (done + 1)..3}
    BY <1>14, <1>16, <2>1 DEF RebuildsRoot
  <2>4. done \in 0..2 /\ DOMAIN golden = Files
    BY <2>1 DEF Shaped
  <2>5. name \in Files
    <3>1. done + 1 \in 1..3
      BY <2>4
    <3>2. QED BY <3>1, FilesAre
  <2>6. golden'[name] = entry /\ \A f \in Files : f # name => golden'[f] = golden[f]
    <3> HIDE DEF name, entry
    <3>1. QED BY <2>1, <2>4, <2>5
  <2>7. /\ rebuild'.phase = p /\ rebuild'.done = done + 1 /\ rebuild'.root = root
        /\ rebuild'.gates = rebuild.gates /\ rebuild'.source = root.run
    <3>1. rebuild = [phase |-> rebuild.phase, root |-> rebuild.root, source |-> rebuild.source,
                     gates |-> rebuild.gates, done |-> rebuild.done, count |-> rebuild.count]
      BY DEF Shaped
    <3> HIDE DEF p
    <3>2. QED BY <2>2, <2>3, <3>1
  <2>8. ASSUME NEW f \in Files
        PROVE  \/ golden'[f] = [run |-> root.run, gates |-> Told(f, rebuild.gates)]
               \/ f \in {Rebuilt[i] : i \in (done + 2)..3}
    <3>1. CASE f = name
      BY <2>3, <2>6, <3>1, Zenon
    <3>2. CASE f # name /\ f \in {Rebuilt[i] : i \in (done + 1)..3}
      <4>1. PICK i \in (done + 1)..3 : f = Rebuilt[i]
        BY <3>2
      <4>2. i # done + 1
        BY <3>2, <4>1
      <4>3. i \in (done + 2)..3
        BY <2>4, <4>2
      <4>4. QED BY <4>1, <4>3
    <3>3. CASE f # name /\ golden[f] = [run |-> root.run, gates |-> Told(f, rebuild.gates)]
      <4> HIDE DEF name, done, entry
      <4>1. QED BY <2>6, <3>3
    <3>4. QED BY <2>3, <3>1, <3>2, <3>3
  <2>9. RebuildsRoot'
    <3>1. CASE done + 1 = 3
      <4>1. (done + 2)..3 = {}
        BY <3>1, <2>4
      <4>2. {Rebuilt[i] : i \in (done + 2)..3} = {}
        BY <4>1
      <4>3. \A f \in Files : golden'[f] = [run |-> root.run, gates |-> Told(f, rebuild.gates)]
        BY <2>8, <4>2
      <4>4. rebuild'.phase = "list"
        BY <2>7, <3>1
      <4> HIDE DEF done, name, entry, p
      <4>5. GoldenOf(root.run, rebuild.gates)'
        BY <2>1, <2>7, <4>3 DEF GoldenOf
      <4>6. QED BY <2>1, <2>3, <2>7, <4>4, <4>5 DEF RebuildsRoot
    <3>2. CASE done + 1 # 3
      <4>1. rebuild'.phase = "write"
        BY <2>7, <3>2
      <4>2. rebuild'.done + 1 = done + 2
        BY <2>4, <2>7
      <4>3. \A f \in Files : \/ golden'[f] = [run |-> root'.run, gates |-> Told(f, rebuild'.gates)]
                             \/ f \in {Rebuilt[i] : i \in (rebuild'.done + 1)..3}
        BY <2>1, <2>7, <2>8, <4>2
      <4> HIDE DEF done, name, entry, p
      <4>4. QED BY <2>1, <2>3, <2>7, <4>1, <4>3 DEF RebuildsRoot
    <3>3. QED BY <3>1, <3>2
  <2>10. QED BY <2>1, <2>3, <2>9, RebuildGoesOn
<1>17. CASE ~mixed' /\ RebuildLists
  <2>1. /\ rebuild.phase = "list" /\ UNCHANGED <<lock, phase, root, golden, mixed>>
        /\ listing' = [run |-> rebuild.root.run, files |-> golden]
        /\ rebuild' = [rebuild EXCEPT !.phase = "sync"]
    BY <1>17 DEF RebuildLists, Rebuilds
  <2>2. /\ lock = NoRun /\ rebuild.root = root /\ root.status = "completed" /\ root.gates \in Gates
        /\ rebuild.gates \in Gates /\ GoldenOf(root.run, rebuild.gates)
    BY <1>14, <1>17, <2>1 DEF RebuildsRoot
  <2>3. rebuild'.phase = "sync" /\ rebuild'.root = root /\ rebuild'.gates = rebuild.gates
    <3>1. rebuild = [phase |-> rebuild.phase, root |-> rebuild.root, source |-> rebuild.source,
                     gates |-> rebuild.gates, done |-> rebuild.done, count |-> rebuild.count]
      BY DEF Shaped
    <3>2. QED BY <2>1, <2>2, <3>1
  <2>4. WholeOf(root.run, rebuild.gates)'
    BY <2>1, <2>2, <2>3 DEF WholeOf, GoldenOf
  <2>5. RebuildsRoot'
    BY <2>1, <2>2, <2>3, <2>4 DEF RebuildsRoot
  <2>6. QED BY <2>1, <2>2, <2>5, RebuildGoesOn
<1>18. CASE ~mixed' /\ RebuildEnds
  <2>1. /\ rebuild.phase = "sync" /\ UNCHANGED <<lock, phase, golden, listing, mixed>>
        /\ root' = [rebuild.root EXCEPT !.gates = rebuild.gates]
    BY <1>18 DEF RebuildEnds, Rebuilds
  <2>2. rebuild'.phase = "off"
    BY <1>18 DEF RebuildEnds, Rebuilds, Idle
  <2>3. /\ lock = NoRun /\ rebuild.root = root /\ rebuild.gates \in Gates
        /\ WholeOf(root.run, rebuild.gates)
    BY <1>14, <1>18, <2>1 DEF RebuildsRoot
  <2>4. root'.run = root.run /\ root'.gates = rebuild.gates
    <3>1. root = [run |-> root.run, status |-> root.status, gates |-> root.gates]
      BY DEF Shaped
    <3>2. QED BY <2>1, <2>3, <3>1
  <2>5. WholeOf(root.run, root.gates)'
    BY <2>1, <2>3, <2>4 DEF WholeOf, GoldenOf
  <2>6. RebuildsRoot'
    BY <2>2, <2>3, <2>4, <2>5 DEF RebuildsRoot
  <2>7. QED BY <2>1, <2>3, <2>6, RebuildGoesOn
<1>19. CASE RebuildDies
  BY <1>19 DEF RebuildDies, Undisturbed
<1>20. QED
  BY <1>1, <1>2, <1>3, <1>4, <1>5, <1>7, <1>8, <1>9, <1>10, <1>11, <1>12, <1>13, <1>15, <1>16, <1>17,
     <1>18, <1>19 DEF Next

-----------------------------------------------------------------------------
(* The theorems.                                                            *)

Kept == TypeOK /\ Measured /\ Shaped /\ Undisturbed

LEMMA KeptFirst ==
  ASSUME Init
  PROVE  Kept
<1> USE DEF Init
<1>1. DOMAIN Nothing = {} /\ Nothing \in [{} -> Verdicts]
  BY DEF Nothing
<1>2. TypeOK
  <2>1. \A r \in Runs : phase[r] = "new" /\ verdicts[r] = Nothing
    OBVIOUS
  <2>2. /\ phase \in [Runs -> Working \cup {"new", "gone", "dead"}]
        /\ probe \in [Runs -> 1..5] /\ left \in [Runs -> Nat] /\ sent \in [Runs -> 0..MaxRequests]
        /\ cancel \in [Runs -> BOOLEAN] /\ failed \in [Runs -> BOOLEAN]
    BY RunAssumption
  <2>3. \A r \in Runs : DOMAIN verdicts[r] \subseteq Names
                        /\ \A n \in DOMAIN verdicts[r] : verdicts[r][n] \in Verdicts
    BY <1>1, <2>1
  <2>4. \A r \in Runs : phase[r] \in Working => lock = r
    BY <2>1 DEF Working
  <2>5. root.status = "none"
    BY DEF NoRoot
  <2>6. QED BY <2>2, <2>3, <2>4, <2>5 DEF TypeOK
<1>3. Measured
  <2> DEFINE V == UNION {[D -> Verdicts] : D \in SUBSET Names}
  <2>1. Nothing \in V
    BY <1>1
  <2> HIDE DEF V
  <2>2. verdicts \in [Runs -> V]
    BY <2>1
  <2>3. \A r \in Runs : MeasuredOf(r)
    BY <1>1 DEF MeasuredOf
  <2>4. QED BY <2>2, <2>3 DEF Measured, V
<1>4. Shaped
  <2>1. DOMAIN golden = Files /\ golden = [f \in Files |-> golden[f]]
    BY DEF Files
  <2>2. root = [run |-> root.run, status |-> root.status, gates |-> root.gates]
    BY DEF NoRoot
  <2>3. rebuild = [phase |-> rebuild.phase, root |-> rebuild.root, source |-> rebuild.source,
                   gates |-> rebuild.gates, done |-> rebuild.done, count |-> rebuild.count]
        /\ rebuild.phase = "off"
    BY DEF Idle
  <2>4. written = 0
    OBVIOUS
  <2>5. QED BY <2>1, <2>2, <2>3, <2>4 DEF Shaped
<1>5. Undisturbed
  <2>1. rebuild.phase = "off" /\ root.status = "none"
    BY DEF Idle, NoRoot
  <2>2. QED BY <2>1 DEF Undisturbed, RunWrites, RebuildsRoot
<1>6. QED BY <1>2, <1>3, <1>4, <1>5 DEF Kept

LEMMA KeptAlways == Spec => []Kept
<1>1. Init => Kept
  BY KeptFirst
<1>2. Kept /\ [Next]_vars => Kept'
  BY MeasuredStep, TypedStep, ShapedStep, UndisturbedStep DEF Kept
<1>3. QED BY <1>1, <1>2, PTL DEF Spec

(* For all runs and request limits: no run makes more requests than it may, *)
(* and the run named in the lock file is the only one at work, although     *)
(* processes die and lock files are removed by hand.                        *)
THEOREM OneRunWorks == Spec => []TypeOK
<1>1. Kept => TypeOK
  BY DEF Kept
<1>2. QED BY <1>1, KeptAlways, PTL

(* For all servers and all sizes of the measurements: the verdicts that the *)
(* channel was designed on say what the server does.                        *)
THEOREM VerdictsAreTrue == Spec => []VerdictsSound
<1>1. Kept => VerdictsSound
  BY MeasuredSound DEF Kept, TypeOK
<1>2. QED BY <1>1, KeptAlways, PTL

(* For all runs and any number of rebuilds: where the repository's manifest *)
(* calls a run completed, the golden files are all of that run, with the    *)
(* verdicts it summarises and as their list has them, as long as no rebuild *)
(* was killed or ran beside a run.                                          *)
THEOREM GoldenStaysWhole == Spec => []GoldenIsOneRun
<1>1. Kept => GoldenIsOneRun
  BY DEF Kept, Shaped, Undisturbed, RebuildsRoot, WholeOf, GoldenOf, GoldenIsOneRun
<1>2. QED BY <1>1, KeptAlways, PTL
=============================================================================
