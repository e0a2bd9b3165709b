----------------------------- MODULE ProbeGates -----------------------------
(***************************************************************************)
(* The five measurements of stage 0.6 (app/probe/stage0_6/runner.py): what *)
(* each of them asks of DART and OpenDART, and what it concludes from the  *)
(* answers.  A server is what is to be found out:                          *)
(*                                                                         *)
(*   up        result pages are served, and not, say, a maintenance page   *)
(*   hits      what each query term finds                                  *)
(*   sticky    a search answers for the term of the last mode request      *)
(*             instead of its own                                          *)
(*   total     hits of the query of the page-size measurement              *)
(*   honours   maxResults decides how many rows a page has                 *)
(*   withCb    it does when maxResultsCb is sent too                       *)
(*   odd       page sizes that are answered with a broken page             *)
(*   filings   filings of each day, for the query of the date windows      *)
(*   first, last   the first and the last day of a period belong to it     *)
(*   cases     what each pair of withdrawn filing and withdrawal shows     *)
(*   bonds     bond filings with the flag in each list window              *)
(*   combined  some of them carry other flags too                          *)
(***************************************************************************)
EXTENDS Integers, Sequences, FiniteSets, FiniteSetsExt

CONSTANTS
  Terms,          (* QUERY_SWITCH_TERMS                                     *)
  PageSizes,      (* PAGE_SIZE_VALUES, as multiples of the ordinary size    *)
  OrdinarySize,   (* ten rows                                               *)
  Days,           (* the full period is 1..Days                             *)
  BoundaryDay,    (* the middle window                                      *)
  Withdrawals,    (* WITHDRAWAL_SPECS                                       *)
  ListCalls,      (* different keys of list_cache among them                *)
  NewPairs,       (* those in a new_pair group, whose source is fetched too *)
  ConfirmedLinks, (* how many links confirm the meaning of the flag         *)
  BondTarget      (* as many bond samples end the scan                      *)

ASSUME GateAssumption ==
  /\ Terms \in Seq(STRING) /\ Len(Terms) > 1
  /\ PageSizes \subseteq Nat \ {0} /\ IsFiniteSet(PageSizes) /\ PageSizes # {}
  /\ OrdinarySize \in Nat \ {0}
  /\ Days \in Nat /\ BoundaryDay \in 2..Days - 1
  /\ {ListCalls, ConfirmedLinks, BondTarget} \subseteq Nat \ {0}
  /\ IsFiniteSet(Withdrawals) /\ NewPairs \subseteq Withdrawals

Verdicts == {"passed", "partially_passed", "failed", "unconfirmed"}
Smallest(a, b) == IF a < b THEN a ELSE b

-----------------------------------------------------------------------------
(* probe_query_switch: does a search need a mode request for a new term?    *)

Asked == Append(Terms, Terms[1])

Answer(s, term, mode) ==
  IF s.up THEN s.hits[IF s.sticky THEN mode ELSE term] ELSE "broken"

Direct(s, i) == Answer(s, Asked[i], Asked[i - 1])
Control(s, i) == Answer(s, Asked[i], Asked[i])

QuerySwitch(s) ==
  [requests |-> 2 + 3 * (Len(Asked) - 1),
   verdict  |->
     IF \A i \in 2..Len(Asked) :
          /\ Direct(s, i) = Control(s, i)
          /\ ~(Direct(s, i) = Control(s, i - 1) /\ Direct(s, i) # Control(s, i))
     THEN "passed" ELSE "failed"]

-----------------------------------------------------------------------------
(* probe_page_size: how many rows does a page have?                         *)

RowsOnPage(s, size, cb) ==
  IF ~s.up \/ size \in s.odd THEN 0
  ELSE Smallest(s.total, IF s.honours \/ (cb /\ s.withCb) THEN size ELSE OrdinarySize)

PageSize(s) ==
  LET plain == {RowsOnPage(s, size, FALSE) : size \in PageSizes}
      again == Max(plain) <= OrdinarySize
      largest == RowsOnPage(s, Max(PageSizes), TRUE)
      effective == IF again THEN Max(plain \cup {largest}) ELSE Max(plain)
      broken == ~s.up \/ s.odd # {}
  IN [requests |-> 1 + 2 * Cardinality(PageSizes) + (IF again THEN 2 ELSE 0),
      verdict  |-> IF effective > OrdinarySize
                   THEN IF broken THEN "partially_passed" ELSE "passed"
                   ELSE IF effective > 0 THEN "failed" ELSE "unconfirmed"]

-----------------------------------------------------------------------------
(* probe_date_window: can a period be searched window by window?            *)

Filings(s, day) == {day} \X (1..s.filings[day])

InPeriod(s, day, from, to) ==
  /\ IF s.first THEN day >= from ELSE day > from
  /\ IF s.last THEN day <= to ELSE day < to

(* _complete_date_search.  The receipts of a search that is not completed   *)
(* do not matter, because then the full search is not completed either.     *)
DateSearch(s, from, to) ==
  LET found == UNION {Filings(s, day) : day \in {d \in 1..Days : InPeriod(s, d, from, to)}}
      receipts == IF s.up THEN found ELSE {}
      size == IF receipts = {} THEN 1 ELSE Smallest(Cardinality(receipts), OrdinarySize)
      expected == IF receipts = {} THEN 1
                  ELSE (Cardinality(receipts) + size - 1) \div size
      fetched == Smallest(expected, 5)
  IN [receipts |-> receipts, complete |-> expected <= fetched, requests |-> 1 + fetched]

(* Mutant of BoundaryFound: the boundary day may be empty.                  *)
BoundaryFoundOrEmpty(boundary) == \A r \in boundary.receipts : r[1] = BoundaryDay

(* boundary_dates_ok.                                                       *)
BoundaryFound(boundary) ==
  boundary.receipts # {} /\ \A r \in boundary.receipts : r[1] = BoundaryDay

DateWindow(s) ==
  LET full == DateSearch(s, 1, Days)
      windows == << DateSearch(s, 1, BoundaryDay - 1), DateSearch(s, BoundaryDay, BoundaryDay),
                    DateSearch(s, BoundaryDay + 1, Days) >>
      union == UNION {windows[i].receipts : i \in 1..3}
      overlap == \E i, j \in 1..3 : i # j /\ windows[i].receipts \cap windows[j].receipts # {}
      additive == Cardinality(full.receipts)
                    = Cardinality(windows[1].receipts) + Cardinality(windows[2].receipts)
                        + Cardinality(windows[3].receipts)
  IN [requests |-> full.requests + windows[1].requests + windows[2].requests
                     + windows[3].requests,
      verdict  |->
        IF /\ full.complete /\ \A i \in 1..3 : windows[i].complete
           /\ union = full.receipts /\ ~overlap /\ additive /\ BoundaryFound(windows[2])
        THEN "passed"
        ELSE IF full.complete /\ union \subseteq full.receipts /\ ~overlap
        THEN "partially_passed" ELSE "failed"]

-----------------------------------------------------------------------------
(* probe_rm_withdrawal and probe_rm_bond, and what rebuild_current_golden   *)
(* makes of their recorded answers.                                         *)

(* What a case shows: the two rows agree in company and filer and carry the *)
(* flag and the word ("pair"); the withdrawal's document quotes the number  *)
(* of the source ("receipt"), a plan's date under one of the known labels   *)
(* ("label"), or its subject ("subject"); the source is a trading plan      *)
(* ("plan") whose document has that date ("dated").                         *)

(* _explicit_withdrawal_link: a trading plan needs its own document.        *)
DocumentLink(case, read) ==
  \/ case.receipt
  \/ IF case.plan THEN read /\ case.dated /\ case.label ELSE case.subject

(* Sources linked, each counted once however often it was withdrawn.        *)
Linked(s) ==
  {s.cases[w].source : w \in {v \in Withdrawals :
                                s.cases[v].pair /\ DocumentLink(s.cases[v], v \in NewPairs)}}

WithdrawalVerdict(links) ==
  IF links >= ConfirmedLinks THEN "passed"
  ELSE IF links > 0 THEN "partially_passed" ELSE "unconfirmed"

RmWithdrawal(s) ==
  [requests |-> ListCalls + Cardinality(Withdrawals) + Cardinality(NewPairs),
   verdict  |-> WithdrawalVerdict(Cardinality(Linked(s)))]

(* The scan goes on until enough samples are there.                         *)
SamplesUntil(s, n) == FoldSet(LAMBDA i, sum : sum + s.bonds[i], 0, 1..n)

BondWindowsRead(s) ==
  LET enough == {n \in 1..Len(s.bonds) : SamplesUntil(s, n) >= BondTarget}
  IN IF enough = {} THEN Len(s.bonds) ELSE Min(enough)

BondVerdict(samples, combined) ==
  IF samples >= 3 /\ combined THEN "passed"
  ELSE IF samples > 0 THEN "partially_passed" ELSE "unconfirmed"

RmBond(s) ==
  LET read == BondWindowsRead(s)
      samples == SamplesUntil(s, read)
  IN [requests |-> read, verdict |-> BondVerdict(samples, s.combined /\ samples > 0)]

-----------------------------------------------------------------------------
Measurement(s, probe) ==
  CASE probe = "query_switch" -> QuerySwitch(s)
    [] probe = "page_size" -> PageSize(s)
    [] probe = "date_window" -> DateWindow(s)
    [] probe = "rm_withdrawal" -> RmWithdrawal(s)
    [] probe = "rm_bond" -> RmBond(s)
=============================================================================
