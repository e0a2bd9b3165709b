----------------------------- MODULE DartSearch -----------------------------
(***************************************************************************)
(* The loops of the DART body search (app/channels/dart_fulltext.py):      *)
(* search_variants pages through the result of every query, newest filing  *)
(* first, until the results, the number of filings wanted or the request   *)
(* budget end; search_date_windows cuts a period into windows, runs it     *)
(* window by window, and says of each whether it is complete.              *)
(*                                                                         *)
(* A row of a result is a receipt, its day and the part of the filing that *)
(* was hit, "mixed" if the row has the tag of neither.  A result that ends *)
(* today may grow while it is paged: a new filing comes first and moves    *)
(* every other row.  DART may also serve pages of another size than the    *)
(* ten rows that were measured, which the client can only notice from what *)
(* the pages show, and pages that do not show the number of hits.  What a  *)
(* request does to the circuit breaker is the subject of DartChannel; here *)
(* it is answered, answered after a status check and a replay, or ends the *)
(* search.                                                                 *)
(***************************************************************************)
EXTENDS Integers, Sequences, FiniteSets, SequencesExt

CONSTANTS
  Period,    (* its first day is 1, its last one today                      *)
  Lengths,   (* window_days                                                 *)
  Queries,   (* query variants                                              *)
  Listed,    (* what each finds in the period when the search begins        *)
  Late,      (* rows that may come into a result while it is paged          *)
  Limits,    (* max_unique: 0 for the date windows, which have none         *)
  PageSize,  (* DART_EFFECTIVE_PAGE_SIZE                                    *)
  Sizes,     (* rows that a page of DART may really have                    *)
  Budget     (* request_budget                                              *)

RowsOf(results) == UNION {ToSet(results[j]) : j \in 1..Queries}
Rows == RowsOf(Listed) \cup Late
ReceiptsOf(rows) == {row.receipt : row \in ToSet(rows)}

ASSUME SizeAssumption ==
  /\ {Period, Queries, PageSize, Budget} \cup Lengths \cup Sizes \subseteq Nat \ {0}
  /\ Limits \subseteq Nat

ASSUME ListedAssumption ==
  /\ Listed \in [1..Queries -> Seq(Rows)]
  /\ \A row \in Rows : row.part \in {"body", "attachment", "mixed"} /\ row.day \in 1..Period
  /\ \A j \in 1..Queries : \A i, k \in DOMAIN Listed[j] :
       i < k => Listed[j][i].day >= Listed[j][k].day
  /\ \A row \in Late :
       row.day = Period /\ row.receipt \notin {other.receipt : other \in RowsOf(Listed)}

VARIABLES
  results,   (* what DART finds in the period                               *)
  limit,     (* max_unique of this search                                   *)
  days,      (* window_days of this search                                  *)
  size,      (* rows of a page of DART                                      *)
  window, query, page,
  active,    (* _active_mode: the session is set up for the search          *)
  requests,  (* _request_count(diagnostics)                                 *)
  bias,      (* latest_first_bias                                           *)
  changed,   (* pagination_contract_changed of the diagnostics              *)
  uncounted, (* some page with rows did not show the number of hits         *)
  rows,      (* rows of this call of search_variants                        *)
  found,     (* receipts of each window, as returned                        *)
  coverage,  (* "complete" of each window searched                          *)
  pc

asked == <<limit, days, size>>
vars == <<results, asked, window, query, page, active, requests, bias, changed, uncounted, rows,
          found, coverage, pc>>

-----------------------------------------------------------------------------
(* merge_duplicate_rows: the first row of a receipt stands for all, but a   *)
(* row hit in the body is preferred.  A later row with neither tag changes  *)
(* nothing.                                                                 *)

(* Mutant of MergedPart: the later row wins.                                *)
MergedPartLast(current, part) ==
  IF {current, part} = {"body", "attachment"} THEN "mixed" ELSE part

MergedPart(current, part) ==
  IF {current, part} = {"body", "attachment"} THEN "mixed"
  ELSE IF part = "body" THEN "body" ELSE current

Added(merged, row) ==
  [r \in DOMAIN merged \cup {row.receipt} |->
    IF r # row.receipt THEN merged[r]
    ELSE IF r \in DOMAIN merged THEN MergedPart(merged[r], row.part)
    ELSE row.part]

Merged(sequence) ==
  LET upTo[n \in 0..Len(sequence)] ==
        IF n = 0 THEN [r \in {} |-> "none"] ELSE Added(upTo[n - 1], sequence[n])
  IN upTo[Len(sequence)]

-----------------------------------------------------------------------------
WindowEnd(cursor, length) ==
  IF cursor + length - 1 < Period THEN cursor + length - 1 ELSE Period

(* Mutant of DateWindows: the next window begins a day late.                *)
DateWindowsApart(length) ==
  LET From[cursor \in 1..Period + 2] ==
        IF cursor > Period THEN << >>
        ELSE <<[from |-> cursor, to |-> WindowEnd(cursor, length)]>>
               \o From[WindowEnd(cursor, length) + 2]
  IN From[1]

(* dart_date_windows                                                        *)
DateWindows(length) ==
  LET From[cursor \in 1..Period + 1] ==
        IF cursor > Period THEN << >>
        ELSE <<[from |-> cursor, to |-> WindowEnd(cursor, length)]>>
               \o From[WindowEnd(cursor, length) + 1]
  IN From[1]

(* A search with max_unique is one for the whole period.                    *)
Windows == IF limit > 0 THEN <<[from |-> 1, to |-> Period]>> ELSE DateWindows(days)
Within(span, row) == span.from <= row.day /\ row.day <= span.to

(* What DART finds in the window: those rows, in their order.               *)
InWindow(span, sequence) ==
  LET upTo[n \in 0..Len(sequence)] ==
        IF n = 0 THEN << >>
        ELSE IF Within(span, sequence[n]) THEN Append(upTo[n - 1], sequence[n])
        ELSE upTo[n - 1]
  IN upTo[Len(sequence)]

Result == InWindow(Windows[window], results[query])
PageCount == (Len(Result) + PageSize - 1) \div PageSize
PageRows ==
  LET last == IF size * page < Len(Result) THEN size * page ELSE Len(Result)
  IN SubSeq(Result, size * (page - 1) + 1, last)

(* What the page says of the number of pages: None, here 0, if it does not  *)
(* show the number of hits.                                                 *)
EstimatedPages(shown) == IF shown THEN PageCount ELSE 0

(* Mutant of ContractChanged: only the links are looked at.                 *)
ContractUnread(linked, shown) ==
  shown /\ PageRows # << >> /\ linked /\ PageCount * size < Len(Result)

(* _pagination_contract_changed: the page, or the links to others if it     *)
(* shows them, are not what its number of hits leads to expect.             *)
ContractChanged(linked, shown) ==
  /\ shown /\ PageRows # << >>
  /\ \/ linked /\ PageCount # (Len(Result) + size - 1) \div size
     \/ /\ page <= PageCount
        /\ Len(PageRows) # (IF PageSize * page < Len(Result) THEN PageSize
                            ELSE Len(Result) - PageSize * (page - 1))

Enough(all) == limit > 0 /\ Cardinality(ReceiptsOf(all)) >= limit

(* Mutant of LastPage: one page too many.                                   *)
LastPageLate(pages) == page > pages

LastPage(pages) == page >= pages \/ PageRows = << >>
Spent(count) == count >= Budget

(* The first page tells whether the rest fits into the budget.              *)
TooManyPages(count, pages) ==
  page = 1 /\ pages - 1 > (IF Spent(count) THEN 0 ELSE Budget - count)

Bias(all, count, pages) ==
  IF Enough(all) THEN page < pages
  ELSE bias \/ TooManyPages(count, pages) \/ (~LastPage(pages) /\ Spent(count))

(* Mutant of WindowComplete: the budget is not looked at.                   *)
WindowCompleteUnlessBiased(count, biased) == ~biased

(* window_complete.                                                         *)
WindowComplete(count, biased) == ~Spent(count) /\ ~biased

(* search_variants returns: to the engine, or to the loop over the windows. *)
Returns(all, count, biased) ==
  LET complete == WindowComplete(count, biased) IN
  /\ found' = Append(found, ReceiptsOf(all))
  /\ coverage' = Append(coverage, complete)
  /\ IF limit = 0 /\ complete /\ window < Len(Windows)
     THEN /\ window' = window + 1 /\ query' = 1 /\ page' = 1 /\ rows' = << >>
          /\ UNCHANGED pc
     ELSE pc' = "done" /\ rows' = all /\ UNCHANGED <<window, query, page>>

(* What follows a page: the next one, the next query or the end.            *)
Follows(all, count, pages) ==
  LET biased == Bias(all, count, pages)
      moreRows == ~Enough(all) /\ ~TooManyPages(count, pages) /\ ~LastPage(pages) /\ ~Spent(count)
      moreQueries == ~Enough(all) /\ ~Spent(count) /\ query < Queries
  IN /\ bias' = biased
     /\ \/ /\ moreRows
           /\ page' = page + 1 /\ rows' = all
           /\ UNCHANGED <<window, query, found, coverage, pc>>
        \/ /\ ~moreRows /\ moreQueries
           /\ query' = query + 1 /\ page' = 1 /\ rows' = all
           /\ UNCHANGED <<window, found, coverage, pc>>
        \/ ~moreRows /\ ~moreQueries /\ Returns(all, count, biased)

-----------------------------------------------------------------------------
(* search_page.                                                             *)

SetUp ==
  /\ pc = "page" /\ ~active /\ ~Spent(requests)
  /\ active' = TRUE /\ requests' = requests + 1
  /\ UNCHANGED <<results, asked, window, query, page, bias, changed, uncounted, rows, found,
                 coverage, pc>>

(* An answer, after "extra" requests for a status check and a replay.       *)
Answered(extra) ==
  /\ pc = "page" /\ active /\ ~Spent(requests)
  /\ requests' = requests + 1 + extra
  /\ \E linked, shown \in BOOLEAN :
       /\ changed' = (changed \/ ContractChanged(linked, shown))
       /\ uncounted' = (uncounted \/ (~shown /\ PageRows # << >>))
       /\ Follows(rows \o PageRows, requests', EstimatedPages(shown))
  /\ UNCHANGED <<results, asked, active>>

Page == Answered(0)
OddPage == Answered(2)

(* Timeouts, failures and the open circuit, and the budget that the session *)
(* set-up has used up: what was found so far is lost.                       *)
PageFails ==
  /\ pc = "page"
  /\ pc' = "failed"
  /\ UNCHANGED <<results, asked, window, query, page, active, requests, bias, changed, uncounted, rows,
                 found, coverage>>

(* The environment: a filing is published today.                            *)
Grows ==
  /\ pc = "page"
  /\ \E row \in Late \ RowsOf(results), j \in 1..Queries :
       results' = [results EXCEPT ![j] = <<row>> \o @]
  /\ UNCHANGED <<asked, window, query, page, active, requests, bias, changed, uncounted, rows, found,
                 coverage, pc>>

Rests == pc \in {"done", "failed"} /\ UNCHANGED vars

(* A search starts with the request of the engine's status check counted.   *)
Init ==
  /\ results = Listed /\ limit \in Limits /\ days \in Lengths /\ size \in Sizes
  /\ changed = FALSE /\ uncounted = FALSE
  /\ window = 1 /\ query = 1 /\ page = 1
  /\ active \in BOOLEAN /\ requests \in {0, 1} /\ bias = FALSE
  /\ rows = << >> /\ found = << >> /\ coverage = << >> /\ pc = "page"

Next == SetUp \/ Page \/ OddPage \/ PageFails \/ Grows \/ Rests

Spec == Init /\ [][Next]_vars

-----------------------------------------------------------------------------
(* Every variable has its type; no page is asked for beyond the last one,   *)
(* and the budget is overrun only by the status check and the replay of an  *)
(* odd page (dart_fulltext.py:559-572).                                     *)
TypeOK ==
  /\ RowsOf(results) \subseteq Rows
  /\ limit \in Limits /\ days \in Lengths /\ size \in Sizes
  /\ window \in 1..Len(Windows) /\ query \in 1..Queries
  /\ page = 1 \/ page \in 1..PageCount
  /\ active \in BOOLEAN /\ {bias, changed, uncounted} \subseteq BOOLEAN
  /\ requests \in 0..Budget + 2
  /\ ToSet(rows) \subseteq Rows
  /\ Len(found) = Len(coverage) /\ ToSet(coverage) \subseteq BOOLEAN
  /\ pc \in {"page", "done", "failed"}

AllOf(some) == {row.receipt : row \in some}
Whole == Len(coverage) = Len(Windows) /\ \A w \in 1..Len(coverage) : coverage[w]

(* A window that search_date_windows calls complete holds every filing that *)
(* any query found in it when the search began, whatever was published      *)
(* meanwhile, however the budget ended and whichever query was cut off      *)
(* before; and when it calls all of them complete, no filing of the period  *)
(* lies between two windows (dart_fulltext.py:331-340, 706, 718).  It holds *)
(* while the pages keep to the measured contract: if they have another      *)
(* size, the diagnostics say so by then (235-255); if a page with rows does *)
(* not show the number of hits, its query ends there (219, 660), and        *)
(* nothing says so.  With max_unique it holds as long as that number was    *)
(* not reached.                                                             *)
CompleteWindowsAreWhole ==
  ~changed /\ ~uncounted =>
  LET Full(w) == coverage[w] /\ (limit > 0 => Cardinality(found[w]) < limit) IN
  /\ \A w \in 1..Len(coverage) :
       Full(w) => AllOf({row \in RowsOf(Listed) : Within(Windows[w], row)}) \subseteq found[w]
  /\ Whole /\ (\A w \in 1..Len(coverage) : Full(w))
       => AllOf(RowsOf(Listed)) \subseteq UNION {found[w] : w \in 1..Len(found)}

(* A filing counts as hit in its body exactly when one of its rows was, or  *)
(* when the first of them has neither tag, and otherwise whatever the order *)
(* of the rows over pages and queries: mechanical_score and the coverage    *)
(* lean on it (dart_fulltext.py:189, 258-274, 283).                         *)
FirstUntagged(receipt) ==
  \E i \in DOMAIN rows : /\ rows[i].receipt = receipt /\ rows[i].part = "mixed"
                        /\ \A k \in 1..(i - 1) : rows[k].receipt # receipt

BodyHitsKept ==
  LET merged == Merged(rows) IN
  \A r \in DOMAIN merged :
    merged[r] \in {"body", "mixed"}
      <=> \/ \E row \in ToSet(rows) : row.receipt = r /\ row.part = "body"
          \/ FirstUntagged(r)
=============================================================================
