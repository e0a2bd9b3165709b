------------------------- MODULE InteractiveSearch -------------------------
(***************************************************************************)
(* One interactive search of app/orchestrator/engine.py and its            *)
(* continuations: finding candidates in the DART body search and in the    *)
(* OpenDART listing, downloading documents ahead in a pool and judging     *)
(* them in order, the budgets and the deadline that end a call, and the    *)
(* continuation token (app/storage/continuation.py) that carries the rest  *)
(* to the next call.  The chain of calls that are connected by tokens is   *)
(* what the user takes for one search.                                     *)
(*                                                                         *)
(* The listing is one sequence of pages, newest first; the cursor (window, *)
(* page) of a token is the number of the page in it.  Five strategies are  *)
(* told apart: "list", a company's filings (S1), whose rows are results as *)
(* they are; "fulltext" (S2, S3); "class", one of these for a report class *)
(* that is only listed; "events" (S5) and "relation" (S6, S7), which do    *)
(* not stop at enough results; and "relation" gives the chains of          *)
(* amendments that its filings form.  Without an OpenDART key the          *)
(* candidates of the body search are all there is.  The bias of results    *)
(* that DART cuts off and the page contract, which lower the grade, are    *)
(* left out.                                                               *)
(***************************************************************************)
EXTENDS Integers, Sequences, FiniteSets

CONSTANTS
  Receipts,            (* receipt numbers                                   *)
  Relevant,            (* those whose document has a matching passage       *)
  Found,               (* candidates of the body search, best first         *)
  Listing,             (* rows of the OpenDART listing                      *)
  PageSize,            (* rows of a page of it                              *)
  ListBudget,          (* list_request_budget                               *)
  DocumentBudget,      (* effective_document_budget                         *)
  ResultBudget,        (* result_budget                                     *)
  DocumentConcurrency, (* document_concurrency                              *)
  AlwaysLists,         (* the query names a report type to list             *)
  Searches,            (* searches there may be: strategy, key or not       *)
  Chains,              (* filings that texts may link                       *)
  NoToken

ASSUME SearchAssumption ==
  /\ Relevant \subseteq Receipts
  /\ Found \in Seq(Receipts) /\ Listing \in Seq(Receipts)
  /\ AlwaysLists \in BOOLEAN /\ Chains \subseteq SUBSET Receipts
  /\ Searches # {}
  /\ Searches \subseteq [strategy : {"list", "class", "fulltext", "events", "relation"},
                         key : BOOLEAN]

ASSUME BudgetAssumption ==
  /\ PageSize \in Nat \ {0} /\ ListBudget \in Nat \ {0}
  /\ DocumentBudget \in Nat \ {0} /\ ResultBudget \in Nat \ {0}
  /\ DocumentConcurrency \in Nat \ {0}

VARIABLES
  plan,        (* the search that is being made                             *)
  pc,          (* where the call is                                         *)
  token,       (* the state behind the last token of the chain              *)
  from,        (* continuation_state of the call                            *)
  candidates,
  complete,    (* list_result.complete                                      *)
  next,        (* the cursor in list_result                                 *)
  index,       (* the candidate whose turn it is                            *)
  verified, preliminary,
  requests,    (* actual_document_requests                                  *)
  prefetched,  (* prefetched_receipts                                       *)
  errors,      (* prefetch_errors                                           *)
  hard,        (* hard_timeout                                              *)
  fatal,       (* there is a terminal_error                                 *)
  fallback,    (* the listing stands in for the body search                 *)
  cache,       (* documents in the text cache                               *)
  status,      (* status of the last answer                                 *)
  grade,       (* completeness_grade of the last answer                     *)
  surfaced,    (* history: candidates of all answers of the chain           *)
  judged,      (* history: those whose document was read                    *)
  gaveUp,      (* history: those whose document could not be had            *)
  behind,      (* history: those left when the listing went on              *)
  delivered    (* history: results of earlier answers of the chain          *)

listed == <<complete, next>>
loop == <<verified, preliminary, requests, prefetched, errors, hard, fatal>>
answer == <<status, grade>>
history == <<surfaced, judged, gaveUp, behind, delivered>>
vars == <<plan, pc, token, from, candidates, complete, next, index, verified, preliminary,
          requests, prefetched, errors, hard, fatal, fallback, cache, status, grade,
          surfaced, judged, gaveUp, behind, delivered>>

RangeOf(s) == {s[i] : i \in DOMAIN s}

(* _merge_candidates: a row that is known keeps its place.                  *)
Merged(left, right) ==
  LET upTo[n \in 0..Len(right)] ==
        IF n = 0 THEN left
        ELSE IF right[n] \in RangeOf(upTo[n - 1]) THEN upTo[n - 1]
        ELSE Append(upTo[n - 1], right[n])
  IN upTo[Len(right)]

(* The grade of an answer that is given none.                               *)
DefaultGrade(answered) == IF answered = "failed" THEN "unconfirmed" ELSE "complete"

Smaller(a, b) == IF a < b THEN a ELSE b

(* Why a download brought nothing: cut off by the deadline, refused for     *)
(* good reasons of the account, or anything else.                           *)
Failures == {"late", "fatal", "failed"}

Continuations == [page : Nat \ {0}, processed : SUBSET Receipts]
Beginning == [page |-> 1, processed |-> {}]

ASSUME NoTokenAssumption == NoToken \notin Continuations

-----------------------------------------------------------------------------
(* Calls.                                                                   *)

Begins(state) ==
  /\ pc = "idle" /\ pc' = "find"
  /\ from' = state
  /\ candidates' = << >> /\ complete' = TRUE /\ next' = 1 /\ index' = 1
  /\ verified' = {} /\ preliminary' = {} /\ requests' = 0
  /\ prefetched' = {} /\ errors' = [r \in Receipts |-> "none"]
  /\ hard' = FALSE /\ fatal' = FALSE /\ fallback' = FALSE
  /\ cache' \in SUBSET cache   (* texts may have expired since *)

(* A search without a token starts a new chain.                             *)
Search ==
  /\ token = NoToken
  /\ Begins(Beginning)
  /\ plan' \in Searches
  /\ status' = "none" /\ grade' = "none"
  /\ surfaced' = {} /\ judged' = {} /\ gaveUp' = {} /\ behind' = {} /\ delivered' = {}
  /\ UNCHANGED token

(* The token is discarded once the request is known to belong to it.        *)
Continue ==
  /\ token # NoToken
  /\ Begins(token)
  /\ token' = NoToken
  /\ UNCHANGED <<plan, answer, history>>

(* Age, newer tokens or the end of the process take a token away.           *)
TokenLost ==
  /\ pc = "idle" /\ token # NoToken
  /\ token' = NoToken
  /\ UNCHANGED <<plan, pc, from, candidates, listed, index, loop, fallback, cache, answer, history>>

(* get_evidence between two searches: a document that is not in the cache   *)
(* is downloaded into it, or the call raises.                               *)
GetEvidence(r) ==
  /\ pc = "idle" /\ plan.key
  /\ r \notin cache
  /\ \/ cache' = cache \cup {r}
     \/ \E evicted \in cache : cache' = (cache \cup {r}) \ {evicted}
  /\ UNCHANGED <<plan, pc, token, from, candidates, listed, index, loop, fallback, answer,
                 history>>

-----------------------------------------------------------------------------
(* Candidates.                                                              *)

Finds(found, nextStep) ==
  /\ candidates' = found
  /\ pc' = nextStep
  /\ UNCHANGED <<plan, token, from, index, loop, cache, answer, history>>

SearchesBodies == plan.strategy \in {"fulltext", "events", "relation"}

(* The listing completes a body search that found too little.               *)
DartAnswers ==
  /\ pc = "find" /\ SearchesBodies
  /\ Finds(Merged(<< >>, Found), IF AlwaysLists \/ Len(Found) < ResultBudget THEN "list" ELSE "verify")
  /\ UNCHANGED <<listed, fallback>>

DartFallsBack ==
  /\ pc = "find" /\ SearchesBodies
  /\ Finds(<< >>, "list")
  /\ fallback' = TRUE
  /\ UNCHANGED listed

(* primary_channel is "opendart".                                           *)
ListingOnly ==
  /\ pc = "find" /\ plan.strategy \in {"list", "class"}
  /\ Finds(<< >>, "list")
  /\ UNCHANGED <<listed, fallback>>

(* There is nothing to list without a key.                                  *)
KeyMissing ==
  /\ pc = "list" /\ ~plan.key
  /\ IF candidates = << >>
     THEN pc' = "idle" /\ status' = "failed" /\ grade' = "unconfirmed"
     ELSE pc' = "verify" /\ UNCHANGED answer
  /\ UNCHANGED <<plan, token, from, candidates, listed, index, loop, fallback, cache,
                 history>>

(* collect_lists: pages from the cursor on, as many as the budget allows,   *)
(* behind the candidates of the body search.                                *)
ListPages ==
  /\ pc = "list" /\ plan.key
  /\ LET first == (from.page - 1) * PageSize + 1
         last == Smaller(first - 1 + ListBudget * PageSize, Len(Listing))
         rows == SubSeq(Listing, first, last)
     IN  /\ Finds(Merged(candidates, rows), "verify")
         /\ complete' = (last = Len(Listing))
         /\ next' = IF complete' THEN 1 ELSE from.page + ListBudget
  /\ UNCHANGED fallback

(* The deadline ends the body search, or the listing: what was listed in    *)
(* this call is dropped, and the cursor stays where it was.                 *)
FindingTimesOut ==
  /\ pc = "find" \/ (pc = "list" /\ plan.key)
  /\ pc' = "verify"
  /\ hard' = TRUE
  /\ IF pc = "list" THEN complete' = FALSE /\ next' = from.page ELSE UNCHANGED listed
  /\ UNCHANGED <<plan, token, from, candidates, index, verified, preliminary, requests,
                 prefetched, errors, fatal, fallback, cache, answer, history>>

(* An OpenDART error outside the documents ends the call without a token.   *)
(* _channel_error_response gives no grade.                                  *)
CallFails ==
  /\ pc = "find" \/ (pc = "list" /\ plan.key)
  /\ pc' = "idle"
  /\ \/ status' = "failed"
     \/ candidates # << >> /\ status' = "partial"
  /\ grade' = DefaultGrade(status')
  /\ surfaced' = surfaced \cup RangeOf(candidates)
  /\ UNCHANGED <<plan, token, from, candidates, listed, index, loop, fallback, cache, judged,
                 gaveUp, behind, delivered>>

-----------------------------------------------------------------------------
(* The loop over the candidates.                                            *)

Current == candidates[index]
Working == pc = "verify" /\ index <= Len(candidates)
WantsAll == plan.strategy \in {"events", "relation"}
Turn ==
  /\ Working
  /\ Current \notin from.processed
  /\ Cardinality(verified) < ResultBudget \/ WantsAll

(* The document of the candidate is what counts.                            *)
Reading == Turn /\ plan.strategy # "list" /\ plan.key

Stops ==
  /\ pc' = "answer"
  /\ UNCHANGED <<plan, token, from, candidates, listed, index, verified, preliminary, requests,
                 prefetched, errors, fallback, cache, answer, history>>

(* The hard deadline, or the soft one once there are enough results: both   *)
(* leave a token and a partial answer.                                      *)
LoopTimesOut == Working /\ hard' = TRUE /\ Stops /\ UNCHANGED fatal

EnoughResults ==
  /\ Working
  /\ Current \notin from.processed
  /\ Cardinality(verified) >= ResultBudget /\ ~WantsAll
  /\ Stops /\ UNCHANGED <<hard, fatal>>

LoopDone ==
  /\ pc = "verify" /\ index > Len(candidates)
  /\ Stops /\ UNCHANGED <<hard, fatal>>

SkipProcessed ==
  /\ Working /\ Current \in from.processed
  /\ index' = index + 1
  /\ UNCHANGED <<plan, pc, token, from, candidates, listed, loop, fallback, cache, answer,
                 history>>

NextCandidate ==
  /\ pc' = "verify" /\ index' = index + 1
  /\ UNCHANGED <<plan, token, from, candidates, listed, requests, prefetched, errors, hard,
                 fatal, fallback, cache, answer, surfaced, behind, delivered>>

(* S1: the row itself is the result.                                        *)
TakeRow ==
  /\ Turn /\ plan.strategy = "list"
  /\ verified' = verified \cup {Current} /\ judged' = judged \cup {Current}
  /\ NextCandidate /\ UNCHANGED <<preliminary, gaveUp>>

(* Without a key no document can be read.                                   *)
LeaveUnread ==
  /\ Turn /\ plan.strategy # "list" /\ ~plan.key
  /\ preliminary' = preliminary \cup {Current}
  /\ NextCandidate /\ UNCHANGED <<verified, judged, gaveUp>>

ReadText ==
  /\ Reading \/ pc = "fetched"
  /\ Current \in cache
  /\ IF Current \in Relevant
     THEN verified' = verified \cup {Current} /\ UNCHANGED preliminary
     ELSE preliminary' = preliminary \cup {Current} /\ UNCHANGED verified
  /\ judged' = judged \cup {Current}
  /\ NextCandidate /\ UNCHANGED gaveUp

(* The next candidates without a text, as many as there are threads and as  *)
(* the budget has left.                                                     *)
Wanted ==
  {k \in index..Len(candidates) :
     candidates[k] \notin from.processed \cup prefetched \cup cache}
Among(width) ==
  {candidates[k] : k \in {k \in Wanted : Cardinality({m \in Wanted : m < k}) < width}}

(* Mutant of Batch: the budget is checked before, not for, the batch.       *)
BatchOverrun(width) == Among(width)
Batch(width) == Among(Smaller(width, DocumentBudget - requests))

(* The pool downloads a batch, with at most as many threads as the adaptive *)
(* concurrency has left.  A download makes one request, and another one     *)
(* after the code 900; when it is cut off it may have made none.  A text    *)
(* that is stored may push another one out.                                 *)
Fetch ==
  /\ Reading
  /\ Current \notin cache \cup prefetched
  /\ requests < DocumentBudget
  /\ \E width \in 1..DocumentConcurrency :
     \E result \in [Batch(width) -> Failures \cup {"text"}] :
       LET texts == {r \in Batch(width) : result[r] = "text"}
           late == {r \in Batch(width) : result[r] = "late"}
       IN  /\ prefetched' = prefetched \cup Batch(width)
           /\ errors' = [r \in Receipts |-> IF r \in Batch(width) \ texts THEN result[r]
                                            ELSE errors[r]]
           /\ \E started \in Cardinality(Batch(width) \ late)..2 * Cardinality(Batch(width)) :
                requests' = requests + started
           /\ \/ cache' = cache \cup texts
              \/ \E evicted \in cache \cup texts : cache' = (cache \cup texts) \ {evicted}
  /\ pc' = "fetched"
  /\ UNCHANGED <<plan, token, from, candidates, listed, index, verified, preliminary, hard, fatal,
                 fallback, answer, history>>

Fetched ==
  /\ pc = "fetched" \/ (Reading /\ Current \in prefetched /\ requests < DocumentBudget)
  /\ Current \notin cache

FetchTimesOut ==
  /\ Fetched /\ errors[Current] = "late"
  /\ hard' = TRUE /\ Stops /\ UNCHANGED fatal

FetchRefused ==
  /\ Fetched /\ errors[Current] = "fatal"
  /\ fatal' = TRUE /\ Stops /\ UNCHANGED hard

(* The download failed, be it for a moment or for good, or the text was     *)
(* pushed out of the cache before its turn: the candidate is done with and  *)
(* was not read.                                                            *)
FetchFails ==
  /\ Fetched /\ errors[Current] \in {"failed", "none"}
  /\ preliminary' = preliminary \cup {Current}
  /\ gaveUp' = gaveUp \cup {Current}
  /\ NextCandidate /\ UNCHANGED <<verified, judged>>

(* No budget for its document: the candidate is given as it is.             *)
OverBudget ==
  /\ Reading
  /\ Current \notin cache
  /\ requests >= DocumentBudget
  /\ preliminary' = preliminary \cup {Current}
  /\ NextCandidate /\ UNCHANGED <<verified, judged, gaveUp>>

-----------------------------------------------------------------------------
(* The answer.                                                              *)

Processed == from.processed \cup verified \cup preliminary

(* Mutant of Pending: candidates beyond the budget need no continuation.    *)
PendingUnbudgeted ==
  \/ hard
  \/ Len(candidates) > Cardinality(verified) + Cardinality(preliminary)
Pending ==
  \/ hard
  \/ Len(candidates) > Cardinality(verified) + Cardinality(preliminary)
  \/ requests >= DocumentBudget /\ preliminary # {}

Issued(seen) ==
  IF ~complete THEN [page |-> next, processed |-> seen]
  ELSE IF Pending THEN [page |-> 1, processed |-> seen]
  ELSE NoToken

(* Mutants of Token: only this call's candidates are remembered; the window *)
(* of a new cursor is counted from 0.                                       *)
TokenForgetful == Issued(verified \cup preliminary)
TokenFromZero == IF Issued(Processed) = NoToken THEN NoToken
                 ELSE [Issued(Processed) EXCEPT !.page = @ - 1]
Token == Issued(Processed)

(* Without a key, or with one that is refused, what the user has to do is   *)
(* the answer; "failed" stands for that too.  When only the quota is used   *)
(* up or the service is being maintained, the results so far are an answer. *)
Statuses ==
  IF fatal THEN {"failed"} \cup (IF verified # {} THEN {"partial"} ELSE {})
  ELSE IF ~plan.key /\ plan.strategy # "list" /\ candidates # << >> THEN {"failed"}
  ELSE {IF token' = NoToken THEN "completed" ELSE "partial"}

Grade ==
  CASE status' = "failed" -> "unconfirmed"
    [] status' = "partial" -> "partial"
    [] OTHER -> IF fallback THEN "reduced" ELSE "complete"

(* The chains of two filings or more that S6 and S7 find among candidates   *)
(* whose text is in the cache; what the texts say is left to the module     *)
(* Amendments.                                                              *)
Groupings ==
  LET cached == RangeOf(candidates) \cap cache
      linked == {c \cap cached : c \in Chains}
  IN  IF plan.strategy # "relation" THEN {{}}
      ELSE {groups \in SUBSET {g \in linked : Cardinality(g) > 1} :
              \A g, h \in groups : g = h \/ g \cap h = {}}

(* A chain with a verified filing is one result with all its filings, those *)
(* that this call did not verify too; the other verified filings are        *)
(* results of their own.                                                    *)
Results(groups) ==
  {[filings |-> g, verified |-> g \cap verified] :
     g \in {g \in groups : g \cap verified # {}} \cup {{r} : r \in verified \ UNION groups}}

(* Candidates that nothing was decided about and that the next call, which  *)
(* lists from another page on, need not find.                               *)
Left ==
  IF ~complete /\ next # from.page THEN RangeOf(candidates) \ (judged \cup gaveUp) ELSE {}

(* Results beyond the result budget, which S5 to S7 may have, are not given. *)
Answer ==
  /\ pc = "answer" /\ pc' = "idle"
  /\ token' = Token
  /\ status' \in Statuses
  /\ grade' = Grade
  /\ surfaced' = surfaced \cup RangeOf(candidates)
  /\ behind' = behind \cup Left
  /\ \E groups \in Groupings : \E given \in SUBSET Results(groups) :
       /\ Cardinality(given) = Smaller(ResultBudget, Cardinality(Results(groups)))
       /\ delivered' = delivered \cup given
  /\ UNCHANGED <<plan, from, candidates, listed, index, loop, fallback, cache, judged, gaveUp>>

Init ==
  /\ plan \in Searches /\ pc = "idle" /\ token = NoToken /\ from = Beginning
  /\ candidates = << >> /\ complete = TRUE /\ next = 1 /\ index = 1
  /\ verified = {} /\ preliminary = {} /\ requests = 0
  /\ prefetched = {} /\ errors = [r \in Receipts |-> "none"]
  /\ hard = FALSE /\ fatal = FALSE /\ fallback = FALSE
  /\ cache = {} /\ status = "none" /\ grade = "none"
  /\ surfaced = {} /\ judged = {} /\ gaveUp = {} /\ behind = {} /\ delivered = {}

Next ==
  \/ Search \/ Continue \/ TokenLost \/ \E r \in Receipts : GetEvidence(r)
  \/ DartAnswers \/ DartFallsBack \/ ListingOnly \/ KeyMissing
  \/ ListPages \/ FindingTimesOut \/ CallFails
  \/ LoopTimesOut \/ EnoughResults \/ LoopDone \/ SkipProcessed
  \/ TakeRow \/ LeaveUnread \/ ReadText \/ OverBudget
  \/ Fetch \/ FetchTimesOut \/ FetchRefused \/ FetchFails
  \/ Answer

Spec == Init /\ [][Next]_vars

-----------------------------------------------------------------------------
(* Properties.                                                              *)

TypeOK ==
  /\ plan \in Searches /\ pc \in {"idle", "find", "list", "verify", "fetched", "answer"}
  /\ token \in Continuations \cup {NoToken} /\ from \in Continuations
  /\ candidates \in Seq(Receipts)
  /\ complete \in BOOLEAN /\ hard \in BOOLEAN
  /\ fatal \in BOOLEAN /\ fallback \in BOOLEAN
  /\ next \in Nat \ {0} /\ index \in Nat \ {0} /\ requests \in Nat
  /\ errors \in [Receipts -> Failures \cup {"none"}]
  /\ status \in {"none", "completed", "partial", "failed"}
  /\ grade \in {"none", "complete", "reduced", "partial", "unconfirmed"}
  /\ {verified, preliminary, prefetched, cache, surfaced, judged, gaveUp, behind}
       \subseteq SUBSET Receipts
  /\ delivered \subseteq [filings : SUBSET Receipts, verified : SUBSET Receipts]
  /\ pc = "fetched" => index <= Len(candidates)

(* A call makes no more document requests than its budget, or twice as many *)
(* when every document answers with the code 900 first: batches are sized   *)
(* for the budget that is left before their outcomes are known.             *)
WithinBudget == requests <= 2 * DocumentBudget

(* No filing is verified for two results of one chain of continuations,     *)
(* however candidates move between the body search, the listing and the     *)
(* cache, and none is in two results, save that S6 and S7 give a chain of   *)
(* amendments again, under the same number if it is the same chain, when    *)
(* another filing of it is verified (engine.py:613-646).                    *)
NoCaseTwice ==
  /\ pc # "idle" => \A d \in delivered : d.verified \cap verified = {}
  /\ \A d, e \in delivered :
       d # e => /\ d.verified \cap e.verified = {}
                /\ d.filings \cap e.filings = {} \/ plan.strategy = "relation"

(* An answer that is completed with the grade "complete" ends a chain in    *)
(* which every candidate was read or could not be had.  This is less than   *)
(* the grade promises, "complete: all planned channels, queries, pages,     *)
(* windows and document verifications are done" (DEVELOPMENT_PLAN.md:1229): *)
(* the code takes a failed download, of a moment too, for done              *)
(* (engine.py:419-422).                                                     *)
CompleteIsComplete ==
  status = "completed" /\ grade = "complete" => surfaced \subseteq judged \cup gaveUp

(* The same for a listing of any number of calls: no candidate of a chain   *)
(* that ends as complete was forgotten but one of a call whose token went   *)
(* on to the next pages of the listing (engine.py:463-470).                 *)
NoneForgotten ==
  status = "completed" /\ grade = "complete" => surfaced \subseteq judged \cup gaveUp \cup behind
=============================================================================
