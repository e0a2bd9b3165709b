--------------------------- MODULE ListCollection ---------------------------
(***************************************************************************)
(* OpenDartClient.collect_lists and list_page of app/channels/opendart.py: *)
(* the windows of a period, newest first, page after page, with a budget   *)
(* of requests, the first pages fetched ahead by threads, and a cursor     *)
(* from which the next call resumes.  Every request goes through           *)
(* HttpClient with its retries and the deadline of the call.               *)
(*                                                                         *)
(* Filings are published while the listing is read.  They come first, and  *)
(* push every later row one place further down.                            *)
(***************************************************************************)
EXTENDS HttpClient, Sequences

CONSTANTS
  Catalog,       (* rows of each window when the search begins              *)
  NewFilings,    (* filings published later, in the first window            *)
  PageCount,     (* OPENDART_PAGE_COUNT, rows of a page                     *)
  Concurrency,   (* list_concurrency                                        *)
  Budget,        (* list_request_budget                                     *)
  MaxCalls       (* bound on the calls of one search                        *)

(* The main thread, and one for each page that may be fetched ahead.        *)
Main == 0
Threads == 1..Concurrency

ASSUME ListAssumption ==
  /\ Clients = {Main} \cup Threads
  /\ Catalog \in Seq(Seq(Nat)) /\ Len(Catalog) > 0
  /\ NewFilings \in Seq(Nat)
  /\ \A w \in DOMAIN Catalog : \A i \in DOMAIN NewFilings, j \in DOMAIN Catalog[w] :
       NewFilings[i] # Catalog[w][j]
  /\ PageCount \in Nat \ {0}
  /\ Concurrency \in Nat \ {0}
  /\ Budget \in Nat \ {0}
  /\ MaxCalls \in Nat \ {0}

Windows == 1..Len(Catalog)

VARIABLES
  published,  (* number of new filings so far                               *)
  pc,         (* where the call is                                          *)
  start,      (* start_window and start_page                                *)
  cursor,     (* window and page the loop is at                             *)
  task,       (* what each thread is listing, and how far it has come       *)
  ahead,      (* prefetched_first_pages                                     *)
  begun,      (* requests the client started in this call                   *)
  before,     (* before_requests                                            *)
  counted,    (* diagnostics.actual_list_requests                           *)
  collected,  (* result.candidates                                          *)
  gathered,   (* those of the calls of this search that returned them       *)
  ended,      (* how the last call ended                                    *)
  calls       (* calls so far                                               *)

vars == <<now, http, published, pc, start, cursor, task, ahead, begun, before,
          counted, collected, gathered, ended, calls>>

RangeOf(s) == {s[i] : i \in DOMAIN s}

-----------------------------------------------------------------------------
(* The server.  Status 013 is an answer without rows.                       *)

Rows(w) ==
  IF w = 1
    THEN SubSeq(NewFilings, Len(NewFilings) - published + 1, Len(NewFilings)) \o Catalog[1]
    ELSE Catalog[w]

(* Position of the first row of a page, and what list.json says of it.      *)
Before(p) == (p - 1) * PageCount

(* Mutant of Answer: the number of pages is rounded down.                   *)
AnswerRoundedDown(w, p) ==
  [window |-> w,
   rows |-> {Rows(w)[i] : i \in (DOMAIN Rows(w)) \cap (Before(p) + 1)..(Before(p) + PageCount)},
   last |-> Len(Rows(w)) < Before(p) + 2 * PageCount]

Answer(w, p) ==
  [window |-> w,
   rows |-> {Rows(w)[i] : i \in (DOMAIN Rows(w)) \cap (Before(p) + 1)..(Before(p) + PageCount)},
   last |-> Len(Rows(w)) <= Before(p) + PageCount]

-----------------------------------------------------------------------------
(* list_page() in a thread: "ask", "asked" (inside HttpClient), and after a *)
(* status 900 once more; then the page, "failed" or "late".                 *)

NoTask == [at |-> "none"]
Asking(w, p) == [at |-> "ask", window |-> w, page |-> p, again |-> FALSE]
Done(t) == task[t].at \in {"page", "failed", "late"}
Ends(t, how) == task' = [task EXCEPT ![t] = [at |-> how]]

(* _request(): the deadline first, then the count, then the request.        *)
Asks(t) ==
  /\ task[t].at = "ask"
  /\ \/ Remaining <= 0 /\ Ends(t, "late") /\ UNCHANGED <<http, begun>>
     \/ /\ Remaining > 0 /\ begun' = begun + 1
        /\ http' = [http EXCEPT ![t] = Fresh]
        /\ task' = [task EXCEPT ![t].at = "asked"]
  /\ UNCHANGED now

(* Every other status, and a body that is not JSON, is an error at once.    *)
Reads(t) ==
  /\ task[t].at = "asked" /\ http[t].at = "over"
  /\ http' = [http EXCEPT ![t] = Free]
  /\ \/ /\ http[t].result = "body"
        /\ task' = [task EXCEPT ![t] = [at |-> "page", answer |-> Answer(@.window, @.page)]]
     \/ /\ http[t].result = "body" /\ ~task[t].again
        /\ task' = [task EXCEPT ![t].at = "ask", ![t].again = TRUE]
     \/ http[t].result # "late" /\ Ends(t, "failed")
     \/ http[t].result = "late" /\ Ends(t, "late")
  /\ UNCHANGED <<now, begun>>

ThreadStep(t) ==
  /\ (HttpStep(t) /\ UNCHANGED <<task, begun>>) \/ Asks(t) \/ Reads(t)
  /\ UNCHANGED <<published, pc, start, cursor, ahead, before, counted,
                 collected, gathered, ended, calls>>

-----------------------------------------------------------------------------
(* The pages fetched ahead.                                                 *)

Fewer(a, b) == IF a < b THEN a ELSE b
FetchesAhead(from) == from.page = 1 /\ Concurrency > 1 /\ Budget >= 2
AheadCount(from) == Fewer(Fewer(Concurrency, Budget), Len(Catalog) - from.window + 1)

AheadTasks(from) ==
  [t \in Clients |-> IF t \in 1..AheadCount(from) THEN Asking(from.window + t - 1, 1) ELSE NoTask]

Begins(from, kept) ==
  /\ pc = "idle" /\ calls < MaxCalls
  /\ calls' = calls + 1 /\ start' = from /\ cursor' = from /\ gathered' = kept
  /\ now' = 0 /\ http' = [t \in Clients |-> Free]
  /\ begun' = 0 /\ before' = 0 /\ counted' = 0
  /\ collected' = {} /\ ahead' = {} /\ ended' = "none"
  /\ task' = IF FetchesAhead(from) THEN AheadTasks(from) ELSE [t \in Clients |-> NoTask]
  /\ pc' = IF FetchesAhead(from) THEN "ahead" ELSE "loop"
  /\ UNCHANGED published

(* Mutant of Begin: a search that ran out of time goes on at the page where *)
(* that happened.                                                           *)
BeginWhereLate ==
  \/ ended \in {"none", "failed"} /\ Begins([window |-> 1, page |-> 1], {})
  \/ ended \in {"budget", "late"} /\ Begins(cursor, gathered)

(* A search, the continuation of one whose budget or time ran out, and the  *)
(* search started over after an error, which leaves no token.               *)
Begin ==
  \/ ended \in {"none", "failed"} /\ Begins([window |-> 1, page |-> 1], {})
  \/ ended = "budget" /\ Begins(cursor, gathered)
  \/ ended = "late" /\ Begins(start, gathered)

(* An exception leaves the loop, and what it has collected is lost.         *)
Return(how) ==
  /\ pc' = "idle" /\ ended' = how
  /\ task' = [t \in Clients |-> NoTask] /\ ahead' = {}
  /\ gathered' = IF how \in {"budget", "complete"} THEN gathered \cup collected ELSE gathered
  /\ UNCHANGED <<now, http, published, start, cursor, begun, before, collected, calls>>

Raised(t) == IF task[t].at = "late" THEN "late" ELSE "failed"

Charged == counted + (begun - before)

(* Leaving the pool waits for all threads; the first failure is raised.     *)
Fetched == pc = "ahead" /\ \A t \in Threads : task[t].at = "none" \/ Done(t)
Failed == {t \in Threads : task[t].at \in {"failed", "late"}}

AheadFails ==
  /\ Fetched /\ counted' = Charged
  /\ \E t \in Failed : (\A u \in Failed : t <= u) /\ Return(Raised(t))

AheadComes ==
  /\ Fetched /\ Failed = {} /\ counted' = Charged
  /\ ahead' = {task[t].answer : t \in {u \in Threads : task[u].at = "page"}}
  /\ task' = [t \in Clients |-> NoTask] /\ pc' = "loop"
  /\ UNCHANGED <<now, http, published, start, cursor, begun, before, collected,
                 gathered, ended, calls>>

-----------------------------------------------------------------------------
(* The loop over windows and pages.                                         *)

Looping == pc = "loop" /\ cursor.window <= Len(Catalog)

(* Mutant of Prefetched: a page at hand does not count against the budget.  *)
PrefetchedUnseen == {a \in ahead : counted < Budget /\ a.window = cursor.window}

Prefetched == {a \in ahead : cursor.page = 1 /\ a.window = cursor.window}

(* Mutant of NextWindow: pages count from 0.                                *)
NextWindowFromZero == [window |-> cursor.window + 1, page |-> 0]

NextWindow == [window |-> cursor.window + 1, page |-> 1]

(* An answer without rows is the last page as well.                         *)
Takes(answer) ==
  /\ collected' = collected \cup answer.rows
  /\ cursor' = IF answer.last THEN NextWindow ELSE [cursor EXCEPT !.page = @ + 1]

TakesAhead ==
  /\ Looping
  /\ \E answer \in Prefetched : Takes(answer) /\ ahead' = ahead \ {answer}
  /\ UNCHANGED <<now, http, published, pc, start, task, begun, before, counted,
                 gathered, ended, calls>>

BudgetEnds ==
  /\ Looping /\ Prefetched = {} /\ counted >= Budget
  /\ Return("budget") /\ UNCHANGED counted

(* Mutant of ListsPage: the budget is not looked at.                        *)
ListsPageFreely ==
  /\ Looping /\ Prefetched = {}
  /\ pc' = "page" /\ before' = begun
  /\ task' = [task EXCEPT ![Main] = Asking(cursor.window, cursor.page)]
  /\ UNCHANGED <<now, http, published, start, cursor, ahead, begun, counted,
                 collected, gathered, ended, calls>>

ListsPage ==
  /\ Looping /\ Prefetched = {} /\ counted < Budget
  /\ pc' = "page" /\ before' = begun
  /\ task' = [task EXCEPT ![Main] = Asking(cursor.window, cursor.page)]
  /\ UNCHANGED <<now, http, published, start, cursor, ahead, begun, counted,
                 collected, gathered, ended, calls>>

PageComes ==
  /\ pc = "page" /\ task[Main].at = "page"
  /\ Takes(task[Main].answer) /\ counted' = Charged
  /\ task' = [task EXCEPT ![Main] = NoTask] /\ pc' = "loop"
  /\ UNCHANGED <<now, http, published, start, ahead, begun, before, gathered, ended, calls>>

PageFails ==
  /\ pc = "page" /\ task[Main].at \in {"failed", "late"}
  /\ counted' = Charged /\ Return(Raised(Main))

Completes ==
  /\ pc = "loop" /\ cursor.window > Len(Catalog)
  /\ Return("complete") /\ UNCHANGED counted

-----------------------------------------------------------------------------
Publish ==
  /\ published < Len(NewFilings) /\ published' = published + 1
  /\ UNCHANGED <<now, http, pc, start, cursor, task, ahead, begun, before,
                 counted, collected, gathered, ended, calls>>

Tick ==
  /\ Passes
  /\ \A t \in Clients : task[t].at # "ask" /\ http[t].at # "over"
  /\ UNCHANGED <<published, pc, start, cursor, task, ahead, begun, before,
                 counted, collected, gathered, ended, calls>>

(* The search is over, or out of the bound on its calls.                    *)
Rests ==
  /\ pc = "idle" /\ (ended = "complete" \/ calls = MaxCalls)
  /\ UNCHANGED vars

Init ==
  /\ now = 0 /\ http = [t \in Clients |-> Free]
  /\ published = 0 /\ pc = "idle"
  /\ start = [window |-> 1, page |-> 1] /\ cursor = start
  /\ task = [t \in Clients |-> NoTask] /\ ahead = {}
  /\ begun = 0 /\ before = 0 /\ counted = 0
  /\ collected = {} /\ gathered = {} /\ ended = "none" /\ calls = 0

Next ==
  \/ Begin \/ AheadFails \/ AheadComes
  \/ TakesAhead \/ BudgetEnds \/ ListsPage \/ PageComes \/ PageFails \/ Completes
  \/ \E t \in Clients : ThreadStep(t)
  \/ Publish \/ Tick \/ Rests

Spec == Init /\ [][Next]_vars

-----------------------------------------------------------------------------
Cursors == [window : 1..(Len(Catalog) + 1), page : Nat \ {0}]
Filings == RangeOf(NewFilings) \cup UNION {RangeOf(Catalog[w]) : w \in Windows}
AnswerTypes == [window : Windows, rows : SUBSET Filings, last : BOOLEAN]
Tasks ==
  [at : {"none", "failed", "late"}]
    \cup [at : {"ask", "asked"}, window : Windows, page : Nat \ {0}, again : BOOLEAN]
    \cup [at : {"page"}, answer : AnswerTypes]

TypeOK ==
  /\ HttpTypeOK
  /\ published \in 0..Len(NewFilings)
  /\ pc \in {"idle", "ahead", "loop", "page"}
  /\ start \in Cursors /\ cursor \in Cursors
  /\ task \in [Clients -> Tasks]
  /\ ahead \subseteq AnswerTypes
  /\ {begun, before, counted} \subseteq Nat
  /\ collected \subseteq Filings /\ gathered \subseteq Filings
  /\ ended \in {"none", "complete", "budget", "late", "failed"}
  /\ calls \in 0..MaxCalls

(* No filing listed when the search began is lost on the way to the cursor, *)
(* through pages that shift, pages fetched ahead, calls that end with their *)
(* budget or their time and calls that resume where they ended.             *)
NothingLost ==
  \A w \in Windows : \A i \in DOMAIN Rows(w) :
    /\ Rows(w)[i] \in RangeOf(Catalog[w])
    /\ w < cursor.window \/ (w = cursor.window /\ i <= Before(cursor.page))
    /\ pc # "idle" \/ ended \in {"budget", "complete"}
    => Rows(w)[i] \in gathered \cup collected

(* The request budget holds for all threads and all calls: every request    *)
(* that list_page hands to the HTTP client is charged to it, also those of  *)
(* a page that fails and the second one after a status 900, which is all    *)
(* that goes beyond it.  What HttpClient repeats inside one request counts  *)
(* once, in the code as here.                                               *)
BudgetKept ==
  /\ begun <= Budget + Concurrency
  /\ pc \in {"idle", "loop"} => counted = begun

(* A call that stops at its budget leaves the cursor further on than it     *)
(* found it, however little of the budget was left after fetching ahead.    *)
Further(a, b) == a.window > b.window \/ (a.window = b.window /\ a.page > b.page)
CursorMoves == [][ended' = "budget" /\ ended # "budget" => Further(cursor, start)]_vars
=============================================================================
