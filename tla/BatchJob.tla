------------------------------ MODULE BatchJob ------------------------------
(***************************************************************************)
(* One approved batch job of app/batch/service.py: the DART body-search    *)
(* discovery, the OpenDART fallback, the page and row loops that download  *)
(* and judge one document per receipt, the JSON checkpoint that carries    *)
(* the job from one approved segment to the next, and the completion       *)
(* sequence record / audit line / checkpoint removal.                      *)
(*                                                                         *)
(* A segment is one tool call.  The server handles one call at a time, so  *)
(* a segment is interrupted only by its own deadline, by an error, or by   *)
(* the death of the server process (Crash), which loses everything that is *)
(* not in the checkpoint directory.  Filings go on being published while   *)
(* the job runs: both listings are sorted newest first, so a new filing    *)
(* pushes every later row one place further down.                          *)
(***************************************************************************)
EXTENDS Integers, Sequences, FiniteSets

CONSTANTS
  Receipts,        (* receipt numbers of all filings, listed or yet to come *)
  Kind,            (* what document.xml answers for each receipt            *)
  Catalog,         (* rows of each OpenDART window when the job is approved *)
  DartCatalog,     (* rows of each (period, variant) unit of the body search*)
  LiveUnits,       (* the units whose period reaches today                  *)
  PageSize,        (* rows of an OpenDART list page                         *)
  DartPageSize,    (* rows of a body-search result page, as the code counts *)
  ServedSizes,     (* rows that DART may serve on a page                    *)
  Shows,           (* whether a result page shows the number of hits        *)
  DocumentConcurrency, (* defaults.DOCUMENT_CONCURRENCY                     *)
  Settings,        (* possible search.document_concurrency in settings.json *)
  UseDart,         (* the job has a DART channel and no disclosure types    *)
  Exhaustive,      (* request["exhaustive"]                                 *)
  Target,          (* request["target_count"]                               *)
  MaxCrashes,      (* bound on server deaths                                *)
  NoJob            (* absence of a checkpoint, or of a job in memory        *)

(* "evidence": a document with a matching passage; "plain": one without;   *)
(* "unavailable": fails for good with a code the loop skips; "broken":     *)
(* fails on every attempt with a code outside that list.                   *)
Kinds == {"evidence", "plain", "unavailable", "broken"}

Windows == 1..Len(Catalog)
Units == 1..Len(DartCatalog)

ASSUME ReceiptsAssumption ==
  /\ Kind \in [Receipts -> Kinds]
  /\ Catalog \in Seq(Seq(Receipts))
  /\ DartCatalog \in Seq(Seq(Receipts))
  /\ Len(Catalog) > 0
  /\ LiveUnits \subseteq Units

(* A window of the list has one row for each filing.  Results are counted   *)
(* by the rows they come from: the loop compares a row with the receipts    *)
(* processed before its batch, and not with the other rows of the batch.    *)
ASSUME ListingAssumption ==
  \A w \in Windows : \A a, b \in DOMAIN Catalog[w] : Catalog[w][a] = Catalog[w][b] => a = b

ASSUME LimitsAssumption ==
  /\ PageSize \in Nat \ {0}
  /\ DartPageSize \in Nat \ {0}
  /\ ServedSizes \subseteq Nat \ {0}
  /\ Shows \subseteq BOOLEAN
  /\ DocumentConcurrency \in Nat \ {0}
  /\ Settings \subseteq Nat \ {0}
  /\ Target \in Nat \ {0}
  /\ MaxCrashes \in Nat
  /\ UseDart \in BOOLEAN
  /\ Exhaustive \in BOOLEAN

VARIABLES
  fresh,      (* filings published since approval, per OpenDART window      *)
  dartFresh,  (* the same for the units of the body search                  *)
  pc,         (* where the server is in the handling of a call              *)
  job,        (* the state dictionary of the segment that is running        *)
  rows,       (* the list page the row loop is working through              *)
  row,        (* row_index                                                  *)
  last,       (* that page was the last one of its window                   *)
  disk,       (* the checkpoint file                                        *)
  records,    (* the result records written for this job                    *)
  audits,     (* number of audit lines written for this job                 *)
  told,       (* the caller has been given the job_id                       *)
  crashes     (* server deaths so far                                       *)

env == <<fresh, dartFresh>>
reading == <<rows, row, last>>
store == <<disk, records, audits>>
vars == <<fresh, dartFresh, pc, job, rows, row, last, disk, records, audits, told, crashes>>

-----------------------------------------------------------------------------
(* Listings and cursors.  window, page, unit and unitPage count from 1 (the *)
(* indices of the code count from 0); offset and row are the number of rows *)
(* before the next one, so they are the code's own 0-based indices.         *)

Rows(w) == fresh[w] \o Catalog[w]
DartRows(u) == dartFresh[u] \o DartCatalog[u]

RangeOf(s) == {s[i] : i \in DOMAIN s}

Smaller(a, b) == IF a < b THEN a ELSE b
PageStart(p, size) == (p - 1) * size
PageOf(s, p, size) ==
  SubSeq(s, PageStart(p, size) + 1, Smaller(PageStart(p, size) + size, Len(s)))
IsLastPage(s, p, size) == Len(s) <= PageStart(p, size) + size

(* len(windows): the discovered candidates form one window of one page.     *)
WindowCount(j) == IF j.phase = "dart_verification" THEN 1 ELSE Len(Catalog)
Listed(j) == j.window > WindowCount(j)
TargetMet(j) == ~Exhaustive /\ j.count >= Target

(* results is the set of receipts in state["results"], count its length;    *)
(* strayed is history: a page of the body search was not what the code      *)
(* counts with.                                                             *)
NewState(setting) ==
  [phase    |-> IF UseDart THEN "dart_discovery" ELSE "opendart_discovery",
   checked  |-> FALSE, unit |-> 1, unitPage |-> 1, cands |-> << >>, strayed |-> FALSE,
   window   |-> 1, page |-> 1, offset |-> 0,
   done     |-> {}, skipped |-> {}, results |-> {}, count |-> 0,
   conc     |-> setting]

Entry(j) == IF j.phase = "dart_discovery" THEN "discover" ELSE "page"

BlankPage == rows' = << >> /\ row' = 0 /\ last' = FALSE

(* The call returns and the segment's dictionary is dropped.                *)
Return(tells) ==
  /\ pc' = "idle"
  /\ job' = NoJob
  /\ BlankPage
  /\ told' = (told \/ tells)

Save(j) == disk' = j /\ UNCHANGED <<records, audits>>

-----------------------------------------------------------------------------
(* The calls that start a segment.                                          *)

(* Mutant of Run: the checkpoint is first written when the segment ends.    *)
RunUnsaved ==
  /\ pc = "approved"
  /\ \E setting \in Settings : job' = NewState(setting)
  /\ pc' = Entry(job')
  /\ UNCHANGED <<env, reading, store, told, crashes>>

Run ==
  /\ pc = "approved"
  /\ \E setting \in Settings : job' = NewState(setting)
  /\ Save(job')
  /\ pc' = Entry(job')
  /\ UNCHANGED <<env, reading, told, crashes>>

Continue ==
  /\ pc = "idle"
  /\ told
  /\ disk # NoJob
  /\ job' = disk
  /\ pc' = Entry(disk)
  /\ UNCHANGED <<env, reading, store, told, crashes>>

-----------------------------------------------------------------------------
(* _discover_dart_candidates.                                               *)

Fallback(j) == [j EXCEPT !.phase = "opendart_discovery",
                         !.window = 1, !.page = 1, !.offset = 0]

HealthOk ==
  /\ pc = "discover"
  /\ ~job.checked
  /\ job' = [job EXCEPT !.checked = TRUE]
  /\ UNCHANGED <<env, pc, reading, store, told, crashes>>

(* An unhealthy check, a blocked circuit, a structure change or a failing   *)
(* request: the whole job falls back to the OpenDART windows.  The change   *)
(* is saved with the next checkpoint, not here.                             *)
DiscoveryFallsBack ==
  /\ pc = "discover"
  /\ job.checked => job.unit \in Units
  /\ job' = Fallback(job)
  /\ pc' = "page"
  /\ UNCHANGED <<env, reading, store, told, crashes>>

(* setdefault: a receipt keeps the place where it was first found, and the  *)
(* receipts of this page that are new follow in the order of the page.      *)
Merges(new, cands, found) ==
  /\ RangeOf(new) = RangeOf(found) \ RangeOf(cands)
  /\ \A a, b \in DOMAIN new : a < b =>
       \E i \in DOMAIN found : /\ found[i] = new[a]
                               /\ \A j \in DOMAIN found : found[j] = new[b] => i < j

(* A unit ends with the last page by the number of hits, at ten rows a page *)
(* whatever DART serves, and at once when the page does not show it or has  *)
(* no rows.  The flag of a changed page contract is not looked at.          *)
SearchPage ==
  /\ pc = "discover"
  /\ job.checked
  /\ job.unit \in Units
  /\ \E size \in ServedSizes, shown \in Shows :
       LET listing == DartRows(job.unit)
           found == PageOf(listing, job.unitPage, size)
           added == RangeOf(found) \ RangeOf(job.cands)
           counted == shown \/ IsLastPage(listing, job.unitPage, DartPageSize)
           final == \/ ~counted \/ found = << >>
                    \/ IsLastPage(listing, job.unitPage, DartPageSize)
       IN \E new \in [1..Cardinality(added) -> added] :
            /\ Merges(new, job.cands, found)
            /\ job' = [job EXCEPT
                         !.cands = @ \o new,
                         !.strayed = @ \/ ~counted
                                       \/ found # PageOf(listing, job.unitPage, DartPageSize),
                         !.unit = IF final THEN @ + 1 ELSE @,
                         !.unitPage = IF final THEN 1 ELSE @ + 1]
  /\ Save(job')
  /\ UNCHANGED <<env, pc, reading, told, crashes>>

DiscoveryDone ==
  /\ pc = "discover"
  /\ job.checked
  /\ job.unit \notin Units
  /\ job' = [job EXCEPT !.phase = "dart_verification",
                        !.window = 1, !.page = 1, !.offset = 0]
  /\ Save(job')
  /\ pc' = "page"
  /\ UNCHANGED <<env, reading, told, crashes>>

(* The soft deadline before a page, or SEARCH_TIMEOUT_PARTIAL inside one.   *)
DiscoveryStops ==
  /\ pc = "discover"
  /\ job.checked => job.unit \in Units
  /\ Save(job)
  /\ Return(TRUE)
  /\ UNCHANGED <<env, crashes>>

-----------------------------------------------------------------------------
(* The page loop.                                                           *)

FetchPage ==
  /\ pc = "page"
  /\ ~Listed(job)
  /\ IF job.phase = "dart_verification"
     THEN rows' = job.cands /\ last' = TRUE
     ELSE /\ rows' = PageOf(Rows(job.window), job.page, PageSize)
          /\ last' = IsLastPage(Rows(job.window), job.page, PageSize)
  /\ row' = job.offset
  /\ pc' = "rows"
  /\ UNCHANGED <<env, job, store, told, crashes>>

(* The interval ends or list.json raises a SearchError.                     *)
PageStops ==
  /\ pc = "page"
  /\ ~Listed(job)
  /\ pc' = "leave"
  /\ UNCHANGED <<env, job, reading, store, told, crashes>>

PagesDone ==
  /\ pc = "page"
  /\ Listed(job)
  /\ pc' = "leave"
  /\ UNCHANGED <<env, job, reading, store, told, crashes>>

(* Mutant of PageFinished: the row offset survives the page.                *)
PageFinishedKeepsOffset ==
  /\ pc = "rows"
  /\ row >= Len(rows)
  /\ job' = [job EXCEPT !.page = IF last THEN 1 ELSE @ + 1,
                        !.window = IF last THEN @ + 1 ELSE @]
  /\ Save(job')
  /\ pc' = "page"
  /\ BlankPage
  /\ UNCHANGED <<env, told, crashes>>

PageFinished ==
  /\ pc = "rows"
  /\ row >= Len(rows)
  /\ job' = [job EXCEPT !.offset = 0,
                        !.page = IF last THEN 1 ELSE @ + 1,
                        !.window = IF last THEN @ + 1 ELSE @]
  /\ Save(job')
  /\ pc' = "page"
  /\ BlankPage
  /\ UNCHANGED <<env, told, crashes>>

-----------------------------------------------------------------------------
(* The row loop: batches of at most document_concurrency downloads run in a *)
(* thread pool, and are judged together when all of them have ended.        *)

RowsStop ==
  /\ pc = "rows"
  /\ row < Len(rows)
  /\ job' = [job EXCEPT !.offset = row]
  /\ pc' = "leave"
  /\ UNCHANGED <<env, reading, store, told, crashes>>

Width == Smaller(job.conc, DocumentConcurrency)
Pending(n) == {k \in row + 1 .. n : rows[k] \notin job.done}

(* The batch is filled up to row n: it is full there, or the page ends.     *)
Fills(n) ==
  \/ Cardinality(Pending(n)) = Width /\ n \in Pending(n)
  \/ Cardinality(Pending(n)) < Width /\ n = Len(rows)

SkipRows ==
  /\ pc = "rows"
  /\ row < Len(rows)
  /\ Pending(Len(rows)) = {}
  /\ row' = Len(rows)
  /\ job' = [job EXCEPT !.offset = Len(rows)]
  /\ UNCHANGED <<env, pc, rows, last, store, told, crashes>>

(* How a batch of rows can end: throttled rows met a 429 or a temporary     *)
(* failure, failed ones another error that is not the document's own.       *)
(* Mutant of Rewinding: a document that is gone for good is tried again.    *)
RewindingAlways(batch, throttled, failed) ==
  throttled \cup failed \cup {k \in batch : Kind[rows[k]] \in {"broken", "unavailable"}}
Rewinding(batch, throttled, failed) ==
  throttled \cup failed \cup {k \in batch : Kind[rows[k]] = "broken"}
Unavailable(batch, lost) ==
  {k \in batch \ lost : Kind[rows[k]] = "unavailable"}
Evidence(batch, lost) ==
  {k \in batch \ lost : Kind[rows[k]] = "evidence"}

(* Results are appended in row order while there is room for them.          *)
(* Mutant of Appended: the cap on the number of results is forgotten.       *)
AppendedAll(kept, hits) == kept = hits
Appended(kept, hits) ==
  /\ kept \subseteq hits
  /\ \A h \in hits, k \in kept : h < k => h \in kept
  /\ IF Exhaustive \/ job.count + Cardinality(hits) <= Target
     THEN kept = hits
     ELSE Cardinality(kept) = IF job.count < Target THEN Target - job.count ELSE 0

(* Mutants of Judged: a failed download counts as processed; the receipts   *)
(* of earlier batches are forgotten.                                        *)
JudgedAll(batch, throttled, lost, kept) ==
  [job EXCEPT
     !.done = @ \cup {rows[k] : k \in batch},
     !.skipped = @ \cup {rows[k] : k \in Unavailable(batch, lost)},
     !.results = @ \cup {rows[k] : k \in kept},
     !.count = @ + Cardinality(kept)]
JudgedAfresh(batch, throttled, lost, kept) ==
  [job EXCEPT
     !.done = {rows[k] : k \in batch \ lost},
     !.skipped = @ \cup {rows[k] : k \in Unavailable(batch, lost)},
     !.results = @ \cup {rows[k] : k \in kept},
     !.count = @ + Cardinality(kept)]

Judged(batch, throttled, lost, kept) ==
  [job EXCEPT
     !.done = @ \cup {rows[k] : k \in batch \ lost},
     !.skipped = @ \cup {rows[k] : k \in Unavailable(batch, lost)},
     !.results = @ \cup {rows[k] : k \in kept},
     !.count = @ + Cardinality(kept),
     !.conc = IF Cardinality(throttled) >= @ THEN 1 ELSE @ - Cardinality(throttled)]

(* AdaptiveConcurrency refuses a current value above its maximum, so the    *)
(* first SearchError of a batch ends the call when the setting is larger.   *)
Refused(batch, lost) ==
  job.conc > DocumentConcurrency /\ lost \cup Unavailable(batch, lost) # {}

(* Every download of the batch came to an end of its own.                   *)
BatchSucceeds ==
  /\ pc = "rows"
  /\ row < Len(rows)
  /\ \E n \in row + 1 .. Len(rows) :
       LET batch == Pending(n) IN
       /\ Fills(n)
       /\ batch # {}
       /\ Rewinding(batch, {}, {}) = {}
       /\ ~Refused(batch, {})
       /\ \E kept \in SUBSET Evidence(batch, {}) :
            /\ Appended(kept, Evidence(batch, {}))
            /\ LET after == [Judged(batch, {}, {}, kept) EXCEPT !.offset = n] IN
               /\ Save(after)
               /\ row' = n
               /\ IF TargetMet(after)
                  THEN /\ job' = [after EXCEPT !.window = WindowCount(after) + 1]
                       /\ pc' = "leave"
                  ELSE job' = after /\ UNCHANGED pc
  /\ UNCHANGED <<env, rows, last, told, crashes>>

(* At least one row must be tried again: the cursor goes back to the first  *)
(* of them; the others of the batch stay processed.                         *)
BatchRewinds ==
  /\ pc = "rows"
  /\ row < Len(rows)
  /\ \E n \in row + 1 .. Len(rows) :
     \E throttled \in SUBSET Pending(n) : \E failed \in SUBSET (Pending(n) \ throttled) :
       LET batch == Pending(n)
           lost == Rewinding(batch, throttled, failed)
       IN
       /\ Fills(n)
       /\ ~Refused(batch, lost)
       /\ \E kept \in SUBSET Evidence(batch, lost) :
            /\ Appended(kept, Evidence(batch, lost))
            /\ \E first \in lost :
                 /\ \A k \in lost : first <= k
                 /\ job' = [Judged(batch, throttled, lost, kept)
                              EXCEPT !.offset = first - 1]
  /\ pc' = "leave"
  /\ UNCHANGED <<env, reading, store, told, crashes>>

(* The ValueError of AdaptiveConcurrency leaves the call: nothing is saved. *)
BatchRaises ==
  /\ pc = "rows"
  /\ row < Len(rows)
  /\ \E n \in row + 1 .. Len(rows) : \E failed \in SUBSET Pending(n) :
       Fills(n) /\ Refused(Pending(n), Rewinding(Pending(n), {}, failed))
  /\ Return(FALSE)
  /\ UNCHANGED <<env, store, crashes>>

-----------------------------------------------------------------------------
(* The end of a segment.                                                    *)

(* Mutant of Leave: no save before the completion sequence.                 *)
LeaveUnsaved ==
  /\ pc = "leave"
  /\ IF Listed(job)
     THEN pc' = "record" /\ BlankPage /\ UNCHANGED <<job, store, told>>
     ELSE Save(job) /\ Return(TRUE)
  /\ UNCHANGED <<env, crashes>>

Leave ==
  /\ pc = "leave"
  /\ Save(job)
  /\ IF Listed(job)
     THEN pc' = "record" /\ BlankPage /\ UNCHANGED <<job, told>>
     ELSE Return(TRUE)
  /\ UNCHANGED <<env, crashes>>

SaveRecord ==
  /\ pc = "record"
  /\ records' = records \cup
       {[results |-> job.results, count |-> job.count, skipped |-> job.skipped, done |-> job.done]}
  /\ pc' = "audit"
  /\ UNCHANGED <<env, job, reading, disk, audits, told, crashes>>

AppendAudit ==
  /\ pc = "audit"
  /\ audits' = audits + 1
  /\ pc' = "delete"
  /\ UNCHANGED <<env, job, reading, disk, records, told, crashes>>

DeleteCheckpoint ==
  /\ pc = "delete"
  /\ disk' = NoJob
  /\ pc' = "completed"
  /\ job' = NoJob
  /\ BlankPage
  /\ told' = TRUE
  /\ UNCHANGED <<env, records, audits, crashes>>

-----------------------------------------------------------------------------
(* What happens around a job.                                               *)

Ended == pc \in {"completed", "expired"}

(* The process dies in a segment; the next one knows only the files.        *)
Crash ==
  /\ pc \notin {"approved", "idle"}
  /\ ~Ended
  /\ crashes < MaxCrashes
  /\ crashes' = crashes + 1
  /\ Return(FALSE)
  /\ UNCHANGED <<env, store>>

(* cleanup() removes a checkpoint that no segment has saved for seven days. *)
Expire ==
  /\ pc = "idle"
  /\ disk' = NoJob
  /\ pc' = "expired"
  /\ UNCHANGED <<env, job, reading, records, audits, told, crashes>>

(* A new filing enters the newest window, and any unit it matches.          *)
Published ==
  (UNION {RangeOf(fresh[w]) : w \in Windows}) \cup (UNION {RangeOf(dartFresh[u]) : u \in Units})
CatalogRows == UNION {RangeOf(Catalog[w]) : w \in Windows}
DartCatalogRows == UNION {RangeOf(DartCatalog[u]) : u \in Units}

Publish ==
  /\ ~Ended
  /\ \E r \in Receipts \ (Published \cup CatalogRows \cup DartCatalogRows) :
       /\ fresh' = [fresh EXCEPT ![1] = <<r>> \o @]
       /\ \E units \in SUBSET LiveUnits :
            dartFresh' = [u \in Units |-> IF u \in units THEN <<r>> \o dartFresh[u]
                                                         ELSE dartFresh[u]]
  /\ UNCHANGED <<pc, job, reading, store, told, crashes>>

Terminated == Ended /\ UNCHANGED vars

-----------------------------------------------------------------------------

Init ==
  /\ fresh = [w \in Windows |-> << >>]
  /\ dartFresh = [u \in Units |-> << >>]
  /\ pc = "approved"
  /\ job = NoJob
  /\ rows = << >> /\ row = 0 /\ last = FALSE
  /\ disk = NoJob
  /\ records = {}
  /\ audits = 0
  /\ told = FALSE
  /\ crashes = 0

Next ==
  \/ Run \/ Continue
  \/ HealthOk \/ DiscoveryFallsBack \/ SearchPage \/ DiscoveryDone \/ DiscoveryStops
  \/ FetchPage \/ PageStops \/ PagesDone \/ PageFinished
  \/ RowsStop \/ SkipRows \/ BatchSucceeds \/ BatchRewinds \/ BatchRaises
  \/ Leave \/ SaveRecord \/ AppendAudit \/ DeleteCheckpoint
  \/ Crash \/ Expire \/ Publish \/ Terminated

Spec == Init /\ [][Next]_vars

(* The user answers every continuation question with yes; a segment runs to *)
(* its end; and the network and the interval do not stop a job in the same  *)
(* place for ever (strong fairness: PageStops, RowsStop, BatchRewinds and   *)
(* DiscoveryStops may win any finite number of times).                      *)
Fairness ==
  /\ WF_vars(Run \/ Continue)
  /\ WF_vars(PagesDone \/ PageFinished \/ DiscoveryDone)
  /\ WF_vars(Leave \/ SaveRecord \/ AppendAudit \/ DeleteCheckpoint)
  /\ SF_vars(BatchSucceeds \/ BatchRewinds \/ BatchRaises)
  /\ SF_vars(HealthOk) /\ SF_vars(SearchPage)
  /\ SF_vars(FetchPage) /\ SF_vars(SkipRows) /\ SF_vars(BatchSucceeds)

FairSpec == Spec /\ Fairness

-----------------------------------------------------------------------------
(* Properties.                                                              *)

Phases == {"dart_discovery", "dart_verification", "opendart_discovery"}

States ==
  [phase : Phases, checked : BOOLEAN, unit : Nat \ {0}, unitPage : Nat \ {0},
   cands : Seq(Receipts), strayed : BOOLEAN, window : Nat \ {0}, page : Nat \ {0}, offset : Nat,
   done : SUBSET Receipts, skipped : SUBSET Receipts, results : SUBSET Receipts,
   count : Nat, conc : Nat \ {0}]

ASSUME NoJobAssumption == NoJob \notin States

Record ==
  [results : SUBSET Receipts, count : Nat, skipped : SUBSET Receipts, done : SUBSET Receipts]

Segment == {"discover", "page", "rows", "leave", "record", "audit", "delete"}

(* Type invariant; a segment has its dictionary and a checkpoint file.      *)
TypeOK ==
  /\ fresh \in [Windows -> Seq(Receipts)]
  /\ dartFresh \in [Units -> Seq(Receipts)]
  /\ pc \in Segment \cup {"approved", "idle", "completed", "expired"}
  /\ job \in States \cup {NoJob}
  /\ disk \in States \cup {NoJob}
  /\ rows \in Seq(Receipts) /\ row \in Nat /\ last \in BOOLEAN
  /\ records \in SUBSET Record
  /\ audits \in Nat
  /\ told \in BOOLEAN
  /\ crashes \in 0..MaxCrashes
  /\ pc \in Segment => job # NoJob /\ disk # NoJob

(* A job that is about to write its record has looked at every filing that  *)
(* was listed when the user approved it, in the channel it ended up using,  *)
(* unless the requested number of results was reached: no filing is lost to *)
(* a page boundary, to rows that shift while the job is paused, to a batch  *)
(* that rewinds, to a fallback between channels or to a restart.  The code  *)
(* takes the body search at its word: when a page of it strayed, what was   *)
(* not found is missing, and what was found is not.                         *)
NoFilingLost ==
  pc \in {"record", "audit", "delete"} =>
    \/ TargetMet(job)
    \/ IF job.phase = "dart_verification"
       THEN /\ RangeOf(job.cands) \cap DartCatalogRows \subseteq job.done
            /\ job.strayed \/ DartCatalogRows \subseteq job.done
       ELSE CatalogRows \subseteq job.done

(* Every processed filing with a matching passage is in the results, unless *)
(* the requested number was reached; nothing else is; no filing is there    *)
(* twice, although a rewound batch and a restarted segment download filings *)
(* again and listings repeat rows when they shift; and what was skipped is  *)
(* on the list of diagnostics.  In memory and in the checkpoint.            *)
Accounted(j) ==
  /\ j.count = Cardinality(j.results)
  /\ j.results \subseteq {r \in j.done : Kind[r] = "evidence"}
  /\ TargetMet(j) \/ {r \in j.done : Kind[r] = "evidence"} \subseteq j.results
  /\ j.skipped = {r \in j.done : Kind[r] = "unavailable"}
  /\ \A r \in j.done : Kind[r] # "broken"

NothingSilentlyDropped ==
  /\ job # NoJob => Accounted(job)
  /\ disk # NoJob => Accounted(disk)

(* A search that is not exhaustive never lists more than target_count.      *)
TargetRespected ==
  \A j \in {job, disk} \ {NoJob} : Exhaustive \/ j.count <= Target

(* What a checkpoint says was done stays done: no later save of the job,    *)
(* by this or by a restarted segment, forgets a filing or a result.         *)
DurableProgress ==
  [][disk # NoJob /\ disk' # NoJob =>
       /\ disk.done \subseteq disk'.done
       /\ disk.results \subseteq disk'.results
       /\ disk.count <= disk'.count]_vars

(* A completion that is repeated, because the process died before the       *)
(* checkpoint was removed, writes the same record again.                    *)
RecordsAgree == \A a, b \in records : a = b

(* A job whose job_id reached the user completes, unless its checkpoint     *)
(* expires first: no document, page or fallback can hold it for ever.       *)
JobCompletes == told ~> Ended

(* The job, seen from its files, keeps BatchPromise: progress is only ever  *)
(* added to the checkpoint, and the record is written once the checkpoint   *)
(* covers what was asked for; segments, failures and restarts do not show.  *)
(* What a body search that strays has not found by its end is withheld from *)
(* the job; when every page is as the code counts, nothing is.              *)
Final == CHOOSE r \in records : TRUE
Nothing == [done |-> {}, results |-> {}]
Durable == IF records # {} THEN Final ELSE IF disk # NoJob THEN disk ELSE Nothing

Withheld ==
  IF records = {} /\ disk # NoJob /\ disk.phase = "dart_verification"
  THEN DartCatalogRows \ RangeOf(disk.cands) ELSE {}
PagesAsCounted == Shows \subseteq {TRUE} /\ ServedSizes \subseteq {DartPageSize}

Promise ==
  INSTANCE BatchPromise WITH
    Relevant <- {r \in Receipts : Kind[r] = "evidence"},
    Scopes   <- {CatalogRows} \cup (IF UseDart THEN {DartCatalogRows} ELSE {}),
    Concealable <- IF PagesAsCounted THEN {} ELSE DartCatalogRows,
    withheld <- Withheld,
    settled  <- Durable.done,
    results  <- Durable.results,
    verdict  <- IF records # {} THEN "delivered"
                ELSE IF pc = "expired" THEN "expired" ELSE "open"

PromiseKept == Promise!Spec

=============================================================================
