# Specifications of the DART disclosure search server

The repository is a local MCP server (Python, one process, JSON-RPC over stdio) that searches
Korean corporate filings. It finds candidates through two channels, the undocumented body
search of the DART web site and the official OpenDART listing API, downloads filings, looks
for passages, and answers. Long jobs run in approved segments with a checkpoint file between
them. This directory holds TLA+ models of it, the TLC configurations that check them, and
TLAPS proofs.

Contents: 1 inventory, 2 the batch job, 3 the DART channel, 4 the interactive search, 5 batch
plans, 6 HTTP client and listing, 7 text caches, 8 the body search, 9 the probe, 10 amendment
chains, 11 runs and bounds, 12 fairness, 13 proofs, 14 where code and documents disagree, 15 what
is not modelled, 16 plan.

## 1. Inventory

### Process model

`app/mcp_server/server.py` reads one request per line and handles it to the end before it
reads the next (`main`, 150-180), so calls never interleave. What they share is what they
leave behind:

- in memory, lost when the process dies: batch plans, continuation tokens, the circuit
  breaker and the session state of the DART client, the session cache of texts;
- on disk: checkpoints (7 days), result records (24 hours), the text cache, the audit log.
  Files are written to a temporary name and renamed (`storage/atomic.py`), so a death of the
  process leaves either the old or the new content.

Inside a call two things run concurrently: the downloads of documents (thread pools in
`batch/service.py` and `orchestrator/engine.py`), whose results are consumed in row order, and the
first pages of the list windows, which `collect_lists` fetches ahead. Outside it, every MCP client
starts a server process of its own, and all of them use one cache directory without a lock
(`storage/ttl_cache.py`); the probe of stage 0.6 is a separate program with a lock file.

### Components

| component | state | operations | hard behaviour | correct when |
| --- | --- | --- | --- | --- |
| batch job (`batch/service.py`) | state dictionary: phase, cursors (unit, page, window, page, row offset), processed, results, diagnostics, calls, circuit snapshot | `preview`, `run`, `continue_run`, `export`; inside a segment: discovery, page, row batch, completion | pause at any page or row, rows that move while paused, batches that partly fail and rewind, fallback between channels, death of the process at any point | no filing lost, none twice, target respected, durable progress only grows, the job ends |
| checkpoint and record files (`storage/batch_store.py`) | JSON files | save, load, delete, cleanup | expiry while a job waits | a file is the last thing saved |
| batch plans (`storage/batch_store.py`) | issued plans, declined queries | issue, decline, consume, purge | one plan approved twice, a declined query asked again | consumed once, suppressed while the estimate has not grown |
| circuit breaker (`channels/health.py`) | status, class, count, blocked_until | before_request, success, failure, trip, snapshot, restore | blocks, probes, restored snapshots | DART is left alone while the circuit is open, and comes back afterwards |
| DART client (`channels/dart_fulltext.py`) | breaker, session mode, cached health | health_check, search_page, search_variants, search_date_windows | diagnosis and replay inside a search, deadline at any request, stale health cache | failures counted, probes are status checks |
| OpenDART client (`channels/opendart.py`) | none | list_page, collect_lists, download_document, company directory | budgets and deadlines inside a listing, resume cursor | nothing listed is skipped on resume |
| HTTP client (`http_client.py`) | deadline flags | request | retries, back-off and time-outs under one deadline; a timeout is for one socket operation | no attempt starts after the deadline |
| search engine (`orchestrator/engine.py`) | candidates, verified, rejected, token | execute, get_evidence | prefetch pool, budgets, soft and hard deadline, continuation | every candidate is verified, rejected, or pending behind a token |
| continuation tokens (`storage/continuation.py`) | token -> state | issue, consume, discard, cleanup | expiry, eviction, another lineage | a token is usable until it is replaced |
| text caches (`storage/session_cache.py`, `ttl_cache.py`) | LRU by bytes, files with expiry | get, put, cleanup | size limit, expiry, corrupted entries, two tiers, files that cannot be removed | what is read is what was last put, the directory stays within its limit |
| audit log (`storage/audit_log.py`) | one file | append_summary | size limit | one line per search |
| amendment chains (`research/amendments.py`) | none | `build_amendment_chains`, `_relation_analysis` | missing originals, filings of one day, withdrawals, candidates without flags, texts that name other cases | a complete chain is true, a filing is in one case |
| stage 0.6 probe (`probe/stage0_6/runner.py`) | lock, manifests, golden files, recorded requests | run, rebuild | death between two files, second run, rebuild beside a run, servers that answer oddly | golden files are of one completed run, what passed is true |
| plan builder, events, evidence | none | pure functions | ties | - |
| settings, rules, installer, other probes, gate, evaluation | none at run time | - | - | - |

### Interaction

`server.call_tool` calls the engine or the batch service. Both use the same `DartFulltextClient`
and hence the same breaker; the batch service also stores a snapshot of the breaker in every
checkpoint and restores it when a job is continued. The batch service and the engine use the
same OpenDART client, evidence matching and audit log.

The hazards of `PROJECT.json` list, at their lines, what in this is hard to test and which
property covers it, or why none does.

## 2. The batch job: `BatchJob`

One approved job of `batch/service.py` from its first segment to its end.

| variable | code |
| --- | --- |
| `job` | the dictionary `state` of the running segment; `NoJob` between calls |
| `disk` | the checkpoint file |
| `rows`, `row`, `last` | the page that the row loop holds, `row_index`, whether it is the last page |
| `pc` | the place in `_execute_segment` or `_discover_dart_candidates` |
| `records`, `audits` | the records written for the job, the number of audit lines |
| `told` | the caller has received the `job_id` |
| `fresh`, `dartFresh` | filings that DART has published since the approval, per window and unit |
| `crashes` | how often the process has died |

A dictionary keeps the cursors of the code (counted from 1), the candidates of the body search
(`cands`, in the order of the Python dict), the processed receipts (`done`), the result set and
its length, and the concurrency setting. Documents have one of four kinds: with a passage,
without one, unavailable for good with a code that the loop skips (`service.py:527`), and
failing always with a code that it does not skip. Transient errors are an action that may happen
to any download.

| action | code (`batch/service.py`) |
| --- | --- |
| `Run`, `Continue` | `run`, `continue_run`: dictionary from the request or from the file |
| `HealthOk`, `DiscoveryFallsBack`, `SearchPage`, `DiscoveryDone`, `DiscoveryStops` | `_discover_dart_candidates` 709-816 with its two saves and its different fallbacks |
| `FetchPage`, `PageStops`, `PagesDone`, `PageFinished` | the page loop 460-488, 609-620 |
| `RowsStop`, `SkipRows` | soft deadline 490-493, rows without a new receipt 503-505 |
| `BatchSucceeds`, `BatchRewinds`, `BatchRaises` | one concurrent batch 506-608: all handled, rewound at a failed row, ended by an exception |
| `Leave`, `SaveRecord`, `AppendAudit`, `DeleteCheckpoint` | the end of a segment and of a job 621-691 |
| `Crash`, `Expire`, `Publish` | death of the process, expiry of the file, a new filing at the top of a listing |

`SearchPage` reads the rows that DART puts on the page (`ServedSizes`) and goes by what the code
sees: a page with rows that does not show the number of hits ends its unit, and the number of pages
is reckoned at `DartPageSize` rows whatever DART serves (`service.py:780`, `dart_fulltext.py:219`).
The history field `strayed` of a dictionary records that a page was not what the code counts with.

Each action contains the save the code makes at that point. A rewind is modelled with what it
forgets and keeps: rows behind the failed one that were downloaded stay processed, so that the
repeated batch does not deliver them again.

Properties. `NoFilingLost`: a job that is about to write its record has processed every filing
that was listed when it was approved in the channel it ended up using, or has reached its
target; when a page of the body search strayed, what discovery did find is processed all the same,
and only rows that no page gave may be missing (`Coverage` says the same of every cursor on the
way). `NothingSilentlyDropped`: processed filings with a passage are results, results are
nothing else and none twice, unavailable documents are on the diagnostics list.
`TargetRespected`: no more results than asked for. `DurableProgress`: a save never forgets what the
one before it had. `RecordsAgree`: a completion repeated after a death writes the same record. The
liveness property is `JobCompletes`.

`BatchPromise` is the abstract specification: a growing set of settled filings, the results among
them, one delivery, and a set `withheld` of filings that the source keeps back, which may come out
once and be other than empty only for filings in `Concealable`. `PromiseKept` says that `BatchJob`
implements it, with `settled` and `results` read from the record if there is one, else from the
checkpoint: what the user can rely on is what is on disk. `withheld` is what a finished discovery
has not found; where DART serves pages as the code counts them, nothing is concealable.
`BatchJobInvariant` holds the two inductive invariants, `Coverage` and `Bookkeeping` (section 13).

## 3. The DART channel: `CircuitBreaker`, `DartChannel`

`CircuitBreaker` gives the operations of `health.py` as operators on a snapshot.
`blocked_until` is kept relative to the clock (`left`), so time needs no bound: one `Tick` ages
the breaker and every stored snapshot. `failure_count` stops at the larger threshold; nothing
distinguishes higher values. `opened_count` is only reported.

`DartChannel` puts the client and its three kinds of callers around it. One action is one step
between two places where something else can happen: a request that is sent, an answer, the end
of the wait, a return to the caller.

| action | code |
| --- | --- |
| `Search`, `Preview`, `RunBatch`, `ContinueBatch` | the calls; `RunBatch` stores the snapshot of the new dictionary, `ContinueBatch` restores the one of the file (`service.py:226`, 833) |
| `Probe` | `_probe_restored_circuit`, `service.py:885-900` |
| `Segment`, `PageDeadline`, `ListingPauses`, `ListingCompletes` | entry and ends of a segment; only the pauses take a new snapshot (438, 624) |
| `HealthBlocked`, `HealthKnown`, `HealthAsks`, `MainDoOk`, `MainDoFails` | `health_check`, `dart_fulltext.py:485-529` |
| `PageBlocked`, `PageAsks`, `SetupOk`, `RequestFails`, `PageOk`, `OddPage`, `OddAgain` | `search_page`, 531-621, with the diagnosis of an odd page and its replay |
| `OutOfTime` | `SEARCH_TIMEOUT_PARTIAL` of any request |
| `Tick`, `Restart`, `Repaired` | the clock, the death of the process, the end of DART's failures |

Where an outcome takes the caller is in `FallsBack`, `RunsOutOfTime` and `Healthy`: a search and
a preview end or go on with the next window, a batch job gives up discovery or pauses, a probe
always goes on with the segment. `cooling`, `streak` and `replaced` are history variables: the
time left of the last block that a failure in this process imposed, the network failures since
the last success of a search or a probe, and whether a checkpoint replaced the breaker since.

Properties. `QuietWhileOpen`: no request is on its way while the circuit is open, which the
diagnosis inside a search could break. `BlockSatOut`: a block ends early only through a restored
checkpoint. `StoredBlockHolds`: a block stored in a checkpoint holds for the job that carries it,
across restarts. `FailuresInARowOpen`: failures in a row open the circuit although status checks
succeed in between. `ProbeIsStatusCheck`: the first request after a block is a status check;
excepted are previews, and every caller once a checkpoint has replaced the breaker, which means
every continued segment and what follows it. `Recovers`: once DART works, searches bring the channel
back to HEALTHY.

Abstracted: requests always use the mode `contents`, so `ready` stands for `_active_mode`; the
request budget inside `search_page` and the explicit session reset, which no caller in the
server uses, are left out; one batch job at a time; what is found is not kept (that is
`BatchJob`); and `opendart.list_page` calls of a segment or a preview are only places where time
passes.

## 4. The interactive search: `InteractiveSearch`

`SearchEngine.execute` (`orchestrator/engine.py`) and the token store
(`storage/continuation.py`) as one chain: a search and the calls that continue it. The listing
is one sequence of pages, so a cursor (window, page) is a page number. `plan` tells five kinds of
strategies apart, "list" (S1, whose rows are the results), "fulltext" (S2, S3), "class" (a report
class that is only listed), "events" (S5) and "relation" (S6, S7), the last two of which do not stop
at enough results; each with an OpenDART key or without. `cache` is the text cache, which may lose
texts between calls and push one out when another is stored. History over the chain: `surfaced` (all
candidates of its answers), `judged` (those whose text was read), `gaveUp` (those whose document
failed, or was evicted before it was read), `behind` (those left when the token went on to the next
pages) and `delivered` (the results, each with its filings and those verified for it).

| action | code (`engine.py`) |
| --- | --- |
| `Search`, `Continue`, `TokenLost` | 176-201; a token is consumed, checked and discarded; age, eviction and restarts (`continuation.py`) |
| `GetEvidence` | `get_evidence` between two searches, which shares the cache |
| `DartAnswers`, `DartFallsBack`, `ListingOnly`, `KeyMissing`, `ListPages`, `FindingTimesOut` | candidates, 204-325; `collect_lists` is one step from the cursor to the budget or the end |
| `CallFails` | an error of a channel outside the fallback codes, 212, 319, 745-761 |
| `LoopTimesOut`, `EnoughResults`, `SkipProcessed`, `LoopDone` | the head of the loop, 335-350 |
| `TakeRow`, `LeaveUnread` | a row that is a result as it is; a candidate that no key can read |
| `ReadText` | cached text and its verdict, 364-366, 427-445 |
| `Fetch` | one batch of the pool, with any outcome for each download, 367-401 |
| `FetchTimesOut`, `FetchRefused`, `FetchFails`, `OverBudget` | what becomes of a candidate without a text, 402-426 |
| `Answer` | token, status and grade, 447-584; the results, which for S6 and S7 are chains of amendments with all their filings (`Groupings`, `Results`; 559-564, 613-646); at most `ResultBudget` of them are given |

A download counts one request, or two when OpenDART answers 900 and it is repeated
(`opendart.py:404`); one that the deadline cut off may count none. `SEARCH_TIMEOUT_PARTIAL` does
not mean that the deadline has passed: the HTTP client raises it for a back-off that would not
end in time and for any network error of a shortened timeout, so the loop may go on after it.

Which cached candidates form a chain of amendments is left open here, as any disjoint groups out of
`Chains`; what the texts make of them is the module `Amendments`. `_relation_analysis` returns the
verified cases of S5 as they are, so only "relation" groups.

Properties. `NoCaseTwice`: no filing is verified for two results of a chain of calls, although the
two channels share filings and every call finds its candidates anew, and no filing is in two
results; except that S6 and S7 give a chain of amendments again, under the same number when it is
the same chain, when another of its filings is verified by a later call. `WithinBudget`: batches are
sized by what is left. `NoneForgotten`: a chain that ends as completed with the grade "complete" has
read, or failed to have, every candidate it has shown, but for those of a call whose token went on
to the next pages of the listing. `CompleteIsComplete` is the same without that exception, and
fails: it is checked only in the run that shows so (section 14). Both take a document that failed or
was evicted for done with, as the code does; the documents ask for more (section 14).

Abstracted: the bias of results that DART cuts off and the page contract, both of which lower the
grade (their origin is in `DartSearch`); the rule that drops an unscoped listing; the clarification
questions and the batch recommendation. The soft deadline, which ends calls that have enough
results, leaves the same token as the hard one and is part of `LoopTimesOut`.

## 5. Batch plans and their files: `BatchPlans`

`BatchPlanStore` and the two record stores (`storage/batch_store.py`) as `preview`, `run`,
`continue_run` and `export` (`batch/service.py`) drive them. A call is not one instant: the clock
goes on inside it, so a plan may expire between being read and being consumed, and a preview holds
no plan while it estimates. A `Lineage` is what the service keys refusals by (query, company,
types); `Weight` is days times target.

| action | code |
| --- | --- |
| `PreviewUnresolved`, `PreviewSuppressed`, `PreviewReuses`, `PreviewEstimates`, `PreviewOffers` | the ways through `preview` and `lookup`, then `issue` after the estimate |
| `PreviewRaises` | an exception of the estimate that is none of the three it catches (`service.py:311`, 330); what `lookup` took away is not put back |
| `RunRefused`, `RunReads`, `Declines`, `Starts`, `AssertionFails` | `run`: `get`, then `decline` or `consume` with the first save |
| `Pauses`, `Completes`, `Continues`, `NotContinued`, `Exports` | what a segment and the later calls do to the files |
| `Tick`, `Crash` | the clock; the death of the server, which takes plans and refusals with it |

Every operation purges first (`Alive`, `Pointers`, `Refused`), every call cleans the stores it
cleans in the code. What the user has been told is history: `offers`, `refusals`, `paused`,
`finished`. `DecidedOnce`: no plan is declined and started, or started twice. `OfferHolds`: a plan
can be approved, a paused job continued and a finished one exported for the whole time promised.
`RefusalHolds`: no narrower plan of a refused query for thirty minutes, unless the user has asked for
a wider one in between; the asking is enough, because `lookup` lifts the refusal before the estimate
(`batch_store.py:44`), which may raise and offer nothing.

## 6. HTTP client and listing: `HttpClient`, `ListCollection`

`HttpClient` is `HttpClient.request` for a set of threads that share one deadline: attempts,
shortened timeouts, back-offs. Time passes only while somebody waits. The timeout handed to urllib
is for one operation of the socket, so an attempt whose server keeps sending may go on to another
operation with the same timeout (`GoesOn`, at most `MaxOperations`), beyond the deadline too.
`InTime` says what holds all the same: no attempt starts and no pause ends after the deadline, and
an attempt that gets no answer to its first operation is given up by then.

`ListCollection` extends it with `collect_lists` and `list_page` (`channels/opendart.py`): threads
that fetch first pages ahead (`Asks`, `Reads` for each of them), the loop over windows and pages
(`TakesAhead`, `BudgetEnds`, `ListsPage`, `PageComes`, `PageFails`, `Completes`) and the caller, who
resumes at the cursor after a spent budget and at the old one after a deadline (`Begin`,
`engine.py:300-325, 463-470`). `Publish` puts a new filing at the top while the listing is read.

`NothingLost`: every filing listed when the search began and lying before the cursor has been
collected, through shifting pages, pages fetched ahead and resumed calls. `BudgetKept`: every request
that a thread's `list_page` hands to the HTTP client is charged, a repetition after status 900 being
all that exceeds the budget; what the HTTP client repeats inside one request counts once.
`CursorMoves`: a call that stops at its budget ends further on than it began, so a chain of
continuations gets to the end.

## 7. Text caches: `TextCache`

`storage/session_cache.py` in each of several server processes and `storage/ttl_cache.py` on the
directory they share. One step is one call of the file system: `DiskLooks`, `DiskReads`,
`Discards` for a read with its expiry and checksum, `Puts`, `Replaces` for a write through a
temporary file, `CleanupLists`, `CleanupRemoves` for the clean-up behind it; `SessionHit`,
`PutSession` stay in memory. Another process, the clock and the death of a process come between.
A removal is by name, so it may take what another process has put there since. Any of them may fail,
as they do on Windows for a file that is open elsewhere: `_discard` says nothing, and the size counts
as gone (`ttl_cache.py:135-145`). `CleanupFails` is a `stat` that raises something other than
`FileNotFoundError` and ends the clean-up half-way (122). `stuck` is history: the files that a
clean-up left behind since somebody listed last.

`SessionExact`: the byte count is that of the texts held, each once, within both limits.
`DiskBounded`: once every writer has cleaned up, the directory is within its limit, however the
clean-ups interleave, not counting the files in `stuck`: those whose removal failed, or that were
there when a clean-up raised or died with its process. They count again as soon as anybody lists.
`SessionStaysOffDisk`: what was only fetched in the mode "session" never reaches the disk. That the
text read is the text put is not a property here: a receipt's text never changes, and the files
carry a checksum.

## 8. The body search: `DartSearch`

The loops of `channels/dart_fulltext.py` above `search_page`: `search_variants` over queries and
pages, `search_date_windows` over windows, `merge_duplicate_rows`. A page is an action
(`Page`, or `OddPage` with the status check and the replay that cost two more requests), `SetUp` the
session, `PageFails` any error of a request, `Grows` a filing published today that shifts every row.
`size` is how many rows DART really puts on a page; the client computes with ten, and
`ContractChanged` (235-255) is what it can notice of a difference. A page may also not show the
number of hits: `EstimatedPages` is then none (219), the query ends with the page (660), and nothing
notices; `uncounted` is history of that. A row has the tag of the body, of an attachment, or of
neither, which the parser calls "mixed" (189).

`CompleteWindowsAreWhole`: a window that is called complete holds every filing its queries found
when the search began, and the windows together the whole period, as long as the diagnostics do not
say that the page contract changed and every page with rows showed its number of hits.
`BodyHitsKept`: the merged row of a filing counts as a body hit exactly if one of its rows was one,
or if the first of them has neither tag. What a request does to the circuit breaker is in `DartChannel`.

## 9. The probe: `ProbeGates`, `ProbeRun`

The stage 0.6 probe measured what the DART channel is built on. `ProbeGates` gives its five
measurements as functions of a server, each with the number of requests it makes and its verdict:
does a search follow the term of the last mode request, how many rows does a page have, may a period
be cut into windows, do withdrawal and bond flags mean what they seem to.

`ProbeRun` is the life of a run: the lock file (`Enter`, `Refused`, `Unlock`, and `RemoveLock`, by
hand, after a death), requests under a limit, a deadline and a CANCEL file (`Request`, `NotRun`,
`Stops`, `RequestFails`, `Signalled`), the golden files one after the other, their list and the
manifest (`WriteGolden`, `ListGolden`, `Exit`), death at any point (`Die`), and
`rebuild_current_golden`, which judges the documents of a completed run again and rewrites some of
the files without the lock (`RebuildStarts` to `RebuildDies`).

`GoldenIsOneRun`: when the manifest says "completed", all golden files, their list and the verdicts
in the manifest are of that run, unless a rebuild was killed or ran beside a run. `VerdictsSound`:
a verdict "passed" is true of the server; for the term switch, as far as its answers can be told
apart.

## 10. Amendment chains: `Amendments`

`build_amendment_chains` and `_relation_analysis` over every history of a few filings: which filing
corrects which (the truth, which the code does not see), on which days, what the text of each
correction states of the corrected one, which texts are in the cache. The field for a related filing,
which is read like a stated original (`amendments.py:14-16`), may be in any text and may name a
filing of another case (`related`). Flags for what was corrected or withdrawn come with filings of
the OpenDART listing only (`flagged`); candidates of the body search have none
(`dart_fulltext.py:308-310`). `Roots` is the union-find of
the code, one link after the other, with the least root that `union` keeps; the filings are linked
in the order of their receipts, where the code takes them in the order of the cache (the classes are
the same). Groups are the filings of one root. `RelationsSound`: a complete chain, and the comparison
of its ends, are of one case whenever the cache holds all filings of the cases it meets and none of
its related-filing fields leads to another (`Sincere`); the filing in force was neither corrected nor
withdrawn if it has flags, and no later text of the cache links to it in any case; a filing and what
it links end in one chain, although later links join what is joined already; every verified case is
in exactly one result, and every result has one.

## 11. Runs and bounds

| run | module | question | size |
| --- | --- | --- | --- |
| `batch_job` | `MCBatchJob` | safety, `DurableProgress` and `PromiseKept` of an exhaustive job | 5 + 1 filings, windows of 4 and 1 rows, pages of 3, batches of 3, two units of the body search that share a filing, their pages counted as 2 rows and served with 1 or 2, with the number of hits or without, settings 3 and 4 with a maximum of 3, one filing published meanwhile, two deaths |
| `batch_job_target` | `MCBatchJob` | the early stop at `target_count`, the record, and `JobCompletes` | 4 + 1 filings, pages of 2, batches of 2, target 3, one death |
| `batch_job_stall` | `MCBatchJob` | a disagreement, section 14 | the same, exhaustive, one broken document |
| `dart_channel` | `DartChannel` | safety of the channel and `Recovers` | blocks of 1 and 2 units, thresholds of 2 |
| `interactive_search` | `MCInteractiveSearch` | safety of a chain of calls | 3 filings, one found by both channels, one without a passage, two that may form a chain; all kinds of searches; a result budget of 1, a document budget and a pool of 2, a listing of two pages of one row, one page per call |
| `interactive_pages` | `MCInteractiveSearch` | a disagreement, section 14 | the same, budgets of 3, body searches only |
| `batch_plans` | `MCBatchPlans` | decisions and promises to the user | four searches of two queries, one half as wide again as another and one not; three plans, life times of 1 and 2, a clock of 4 |
| `list_collection` | `MCListCollection` | the listing and its requests | windows of 3, 0 and 3 rows, pages of 2, two threads, a budget of 3, deadline 5 with timeouts of 2 and two retries, four calls, at most two socket operations in an attempt, one filing published |
| `text_cache` | `MCTextCache` | two processes on one directory | three texts, one twice as large, two texts and 2 bytes in a session cache, 1 byte on disk, expiry after 1, one death |
| `dart_search` | `MCDartSearch` | complete windows and merging | five days, windows of 1, 2 and 5, two queries with 5 rows each, pages computed as 2 and really 1, 2 or 3, with their number of hits or without, rows of all three parts, a budget of 10 |
| `probe_run` | `MCProbeRun` | golden files and verdicts | seven servers, a run and a web-only run, 32 requests, one rebuild |
| `amendments` | `MCAmendments` | chains and cases | all histories of four filings of which two are of one day, all or none with flags, one related-filing field |

Why these are enough. The row loop of a batch job has three regimes, a batch within a page, a page
boundary and a window boundary, and a rewind needs a failed row with a success behind it; pages of 3
with batches of 3 and a window of 4 rows contain every combination, and a new filing at the top
moves a row across the page boundary while the job is paused. A second publication only repeats the
shift, and the proofs of section 13 do not bound it. Two deaths allow one before and one after the
record. The two units of the body search have result pages of one and of two rows where the code
counts with two, the last one with one row left, and any page may be without its number of hits: so
a unit ends early, on time and with a page too many. In the channel, the two lengths of a block
differ so that a shorter one can replace a longer one; the shortest threshold at which a count
matters is 2, which is also the value in `config/defaults.py` for both classes.

In a chain of calls, three filings with a result budget of 1 and a document budget of 2 leave one
filing beyond either; the listing needs two calls, so its cursor goes on behind candidates;
the number of calls is not bounded, because a token's processed set only grows. Three plans are one
that is decided, one that replaces it and one of another query. A listing has a window with a second
page, one without rows and one after it; its budget of 3 is spent by fetching two pages ahead and one
more, and four calls are one more than it needs; two socket operations are the fewest that carry an
attempt beyond the deadline. Two texts that compete for the session cache and for
the disk, one of them twice as large, give evictions of none, one and two entries. A body search with
five rows has full, short and missing last pages for each page size, and rows of each part before
and behind rows of another of the same filing. The seven servers of the probe
each change the answers of the measurements that are to notice it. Corrections of corrections,
siblings and two cases on one day need four filings; a chain takes its flags from its last filing,
so flags for all or for none show both cases.

`CHECK_DEADLOCK` is off in `amendments` alone, where an analysis is the end; elsewhere the system can
always go on or a step named `Terminated` or `Rests` says where it may stop.

## 12. Fairness

`BatchJob!FairSpec`: weak fairness for the steps the process takes by itself and for the user's
approval of the next segment; strong fairness for the answers of the network (a status check, a
result page, a list page, a batch whose downloads succeed), because they are retried in every
segment and a channel that fails for ever rightly holds the job. Strong fairness of the three
outcomes of a batch together says that downloads come to an end. No fairness for publications,
deaths, pauses and expiry.

`DartChannel!FairSpec`: weak fairness for local steps; strong fairness for the clock, for
searches (the user goes on), and for the successful answer of each request, which competes with
the deadline (`OutOfTime`). `Repaired` is not fair: `Recovers` speaks of the time after it.

The other modules state no fairness. Nothing in them is promised to happen: a user need not approve
a plan, continue a search or run a probe again. Where something must not stand still within what
the user asks for, a step property says so (`CursorMoves`).

## 13. Proofs

All theorems hold for every value of the constants that satisfies the named assumptions, which TLC
evaluates in every run:

| module | assumptions | what they say |
| --- | --- | --- |
| `BatchJob` | `ReceiptsAssumption`, `LimitsAssumption`, `NoJobAssumption` | finite listings of known filings, positive sizes (of the pages that DART serves too, which may be any), the value for an absent job is not a job |
| | `ListingAssumption` | a window lists a filing once, as OpenDART's receipt numbers are unique; a row is compared with the processed filings and not with its own batch (`service.py:497`), so a repeated one would count twice |
| `CircuitBreaker`, `DartChannel` | `BreakerAssumption`, `NoJobAssumption` | positive thresholds and blocks |
| `InteractiveSearch` | `SearchAssumption`, `BudgetAssumption`, `NoTokenAssumption` | finite listings, positive budgets |
| `BatchPlans` | `ScopesAssumption`, `TimesAssumption` | positive weights and times to live |
| `HttpClient`, `ListCollection` | `HttpAssumption`, `PauseAssumption`, `ListAssumption` | positive timeouts, any number of socket operations in an attempt; a back-off is a number; a filing published later is not in the catalog |
| `TextCache` | `CacheAssumption` | positive sizes and limits |
| `DartSearch` | `SizeAssumption`, `ListedAssumption` | positive sizes; results are finite, newest first, within the period, and a filing published today is a new one |
| `Amendments` | `CountAssumption` | there is a filing; the proof does not use that days follow receipts (`DatesAssumption`) |
| `ProbeGates`, `ProbeRun` | `GateAssumption`, `RunAssumption`, `ServersAssumption` | finite inputs of the measurements; what is counted of a server is a number |

### Batch job

- `BatchJobProofs!TypeCorrect`: `Spec => []TypeOK`.
- `CoverageAlways`, `NothingLost`: `NoFilingLost` is not inductive, because it speaks only of the
  end. `Coverage` says for the dictionary in memory *and* for the one on disk that every filing
  before a cursor is processed (or, for candidates of the body search, is one published after the
  approval), and for a page in the row loop that its rows up to `row` are processed and that a row
  of the window is behind the page, on it or after it. The core of the argument: rows only ever move
  away from the start of a window, so a cursor that counts rows can fall behind but never run ahead;
  publications preserve the claim; for a unit of the body search it holds while `strayed` is false,
  and what was found is a candidate or processed in any case; a crash falls back on the dictionary
  on disk, for which the same claim holds. The listings are arguments of the invariant's operators
  so that steps of the job and publications are separate lemmas.
- `BooksKept` is the second inductive invariant, `Bookkeeping`: every dictionary adds up
  (`Balanced`: each processed filing is a result, a diagnostic or without a passage, and the count is
  that of the results), a running segment only adds to its checkpoint and never turns a filing that
  was processed into a result later (`Continues`), and once a record is written the segment that
  repeats the completion walks to the end with the same dictionary (`Concluded`). From it follow
  `AllAccounted` (`NothingSilentlyDropped`), `TargetKept` (`TargetRespected`), `RecordsSame`
  (`RecordsAgree`) and `ProgressDurable` (`DurableProgress`). `Distinct` is what a batch needs: its
  rows are new to the job and different from each other, so the count grows by as many as the set.
- `JobKeepsPromise`: `BatchJob` implements `BatchPromise`. What is withheld is settled when a job
  leaves its discovery: the candidates do not change from then on (`CandidatesComplete`,
  `WithheldOnce`), and nothing is withheld where pages are as the code counts them, because then no
  dictionary strays (`Balanced`). The steps fall into four groups: those
  that leave checkpoint and records alone stutter, a save settles what it adds (`Continues`), the
  first record delivers what the checkpoint holds while one written again changes nothing
  (`Concluded`), and a checkpoint that goes away is either recorded or given up.

### DART channel

- `DartChannelProofs!ChannelTypeCorrect`: `Spec => []TypeOK`.
- `MemoryKept`: `ChannelMemory` (`QuietWhileOpen`, `BlockOwned`, `StreakCounted`) is inductive
  together with `TypeOK`. The parts need each other: a failure is recorded only while a request is
  out, `QuietWhileOpen` says that the circuit was not open then, hence the block in force is always
  the last one imposed, and the breaker's count of the class "network" has followed the row of
  failures. `NoRequestWhileOpen`, `BlocksSatOut`, `FailuresOpen` are its consequences for
  `QuietWhileOpen`, `BlockSatOut` and `FailuresInARowOpen`.
- `StoredBlocksHold`: while the dictionary of a running segment carries a block, the breaker is in
  one at least as long (`StoredOwned`); with `QuietWhileOpen` no request is made then, so no outcome
  can end it.
- `ProbesAreStatusChecks`, from `ProbesFirst`: a confirmed channel has not been blocked since; a
  segment that skips the status check of its start was continued, so its breaker is a checkpoint's,
  or has been probed; and who comes to search finds the channel calm or the block not over. Time
  only passes for the breaker between calls and while a request or a listing is under way, so a
  block cannot run out between that look and the request.

### Batch plans

- `BatchPlansProofs!PlansTypeCorrect`, `DecisionsOnce`, `OffersKept`, `RefusalsHold`, from one
  invariant. `DecidedOnce` needs that a live plan is undecided and that identifiers are drawn once
  (`Undecided`, `PlansOwned`); `OfferHolds` that no operation but the one that decides it removes a
  plan that has not expired (`OffersLive`), which holds because a plan is only replaced when its
  lineage has none alive (`EstimatedAlone`), and that the files are as young as the promise
  (`FilesKept`); `RefusalHolds` that the store knows every refusal in force and no estimate for its
  query is under way (`RefusalsKnown`), whichever way earlier estimates ended. The clock moves
  inside calls, so each of these parts is stated for the plans that are alive *now*.

### Interactive search

- `InteractiveSearchProofs!NothingTwice`: what was verified for a result is in the processed set of
  the token or of the call that consumed it (`Remembered`), and a call verifies nothing of that set,
  not even after the download in which it stays at its candidate (`Distinct`). A filing given with a
  chain need not be in that set, which is why chains may meet in S6 and S7; outside them the results
  are single verified filings (`Apart`).
- `SearchTyped`, `BudgetHolds`: the candidates are what `Merged` makes of two channels, shown to be
  a sequence of exactly their filings; a batch is cut to what is left of the budget, so the last
  download that may count twice starts within it.
- `CompletedIsThorough`: `ASSUME Lists PROVE Spec => []NoneForgotten`. `Lists` says that the query
  names a report type to list or wants more results than the body search has hits, so that every call
  lists; without it the property is false (section 14). The listing may need any number of calls.
  The invariant `Thorough` follows what is owed, the candidates shown and not yet decided about: they
  lie before the place where the token goes on, or the call that has consumed it (`Owing`); a call
  that reaches its loop in time has found all there is up to the page it goes on with, unless it fell
  back (`Surfacing`); verified and preliminary cases together are at most the candidates passed, and
  if they are as many, they are all of them (`Counting`, which is what the code's `pending` relies
  on); a candidate is answered for only after its text was read or could not be had, unless there is
  no key or no budget (`Judging`); and a completed answer ends the chain (`Ended`).

### Listing

- `ListCollectionProofs!RequestsInTime`, `ListTypeCorrect`. `InTime` is inductive with the types and
  the fact that a back-off is followed by another attempt: an attempt begins while time remains, its
  first timeout is cut to what does, a pause is begun only when it ends in time, and time does not
  pass the first end of those that wait. Nothing is claimed of an attempt's later socket operations.
- `CursorAdvances`: until the cursor has moved either nothing is charged or the first page is among
  those fetched ahead, and the loop takes that one before it looks at the budget (`Advance`).
- `BudgetCharged`: what has been requested, the requests that threads owe and the repetitions they
  may still make are together at most the budget and one for each thread (`ChargedSoFar`). The sum
  is what never grows: a request moves one from owed to sent, status 900 one from spare to owed.
- `NoFilingLost`: `NothingLost` becomes inductive by saying it for the cursor and for the place
  where the call began, each with the filings a failure at that moment would leave, and for every
  page at hand that it holds what lies between it and what was collected (`Kept`). The core is again
  that rows only move away from the start: `Later(w) + i` never falls, so the claim about a page
  read earlier stays true when filings are published after it was read.

### Text caches

- `TextCacheProofs!CacheKept`: the invariant `CacheInv`, with `CacheTyped`, `SessionCounted`,
  `DirectoryBounded` and `SessionTextsStay` as its consequences. Both tiers compare sums of sizes
  with a limit. The sum is a fold over a set, so the first part of the module shows what it is: the
  recursive function behind it exists, its value does not depend on which element goes first, and
  it is additive. `SessionExact` then follows along the puts, evictions and expiries of one cache.
- `DiskBounded` needs `Settling`, because a clean-up decides from a listing that is out of date when
  it removes: once no process has a listing still to make, the directory is within its limit, or the
  process that listed *last* is removing and what its removals leave is within it; files in `stuck`
  are not counted. Nothing but a put adds a key, and whoever puts lists afterwards; removals of
  others only help, and a removal that fails adds its file to `stuck`.
- `SessionStaysOffDisk` needs `Counted`: a text on its way to the disk is one fetched to be kept.

### Body search

- `DartSearchProofs!SearchTypesHold`, `WindowsAreWhole`, `BodyHitsStay`. `CompleteWindowsAreWhole`
  speaks of windows that are done; `Searching` says what holds on the way: every query before this
  one has given all its rows of the window, and every row listed at the beginning that now stands
  before the page asked for has been read. A publication puts a row on top and moves the others down,
  so a place before the page holds either the new row or one that was before the page already.
- The size of DART's pages is free. `PageRead` shows why two comparisons are enough: a first page
  with the expected number of rows, on a result that has a second one, can only be one of the size
  the client computes with; and if the first page is also the last, its number of rows is that of
  the result. Hence a second page is asked for only when `size = PageSize`, or the contract is marked
  as changed.
- `DatesCovered`: the windows of `dart_date_windows` leave no day out, for every length.
- A page without a number of hits sets `uncounted`, from which point the claim is not made; the
  guard belongs to the property and not to the model.
- `MergedKeeps`: what the rows of a filing merge to is a body hit exactly if one of them was or the
  first has neither tag.

### Probe

- `ProbeRunProofs!OneRunWorks`, `VerdictsAreTrue`, `GoldenStaysWhole`, from the invariant `Kept`.
  `Measured` says of every run that its verdicts are those of the measurements it has finished and
  that "passed" is what the measurement answers; `Undisturbed`, unless a rebuild was killed or ran
  beside a run, that what a run has written is its own (`RunWrites`) and that what a rebuild has not
  written yet is as the manifest it began with says, which the manifest still does (`RebuildsRoot`).
  That the lock names the only run at work is part of the types, since nothing else keeps two runs
  from writing.

### Amendment chains

- `InteractiveSearchProofs!RelationsHold`: `ChainsSpec => []RelationsSound`. The analysis is a part
  of the search engine, so its theorem stands in the last section of that module, which extends
  both; the names of `Amendments` are kept apart from those of `InteractiveSearch` for that. The
  invariant is `Given` (every filing corrects an earlier one or none, and what is confirmed is
  cached) with `Told`: before the analysis nothing is told, after it what the operators make of the
  listing, which the step leaves alone (`SameListing`).
- What they make of it is shown of the union-find. Each union keeps equal roots equal and makes
  those of its two ends equal (`OneLink`), hence no link is lost (`RootsKept`, `LinksKept`). That
  nothing else is joined is an induction over the links (`GroupsOneCase`): two filings whose roots
  differed before a union and agree after it were joined to its two ends, which are of one case when
  the link is. The ends belong to the same final group, so the condition on the cache is needed for
  the filings of that group only.
- `LinkIs`: a stated receipt leads to a filing of the same case by the recursion of `Firsts`
  (`FirstIs`), where a related-filing field does not say otherwise (`Sincere`); a stated day does
  when the case is cached, because the first filing is then among the candidates of the day, and the
  only one.
- The groups are a partition of the cached filings (`Partition`), from which `CasesSound` gets that
  every verified filing is in exactly one result.
- That no later text links to the filing in force needs no truth at all: it is the last of its chain,
  and a link keeps its two ends in one chain.

### How recursive definitions are reasoned about

Loops and folds of the code are recursive functions. That such a function exists, and what it
computes, is shown by least counterexample: if a fact failed for some number, it would fail for a
least one (`LeastNumber`, from the theorem `WFMin` on well-founded orders), and for a least set in
`TextCacheProofs`. So the loops that merge candidates, select and merge rows, cut a period, sum
sizes, join corrections and judge a server are proved for inputs of every length.

The new parts of each invariant were checked by TLC, on the instance of the run of its module, before
they were proved.

### Model-checked only

- `JobCompletes` and `Recovers`: the prover has no rules for ENABLED, and so none for fairness.
- `CompleteIsComplete` is false; the run `interactive_pages` shows it. `NoneForgotten` stands in its
  place in the run `interactive_search`.

Every other invariant and action property that a run checks is a theorem.

## 14. Where the code and its documents disagree

Shown by a run:

1. `batch_job_stall`: a document that fails for ever with a code outside the list of
   `service.py:527` holds the job at its row, which the comment above that line and
   `DECISIONS.md:14` say cannot happen.
2. `interactive_pages`: a token of an unfinished listing goes on behind candidates that were
   listed and not verified; the chain later answers "completed" with the grade "complete"
   (`DEVELOPMENT_PLAN.md:1229`). The same happens when the body search can make the listing
   unnecessary (`AlwaysLists` FALSE, as many hits as results are wanted): in one call the body search
   fails, the listing stands in for it and the deadline ends the loop; in the next the body search
   answers, nothing is listed, and the rows of the first call are judged by no one. `NoneForgotten`
   excepts the first and `Lists`, the hypothesis of its proof, excludes the second.

Seen while modelling, without a run of their own. Paths are under `src/app`.

Batch jobs:
- A result page with rows that does not show the number of hits ends its unit, and the number of
  pages is reckoned at ten rows each whatever DART serves (`batch/service.py:780`,
  `channels/dart_fulltext.py:219`); discovery never looks at the flag of a changed page contract. A
  job may therefore be recorded as complete with rows unread. Hence the exception in `NoFilingLost`
  and `withheld` in `BatchPromise`.
- `search.document_concurrency` above the built-in maximum is accepted by `load_settings` and
  clamped where batches are sized, but `AdaptiveConcurrency` refuses it, so the first document error
  ends the segment with an exception and nothing is saved (`batch/service.py:535`).
- Continuing a job overwrites a block that another call has just imposed with the older snapshot of
  the checkpoint (`batch/service.py:226`; `DEVELOPMENT_PLAN.md:876`), which is why `BlockSatOut`
  excepts replaced breakers.
- A death between the audit line and the removal of the checkpoint repeats the audit line
  (`batch/service.py:674`); a preview after a block probes the channel with a search
  (`batch/service.py:315`), which is why `ProbeIsStatusCheck` excepts previews.
- `run` answers "declined" although the plan expired after it was read, and fails an assertion when
  it expires before it is consumed (`batch/service.py:186-200`).
- A refusal protects only until a wider plan of the same query was asked for: decline width 2, be
  offered and start width 3, and width 2 is offered again within thirty minutes (`DECISIONS.md:355`).
  The asking is enough: `lookup` lifts the refusal before the estimate (`storage/batch_store.py:44`),
  and the estimate catches `SearchError`, `TypeError` and `AttributeError` only
  (`batch/service.py:311`, 330); after any other exception nothing wider was offered, the plan that
  was outgrown is gone, and a narrow one is offered at once.
  The engine's batch recommendation does not ask for refusals at all (`DEVELOPMENT_PLAN.md:946`).

Interactive searches:
- `pending` counts candidates that earlier calls have handled, so a chain in which they turn up
  again gets tokens for ever (`orchestrator/engine.py:452`; `DEVELOPMENT_PLAN.md:1297`).
- A download that fails, for a passing reason too, and a text evicted before it is read make their
  candidate processed for good (`engine.py:402-406, 419-422`), and the chain may end with the grade
  "complete", which is to say that all document verifications are done
  (`DEVELOPMENT_PLAN.md:1229, 1232`). `NoneForgotten` and `CompleteIsComplete` grant the code this.
- A download cut off by the deadline counts as processed when its batch has used up the budget, and
  no continuation retries it (`engine.py:423`; `DECISIONS.md:333`).
- A listing that fails after the body search has found something is answered as partial with the
  grade "complete" (`engine.py:973`; `DEVELOPMENT_PLAN.md:1225, 1231`).
- S5 to S7 may verify more cases than `result_budget`; the answer is cut (`engine.py:564`), but the
  receipts of the rest are marked as processed, so no call ever gives them.
- S6 and S7 group what they verified with everything cached: a chain of A and B that is given for A is
  given again, under the same number, when a later call verifies B (`engine.py:613-646`,
  `research/amendments.py:106`). Hence the exception in `NoCaseTwice`.
- A listing that takes longer than the deadline makes no progress: the pages of the call are dropped
  and the next one begins at the same place.

Body search:
- A changed page contract lowers the engine's grade only; `search_date_windows`
  (`channels/dart_fulltext.py:706`) never looks at the flag, so a window may be called complete with
  rows missing. A page with rows but without a number of hits ends its query as complete, and no flag
  says so (219, 660). Hence the two guards in `CompleteWindowsAreWhole`.
- An earlier bias flag can be set back to false (`dart_fulltext.py:651`); a budget spent exactly on
  the last page of a query leaves the later queries unsearched without a flag
  (`DEVELOPMENT_PLAN.md:444, 1229`); the loop over windows notices both, as it compares the count
  with the budget itself.
- The rows body, attachment, body of one filing merge to "body" instead of "mixed"
  (`DEVELOPMENT_PLAN.md:2316`), and a row with neither tag counts as a body hit when it comes first
  (`dart_fulltext.py:189, 283`). When setting up the session uses up the budget, what was found
  before is lost.

HTTP client: the timeout is handed to urllib, which applies it to each socket operation
(`http_client.py:135-139`); a server that sends slowly holds a call beyond its hard deadline. An answer
that is broken off (`http.client.IncompleteRead`) leaves the client as it is.

Caches, probe, chains:
- `_discard` swallows the error of a removal and `cleanup` takes the size off all the same
  (`storage/ttl_cache.py:135-145`), so a directory whose oldest files are open elsewhere stays over its
  limit until the next clean-up, which counts them again.
- The clean-up of one process may remove the temporary file of another, whose `os.replace` then
  raises and ends its search (`storage/ttl_cache.py`; `DEVELOPMENT_PLAN.md:623`); `Replaces` has
  that outcome.
- The rebuild of golden files takes no lock and may put an older "completed" manifest over that of a
  running run; the lock of a dead run stays until somebody removes it. `query_switch` passes and
  `date_window` passes in part when every page is a maintenance page, because equal failures agree.
- Candidates of the body search carry no remark flags (`channels/dart_fulltext.py:308-310`), so with
  them the filing called in force may be one that was withdrawn, or corrected by a filing the search
  did not see; and the field for related filings, which `_RECEIPT_LABEL` reads like a stated original
  (`research/amendments.py:14-16`), may join two cases to one confirmed chain. Hence the conditions on
  flags and fields in `RelationsSound`.
- A chain whose first member is itself a correction may be complete and confirmed
  (`DEVELOPMENT_PLAN.md:2843`), and a match by date is unique only among the cached filings; hence
  the condition in `RelationsSound`. The event graph calls a share exchange that was filed earlier
  on the same day "confirmed: tender precedes" (`research/events.py:86`).

## 15. Not modelled

Parsing of pages and documents, matching of passages, formatting of answers, CSV export, paths,
hashing and redaction: pure functions or I/O on data that the properties do not tell apart. The
matching appears as the kind of a document or a verdict left open. The plan builder chooses one of
the strategies of `InteractiveSearch` by the words of the request. The event graph and the
comparison of numbers between corrections compute from texts. The installer, the release gate, the
evaluation and the earlier probes (stage 0, 0.5, the session life cycle) are one-shot scripts whose
state is a report. The size limit of the audit log drops old lines, and nothing says which must
stay. Several servers share only the cache directory here: two of them continuing one batch job, or
writing one audit log, is not modelled, since the documents speak of one local user who makes one
call at a time.

## 16. Plan

The modules of the plan are done: the batch job with `BatchPromise`, its plans and files, the
channel, the interactive search, the listing with the HTTP client, the caches, the body search, the
probe, the chains; and every safety property that a run checks is a theorem. What the prover cannot
reach is listed in section 13, and what is not modelled in section 15; of that, the event graph of
S5 and the comparison of numbers between corrections come first, as they are what a user of the
relation strategies reads.
