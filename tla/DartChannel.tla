---------------------------- MODULE DartChannel ----------------------------
(***************************************************************************)
(* The DART body-search channel: the client of                             *)
(* app/channels/dart_fulltext.py, its circuit breaker, and the three kinds *)
(* of calls that share them in one server process: an interactive search   *)
(* (orchestrator/engine.py), the preview of a batch job and the segments   *)
(* of a batch job (batch/service.py), which also carry a snapshot of the   *)
(* breaker in their checkpoint.  Calls are handled one after the other;    *)
(* what they share is the state they leave behind.                         *)
(*                                                                         *)
(* An answer of DART is "ok", "odd" (a page without results, zero marker   *)
(* or search form), "refused" (4xx other than 408, 425, 429) or "network"  *)
(* (everything else, after the retries of the HTTP client).                *)
(***************************************************************************)
EXTENDS CircuitBreaker

CONSTANTS NoJob   (* no batch job in memory, or no checkpoint               *)

VARIABLES
  breaker,    (* the breaker's state                                        *)
  ready,      (* _active_mode: the session is set up for the search mode    *)
  confirmed,  (* _health_confirmed                                          *)
  pc,         (* the next thing the call does                               *)
  caller,     (* the call that is being handled                             *)
  purpose,    (* why health_check was called                                *)
  initial,    (* initial_status in health_check                             *)
  job,        (* the dictionary of the running batch segment                *)
  saved,      (* the checkpoint of the batch job                            *)
  told,       (* the caller has been given its job_id                       *)
  down,       (* DART may still fail                                        *)
  cooling,    (* history: time left of the last block this process imposed  *)
  streak,     (* history: network failures in a row                         *)
  replaced    (* history: a checkpoint replaced the breaker since then      *)

client == <<breaker, ready, confirmed>>
call == <<pc, caller, purpose, initial>>
batch == <<job, saved, told>>
history == <<cooling, streak, replaced>>
vars == <<breaker, ready, confirmed, pc, caller, purpose, initial, job, saved, told,
          down, cooling, streak, replaced>>

Callers == {"none", "search", "preview", "batch"}
Purposes == {"none", "start", "probe", "diagnose"}

(* Where a request is on its way to DART.                                   *)
Requesting == {"main.do", "setup", "search.ax", "replay"}

Jobs == [discovering : BOOLEAN, checked : BOOLEAN, circuit : Snapshots]

ASSUME NoJobAssumption == NoJob \notin Jobs

-----------------------------------------------------------------------------
(* What the outcome of a request does to the breaker, and to the history.   *)

(* A failure that opened the circuit imposes a block of its own.            *)
Recorded(b, class) ==
  /\ breaker' = b
  /\ streak' = IF class = "network"
               THEN IF streak < NetworkThreshold THEN streak + 1 ELSE streak
               ELSE 0
  /\ IF b.status = "CIRCUIT_OPEN"
     THEN cooling' = b.left /\ replaced' = FALSE
     ELSE UNCHANGED <<cooling, replaced>>

Recovered ==
  /\ breaker' = Success(breaker)
  /\ cooling' = 0 /\ streak' = 0 /\ replaced' = FALSE

(* Mutant of TransportFailure: an earlier status check still counts.        *)
TransportFailureTrusting(answer) ==
  /\ UNCHANGED confirmed
  /\ \/ answer = "refused"
        /\ Recorded(Trip(breaker, "structure_or_access"), "structure_or_access")
     \/ answer = "network" /\ Recorded(Failure(breaker, "network"), "network")

(* _record_transport_failure.                                               *)
TransportFailure(answer) ==
  /\ confirmed' = FALSE
  /\ \/ answer = "refused"
        /\ Recorded(Trip(breaker, "structure_or_access"), "structure_or_access")
     \/ answer = "network" /\ Recorded(Failure(breaker, "network"), "network")

(* Mutant of Ends: the dictionary of a segment outlives its call.           *)
EndsHolding ==
  /\ pc' = "idle" /\ caller' = "none" /\ purpose' = "none"
  /\ UNCHANGED <<job, initial>>

(* The call ends; the dictionary of a batch segment is dropped.             *)
Ends ==
  /\ pc' = "idle" /\ caller' = "none" /\ purpose' = "none"
  /\ job' = NoJob
  /\ UNCHANGED initial

Goes(next, why) ==
  /\ pc' = next /\ purpose' = why
  /\ UNCHANGED <<caller, initial>>

NextPage == Goes("page", "none") /\ UNCHANGED job

-----------------------------------------------------------------------------
(* Where an outcome takes the caller.                                       *)

(* A SearchError of the channel: the search falls back to OpenDART, the     *)
(* preview goes on with the next window, the batch job gives up discovery.  *)
FallsBack ==
  \/ caller = "search" /\ Ends /\ UNCHANGED <<saved, told>>
  \/ caller = "preview" /\ (Ends \/ NextPage) /\ UNCHANGED <<saved, told>>
  \/ /\ caller = "batch"
     /\ IF purpose = "probe"
        THEN UNCHANGED job
        ELSE job' = [job EXCEPT !.discovering = FALSE]
     /\ IF purpose = "probe" THEN Goes("segment", "none") ELSE Goes("listing", "none")
     /\ UNCHANGED <<saved, told>>

(* A paused segment saves the breaker as it is now.                         *)
Pauses(b) ==
  /\ saved' = [job EXCEPT !.circuit = b]
  /\ told' = TRUE
  /\ Ends

(* SEARCH_TIMEOUT_PARTIAL: nothing is counted against the channel.          *)
RunsOutOfTime ==
  \/ caller = "search" /\ Ends /\ UNCHANGED <<saved, told>>
  \/ caller = "preview" /\ (Ends \/ NextPage) /\ UNCHANGED <<saved, told>>
  \/ caller = "batch" /\ purpose = "probe" /\ Goes("segment", "none") /\ UNCHANGED batch
  \/ caller = "batch" /\ purpose # "probe" /\ Pauses(breaker)

-----------------------------------------------------------------------------
(* Calls.                                                                   *)

Call(who, next, why) ==
  /\ pc = "idle"
  /\ pc' = next /\ caller' = who /\ purpose' = why
  /\ UNCHANGED <<ready, confirmed, initial, down>>

Search == Call("search", "health", "start") /\ UNCHANGED <<breaker, batch, history>>

Preview == Call("preview", "page", "none") /\ UNCHANGED <<breaker, batch, history>>

(* One job at a time; one whose job_id got lost is abandoned.               *)
RunBatch ==
  /\ ~told
  /\ Call("batch", "probe", "none")
  /\ job' = [discovering |-> TRUE, checked |-> FALSE, circuit |-> breaker]
  /\ saved' = job'
  /\ UNCHANGED <<breaker, told, history>>

ContinueBatch ==
  /\ told
  /\ Call("batch", "probe", "none")
  /\ job' = saved
  /\ breaker' = Restore(saved.circuit)
  /\ streak' = 0 /\ replaced' = TRUE
  /\ UNCHANGED <<saved, told, cooling>>

(* _probe_restored_circuit.                                                 *)
Probe ==
  /\ pc = "probe"
  /\ breaker' = BeforeRequest(breaker)
  /\ IF breaker'.status = "PROBING" THEN Goes("health", "probe") ELSE Goes("segment", "none")
  /\ UNCHANGED <<ready, confirmed, batch, down, history>>

(* The segment enters the discovery where its dictionary says.              *)
Segment ==
  /\ pc = "segment"
  /\ IF ~job.discovering THEN Goes("listing", "none")
     ELSE IF job.checked THEN Goes("page", "none")
     ELSE Goes("health", "start")
  /\ UNCHANGED <<client, batch, down, history>>

(* The soft deadline before a page.                                         *)
PageDeadline ==
  /\ pc = "page" /\ caller = "batch"
  /\ Pauses(breaker)
  /\ UNCHANGED <<client, down, history>>

(* The rest of a segment does not call DART: it pauses or completes.        *)
ListingPauses ==
  /\ pc = "listing" /\ caller = "batch"
  /\ Pauses(breaker)
  /\ UNCHANGED <<client, down, history>>

ListingCompletes ==
  /\ pc = "listing"
  /\ saved' = NoJob /\ told' = FALSE
  /\ Ends
  /\ UNCHANGED <<client, down, history>>

-----------------------------------------------------------------------------
(* health_check.                                                            *)

(* What a health check that says yes leads to.                              *)
Healthy ==
  \/ caller = "batch" /\ purpose = "probe" /\ Goes("segment", "none") /\ UNCHANGED job
  \/ /\ caller = "batch" /\ purpose = "start"
     /\ Goes("page", "none")
     /\ job' = [job EXCEPT !.checked = TRUE]
  \/ caller = "search" /\ purpose = "start" /\ Goes("page", "none") /\ UNCHANGED job

HealthBlocked ==
  /\ pc = "health"
  /\ breaker' = BeforeRequest(breaker)
  /\ breaker'.status = "CIRCUIT_OPEN"
  /\ FallsBack
  /\ UNCHANGED <<ready, confirmed, down, history>>

HealthKnown ==
  /\ pc = "health"
  /\ breaker' = BeforeRequest(breaker)
  /\ breaker'.status # "CIRCUIT_OPEN"
  /\ confirmed /\ purpose = "start"
  /\ Healthy
  /\ UNCHANGED <<ready, confirmed, saved, told, down, history>>

HealthAsks ==
  /\ pc = "health"
  /\ breaker' = BeforeRequest(breaker)
  /\ breaker'.status # "CIRCUIT_OPEN"
  /\ ~confirmed \/ purpose # "start"
  /\ pc' = "main.do" /\ initial' = breaker'.status
  /\ UNCHANGED <<ready, confirmed, caller, purpose, batch, down, history>>

(* Mutant of Diagnosed: the search is replayed whatever main.do showed.     *)
DiagnosedAlways == Goes("replay", "none") /\ UNCHANGED batch

(* After main.do the diagnosis of an odd page replays the search, unless    *)
(* the circuit has been opened.                                             *)
Diagnosed ==
  IF breaker'.status = "CIRCUIT_OPEN"
  THEN FallsBack
  ELSE Goes("replay", "none") /\ UNCHANGED batch

(* Mutant of MainDoOk: a reachable main.do forgives earlier failures.       *)
MainDoForgives ==
  /\ pc = "main.do"
  /\ IF initial \in {"HEALTHY", "PROBING"}
     THEN Recovered
     ELSE breaker' = Success(breaker) /\ UNCHANGED history
  /\ confirmed' = TRUE
  /\ IF purpose = "diagnose" THEN Diagnosed ELSE Healthy /\ UNCHANGED <<saved, told>>
  /\ UNCHANGED <<ready, down>>

MainDoOk ==
  /\ pc = "main.do"
  /\ IF initial \in {"HEALTHY", "PROBING"} THEN Recovered ELSE UNCHANGED <<breaker, history>>
  /\ confirmed' = TRUE
  /\ IF purpose = "diagnose" THEN Diagnosed ELSE Healthy /\ UNCHANGED <<saved, told>>
  /\ UNCHANGED <<ready, down>>

MainDoFails ==
  /\ pc = "main.do" /\ down
  /\ confirmed' = FALSE
  /\ \/ Recorded(Failure(breaker, "structure_or_access"), "structure_or_access")
     \/ Recorded(Trip(breaker, "structure_or_access"), "structure_or_access")
     \/ Recorded(Failure(breaker, "network"), "network")
  /\ IF purpose = "diagnose" THEN Diagnosed ELSE FallsBack
  /\ UNCHANGED <<ready, down>>

-----------------------------------------------------------------------------
(* search_page.                                                             *)

PageBlocked ==
  /\ pc = "page"
  /\ breaker' = BeforeRequest(breaker)
  /\ breaker'.status = "CIRCUIT_OPEN"
  /\ FallsBack
  /\ UNCHANGED <<ready, confirmed, down, history>>

PageAsks ==
  /\ pc = "page"
  /\ breaker' = BeforeRequest(breaker)
  /\ breaker'.status # "CIRCUIT_OPEN"
  /\ IF ready THEN Goes("search.ax", "none") ELSE Goes("setup", "none")
  /\ UNCHANGED <<ready, confirmed, batch, down, history>>

SetupOk ==
  /\ pc = "setup"
  /\ ready' = TRUE
  /\ Goes("search.ax", "none")
  /\ UNCHANGED <<breaker, confirmed, batch, down, history>>

RequestFails ==
  /\ pc \in {"setup", "search.ax", "replay"} /\ down
  /\ \E answer \in {"refused", "network"} : TransportFailure(answer)
  /\ FallsBack
  /\ UNCHANGED <<ready, down>>

(* The page is there: another one follows or the call has what it wanted;   *)
(* a batch job saves its dictionary after every page.                       *)
PageOk ==
  /\ pc \in {"search.ax", "replay"}
  /\ Recovered
  /\ \/ NextPage /\ saved' = IF caller = "batch" THEN job ELSE saved
     \/ caller # "batch" /\ Ends /\ UNCHANGED saved
     \/ /\ caller = "batch"
        /\ job' = [job EXCEPT !.discovering = FALSE]
        /\ saved' = job'
        /\ Goes("listing", "none")
  /\ UNCHANGED <<ready, confirmed, told, down>>

OddPage ==
  /\ pc = "search.ax" /\ down
  /\ Goes("health", "diagnose")
  /\ UNCHANGED <<client, batch, down, history>>

OddAgain ==
  /\ pc = "replay" /\ down
  /\ confirmed' = FALSE
  /\ Recorded(Trip(breaker, "structure_or_access"), "structure_or_access")
  /\ FallsBack
  /\ UNCHANGED <<ready, down>>

(* The hard deadline ends the wait for any answer.                          *)
OutOfTime ==
  /\ pc \in Requesting
  /\ RunsOutOfTime
  /\ UNCHANGED <<client, down, history>>

-----------------------------------------------------------------------------
(* Around the calls.                                                        *)

(* One unit of time passes, for the breaker and for the stored snapshots:   *)
(* between calls, during a request, and during OpenDART requests, which a   *)
(* preview makes before every page and a segment makes when it lists.       *)
AgedJob(j) == IF j = NoJob THEN NoJob ELSE [j EXCEPT !.circuit = Aged(@)]
Tick ==
  /\ pc \in Requesting \cup {"idle", "listing"} \/ caller = "preview"
  /\ breaker' = Aged(breaker)
  /\ job' = AgedJob(job)
  /\ saved' = AgedJob(saved)
  /\ cooling' = IF cooling > 0 THEN cooling - 1 ELSE 0
  /\ UNCHANGED <<ready, confirmed, call, told, down, streak, replaced>>

(* The server process dies and is started again; checkpoints are kept.      *)
Restart ==
  /\ breaker' = Blank
  /\ ready' = FALSE /\ confirmed' = FALSE
  /\ Ends
  /\ cooling' = 0 /\ streak' = 0 /\ replaced' = FALSE
  /\ UNCHANGED <<saved, told, down>>

(* DART works again, for good.                                              *)
Repaired ==
  /\ down
  /\ down' = FALSE
  /\ UNCHANGED <<client, call, batch, history>>

Init ==
  /\ breaker = Blank
  /\ ready = FALSE /\ confirmed = FALSE
  /\ pc = "idle" /\ caller = "none" /\ purpose = "none" /\ initial = "HEALTHY"
  /\ job = NoJob /\ saved = NoJob /\ told = FALSE
  /\ down = TRUE
  /\ cooling = 0 /\ streak = 0 /\ replaced = FALSE

Next ==
  \/ Search \/ Preview \/ RunBatch \/ ContinueBatch
  \/ Probe \/ Segment \/ PageDeadline \/ ListingPauses \/ ListingCompletes
  \/ HealthBlocked \/ HealthKnown \/ HealthAsks \/ MainDoOk \/ MainDoFails
  \/ PageBlocked \/ PageAsks \/ SetupOk \/ RequestFails \/ PageOk \/ OddPage \/ OddAgain
  \/ OutOfTime \/ Tick \/ Restart \/ Repaired

Spec == Init /\ [][Next]_vars

(* A call goes on by itself, an answer that can come comes in the end, time *)
(* passes, and the user goes on searching.                                  *)
Fairness ==
  /\ WF_vars(Probe \/ Segment \/ ListingPauses \/ ListingCompletes)
  /\ WF_vars(HealthBlocked \/ HealthKnown \/ HealthAsks)
  /\ WF_vars(PageBlocked \/ PageAsks)
  /\ SF_vars(Tick)
  /\ SF_vars(MainDoOk) /\ SF_vars(SetupOk) /\ SF_vars(PageOk)
  /\ SF_vars(Search)

FairSpec == Spec /\ Fairness

-----------------------------------------------------------------------------
(* Properties.                                                              *)

TypeOK ==
  /\ breaker \in Snapshots
  /\ ready \in BOOLEAN /\ confirmed \in BOOLEAN /\ down \in BOOLEAN
  /\ pc \in Requesting \cup {"idle", "probe", "segment", "listing", "health", "page"}
  /\ caller \in Callers /\ purpose \in Purposes /\ initial \in Statuses
  /\ job \in Jobs \cup {NoJob} /\ saved \in Jobs \cup {NoJob}
  /\ told \in BOOLEAN /\ (told => saved # NoJob)
  /\ cooling \in Nat /\ streak \in 0..NetworkThreshold /\ replaced \in BOOLEAN
  /\ (caller = "none") <=> (pc = "idle")
  /\ (caller = "batch") <=> (job # NoJob)

(* No request is on its way to DART while the circuit is open.              *)
QuietWhileOpen == pc \in Requesting => breaker.status # "CIRCUIT_OPEN"

(* A block that this process imposed after a failure is sat out in full;    *)
(* only the snapshot of a checkpoint can end it earlier.                    *)
BlockSatOut == pc \in Requesting /\ cooling > 0 => replaced

(* A block that is stored in the checkpoint holds for the batch job that    *)
(* carries it, across restarts and whatever other calls found out.          *)
StoredBlockHolds ==
  caller = "batch" /\ pc \in Requesting =>
    ~(job.circuit.status = "CIRCUIT_OPEN" /\ job.circuit.left > 0)

(* Network failures in a row open the circuit, however many status checks   *)
(* succeed in between: only a result page or a probe clears the count.      *)
FailuresInARowOpen ==
  streak >= NetworkThreshold => breaker.status \in {"CIRCUIT_OPEN", "PROBING"}

(* After a block, the first request is a status check: interactive searches *)
(* and batch segments do not probe with a search.  Previews may, and so may *)
(* any caller once a checkpoint has replaced the breaker, that is, every    *)
(* continued segment and what follows it.                                   *)
ProbeIsStatusCheck ==
  pc \in {"setup", "search.ax", "replay"} /\ breaker.status = "PROBING"
    => caller = "preview" \/ replaced

(* Why the two properties above hold: a block of this process is the one    *)
(* the breaker is in, and the breaker has counted every failure of the row. *)
BlockOwned ==
  cooling > 0 /\ ~replaced => breaker.status = "CIRCUIT_OPEN" /\ breaker.left >= cooling
StreakCounted ==
  streak > 0 =>
    \/ breaker.status \in {"CIRCUIT_OPEN", "PROBING"}
    \/ /\ breaker.status = "DEGRADED" /\ breaker.class = "network"
       /\ breaker.count >= streak /\ streak < NetworkThreshold
ChannelMemory == QuietWhileOpen /\ BlockOwned /\ StreakCounted

(* Once DART works again, searches bring the channel back.                  *)
Recovers == ~down ~> breaker.status = "HEALTHY"
=============================================================================
