------------------------------ MODULE ProbeRun ------------------------------
(***************************************************************************)
(* The life of a stage 0.6 probe run (app/probe/stage0_6/runner.py): the   *)
(* lock file, the request limit, the deadline and the cancellation file of *)
(* RecordedHttpClient (app/probe/common.py), the five measurements of      *)
(* ProbeGates, the golden files written one after the other, the manifest  *)
(* of the repository, and rebuild_current_golden, which rewrites the       *)
(* golden files of a completed run without taking the lock.  A process may *)
(* die between any two writes.  Each file is replaced atomically.          *)
(***************************************************************************)
EXTENDS ProbeGates

CONSTANTS
  Runs,        (* run ids                                                   *)
  WebOnly,     (* runs with --web-only                                      *)
  Servers,     (* the servers there may be                                  *)
  MaxRequests, (* --max-requests                                            *)
  MaxRebuilds, (* bound on the rebuilds                                     *)
  NoRun

ASSUME RunAssumption ==
  /\ NoRun \notin Runs /\ WebOnly \subseteq Runs /\ MaxRequests \in Nat \ {0}
  /\ MaxRebuilds \in Nat

(* What is counted of a server is a number.                                 *)
ASSUME ServersAssumption ==
  \A s \in Servers :
    s.total \in Nat /\ s.filings \in [1..Days -> Nat] /\ s.bonds \in Seq(Nat) \ {<< >>}

VARIABLES
  server,
  phase,    (* of each run                                                  *)
  probe,    (* the measurement each run is at                               *)
  left,     (* requests left of it                                          *)
  sent,     (* http.records                                                 *)
  verdicts, (* of the measurements each run has finished                    *)
  cancel,   (* the CANCEL file of the run exists                            *)
  failed,   (* the run is left with an exception                            *)
  lock,     (* the run named in the lock file                               *)
  root,     (* stage0_6_manifest.json                                       *)
  golden,   (* the golden files: the run and the verdicts each tells of     *)
  listing,  (* golden/manifest.json: the run, and the files as listed       *)
  written,  (* golden files a run or a rebuild has replaced                 *)
  rebuild,  (* the rebuild: its phase, the manifest and the verdicts it has *)
  mixed     (* history: a rebuild overlapped a run, or died                 *)

own == <<phase, probe, left, sent, verdicts, cancel, failed>>
files == <<lock, root, golden, listing, written>>
vars == <<server, own, files, rebuild, mixed>>

Probes == <<"query_switch", "page_size", "date_window", "rm_withdrawal", "rm_bond">>
Names == {Probes[i] : i \in 1..5}
GoldenFiles == Append(Probes, "findings")
Rebuilt == <<"rm_withdrawal", "rm_bond", "findings">>

(* Where a run holds the lock.                                              *)
Working == {"probing", "writing", "listing", "leaving", "unlocking"}
Nothing == [n \in {} |-> "unconfirmed"]

-----------------------------------------------------------------------------
(* What the process of a run had in memory is gone with it.                 *)
Ends(r, as) ==
  /\ phase' = [phase EXCEPT ![r] = as]
  /\ probe' = [probe EXCEPT ![r] = 1] /\ left' = [left EXCEPT ![r] = 0]
  /\ sent' = [sent EXCEPT ![r] = 0] /\ verdicts' = [verdicts EXCEPT ![r] = Nothing]
  /\ cancel' = [cancel EXCEPT ![r] = FALSE] /\ failed' = [failed EXCEPT ![r] = FALSE]

(* _sync_manifests: also after every request.                               *)
Synced(run, status, gates) == root' = [run |-> run, status |-> status, gates |-> gates]

(* __enter__: the lock file is created, or exists already.                  *)
Enter(r) ==
  /\ phase[r] = "new" /\ lock = NoRun
  /\ lock' = r
  /\ phase' = [phase EXCEPT ![r] = "probing"]
  /\ Synced(r, "running", Nothing)
  /\ mixed' = (rebuild.phase # "off")
  /\ UNCHANGED <<server, probe, left, sent, verdicts, cancel, failed, golden, listing,
                 written, rebuild>>

(* Mutant of Refused: the run that was refused cleans up the lock.          *)
RefusedUnlocking(r) ==
  /\ phase[r] = "new" /\ lock # NoRun
  /\ phase' = [phase EXCEPT ![r] = "gone"]
  /\ lock' = NoRun
  /\ UNCHANGED <<server, probe, left, sent, verdicts, cancel, failed, root, golden, listing,
                 written, rebuild, mixed>>

Refused(r) ==
  /\ phase[r] = "new" /\ lock # NoRun
  /\ phase' = [phase EXCEPT ![r] = "gone"]
  /\ UNCHANGED <<server, probe, left, sent, verdicts, cancel, failed, files, rebuild, mixed>>

(* _check_stop_conditions, the deadline left aside.                         *)
MayAsk(r) == ~cancel[r] /\ sent[r] < MaxRequests

Skipped(r) == r \in WebOnly /\ probe[r] > 3

(* A measurement goes on to the next; after the last the files are written. *)
Concludes(r, verdict) ==
  /\ LET name == Probes[probe[r]]
     IN verdicts' = [verdicts EXCEPT ![r] =
                       [n \in DOMAIN @ \cup {name} |-> IF n = name THEN verdict ELSE @[n]]]
  /\ IF probe[r] < 5
     THEN probe' = [probe EXCEPT ![r] = @ + 1] /\ UNCHANGED phase
     ELSE phase' = [phase EXCEPT ![r] = "writing"] /\ UNCHANGED probe

(* One answered request of the measurement.                                 *)
Request(r) ==
  LET measured == Measurement(server, Probes[probe[r]])
      rest == (IF left[r] = 0 THEN measured.requests ELSE left[r]) - 1
  IN /\ phase[r] = "probing" /\ ~Skipped(r) /\ MayAsk(r)
     /\ sent' = [sent EXCEPT ![r] = @ + 1]
     /\ left' = [left EXCEPT ![r] = rest]
     /\ IF rest = 0 THEN Concludes(r, measured.verdict) ELSE UNCHANGED <<verdicts, probe, phase>>
     /\ Synced(r, "running", Nothing)
     /\ UNCHANGED <<server, cancel, failed, lock, golden, listing, written, rebuild, mixed>>

NotRun(r) ==
  /\ phase[r] = "probing" /\ Skipped(r)
  /\ Concludes(r, "unconfirmed")
  /\ UNCHANGED <<server, left, sent, cancel, failed, files, rebuild, mixed>>

(* The run is left: by the limit, the CANCEL file or the deadline before a  *)
(* request, or by a request that was made and failed.                       *)
Fails(r, asked) ==
  /\ phase[r] = "probing" /\ ~Skipped(r) /\ (asked => MayAsk(r))
  /\ sent' = [sent EXCEPT ![r] = IF asked THEN @ + 1 ELSE @]
  /\ failed' = [failed EXCEPT ![r] = TRUE]
  /\ phase' = [phase EXCEPT ![r] = "leaving"]
  /\ UNCHANGED <<server, probe, left, verdicts, cancel, files, rebuild, mixed>>

Stops(r) == Fails(r, FALSE)
RequestFails(r) == Fails(r, TRUE)

(* A signal to the process.                                                 *)
Signalled(r) ==
  /\ phase[r] \in Working /\ ~cancel[r]
  /\ cancel' = [cancel EXCEPT ![r] = TRUE]
  /\ UNCHANGED <<server, phase, probe, left, sent, verdicts, failed, files, rebuild, mixed>>

-----------------------------------------------------------------------------
(* _write_golden: file by file, then the list of the files, then both       *)
(* manifests.                                                               *)

Told(name, gates) == IF name = "findings" THEN gates ELSE [n \in {name} |-> gates[n]]

WriteGolden(r) ==
  LET name == GoldenFiles[written + 1] IN
  /\ phase[r] = "writing"
  /\ golden' = [golden EXCEPT ![name] = [run |-> r, gates |-> Told(name, verdicts[r])]]
  /\ written' = (written + 1) % Len(GoldenFiles)
  /\ phase' = [phase EXCEPT ![r] = IF written' = 0 THEN "listing" ELSE @]
  /\ UNCHANGED <<server, probe, left, sent, verdicts, cancel, failed, lock, root, listing,
                 rebuild, mixed>>

ListGolden(r) ==
  /\ phase[r] = "listing"
  /\ listing' = [run |-> r, files |-> golden]
  /\ Synced(r, "running", verdicts[r])
  /\ phase' = [phase EXCEPT ![r] = "leaving"]
  /\ UNCHANGED <<server, probe, left, sent, verdicts, cancel, failed, lock, golden, written,
                 rebuild, mixed>>

(* __exit__: the manifests first, then the lock.                            *)
Exit(r) ==
  /\ phase[r] = "leaving"
  /\ IF failed[r] THEN Synced(r, "stopped", Nothing) ELSE Synced(r, "completed", verdicts[r])
  /\ phase' = [phase EXCEPT ![r] = "unlocking"]
  /\ UNCHANGED <<server, probe, left, sent, verdicts, cancel, failed, lock, golden, listing,
                 written, rebuild, mixed>>

Unlock(r) ==
  /\ phase[r] = "unlocking"
  /\ lock' = NoRun
  /\ Ends(r, "gone")
  /\ UNCHANGED <<server, root, golden, listing, written, rebuild, mixed>>

(* The environment: the process dies, and somebody removes its lock file.   *)
Die(r) ==
  /\ phase[r] \in Working
  /\ Ends(r, "dead") /\ written' = 0
  /\ UNCHANGED <<server, lock, root, golden, listing, rebuild, mixed>>

RemoveLock ==
  /\ lock # NoRun /\ phase[lock] = "dead"
  /\ lock' = NoRun
  /\ UNCHANGED <<server, own, root, golden, listing, written, rebuild, mixed>>

-----------------------------------------------------------------------------
(* rebuild_current_golden.                                                  *)

NoRoot == [run |-> NoRun, status |-> "none", gates |-> Nothing]
Idle == [phase |-> "off", root |-> NoRoot, source |-> NoRun, gates |-> Nothing, done |-> 0,
         count |-> 0]

Rebuilds(next) == rebuild' = next /\ UNCHANGED <<server, own, lock>>

(* It needs a completed run with documents; without, it raises.             *)
RebuildStarts ==
  /\ rebuild.phase = "off" /\ root.status = "completed" /\ root.run \notin WebOnly
  /\ rebuild.count < MaxRebuilds
  /\ Rebuilds([Idle EXCEPT !.phase = "read", !.root = root, !.count = rebuild.count + 1])
  /\ mixed' = (mixed \/ lock # NoRun)
  /\ UNCHANGED <<root, golden, listing, written>>

(* The documents are judged again, perhaps by a newer reading of them.      *)
RebuildJudges ==
  /\ rebuild.phase = "read" /\ golden["findings"].run \notin WebOnly
  /\ \E links \in 0..Cardinality(Withdrawals) :
       LET gates == [golden["findings"].gates EXCEPT
                       !["rm_withdrawal"] = WithdrawalVerdict(links)]
       IN Rebuilds([rebuild EXCEPT !.phase = "write", !.gates = gates,
                                   !.source = golden["findings"].run])
  /\ UNCHANGED <<root, golden, listing, written, mixed>>

RebuildWrites ==
  LET name == Rebuilt[rebuild.done + 1] IN
  /\ rebuild.phase = "write"
  /\ golden' = [golden EXCEPT ![name] =
                  [run |-> rebuild.source, gates |-> Told(name, rebuild.gates)]]
  /\ Rebuilds([rebuild EXCEPT !.done = @ + 1,
                              !.phase = IF rebuild.done + 1 = Len(Rebuilt) THEN "list" ELSE @])
  /\ UNCHANGED <<root, listing, written, mixed>>

RebuildLists ==
  /\ rebuild.phase = "list"
  /\ listing' = [run |-> rebuild.root.run, files |-> golden]
  /\ Rebuilds([rebuild EXCEPT !.phase = "sync"])
  /\ UNCHANGED <<root, golden, written, mixed>>

(* Mutant of RebuildEnds: the manifest keeps the verdicts it had.           *)
RebuildEndsStale ==
  /\ rebuild.phase = "sync"
  /\ root' = rebuild.root
  /\ Rebuilds([Idle EXCEPT !.count = rebuild.count])
  /\ UNCHANGED <<golden, listing, written, mixed>>

RebuildEnds ==
  /\ rebuild.phase = "sync"
  /\ root' = [rebuild.root EXCEPT !.gates = rebuild.gates]
  /\ Rebuilds([Idle EXCEPT !.count = rebuild.count])
  /\ UNCHANGED <<golden, listing, written, mixed>>

RebuildDies ==
  /\ rebuild.phase # "off"
  /\ Rebuilds([Idle EXCEPT !.count = rebuild.count])
  /\ mixed' = TRUE
  /\ UNCHANGED <<root, golden, listing, written>>

-----------------------------------------------------------------------------
Init ==
  /\ server \in Servers
  /\ phase = [r \in Runs |-> "new"] /\ probe = [r \in Runs |-> 1]
  /\ left = [r \in Runs |-> 0] /\ sent = [r \in Runs |-> 0]
  /\ verdicts = [r \in Runs |-> Nothing]
  /\ cancel = [r \in Runs |-> FALSE] /\ failed = [r \in Runs |-> FALSE]
  /\ lock = NoRun /\ root = NoRoot
  /\ golden = [f \in Names \cup {"findings"} |-> [run |-> NoRun, gates |-> Nothing]]
  /\ listing = [run |-> NoRun, files |-> golden] /\ written = 0
  /\ rebuild = Idle
  /\ mixed = FALSE

(* Nothing is left to happen.                                               *)
Rests ==
  /\ \A r \in Runs : phase[r] \in {"gone", "dead"}
  /\ lock = NoRun /\ rebuild.phase = "off"
  /\ UNCHANGED vars

Next ==
  \/ \E r \in Runs :
       \/ Enter(r) \/ Refused(r) \/ Request(r) \/ NotRun(r) \/ Stops(r) \/ RequestFails(r)
       \/ Signalled(r) \/ WriteGolden(r) \/ ListGolden(r) \/ Exit(r) \/ Unlock(r) \/ Die(r)
  \/ RemoveLock
  \/ RebuildStarts \/ RebuildJudges \/ RebuildWrites \/ RebuildLists \/ RebuildEnds
  \/ RebuildDies
  \/ Rests

Spec == Init /\ [][Next]_vars

-----------------------------------------------------------------------------
(* Every variable has its type; no run makes more requests than it may, the *)
(* one that is refused by the next included (common.py:252-258); and the    *)
(* run named in the lock file is the only one at work, although processes   *)
(* die and lock files are removed by hand (runner.py:319-344).              *)
TypeOK ==
  /\ server \in Servers
  /\ phase \in [Runs -> Working \cup {"new", "gone", "dead"}]
  /\ probe \in [Runs -> 1..5] /\ left \in [Runs -> Nat]
  /\ sent \in [Runs -> 0..MaxRequests]
  /\ \A r \in Runs : DOMAIN verdicts[r] \subseteq Names /\ \A n \in DOMAIN verdicts[r] : verdicts[r][n] \in Verdicts
  /\ cancel \in [Runs -> BOOLEAN] /\ failed \in [Runs -> BOOLEAN]
  /\ lock \in Runs \cup {NoRun}
  /\ \A r \in Runs : phase[r] \in Working => lock = r
  /\ root.status \in {"none", "running", "completed", "stopped"}
  /\ mixed \in BOOLEAN

(* The golden files are those of the completed run that the manifest of the *)
(* repository names, all of them, with the verdicts it summarises and as    *)
(* their own list has them: whatever runs were refused, stopped, cancelled  *)
(* or killed since, and after a rebuild as well, as long as no rebuild was  *)
(* killed or ran beside a run (runner.py:829-952).                          *)
GoldenIsOneRun ==
  root.status = "completed" /\ rebuild.phase = "off" /\ ~mixed =>
    /\ \A f \in DOMAIN golden :
         golden[f] = [run |-> root.run, gates |-> Told(f, root.gates)]
    /\ listing = [run |-> root.run, files |-> golden]

(* The verdicts the channel was designed on say what the server does:       *)
(* searches that need no mode request are not answered for the term before, *)
(* and windows of days that may replace a period lose no filing.  The first *)
(* needs answers that can be told apart (runner.py:499-502, 603-613).  The  *)
(* meaning of the withdrawal flag rests on that many different filings, and *)
(* on trading plans only where their own document was read (737-761).       *)
VerdictsSound ==
  \A r \in Runs :
    LET Passed(name) == name \in DOMAIN verdicts[r] /\ verdicts[r][name] = "passed" IN
    /\ /\ Passed("query_switch") /\ server.up
       /\ \E i \in 2..Len(Asked) : server.hits[Asked[i]] # server.hits[Asked[i - 1]]
       => ~server.sticky
    /\ Passed("date_window") =>
         /\ server.first /\ server.last
         /\ \A day \in 1..Days : \A cut \in {BoundaryDay - 1, BoundaryDay} :
              InPeriod(server, day, 1, cut) \/ InPeriod(server, day, cut + 1, Days)
    /\ Passed("page_size") => server.honours \/ server.withCb
    /\ Passed("rm_withdrawal") =>
         \E links \in SUBSET Withdrawals :
           /\ Cardinality({server.cases[w].source : w \in links}) >= ConfirmedLinks
           /\ \A w \in links : LET case == server.cases[w] IN
                case.pair /\ (case.receipt \/ ~case.plan \/ w \in NewPairs)
=============================================================================
