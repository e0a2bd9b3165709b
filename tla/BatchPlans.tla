----------------------------- MODULE BatchPlans -----------------------------
(***************************************************************************)
(* The approval of batch jobs and the life of the files they leave:        *)
(* BatchPlanStore and the record stores of app/storage/batch_store.py as   *)
(* preview, run, continue_run and export of app/batch/service.py drive     *)
(* them.  What a segment does is BatchJob; here it ends in a pause, in     *)
(* completion or in the death of the server.                               *)
(*                                                                         *)
(* The server handles one call at a time, but a call is not one instant:   *)
(* the clock goes on between two calls of the plan store, and above all    *)
(* during the estimate, which asks both channels about every window.       *)
(***************************************************************************)
EXTENDS Integers, FiniteSets

CONSTANTS
  Scopes,        (* the searches a user may preview                         *)
  Lineage,       (* query, company and disclosure types of each             *)
  Weight,        (* days of its period times its target count               *)
  PlanTtl,       (* ttl_seconds of BatchPlanStore                           *)
  CheckpointTtl, (* batch.checkpoint_retention_days                         *)
  RecordTtl,     (* retention_days of the result records                    *)
  MaxPlans,      (* bound on the plans ever issued                          *)
  MaxTime        (* bound on the clock                                      *)

ASSUME ScopesAssumption ==
  /\ Weight \in [Scopes -> Nat \ {0}]
  /\ DOMAIN Lineage = Scopes

ASSUME TimesAssumption ==
  /\ PlanTtl \in Nat \ {0}
  /\ CheckpointTtl \in Nat \ {0}
  /\ RecordTtl \in Nat \ {0}
  /\ MaxPlans \in Nat
  /\ MaxTime \in Nat

Lineages == {Lineage[s] : s \in Scopes}

(* Plan tokens in the order they are drawn; a job has one of its own, and   *)
(* is known here by the plan it was started from.                           *)
Plans == 1..MaxPlans
NoPlan == 0

VARIABLES
  now,          (* the wall clock                                           *)
  plans,        (* _plans: the live plans of this process                   *)
  lineages,     (* _lineages: which of them a lineage is at                 *)
  declined,     (* _declined_until                                          *)
  call,         (* the call in progress, and where it is                    *)
  checkpoints,  (* files of the checkpoint directory, with their mtime      *)
  records,      (* files of the record directory, with their mtime          *)
  issued,       (* number of tokens drawn so far                            *)
  (* What the user has been told, which nothing in the program reads:       *)
  offers,       (* plans put before the user and still in his hands         *)
  refusals,     (* refused searches, until a wider one is asked for         *)
  verdicts,     (* how often each plan was declined, and started            *)
  paused,       (* jobs the user may continue, with the time of the pause   *)
  finished      (* records the user may export, with the time they were made*)

memory == <<plans, lineages, declined>>
disk == <<checkpoints, records>>
told == <<offers, refusals, verdicts, paused, finished>>
vars == <<now, plans, lineages, declined, call, checkpoints, records, issued,
          offers, refusals, verdicts, paused, finished>>

Idle == [at |-> "idle"]
Quiet == [until |-> 0, weight |-> 0]

(* 1.5 times.                                                               *)
MuchWider(weight, old) == 2 * weight >= 3 * old

-----------------------------------------------------------------------------
(* BatchPlanStore.  Every operation purges first.                           *)

(* Mutant of Alive: a plan is dropped one unit early.                       *)
AliveShort == {p \in plans : p.expires > now + 1}

Alive == {p \in plans : p.expires > now}
Pointers == [l \in Lineages |->
  IF \E p \in plans \ Alive : p.id = lineages[l] THEN NoPlan ELSE lineages[l]]
Refused == [l \in Lineages |-> IF declined[l].until > now THEN declined[l] ELSE Quiet]

Current(l) == {p \in Alive : p.id = Pointers[l]}
Without(l) == [Pointers EXCEPT ![l] = NoPlan]

(* lookup(): what it answers, given as a guard of each way out.             *)
StillDeclined(s) ==
  /\ Refused[Lineage[s]].until > now
  /\ ~MuchWider(Weight[s], Refused[Lineage[s]].weight)
Reusable(s) == {p \in Current(Lineage[s]) : p.scope = s}
Overlapping(s) == {p \in Current(Lineage[s]) :
                     p.scope # s /\ ~MuchWider(Weight[s], Weight[p.scope])}
Outgrown(s) == Current(Lineage[s]) \ (Reusable(s) \cup Overlapping(s))

(* Mutant of LiftRefusal: every refusal is forgotten, of whatever query.    *)
LiftAll(l) == declined' = [k \in Lineages |-> Quiet]

Purge == plans' = Alive /\ lineages' = Pointers /\ declined' = Refused
LiftRefusal(l) == declined' = [Refused EXCEPT ![l] = Quiet]

(* issue()                                                                  *)
NewPlan(s) == [id |-> issued + 1, scope |-> s, expires |-> now + PlanTtl]
Issue(s) ==
  /\ plans' = Alive \cup {NewPlan(s)}
  /\ lineages' = [Pointers EXCEPT ![Lineage[s]] = issued + 1]
  /\ declined' = Refused

(* Mutant of Take: the plan stays where it is.                              *)
TakeLeavesPlan(p) == plans' = Alive /\ lineages' = Pointers

(* decline() and consume() take a plan out together with its lineage.       *)
Take(p) == plans' = Alive \ {p} /\ lineages' = Without(Lineage[p.scope])

-----------------------------------------------------------------------------
(* JsonRecordStore                                                          *)

Kept(files, ttl) == {f \in files : f.touched >= now - ttl}
(* Mutant of Saved: the identifier is not that of the job.                  *)
SavedElsewhere(files, id) == {f \in files : f.id # id} \cup {[id |-> id + 1, touched |-> now]}

Saved(files, id) == {f \in files : f.id # id} \cup {[id |-> id, touched |-> now]}
Dropped(files, id) == {f \in files : f.id # id}

Begin == call = Idle
Return == call' = Idle

-----------------------------------------------------------------------------
(* preview().  A company name that cannot be resolved ends the call before  *)
(* the plan store is asked.                                                 *)

CleansBoth ==
  /\ checkpoints' = Kept(checkpoints, CheckpointTtl)
  /\ records' = Kept(records, RecordTtl)

PreviewUnresolved ==
  /\ Begin /\ CleansBoth /\ Return
  /\ UNCHANGED <<now, memory, issued, told>>

PreviewSuppressed(s) ==
  /\ Begin /\ CleansBoth /\ Return
  /\ \/ StillDeclined(s) /\ Purge
     \/ /\ ~StillDeclined(s) /\ Overlapping(s) # {}
        /\ plans' = Alive /\ lineages' = Pointers /\ LiftRefusal(Lineage[s])
  /\ UNCHANGED <<now, issued, told>>

PreviewReuses(s) ==
  /\ Begin /\ CleansBoth /\ Return
  /\ ~StillDeclined(s) /\ Reusable(s) # {}
  /\ plans' = Alive /\ lineages' = Pointers /\ LiftRefusal(Lineage[s])
  /\ UNCHANGED <<now, issued, told>>

PreviewEstimates(s) ==
  /\ Begin /\ CleansBoth
  /\ ~StillDeclined(s) /\ Reusable(s) = {} /\ Overlapping(s) = {}
  /\ plans' = Alive \ Outgrown(s)
  /\ lineages' = IF Outgrown(s) = {} THEN Pointers ELSE Without(Lineage[s])
  /\ LiftRefusal(Lineage[s])
  /\ call' = [at |-> "estimating", scope |-> s]
  /\ offers' = {o \in offers : \/ Lineage[o.scope] # Lineage[s]
                               \/ ~MuchWider(Weight[s], Weight[o.scope])}
  /\ refusals' = {r \in refusals : \/ r.lineage # Lineage[s]
                                   \/ ~MuchWider(Weight[s], r.weight)}
  /\ UNCHANGED <<now, issued, verdicts, paused, finished>>

(* The estimate is all there is between the two: it asks both channels for  *)
(* the first page of every window, takes its time, and turns three kinds of *)
(* exceptions into diagnostics.                                             *)
PreviewOffers ==
  /\ call.at = "estimating" /\ issued < MaxPlans
  /\ Issue(call.scope) /\ Return
  /\ issued' = issued + 1
  /\ offers' = offers \cup {NewPlan(call.scope)}
  /\ UNCHANGED <<now, disk, refusals, verdicts, paused, finished>>

(* Any other exception leaves the call, and what the lookup has already     *)
(* taken away is not put back: the refusal and the plan that was outgrown.  *)
PreviewRaises ==
  /\ call.at = "estimating" /\ Return
  /\ UNCHANGED <<now, memory, disk, issued, told>>

-----------------------------------------------------------------------------
(* run(): the plan is read first, then declined or consumed.                *)

CleansCheckpoints == checkpoints' = Kept(checkpoints, CheckpointTtl) /\ UNCHANGED records
Named(id) == {p \in Alive : p.id = id}

(* No such plan any more, or a bad confirmation interval.                   *)
RunRefused ==
  /\ Begin /\ CleansCheckpoints /\ Return
  /\ Purge
  /\ UNCHANGED <<now, issued, told>>

RunReads(id, approved) ==
  /\ Begin /\ CleansCheckpoints
  /\ Purge /\ Named(id) # {}
  /\ call' = [at |-> IF approved THEN "consuming" ELSE "declining", plan |-> id]
  /\ UNCHANGED <<now, issued, told>>

Counted(id, verdict) == verdicts' = [verdicts EXCEPT ![id][verdict] = @ + 1]
InHand(id) == offers' = {o \in offers : o.id # id}

(* decline(), which finds nothing if the plan has expired since it was read.*)
Declines ==
  /\ call.at = "declining" /\ Return
  /\ \/ /\ Named(call.plan) = {} /\ Purge
        /\ UNCHANGED <<offers, refusals, verdicts>>
     \/ \E p \in Named(call.plan) :
          /\ Take(p)
          /\ declined' = [Refused EXCEPT ![Lineage[p.scope]] =
                            [until |-> now + PlanTtl, weight |-> Weight[p.scope]]]
          /\ refusals' = refusals \cup {[lineage |-> Lineage[p.scope],
                                         weight |-> Weight[p.scope],
                                         until |-> now + PlanTtl]}
          /\ Counted(p.id, "declined") /\ InHand(p.id)
  /\ UNCHANGED <<now, disk, issued, paused, finished>>

(* consume() and the first save of the job; the checkpoint may fail to be   *)
(* written, and the assertion fails if the plan has expired since.          *)
Starts ==
  /\ call.at = "consuming"
  /\ \E p \in Named(call.plan) :
       /\ Take(p) /\ declined' = Refused
       /\ InHand(p.id)
       /\ \/ /\ checkpoints' = Saved(checkpoints, p.id)
             /\ call' = [at |-> "running", job |-> p.id]
             /\ Counted(p.id, "started")
          \/ Return /\ UNCHANGED <<checkpoints, verdicts>>
  /\ UNCHANGED <<now, records, issued, refusals, paused, finished>>

AssertionFails ==
  /\ call.at = "consuming" /\ Named(call.plan) = {}
  /\ Purge /\ Return
  /\ UNCHANGED <<now, disk, issued, told>>

-----------------------------------------------------------------------------
(* The segment of a job, as far as its files go.                            *)

Pauses ==
  /\ call.at = "running" /\ Return
  /\ checkpoints' = Saved(checkpoints, call.job)
  /\ paused' = Saved(paused, call.job)
  /\ UNCHANGED <<now, memory, records, issued, offers, refusals, verdicts, finished>>

Completes ==
  /\ call.at = "running" /\ Return
  /\ records' = Saved(records, call.job)
  /\ checkpoints' = Dropped(checkpoints, call.job)
  /\ paused' = Dropped(paused, call.job)
  /\ finished' = Saved(finished, call.job)
  /\ UNCHANGED <<now, memory, issued, offers, refusals, verdicts>>

(* continue_run()                                                           *)
Continues(id) ==
  /\ Begin /\ CleansCheckpoints
  /\ id \in {f.id : f \in checkpoints'}
  /\ call' = [at |-> "running", job |-> id]
  /\ UNCHANGED <<now, memory, issued, told>>

NotContinued ==
  /\ Begin /\ CleansCheckpoints /\ Return
  /\ UNCHANGED <<now, memory, issued, told>>

(* export() cleans the records, and its copies lie outside the store.       *)
Exports ==
  /\ Begin /\ Return
  /\ records' = Kept(records, RecordTtl)
  /\ UNCHANGED <<now, memory, checkpoints, issued, told>>

-----------------------------------------------------------------------------
Tick ==
  /\ now < MaxTime /\ now' = now + 1
  /\ UNCHANGED <<memory, call, disk, issued, told>>

(* The server dies and is started again.                                    *)
Crash ==
  /\ plans' = {} /\ lineages' = [l \in Lineages |-> NoPlan]
  /\ declined' = [l \in Lineages |-> Quiet]
  /\ Return /\ offers' = {} /\ refusals' = {}
  /\ UNCHANGED <<now, disk, issued, verdicts, paused, finished>>

Init ==
  /\ now = 0
  /\ plans = {} /\ lineages = [l \in Lineages |-> NoPlan]
  /\ declined = [l \in Lineages |-> Quiet]
  /\ call = Idle /\ checkpoints = {} /\ records = {} /\ issued = 0
  /\ offers = {} /\ refusals = {} /\ paused = {} /\ finished = {}
  /\ verdicts = [p \in Plans |-> [declined |-> 0, started |-> 0]]

Next ==
  \/ PreviewUnresolved \/ PreviewOffers \/ PreviewRaises \/ RunRefused
  \/ \E s \in Scopes : PreviewSuppressed(s) \/ PreviewReuses(s) \/ PreviewEstimates(s)
  \/ \E id \in Plans :
       Continues(id) \/ \E approved \in BOOLEAN : RunReads(id, approved)
  \/ Declines \/ Starts \/ AssertionFails
  \/ Pauses \/ Completes \/ NotContinued \/ Exports
  \/ Tick \/ Crash

Spec == Init /\ [][Next]_vars

-----------------------------------------------------------------------------
TypeOK ==
  /\ now \in Nat /\ issued \in 0..MaxPlans
  /\ plans \subseteq [id : 1..issued, scope : Scopes, expires : Nat]
  /\ lineages \in [Lineages -> 0..issued]
  /\ declined \in [Lineages -> [until : Nat, weight : Nat]]
  /\ \/ call = Idle
     \/ call \in [at : {"estimating"}, scope : Scopes]
     \/ call \in [at : {"consuming", "declining"}, plan : 1..issued]
     \/ call \in [at : {"running"}, job : 1..issued]
  /\ \A files \in {checkpoints, records, paused, finished} :
       files \subseteq [id : 1..issued, touched : 0..now]
  /\ offers \subseteq [id : 1..issued, scope : Scopes, expires : Nat]
  /\ refusals \subseteq [lineage : Lineages, weight : Nat, until : Nat]
  /\ verdicts \in [Plans -> [declined : Nat, started : Nat]]

(* One decision of the user takes effect once: no plan starts two jobs, and *)
(* no plan that was declined starts one, in whatever order the calls come.  *)
DecidedOnce == \A p \in Plans : verdicts[p].declined + verdicts[p].started <= 1

(* What the user has been offered holds for its time: a plan can be approved*)
(* until it expires, unless he has asked for a much wider search of the same*)
(* query since; a paused job can be continued, and a finished one exported, *)
(* until its file has lain untouched for the whole retention time.          *)
OfferHolds ==
  /\ \A o \in offers : o.expires > now => o \in plans
  /\ \A p \in paused : p.touched >= now - CheckpointTtl => p.id \in {f.id : f \in checkpoints}
  /\ \A r \in finished : r.touched >= now - RecordTtl => r.id \in {f.id : f \in records}

(* For ttl_seconds after a refusal no plan of the query lies before the     *)
(* user that is not half as wide again, unless he has asked for one that is *)
(* in between.  The asking is enough: the refusal is lifted before the      *)
(* estimate (batch_store.py:44), which may raise and offer nothing.         *)
RefusalHolds ==
  \A r \in refusals, o \in offers :
    r.until > now /\ Lineage[o.scope] = r.lineage /\ o.expires > now
      => MuchWider(Weight[o.scope], r.weight)
=============================================================================
