-------------------------- MODULE BatchPlansProofs --------------------------
(***************************************************************************)
(* For all searches, times and numbers of plans: every decision of the     *)
(* user takes effect once, what he was offered holds for its time, and a   *)
(* refusal keeps narrower offers away.                                     *)
(***************************************************************************)
EXTENDS BatchPlans, TLAPS

-----------------------------------------------------------------------------
(* The inductive invariant.                                                 *)

LineageOf(p) == Lineage[p.scope]

(* A live plan is the one its lineage is at, and the only one with its id.  *)
PlansOwned ==
  /\ \A p, q \in plans : p.id = q.id => p = q
  /\ \A p \in plans : lineages[LineageOf(p)] = p.id
  /\ \A p \in plans, l \in Lineages : lineages[l] = p.id => LineageOf(p) = l

(* No plan of the query is live while its estimate is made.                 *)
Estimating(l) == call.at = "estimating" /\ Lineage[call.scope] = l
EstimatedAlone == \A p \in plans : p.expires > now => ~Estimating(LineageOf(p))

(* A live plan, and one yet to be drawn, has not been decided.              *)
Undecided ==
  /\ \A p \in plans : verdicts[p.id].declined = 0 /\ verdicts[p.id].started = 0
  /\ \A id \in Plans : id > issued => verdicts[id].declined = 0 /\ verdicts[id].started = 0

OffersLive == \A o \in offers : o.expires > now => o \in plans

(* A promised file is there with a time no older than the promise.          *)
FilesKept ==
  /\ \A p \in paused : p.touched >= now - CheckpointTtl =>
       \E f \in checkpoints : f.id = p.id /\ f.touched >= p.touched
  /\ \A r \in finished : r.touched >= now - RecordTtl =>
       \E f \in records : f.id = r.id /\ f.touched >= r.touched

(* A refusal in force is the one the store knows of, and no plan of its     *)
(* query is live or being estimated.                                        *)
RefusalsKnown ==
  \A r \in refusals : r.until > now =>
    /\ \A p \in plans : LineageOf(p) = r.lineage => p.expires <= now
    /\ ~Estimating(r.lineage)
    /\ declined[r.lineage].until = r.until /\ declined[r.lineage].weight = r.weight

IInv ==
  /\ TypeOK /\ PlansOwned /\ EstimatedAlone /\ Undecided /\ DecidedOnce
  /\ OffersLive /\ FilesKept /\ RefusalsKnown

-----------------------------------------------------------------------------
(* The operations of the plan store.                                        *)

LEMMA ScopeLineage ==
  ASSUME NEW s \in Scopes
  PROVE  Lineage[s] \in Lineages /\ Weight[s] \in Nat \ {0}
  BY ScopesAssumption DEF Lineages

(* What a purge leaves of the plans.                                        *)
LEMMA PurgeType ==
  ASSUME TypeOK
  PROVE  /\ Alive \subseteq plans
         /\ Pointers \in [Lineages -> 0..issued]
         /\ Refused \in [Lineages -> [until : Nat, weight : Nat]]
  BY DEF TypeOK, Alive, Pointers, Refused, NoPlan, Quiet

(* What a purge leaves is owned as before.                                  *)
LEMMA PurgeOwned ==
  ASSUME TypeOK, PlansOwned
  PROVE  \A p \in Alive :
           /\ p.expires > now /\ LineageOf(p) \in Lineages
           /\ Pointers[LineageOf(p)] = p.id
           /\ \A l \in Lineages : Pointers[l] = p.id => LineageOf(p) = l
  <1> TAKE p \in Alive
  <1>1. p \in plans /\ p.expires > now /\ p.id \in 1..issued /\ p.scope \in Scopes
    BY DEF Alive, TypeOK
  <1>2. LineageOf(p) \in Lineages
    BY <1>1, ScopeLineage DEF LineageOf
  <1>3. ~\E q \in plans \ Alive : q.id = p.id
    BY <1>1 DEF PlansOwned
  <1>4. lineages[LineageOf(p)] = p.id
    BY <1>1 DEF PlansOwned
  <1>5. Pointers[LineageOf(p)] = p.id
    BY <1>2, <1>3, <1>4 DEF Pointers
  <1>6. ASSUME NEW l \in Lineages, Pointers[l] = p.id PROVE LineageOf(p) = l
    <2>1. lineages[l] = p.id
      BY <1>1, <1>6 DEF Pointers, NoPlan, TypeOK
    <2>2. QED
      BY <1>1, <2>1 DEF PlansOwned
  <1>7. QED
    BY <1>1, <1>2, <1>5, <1>6

(* The live plans of a query are those its lineage is at.                   *)
LEMMA CurrentPlans ==
  ASSUME TypeOK, PlansOwned, NEW l \in Lineages
  PROVE  Current(l) = {p \in Alive : LineageOf(p) = l}
  BY PurgeOwned DEF Current

LEMMA TakeType ==
  ASSUME TypeOK, NEW p, Take(p)
  PROVE  plans' \subseteq plans /\ lineages' \in [Lineages -> 0..issued]
  <1>1. issued \in Nat
    BY TimesAssumption DEF TypeOK
  <1>2. Alive \subseteq plans /\ Pointers \in [Lineages -> 0..issued]
    BY PurgeType
  <1>3. plans' = Alive \ {p} /\ lineages' = [Pointers EXCEPT ![Lineage[p.scope]] = 0]
    BY DEF Take, Without, NoPlan
  <1>4. [Pointers EXCEPT ![Lineage[p.scope]] = 0] \in [Lineages -> 0..issued]
    <2>1. 0 \in 0..issued
      BY <1>1
    <2> DEFINE l == Lineage[p.scope]
               ids == 0..issued
    <2>2. Pointers \in [Lineages -> ids] /\ 0 \in ids
      BY <1>2, <2>1
    <2> HIDE DEF l, ids
    <2>3. [Pointers EXCEPT ![l] = 0] \in [Lineages -> ids]
      BY <2>2
    <2>4. QED
      BY <2>3 DEF l, ids
  <1>5. plans' \subseteq plans
    BY <1>2, <1>3
  <1>6. QED
    BY <1>3, <1>4, <1>5

LEMMA KeptType ==
  ASSUME NEW files, NEW ttl
  PROVE  Kept(files, ttl) \subseteq files
  BY DEF Kept

LEMMA SavedType ==
  ASSUME TypeOK, NEW files, NEW id \in 1..issued,
         files \subseteq [id : 1..issued, touched : 0..now]
  PROVE  /\ Saved(files, id) \subseteq [id : 1..issued, touched : 0..now]
         /\ Dropped(files, id) \subseteq files
  BY DEF Saved, Dropped, TypeOK

-----------------------------------------------------------------------------
(* Types.                                                                   *)

LEMMA TypeStep == TypeOK /\ [Next]_vars => TypeOK'
  <1> SUFFICES ASSUME TypeOK, [Next]_vars PROVE TypeOK'
    OBVIOUS
  <1> USE TimesAssumption DEF memory, disk, told, Begin, Return, Idle
  <1>1. CASE PreviewUnresolved
    BY <1>1, KeptType DEF PreviewUnresolved, CleansBoth, TypeOK
  <1>2. ASSUME NEW s \in Scopes, PreviewSuppressed(s) PROVE TypeOK'
    BY <1>2, KeptType, PurgeType, ScopeLineage
       DEF PreviewSuppressed, CleansBoth, Purge, LiftRefusal, Quiet, TypeOK
  <1>3. ASSUME NEW s \in Scopes, PreviewReuses(s) PROVE TypeOK'
    BY <1>3, KeptType, PurgeType, ScopeLineage
       DEF PreviewReuses, CleansBoth, LiftRefusal, Quiet, TypeOK
  <1>4. ASSUME NEW s \in Scopes, PreviewEstimates(s) PROVE TypeOK'
    BY <1>4, KeptType, PurgeType, ScopeLineage
       DEF PreviewEstimates, CleansBoth, LiftRefusal, Without, Quiet, NoPlan, TypeOK
  <1>5. CASE PreviewOffers
    BY <1>5, PurgeType, ScopeLineage DEF PreviewOffers, Issue, NewPlan, TypeOK
  <1>20. CASE PreviewRaises
    BY <1>20 DEF PreviewRaises, TypeOK
  <1>6. CASE RunRefused
    BY <1>6, KeptType, PurgeType DEF RunRefused, CleansCheckpoints, Purge, TypeOK
  <1>7. ASSUME NEW id \in Plans, NEW approved \in BOOLEAN, RunReads(id, approved) PROVE TypeOK'
    BY <1>7, KeptType, PurgeType
       DEF RunReads, CleansCheckpoints, Purge, Named, Alive, TypeOK
  <1>8. CASE Declines
    <2>1. CASE Purge /\ UNCHANGED <<offers, refusals, verdicts>>
      BY <1>8, <2>1, PurgeType DEF Declines, Purge, TypeOK
    <2>2. ASSUME NEW p \in Named(call.plan), Take(p),
                 declined' = [Refused EXCEPT ![Lineage[p.scope]] =
                                [until |-> now + PlanTtl, weight |-> Weight[p.scope]]],
                 refusals' = refusals \cup {[lineage |-> Lineage[p.scope],
                                             weight |-> Weight[p.scope],
                                             until |-> now + PlanTtl]},
                 Counted(p.id, "declined"), InHand(p.id)
          PROVE  TypeOK'
      <3>1. p \in plans /\ p.id \in Plans /\ p.scope \in Scopes
        BY DEF Named, Alive, Plans, TypeOK
      <3>2. /\ plans' \subseteq plans /\ lineages' \in [Lineages -> 0..issued]
            /\ Refused \in [Lineages -> [until : Nat, weight : Nat]]
        BY <2>2, TakeType, PurgeType
      <3>3. verdicts' \in [Plans -> [declined : Nat, started : Nat]]
        BY <2>2, <3>1 DEF Counted, TypeOK
      <3>4. Lineage[p.scope] \in Lineages /\ Weight[p.scope] \in Nat /\ now + PlanTtl \in Nat
        BY <3>1, ScopeLineage DEF TypeOK
      <3>5. declined' \in [Lineages -> [until : Nat, weight : Nat]]
        BY <2>2, <3>2, <3>4
      <3>6. refusals' \subseteq [lineage : Lineages, weight : Nat, until : Nat]
        BY <2>2, <3>4 DEF TypeOK
      <3>7. QED
        BY <1>8, <2>2, <3>2, <3>3, <3>5, <3>6 DEF Declines, InHand, TypeOK
    <2>3. QED
      BY <1>8, <2>1, <2>2 DEF Declines
  <1>9. CASE Starts
    <2>1. PICK p \in Named(call.plan) :
            /\ Take(p) /\ declined' = Refused /\ InHand(p.id)
            /\ \/ /\ checkpoints' = Saved(checkpoints, p.id)
                  /\ call' = [at |-> "running", job |-> p.id]
                  /\ Counted(p.id, "started")
               \/ Return /\ UNCHANGED <<checkpoints, verdicts>>
      BY <1>9 DEF Starts
    <2>2. p \in plans /\ p.id \in 1..issued /\ p.id \in Plans
      BY DEF Named, Alive, Plans, TypeOK
    <2>3. /\ plans' \subseteq plans /\ lineages' \in [Lineages -> 0..issued]
          /\ Refused \in [Lineages -> [until : Nat, weight : Nat]]
      BY <2>1, TakeType, PurgeType
    <2>4. /\ verdicts' \in [Plans -> [declined : Nat, started : Nat]]
          /\ checkpoints' \subseteq [id : 1..issued, touched : 0..now]
      <3>1. CASE checkpoints' = Saved(checkpoints, p.id) /\ Counted(p.id, "started")
        BY <2>2, <3>1, SavedType DEF Counted, TypeOK
      <3>2. CASE UNCHANGED <<checkpoints, verdicts>>
        BY <3>2 DEF TypeOK
      <3>3. QED
        BY <2>1, <3>1, <3>2
    <2>5. QED
      BY <1>9, <2>1, <2>2, <2>3, <2>4 DEF Starts, InHand, TypeOK
  <1>10. CASE AssertionFails
    BY <1>10, PurgeType DEF AssertionFails, Purge, TypeOK
  <1>11. CASE Pauses
    BY <1>11, SavedType DEF Pauses, TypeOK
  <1>12. CASE Completes
    BY <1>12, SavedType DEF Completes, TypeOK
  <1>13. ASSUME NEW id \in Plans, Continues(id) PROVE TypeOK'
    BY <1>13, KeptType DEF Continues, CleansCheckpoints, TypeOK
  <1>14. CASE NotContinued
    BY <1>14, KeptType DEF NotContinued, CleansCheckpoints, TypeOK
  <1>15. CASE Exports
    BY <1>15, KeptType DEF Exports, TypeOK
  <1>16. CASE Tick
    BY <1>16 DEF Tick, TypeOK
  <1>17. CASE Crash
    BY <1>17 DEF Crash, NoPlan, Quiet, TypeOK
  <1>18. CASE UNCHANGED vars
    BY <1>18 DEF vars, TypeOK
  <1>19. QED
    BY <1>1, <1>2, <1>3, <1>4, <1>5, <1>6, <1>7, <1>8, <1>9, <1>10, <1>11, <1>12, <1>13, <1>14,
       <1>15, <1>16, <1>17, <1>18, <1>20 DEF Next

-----------------------------------------------------------------------------
(* Ownership.                                                               *)

(* How a step leaves the plans: as they were, purged, purged and without    *)
(* those of one query, or gone with the process.                            *)
Purged == plans' = Alive /\ lineages' = Pointers
Emptied(l) ==
  /\ plans' = {p \in Alive : LineageOf(p) # l}
  /\ lineages' = Pointers \/ lineages' = Without(l)

(* A plan that is taken out is the only live one of its query.              *)
LEMMA TakeEmpties ==
  ASSUME TypeOK, PlansOwned, NEW p \in Alive, Take(p)
  PROVE  Emptied(LineageOf(p))
  <1>1. \A q \in Alive : LineageOf(q) = LineageOf(p) => q = p
    BY PurgeOwned, PurgeType DEF PlansOwned
  <1>2. QED
    BY <1>1 DEF Take, Emptied, LineageOf

LEMMA EstimateEmpties ==
  ASSUME TypeOK, PlansOwned, NEW s \in Scopes, PreviewEstimates(s)
  PROVE  /\ Emptied(Lineage[s])
         /\ Outgrown(s) = {p \in Alive : LineageOf(p) = Lineage[s]}
  <1>1. Lineage[s] \in Lineages
    BY ScopeLineage
  <1>2. Outgrown(s) = Current(Lineage[s])
    BY DEF PreviewEstimates, Outgrown
  <1>3. Current(Lineage[s]) = {p \in Alive : LineageOf(p) = Lineage[s]}
    BY <1>1, CurrentPlans
  <1>4. plans' = {p \in Alive : LineageOf(p) # Lineage[s]}
    BY <1>2, <1>3 DEF PreviewEstimates
  <1>5. lineages' = Pointers \/ lineages' = Without(Lineage[s])
    BY DEF PreviewEstimates
  <1>6. QED
    BY <1>2, <1>3, <1>4, <1>5 DEF Emptied

LEMMA PlansChange ==
  ASSUME TypeOK, PlansOwned, [Next]_vars
  PROVE  \/ UNCHANGED <<plans, lineages>>
         \/ Purged
         \/ \E s \in Scopes : Emptied(Lineage[s])
         \/ PreviewOffers
         \/ Crash
  <1> USE DEF memory, told
  <1>1. ASSUME NEW s \in Scopes, PreviewSuppressed(s) PROVE Purged
    BY <1>1 DEF PreviewSuppressed, Purge, Purged
  <1>2. ASSUME NEW s \in Scopes, PreviewReuses(s) PROVE Purged
    BY <1>2 DEF PreviewReuses, Purged
  <1>3. ASSUME NEW s \in Scopes, PreviewEstimates(s) PROVE Emptied(Lineage[s])
    BY <1>3, EstimateEmpties
  <1>4. CASE RunRefused
    BY <1>4 DEF RunRefused, Purge, Purged
  <1>5. ASSUME NEW id \in Plans, NEW approved \in BOOLEAN, RunReads(id, approved) PROVE Purged
    BY <1>5 DEF RunReads, Purge, Purged
  <1>6. CASE Declines
    <2>1. CASE Purge
      BY <2>1 DEF Purge, Purged
    <2>2. ASSUME NEW p \in Named(call.plan), Take(p) PROVE Emptied(Lineage[p.scope])
      BY <2>2, TakeEmpties DEF Named, LineageOf
    <2>3. \A p \in Named(call.plan) : p.scope \in Scopes
      BY PurgeType DEF Named, TypeOK
    <2>4. QED
      BY <1>6, <2>1, <2>2, <2>3 DEF Declines
  <1>7. CASE Starts
    <2>1. PICK p \in Named(call.plan) : Take(p)
      BY <1>7 DEF Starts
    <2>2. p \in Alive /\ p.scope \in Scopes
      BY PurgeType DEF Named, TypeOK
    <2>3. QED
      BY <2>1, <2>2, TakeEmpties DEF LineageOf
  <1>8. CASE AssertionFails
    BY <1>8 DEF AssertionFails, Purge, Purged
  <1>9. CASE \/ PreviewUnresolved \/ PreviewRaises \/ Pauses \/ Completes \/ NotContinued \/ Exports \/ Tick
            \/ (\E id \in Plans : Continues(id)) \/ UNCHANGED vars
    BY <1>9 DEF PreviewUnresolved, PreviewRaises, Pauses, Completes, NotContinued, Exports, Tick, Continues, vars
  <1>10. QED
    BY <1>1, <1>2, <1>3, <1>4, <1>5, <1>6, <1>7, <1>8, <1>9 DEF Next

LEMMA OffersPlan ==
  ASSUME TypeOK, PlansOwned, EstimatedAlone, PreviewOffers
  PROVE  /\ call.scope \in Scopes /\ plans' = Alive \cup {NewPlan(call.scope)}
         /\ \A p \in Alive : LineageOf(p) # Lineage[call.scope] /\ p.id \in 1..issued
         /\ NewPlan(call.scope).id = issued + 1 /\ LineageOf(NewPlan(call.scope)) = Lineage[call.scope]
         /\ issued \in Nat /\ issued + 1 \in Plans
  <1>1. call.at = "estimating" /\ call.scope \in Scopes
    BY DEF PreviewOffers, TypeOK, Idle
  <1>2. \A p \in Alive : LineageOf(p) # Lineage[call.scope] /\ p.id \in 1..issued
    BY <1>1, PurgeOwned, PurgeType DEF EstimatedAlone, Estimating, TypeOK
  <1>3. issued \in Nat /\ issued + 1 \in Plans
    BY TimesAssumption DEF PreviewOffers, TypeOK, Plans
  <1>4. QED
    BY <1>1, <1>2, <1>3 DEF PreviewOffers, Issue, NewPlan, LineageOf

LEMMA OwnedStep == TypeOK /\ PlansOwned /\ EstimatedAlone /\ [Next]_vars => PlansOwned'
  <1> SUFFICES ASSUME TypeOK, PlansOwned, EstimatedAlone, [Next]_vars PROVE PlansOwned'
    OBVIOUS
  <1>1. CASE UNCHANGED <<plans, lineages>>
    BY <1>1 DEF PlansOwned, LineageOf
  <1>2. \A p, q \in Alive : p.id = q.id => p = q
    BY PurgeType DEF PlansOwned
  <1>3. \A p \in Alive : p.id # NoPlan
    BY PurgeType DEF NoPlan, TypeOK
  <1>4. CASE Purged
    BY <1>2, <1>4, PurgeOwned DEF Purged, PlansOwned, LineageOf
  <1>5. ASSUME NEW s \in Scopes, Emptied(Lineage[s]) PROVE PlansOwned'
    <2>1. plans' \subseteq Alive /\ \A p \in plans' : LineageOf(p) # Lineage[s]
      BY <1>5 DEF Emptied
    <2>2. \A p \in plans' : /\ LineageOf(p) \in Lineages
                            /\ lineages'[LineageOf(p)] = p.id
      BY <1>5, <2>1, PurgeOwned, PurgeType DEF Emptied, Without
    <2>3. \A p \in plans', l \in Lineages : lineages'[l] = p.id => LineageOf(p) = l
      BY <1>3, <1>5, <2>1, PurgeOwned, PurgeType DEF Emptied, Without
    <2>4. QED
      BY <1>2, <2>1, <2>2, <2>3 DEF PlansOwned, LineageOf
  <1>6. CASE PreviewOffers
    <2> DEFINE s == call.scope
    <2>1. /\ s \in Scopes /\ plans' = Alive \cup {NewPlan(s)}
          /\ \A p \in Alive : LineageOf(p) # Lineage[s] /\ p.id \in 1..issued
          /\ NewPlan(s).id = issued + 1 /\ LineageOf(NewPlan(s)) = Lineage[s]
          /\ issued \in Nat
      BY <1>6, OffersPlan
    <2>2. lineages' = [Pointers EXCEPT ![Lineage[s]] = issued + 1]
      BY <1>6 DEF PreviewOffers, Issue
    <2>3. /\ Lineage[s] \in Lineages /\ Pointers \in [Lineages -> 0..issued]
      BY <2>1, ScopeLineage, PurgeType
    <2> HIDE DEF s
    <2>4. \A p, q \in plans' : p.id = q.id => p = q
      BY <1>2, <2>1
    <2>5. \A p \in plans' : lineages'[LineageOf(p)] = p.id
      BY <2>1, <2>2, <2>3, PurgeOwned
    <2>6. \A p \in plans', l \in Lineages : lineages'[l] = p.id => LineageOf(p) = l
      BY <2>1, <2>2, <2>3, PurgeOwned
    <2>7. QED
      BY <2>4, <2>5, <2>6 DEF PlansOwned, LineageOf
  <1>7. CASE Crash
    BY <1>7 DEF Crash, PlansOwned
  <1>8. QED
    BY <1>1, <1>4, <1>5, <1>6, <1>7, PlansChange

(* An estimate begins only with PreviewEstimates, and lasts over Tick.      *)
LEMMA CallChange ==
  ASSUME TypeOK, [Next]_vars
  PROVE  \/ call'.at # "estimating"
         \/ \E s \in Scopes : PreviewEstimates(s)
         \/ Tick /\ UNCHANGED call
         \/ UNCHANGED vars
  <1>1. ASSUME NEW s \in Scopes, PreviewSuppressed(s) \/ PreviewReuses(s)
        PROVE  call'.at # "estimating"
    BY <1>1 DEF PreviewSuppressed, PreviewReuses, Return, Idle
  <1>2. ASSUME NEW id \in Plans,
               Continues(id) \/ \E approved \in BOOLEAN : RunReads(id, approved)
        PROVE  call'.at # "estimating"
    BY <1>2 DEF Continues, RunReads
  <1>3. CASE \/ PreviewUnresolved \/ PreviewOffers \/ PreviewRaises \/ RunRefused \/ Declines \/ AssertionFails
            \/ Pauses \/ Completes \/ NotContinued \/ Exports \/ Crash
    BY <1>3 DEF PreviewUnresolved, PreviewOffers, PreviewRaises, RunRefused, Declines, AssertionFails, Pauses,
                Completes, NotContinued, Exports, Crash, Return, Idle
  <1>4. CASE Starts
    BY <1>4 DEF Starts, Return, Idle
  <1>5. CASE Tick
    BY <1>5 DEF Tick
  <1>6. QED
    BY <1>1, <1>2, <1>3, <1>4, <1>5 DEF Next

LEMMA EstimatedAloneStep ==
  TypeOK /\ PlansOwned /\ EstimatedAlone /\ [Next]_vars => EstimatedAlone'
  <1> SUFFICES ASSUME TypeOK, PlansOwned, EstimatedAlone, [Next]_vars PROVE EstimatedAlone'
    OBVIOUS
  <1>1. CASE call'.at # "estimating"
    BY <1>1 DEF EstimatedAlone, Estimating
  <1>2. ASSUME NEW s \in Scopes, PreviewEstimates(s) PROVE EstimatedAlone'
    <2>1. call' = [at |-> "estimating", scope |-> s]
      BY <1>2 DEF PreviewEstimates
    <2>2. \A p \in plans' : LineageOf(p) # Lineage[s]
      BY <1>2, EstimateEmpties DEF Emptied
    <2>3. QED
      BY <2>1, <2>2 DEF EstimatedAlone, Estimating, LineageOf
  <1>3. CASE Tick /\ UNCHANGED call
    BY <1>3 DEF Tick, memory, EstimatedAlone, Estimating, LineageOf, TypeOK
  <1>4. CASE UNCHANGED vars
    BY <1>4 DEF vars, EstimatedAlone, Estimating, LineageOf
  <1>5. QED
    BY <1>1, <1>2, <1>3, <1>4, CallChange

-----------------------------------------------------------------------------
(* Decisions.                                                               *)

(* A verdict is given to a live plan, which is gone then.                   *)
LEMMA VerdictChange ==
  ASSUME TypeOK, PlansOwned, [Next]_vars
  PROVE  \/ UNCHANGED verdicts
         \/ \E p \in Alive : /\ Counted(p.id, "declined") \/ Counted(p.id, "started")
                            /\ plans' = Alive \ {p} /\ UNCHANGED issued
  <1>1. ASSUME NEW s \in Scopes, PreviewSuppressed(s) \/ PreviewReuses(s) \/ PreviewEstimates(s)
        PROVE  UNCHANGED verdicts
    BY <1>1 DEF PreviewSuppressed, PreviewReuses, PreviewEstimates, told
  <1>2. ASSUME NEW id \in Plans,
               Continues(id) \/ \E approved \in BOOLEAN : RunReads(id, approved)
        PROVE  UNCHANGED verdicts
    BY <1>2 DEF Continues, RunReads, told
  <1>3. CASE \/ PreviewUnresolved \/ PreviewOffers \/ PreviewRaises \/ RunRefused \/ AssertionFails
            \/ Pauses \/ Completes \/ NotContinued \/ Exports \/ Crash \/ Tick \/ UNCHANGED vars
    BY <1>3 DEF PreviewUnresolved, PreviewOffers, PreviewRaises, RunRefused, AssertionFails, Pauses,
                Completes, NotContinued, Exports, Crash, Tick, told, vars
  <1>4. CASE Declines
    BY <1>4 DEF Declines, Named, Take
  <1>5. CASE Starts
    BY <1>5 DEF Starts, Named, Take
  <1>6. QED
    BY <1>1, <1>2, <1>3, <1>4, <1>5 DEF Next

LEMMA IssuedChange ==
  ASSUME [Next]_vars
  PROVE  UNCHANGED issued \/ PreviewOffers
  <1>1. ASSUME NEW s \in Scopes, PreviewSuppressed(s) \/ PreviewReuses(s) \/ PreviewEstimates(s)
        PROVE  UNCHANGED issued
    BY <1>1 DEF PreviewSuppressed, PreviewReuses, PreviewEstimates
  <1>2. ASSUME NEW id \in Plans,
               Continues(id) \/ \E approved \in BOOLEAN : RunReads(id, approved)
        PROVE  UNCHANGED issued
    BY <1>2 DEF Continues, RunReads
  <1>3. CASE \/ PreviewUnresolved \/ PreviewRaises \/ RunRefused \/ AssertionFails \/ Declines \/ Starts
            \/ Pauses \/ Completes \/ NotContinued \/ Exports \/ Crash \/ Tick \/ UNCHANGED vars
    BY <1>3 DEF PreviewUnresolved, PreviewRaises, RunRefused, AssertionFails, Declines, Starts, Pauses,
                Completes, NotContinued, Exports, Crash, Tick, vars
  <1>4. QED
    BY <1>1, <1>2, <1>3 DEF Next

LEMMA DecidedStep ==
  /\ TypeOK /\ PlansOwned /\ EstimatedAlone /\ Undecided /\ DecidedOnce /\ [Next]_vars
  => Undecided' /\ DecidedOnce'
  <1> SUFFICES ASSUME TypeOK, PlansOwned, EstimatedAlone, Undecided, DecidedOnce, [Next]_vars
               PROVE  Undecided' /\ DecidedOnce'
    OBVIOUS
  <1>1. ASSUME NEW p \in Alive, Counted(p.id, "declined") \/ Counted(p.id, "started"),
               plans' = Alive \ {p}, UNCHANGED issued
        PROVE  Undecided' /\ DecidedOnce'
    <2>1. /\ p \in plans /\ p.id \in Plans /\ p.id \in 1..issued /\ issued \in Nat
          /\ verdicts[p.id].declined = 0 /\ verdicts[p.id].started = 0
      <3>1. p \in plans
        BY PurgeType
      <3>2. issued \in Nat /\ \A q \in plans : q.id \in Plans /\ q.id \in 1..issued
        BY TimesAssumption DEF TypeOK, Plans
      <3>3. verdicts[p.id].declined = 0 /\ verdicts[p.id].started = 0
        BY <3>1 DEF Undecided
      <3>4. QED
        BY <3>1, <3>2, <3>3
    <2>2. /\ verdicts'[p.id].declined + verdicts'[p.id].started = 1
          /\ \A id \in Plans \ {p.id} : verdicts'[id] = verdicts[id]
      BY <1>1, <2>1 DEF Counted, TypeOK
    <2>3. \A q \in plans' : q.id # p.id /\ q.id \in Plans /\ q \in plans
      <3>1. \A q \in plans' : q \in plans /\ q # p
        BY <1>1, PurgeType
      <3>2. \A q \in plans : q.id \in Plans
        BY TimesAssumption DEF TypeOK, Plans
      <3>3. QED
        BY <2>1, <3>1, <3>2 DEF PlansOwned
    <2>4. \A id \in Plans : id > issued' => id # p.id
      BY <1>1, <2>1
    <2>5. Undecided'
      BY <1>1, <2>2, <2>3, <2>4 DEF Undecided
    <2>6. DecidedOnce'
      BY <2>2 DEF DecidedOnce
    <2>7. QED
      BY <2>5, <2>6
  <1>2. CASE UNCHANGED verdicts
    <2>1. DecidedOnce'
      BY <1>2 DEF DecidedOnce
    <2>2. CASE PreviewOffers
      <3>1. /\ \A p \in plans' : p \in plans \/ p.id = issued + 1
            /\ issued' = issued + 1 /\ issued \in Nat /\ issued + 1 \in Plans
        BY <2>2, OffersPlan, PurgeType DEF PreviewOffers
      <3>2. \A id \in Plans : id \in Nat
        BY TimesAssumption DEF Plans
      <3>3. QED
        BY <1>2, <2>1, <3>1, <3>2 DEF Undecided
    <2>3. CASE plans' \subseteq plans /\ UNCHANGED issued
      BY <1>2, <2>1, <2>3 DEF Undecided
    <2>4. plans' \subseteq plans \/ PreviewOffers
      BY PlansChange, PurgeType DEF Purged, Emptied, Crash
    <2>5. QED
      BY <2>2, <2>3, <2>4, IssuedChange
  <1>3. QED
    BY <1>1, <1>2, VerdictChange

-----------------------------------------------------------------------------
(* Offers.                                                                  *)

(* Offers leave the user's hands with the plan that was decided or          *)
(* outgrown; those that stay are of plans that stay, or have expired.       *)
LEMMA OffersStep ==
  TypeOK /\ PlansOwned /\ OffersLive /\ [Next]_vars => OffersLive'
  <1> SUFFICES ASSUME TypeOK, PlansOwned, OffersLive, [Next]_vars PROVE OffersLive'
    OBVIOUS
  <1> USE DEF memory, told
  <1>1. \A o \in offers : o.expires > now => o \in Alive
    BY DEF OffersLive, Alive
  <1>2. CASE offers' \subseteq offers /\ Alive \subseteq plans' /\ UNCHANGED now
    BY <1>1, <1>2 DEF OffersLive
  <1>3. ASSUME NEW s \in Scopes, PreviewSuppressed(s) \/ PreviewReuses(s) PROVE OffersLive'
    BY <1>2, <1>3 DEF PreviewSuppressed, PreviewReuses, Purge
  <1>4. ASSUME NEW s \in Scopes, PreviewEstimates(s) PROVE OffersLive'
    <2>1. plans' = Alive \ Outgrown(s) /\ UNCHANGED now
      BY <1>4 DEF PreviewEstimates
    <2>2. \A p \in Outgrown(s) : Lineage[p.scope] = Lineage[s] /\ MuchWider(Weight[s], Weight[p.scope])
      <3>1. \A p \in Outgrown(s) : LineageOf(p) = Lineage[s]
        BY <1>4, EstimateEmpties
      <3>2. Reusable(s) = {} /\ Overlapping(s) = {}
        BY <1>4 DEF PreviewEstimates
      <3>3. QED
        BY <3>1, <3>2 DEF Outgrown, Reusable, Overlapping, LineageOf
    <2>3. offers' \cap Outgrown(s) = {} /\ offers' \subseteq offers
      BY <1>4, <2>2 DEF PreviewEstimates
    <2>4. QED
      BY <1>1, <2>1, <2>3 DEF OffersLive
  <1>5. CASE PreviewOffers
    <2>1. /\ plans' = Alive \cup {NewPlan(call.scope)}
          /\ offers' = offers \cup {NewPlan(call.scope)} /\ UNCHANGED now
      BY <1>5 DEF PreviewOffers, Issue
    <2>2. QED
      BY <1>1, <2>1 DEF OffersLive
  <1>6. CASE RunRefused \/ AssertionFails
    BY <1>2, <1>6 DEF RunRefused, AssertionFails, Purge
  <1>7. ASSUME NEW id \in Plans, NEW approved \in BOOLEAN, RunReads(id, approved)
        PROVE  OffersLive'
    BY <1>2, <1>7 DEF RunReads, Purge
  <1>8. ASSUME NEW p, Take(p), InHand(p.id), UNCHANGED now PROVE OffersLive'
    BY <1>1, <1>8 DEF Take, InHand, OffersLive
  <1>9. CASE Declines
    <2>1. CASE Purge /\ UNCHANGED offers
      BY <1>2, <1>9, <2>1 DEF Declines, Purge
    <2>2. QED
      BY <1>8, <1>9, <2>1 DEF Declines
  <1>10. CASE Starts
    BY <1>8, <1>10 DEF Starts
  <1>11. CASE \/ PreviewUnresolved \/ PreviewRaises \/ Pauses \/ Completes \/ NotContinued \/ Exports
             \/ (\E id \in Plans : Continues(id)) \/ UNCHANGED vars
    BY <1>11 DEF PreviewUnresolved, PreviewRaises, Pauses, Completes, NotContinued, Exports, Continues, vars,
                 OffersLive
  <1>12. CASE Tick
    <2>1. now' = now + 1 /\ now \in Nat /\ UNCHANGED <<plans, offers>>
      BY <1>12 DEF Tick, TypeOK
    <2>2. \A o \in offers : o.expires \in Nat
      BY DEF TypeOK
    <2>3. QED
      BY <2>1, <2>2 DEF OffersLive
  <1>13. CASE Crash
    BY <1>13 DEF Crash, OffersLive
  <1>14. QED
    BY <1>3, <1>4, <1>5, <1>6, <1>7, <1>9, <1>10, <1>11, <1>12, <1>13 DEF Next

-----------------------------------------------------------------------------
(* Files.                                                                   *)

(* One store: what was promised of the files that now are in it.            *)
Held(promised, files, ttl, clock) ==
  \A p \in promised : p.touched >= clock - ttl =>
    \E f \in files : f.id = p.id /\ f.touched >= p.touched

LEMMA KeptHeld ==
  ASSUME NEW ttl \in Nat, NEW clock \in Nat, clock = now,
         NEW promised, NEW files,
         \A p \in promised \cup files : p.touched \in Nat,
         Held(promised, files, ttl, clock)
  PROVE  Held(promised, Kept(files, ttl), ttl, clock)
  BY DEF Held, Kept

LEMMA SavedHeld ==
  ASSUME NEW ttl \in Nat, NEW clock \in Nat, clock = now, NEW id,
         NEW promised, NEW files,
         \A p \in promised \cup files : p.touched \in 0..now,
         Held(promised, files, ttl, clock)
  PROVE  /\ Held(Saved(promised, id), Saved(files, id), ttl, clock)
         /\ Held(promised, Saved(files, id), ttl, clock)
         /\ Held(Dropped(promised, id), Dropped(files, id), ttl, clock)
  <1> DEFINE new == [id |-> id, touched |-> now]
  <1>1. new.id = id /\ new.touched = now /\ now \in Nat
    OBVIOUS
  <1> HIDE DEF new
  <1>2. \A some : /\ Saved(some, id) = {f \in some : f.id # id} \cup {new}
                 /\ Dropped(some, id) = {f \in some : f.id # id}
    BY DEF Saved, Dropped, new
  <1>3. \A p \in promised : p.id # id /\ p.touched >= clock - ttl =>
          \E f \in {g \in files : g.id # id} : f.id = p.id /\ f.touched >= p.touched
    BY DEF Held
  <1>4. \A p \in promised : new.touched >= p.touched
    BY <1>1
  <1>5. Held(promised, Saved(files, id), ttl, clock)
    BY <1>1, <1>2, <1>3, <1>4 DEF Held
  <1>6. Held(Saved(promised, id), Saved(files, id), ttl, clock)
    BY <1>1, <1>2, <1>3 DEF Held
  <1>7. Held(Dropped(promised, id), Dropped(files, id), ttl, clock)
    BY <1>2, <1>3 DEF Held
  <1>8. QED
    BY <1>5, <1>6, <1>7

LEMMA FilesStep ==
  TypeOK /\ FilesKept /\ [Next]_vars => FilesKept'
  <1> SUFFICES ASSUME TypeOK, FilesKept, [Next]_vars PROVE FilesKept'
    OBVIOUS
  <1> USE DEF told, disk
  <1>1. /\ now \in Nat /\ CheckpointTtl \in Nat /\ RecordTtl \in Nat
        /\ \A p \in paused \cup checkpoints : p.touched \in 0..now
        /\ \A p \in finished \cup records : p.touched \in 0..now
    BY TimesAssumption DEF TypeOK
  <1>2. /\ Held(paused, checkpoints, CheckpointTtl, now)
        /\ Held(finished, records, RecordTtl, now)
    BY DEF FilesKept, Held
  <1>3. SUFFICES /\ Held(paused', checkpoints', CheckpointTtl, now')
                 /\ Held(finished', records', RecordTtl, now')
    BY DEF FilesKept, Held
  <1>4. /\ Held(paused, Kept(checkpoints, CheckpointTtl), CheckpointTtl, now)
        /\ Held(finished, Kept(records, RecordTtl), RecordTtl, now)
    BY <1>1, <1>2, KeptHeld
  <1>5. \A id : /\ Held(Saved(paused, id), Saved(checkpoints, id), CheckpointTtl, now)
               /\ Held(paused, Saved(checkpoints, id), CheckpointTtl, now)
               /\ Held(Dropped(paused, id), Dropped(checkpoints, id), CheckpointTtl, now)
               /\ Held(Saved(finished, id), Saved(records, id), RecordTtl, now)
    BY <1>1, <1>2, SavedHeld
  <1>6. CASE /\ UNCHANGED <<now, paused, finished>>
             /\ checkpoints' \in {checkpoints, Kept(checkpoints, CheckpointTtl)}
             /\ records' \in {records, Kept(records, RecordTtl)}
    BY <1>2, <1>4, <1>6
  <1>7. ASSUME NEW s \in Scopes, PreviewSuppressed(s) \/ PreviewReuses(s) \/ PreviewEstimates(s)
        PROVE  /\ Held(paused', checkpoints', CheckpointTtl, now')
               /\ Held(finished', records', RecordTtl, now')
    BY <1>6, <1>7 DEF PreviewSuppressed, PreviewReuses, PreviewEstimates, CleansBoth
  <1>8. ASSUME NEW id \in Plans,
               Continues(id) \/ \E approved \in BOOLEAN : RunReads(id, approved)
        PROVE  /\ Held(paused', checkpoints', CheckpointTtl, now')
               /\ Held(finished', records', RecordTtl, now')
    BY <1>6, <1>8 DEF Continues, RunReads, CleansCheckpoints
  <1>9. CASE \/ PreviewUnresolved \/ PreviewOffers \/ PreviewRaises \/ RunRefused \/ Declines \/ AssertionFails
            \/ NotContinued \/ Exports \/ Crash \/ UNCHANGED vars
    BY <1>6, <1>9 DEF PreviewUnresolved, PreviewOffers, PreviewRaises, RunRefused, Declines, AssertionFails,
         NotContinued, Exports, Crash, CleansBoth, CleansCheckpoints, vars
  <1>10. CASE Starts
    <2>1. PICK p \in Named(call.plan) :
            checkpoints' = Saved(checkpoints, p.id) \/ UNCHANGED checkpoints
      BY <1>10 DEF Starts
    <2>2. QED
      BY <1>2, <1>5, <1>10, <2>1 DEF Starts
  <1>11. CASE Pauses
    BY <1>2, <1>5, <1>11 DEF Pauses
  <1>12. CASE Completes
    BY <1>2, <1>5, <1>12 DEF Completes
  <1>13. CASE Tick
    BY <1>1, <1>2, <1>13 DEF Tick, Held
  <1>14. QED
    BY <1>7, <1>8, <1>9, <1>10, <1>11, <1>12, <1>13 DEF Next

-----------------------------------------------------------------------------
(* Refusals.                                                                *)

(* The refusals in force, when neither the call nor the clock has changed   *)
(* what they need.                                                          *)
LEMMA RefusalsStep ==
  TypeOK /\ PlansOwned /\ EstimatedAlone /\ RefusalsKnown /\ [Next]_vars => RefusalsKnown'
  <1> SUFFICES ASSUME TypeOK, PlansOwned, EstimatedAlone, RefusalsKnown, [Next]_vars
               PROVE  RefusalsKnown'
    OBVIOUS
  <1> USE DEF memory, told, LineageOf
  <1> DEFINE Live == {r \in refusals : r.until > now}
  <1>1. \A r \in Live :
          /\ r.lineage \in Lineages
          /\ \A p \in Alive : LineageOf(p) # r.lineage
          /\ ~Estimating(r.lineage)
          /\ Refused[r.lineage] = declined[r.lineage]
          /\ declined[r.lineage].until = r.until /\ declined[r.lineage].weight = r.weight
    <2> TAKE r \in Live
    <2>1. r.lineage \in Lineages /\ r.until > now
      BY DEF TypeOK
    <2>2. \A p \in Alive : LineageOf(p) # r.lineage
      <3>1. \A p \in Alive : p \in plans /\ p.expires \in Nat /\ p.expires > now /\ now \in Nat
        BY DEF Alive, TypeOK
      <3>2. QED
        BY <2>1, <3>1 DEF RefusalsKnown
    <2>3. declined[r.lineage].until = r.until /\ declined[r.lineage].weight = r.weight
      BY <2>1 DEF RefusalsKnown
    <2>4. Refused[r.lineage] = declined[r.lineage]
      BY <2>1, <2>3 DEF Refused
    <2>5. ~Estimating(r.lineage)
      BY <2>1 DEF RefusalsKnown
    <2>6. QED
      BY <2>1, <2>2, <2>3, <2>4, <2>5
  <1>2. Begin => \A l : ~Estimating(l)
    BY DEF Begin, Idle, Estimating
  <1> HIDE DEF Live
  <1>3. ASSUME \A l : ~Estimating(l), \A l : ~Estimating(l)', plans' \subseteq Alive,
               UNCHANGED <<now, refusals>>,
               \A r \in Live : declined'[r.lineage] \in {declined[r.lineage], Refused[r.lineage]}
        PROVE  RefusalsKnown'
    BY <1>1, <1>3 DEF RefusalsKnown, Live
  <1>4. ASSUME NEW s \in Scopes, PreviewSuppressed(s) \/ PreviewReuses(s) PROVE RefusalsKnown'
    <2>1. CASE Purge
      BY <1>2, <1>3, <1>4, <2>1 DEF Purge, PreviewSuppressed, PreviewReuses, Return, Idle, Estimating
    <2>2. CASE LiftRefusal(Lineage[s]) /\ Reusable(s) \cup Overlapping(s) # {}
      <3>1. \E p \in Alive : LineageOf(p) = Lineage[s]
        BY <2>2, ScopeLineage, CurrentPlans DEF Reusable, Overlapping
      <3>2. \A r \in Live : r.lineage # Lineage[s]
        BY <1>1, <3>1
      <3>3. \A r \in Live : declined'[r.lineage] = Refused[r.lineage]
        BY <1>1, <2>2, <3>2, PurgeType DEF LiftRefusal
      <3>4. QED
        BY <1>2, <1>3, <1>4, <3>3
           DEF PreviewSuppressed, PreviewReuses, Purge, Return, Idle, Estimating
    <2>3. QED
      BY <1>4, <2>1, <2>2 DEF PreviewSuppressed, PreviewReuses
  <1>5. ASSUME NEW s \in Scopes, PreviewEstimates(s) PROVE RefusalsKnown'
    <2>1. /\ plans' \subseteq Alive /\ UNCHANGED now
          /\ refusals' = {r \in refusals : \/ r.lineage # Lineage[s]
                                           \/ ~MuchWider(Weight[s], r.weight)}
          /\ LiftRefusal(Lineage[s]) /\ ~StillDeclined(s)
          /\ call' = [at |-> "estimating", scope |-> s]
      BY <1>5 DEF PreviewEstimates
    <2>2. \A l : Estimating(l)' <=> l = Lineage[s]
      BY <2>1 DEF Estimating
    <2>3. \A r \in Live : r.lineage # Lineage[s] =>
            declined'[r.lineage].until = r.until /\ declined'[r.lineage].weight = r.weight
      BY <1>1, <1>2, <1>5, <2>1, PurgeType DEF LiftRefusal, PreviewEstimates
    <2>4. \A r \in Live : r.lineage = Lineage[s] => MuchWider(Weight[s], r.weight)
      <3>1. \A r \in Live : r.until > now
        BY DEF Live
      <3>2. QED
        BY <1>1, <2>1, <3>1 DEF StillDeclined
    <2>5. \A r \in refusals' : r.until > now => r \in Live /\ r.lineage # Lineage[s]
      BY <2>1, <2>4 DEF Live
    <2>6. QED
      BY <1>1, <2>1, <2>2, <2>3, <2>5 DEF RefusalsKnown
  <1>6. CASE PreviewOffers
    <2> DEFINE s == call.scope
    <2>1. /\ call.at = "estimating" /\ UNCHANGED now /\ declined' = Refused
          /\ plans' = Alive \cup {NewPlan(s)} /\ LineageOf(NewPlan(s)) = Lineage[s]
          /\ UNCHANGED refusals
          /\ \A l : ~Estimating(l)'
      BY <1>6, OffersPlan DEF PreviewOffers, Issue, Return, Idle, Estimating
    <2>2. Estimating(Lineage[s])
      BY <2>1 DEF Estimating
    <2>3. \A r \in refusals' : r.until > now => r \in Live /\ r.lineage # Lineage[s]
      BY <1>1, <2>1, <2>2 DEF Live
    <2>4. QED
      BY <1>1, <2>1, <2>2, <2>3 DEF RefusalsKnown
  <1>7. CASE RunRefused \/ AssertionFails
    BY <1>2, <1>3, <1>7 DEF RunRefused, AssertionFails, Purge, Return, Idle, Estimating
  <1>8. ASSUME NEW id \in Plans, NEW approved \in BOOLEAN, RunReads(id, approved)
        PROVE  RefusalsKnown'
    BY <1>2, <1>3, <1>8 DEF RunReads, Purge, Estimating
  <1>9. CASE Declines
    <2>1. (\A l : ~Estimating(l)) /\ (\A l : ~Estimating(l)') /\ UNCHANGED now
      BY <1>9 DEF Declines, Return, Idle, Estimating
    <2>2. CASE Purge /\ UNCHANGED refusals
      BY <1>3, <2>1, <2>2 DEF Purge
    <2>3. ASSUME NEW p \in Named(call.plan), Take(p),
                 declined' = [Refused EXCEPT ![Lineage[p.scope]] =
                                [until |-> now + PlanTtl, weight |-> Weight[p.scope]]],
                 refusals' = refusals \cup {[lineage |-> Lineage[p.scope],
                                             weight |-> Weight[p.scope],
                                             until |-> now + PlanTtl]}
          PROVE  RefusalsKnown'
      <3>1. p \in Alive /\ Lineage[p.scope] \in Lineages
        BY PurgeOwned DEF Named
      <3>2. /\ plans' \subseteq Alive
            /\ \A q \in plans' : LineageOf(q) # Lineage[p.scope]
        BY <2>3, <3>1, TakeEmpties DEF Emptied
      <3>3. \A r \in Live : r.lineage # Lineage[p.scope] /\ declined'[r.lineage] = Refused[r.lineage]
        BY <1>1, <2>3, <3>1, PurgeType
      <3>4. /\ declined'[Lineage[p.scope]].until = now + PlanTtl
            /\ declined'[Lineage[p.scope]].weight = Weight[p.scope]
        BY <2>3, <3>1, PurgeType
      <3>5. QED
        BY <1>1, <2>1, <2>3, <3>2, <3>3, <3>4 DEF RefusalsKnown, Live
    <2>4. QED
      BY <1>9, <2>2, <2>3 DEF Declines
  <1>10. CASE Starts
    <2>1. (\A l : ~Estimating(l)) /\ (\A l : ~Estimating(l)')
      BY <1>10 DEF Starts, Return, Idle, Estimating
    <2>2. plans' \subseteq Alive /\ declined' = Refused /\ UNCHANGED <<now, refusals>>
      BY <1>10 DEF Starts, Take
    <2>3. QED
      BY <1>3, <2>1, <2>2
  <1>11. ASSUME UNCHANGED <<now, memory, refusals>>,
                \/ UNCHANGED call
                \/ (\A l : ~Estimating(l)) /\ (\A l : ~Estimating(l)')
         PROVE  RefusalsKnown'
    BY <1>11 DEF RefusalsKnown, Estimating
  <1>16. CASE PreviewRaises
    <2>1. UNCHANGED <<now, memory, refusals>> /\ \A l : ~Estimating(l)'
      BY <1>16 DEF PreviewRaises, Return, Idle, Estimating
    <2>2. QED
      BY <2>1 DEF RefusalsKnown
  <1>12. CASE \/ PreviewUnresolved \/ Pauses \/ Completes \/ NotContinued \/ Exports
             \/ (\E id \in Plans : Continues(id)) \/ UNCHANGED vars
    BY <1>2, <1>11, <1>12 DEF PreviewUnresolved, Pauses, Completes, NotContinued, Exports,
         Continues, Return, Idle, Estimating, vars
  <1>13. CASE Tick
    <2>1. now' = now + 1 /\ now \in Nat /\ UNCHANGED <<plans, declined, refusals, call>>
      BY <1>13 DEF Tick, TypeOK
    <2>2. /\ \A r \in refusals : r.until \in Nat
          /\ \A p \in plans : p.expires \in Nat
      BY DEF TypeOK
    <2>3. QED
      BY <2>1, <2>2 DEF RefusalsKnown, Estimating
  <1>14. CASE Crash
    BY <1>14 DEF Crash, RefusalsKnown
  <1>15. QED
    BY <1>4, <1>5, <1>6, <1>7, <1>8, <1>9, <1>10, <1>12, <1>13, <1>14, <1>16 DEF Next

-----------------------------------------------------------------------------
(* The theorems.                                                            *)

LEMMA InitOk == Init => IInv
  <1> SUFFICES ASSUME Init PROVE IInv
    OBVIOUS
  <1>1. TypeOK
    BY TimesAssumption DEF Init, TypeOK, Idle, Quiet, NoPlan
  <1>2. PlansOwned /\ EstimatedAlone /\ OffersLive /\ FilesKept /\ RefusalsKnown
    BY DEF Init, PlansOwned, EstimatedAlone, OffersLive, FilesKept, RefusalsKnown
  <1>3. Undecided /\ DecidedOnce
    BY DEF Init, Undecided, DecidedOnce
  <1>4. QED
    BY <1>1, <1>2, <1>3 DEF IInv

LEMMA InvariantStep == IInv /\ [Next]_vars => IInv'
  BY TypeStep, OwnedStep, EstimatedAloneStep, DecidedStep, OffersStep, FilesStep, RefusalsStep
     DEF IInv

LEMMA InvariantAlways == Spec => []IInv
  BY InitOk, InvariantStep, PTL DEF Spec

(* Every variable of the plans and files has its type.                      *)
THEOREM PlansTypeCorrect == Spec => []TypeOK
  <1>1. IInv => TypeOK
    BY DEF IInv
  <1>2. QED
    BY <1>1, InvariantAlways, PTL

(* No plan starts two jobs, is declined twice, or is declined and started,  *)
(* with the clock going on between get() and consume() or decline().        *)
THEOREM DecisionsOnce == Spec => []DecidedOnce
  <1>1. IInv => DecidedOnce
    BY DEF IInv
  <1>2. QED
    BY <1>1, InvariantAlways, PTL

(* An offered plan can be approved until it expires, a paused job continued *)
(* and a finished one exported until its file is due for removal.           *)
THEOREM OffersKept == Spec => []OfferHolds
  <1>1. IInv => OfferHolds
    BY DEF IInv, OffersLive, FilesKept, OfferHolds
  <1>2. QED
    BY <1>1, InvariantAlways, PTL

(* After a refusal no narrower plan of the query lies before the user, for  *)
(* its time or until he has asked for a wider one, offered or not.          *)
THEOREM RefusalsHold == Spec => []RefusalHolds
  <1>1. IInv => RefusalHolds
    <2> SUFFICES ASSUME IInv, NEW r \in refusals, NEW o \in offers,
                        r.until > now, Lineage[o.scope] = r.lineage, o.expires > now
                 PROVE  FALSE
      BY DEF RefusalHolds
    <2>1. o \in plans /\ o.expires \in Nat /\ now \in Nat
      BY DEF IInv, OffersLive, TypeOK
    <2>2. o.expires <= now
      BY <2>1 DEF IInv, RefusalsKnown, LineageOf
    <2>3. QED
      BY <2>1, <2>2
  <1>2. QED
    BY <1>1, InvariantAlways, PTL
=============================================================================
