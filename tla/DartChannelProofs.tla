------------------------- MODULE DartChannelProofs --------------------------
(***************************************************************************)
(* For every threshold and every block time: DART is not called while the  *)
(* circuit is open, a block is sat out unless a checkpoint replaces the    *)
(* breaker, network failures in a row open the circuit, a block that a     *)
(* checkpoint carries holds for its job, and after a block a status check  *)
(* comes before a search.                                                  *)
(***************************************************************************)
EXTENDS DartChannel, TLAPS

-----------------------------------------------------------------------------
(* The breaker.                                                             *)

LEMMA BlankType == Blank \in Snapshots
  BY DEF Blank, Snapshots, Statuses, Classes

LEMMA BeforeRequestType ==
  ASSUME NEW b \in Snapshots
  PROVE  /\ BeforeRequest(b) \in Snapshots
         /\ BeforeRequest(b).left = b.left
         /\ BeforeRequest(b).class = b.class /\ BeforeRequest(b).count = b.count
         /\ b.status # "CIRCUIT_OPEN" => BeforeRequest(b) = b
         /\ b.status = "CIRCUIT_OPEN" /\ b.left > 0 => BeforeRequest(b) = b
         /\ b.status = "CIRCUIT_OPEN" /\ b.left = 0 => BeforeRequest(b).status = "PROBING"
  BY DEF BeforeRequest, Snapshots, Statuses

LEMMA OpenedType ==
  ASSUME NEW class \in Classes, NEW count \in Nat
  PROVE  /\ Opened(class, count) \in Snapshots
         /\ Opened(class, count).status = "CIRCUIT_OPEN"
  BY BreakerAssumption DEF Opened, Block, Snapshots, Statuses, Classes

(* A failure either opens the circuit, or degrades it with a higher count.  *)
LEMMA FailureType ==
  ASSUME NEW b \in Snapshots, NEW class \in Classes
  PROVE  /\ Failure(b, class) \in Snapshots
         /\ \/ Failure(b, class).status = "CIRCUIT_OPEN"
            \/ /\ Failure(b, class).status = "DEGRADED" /\ b.status # "PROBING"
               /\ Failure(b, class).class = class
               /\ Failure(b, class).count < Threshold(class)
               /\ b.class = class => Failure(b, class).count > b.count
               /\ Failure(b, class).count > 0
  <1> DEFINE before == IF b.class = class THEN b.count ELSE 0
             count == IF before < CountBound THEN before + 1 ELSE CountBound
  <1>1. CountBound \in Nat \ {0} /\ Threshold(class) \in Nat \ {0} /\ Threshold(class) <= CountBound
    BY BreakerAssumption DEF CountBound, Threshold, Classes
  <1>2. before \in Nat /\ count \in Nat \ {0} /\ count <= CountBound
    BY <1>1 DEF Snapshots
  <1>3. before >= CountBound => count = CountBound
    BY <1>1, <1>2
  <1>4. before < CountBound => count = before + 1
    BY <1>1, <1>2
  <1> HIDE DEF count
  <1>5. Failure(b, class) = IF b.status = "PROBING" \/ count >= Threshold(class)
                            THEN Opened(class, count)
                            ELSE [b EXCEPT !.status = "DEGRADED", !.class = class, !.count = count]
    BY DEF Failure, count
  <1>6. CASE b.status = "PROBING" \/ count >= Threshold(class)
    BY <1>2, <1>5, <1>6, OpenedType
  <1>7. CASE ~(b.status = "PROBING" \/ count >= Threshold(class))
    <2>1. count < Threshold(class) /\ before < CountBound
      BY <1>1, <1>2, <1>3, <1>7
    <2>2. count = before + 1
      BY <1>4, <2>1
    <2>3. Failure(b, class) = [b EXCEPT !.status = "DEGRADED", !.class = class, !.count = count]
      BY <1>5, <1>7, Zenon
    <2>4. /\ Failure(b, class) \in Snapshots /\ Failure(b, class).status = "DEGRADED"
          /\ Failure(b, class).class = class /\ Failure(b, class).count = count
      BY <1>2, <2>3 DEF Snapshots, Statuses
    <2>5. QED
      BY <1>2, <1>7, <2>1, <2>2, <2>4
  <1>8. QED
    BY <1>6, <1>7

LEMMA AgedType ==
  ASSUME NEW b \in Snapshots
  PROVE  /\ Aged(b) \in Snapshots /\ Aged(b).status = b.status
         /\ Aged(b).class = b.class /\ Aged(b).count = b.count
         /\ Aged(b).left = IF b.left > 0 THEN b.left - 1 ELSE 0
  BY DEF Aged, Snapshots

(* What recording an outcome leaves in the breaker and in the history.      *)
LEMMA RecordedType ==
  ASSUME TypeOK, NEW class \in Classes,
         \/ Recorded(Failure(breaker, class), class)
         \/ Recorded(Trip(breaker, class), class)
  PROVE  /\ breaker' \in Snapshots /\ cooling' \in Nat
         /\ streak' \in 0..NetworkThreshold /\ replaced' \in BOOLEAN
  <1>1. breaker' \in Snapshots /\ breaker'.left \in Nat
    <2>1. Failure(breaker, class) \in Snapshots /\ Trip(breaker, class) \in Snapshots
      BY FailureType, OpenedType DEF Trip, TypeOK
    <2>2. QED
      BY <2>1 DEF Recorded, Snapshots
  <1>2. cooling' \in {cooling, breaker'.left} /\ replaced' \in {replaced, FALSE}
    BY DEF Recorded
  <1>3. streak' \in 0..NetworkThreshold
    BY BreakerAssumption DEF Recorded, TypeOK
  <1>4. QED
    BY <1>1, <1>2, <1>3 DEF TypeOK

LEMMA TransportType ==
  ASSUME TypeOK, NEW answer, TransportFailure(answer)
  PROVE  /\ breaker' \in Snapshots /\ cooling' \in Nat /\ confirmed' = FALSE
         /\ streak' \in 0..NetworkThreshold /\ replaced' \in BOOLEAN
  BY RecordedType DEF TransportFailure, Classes

LEMMA RecoveredType ==
  ASSUME Recovered
  PROVE  /\ breaker' \in Snapshots /\ cooling' \in Nat
         /\ streak' \in 0..NetworkThreshold /\ replaced' \in BOOLEAN
  <1>1. breaker' = Blank /\ cooling' = 0 /\ streak' = 0 /\ replaced' = FALSE
    BY Zenon DEF Recovered, Success
  <1>2. replaced' \in BOOLEAN
    BY <1>1, Zenon
  <1>3. QED
    BY <1>1, <1>2, BlankType, BreakerAssumption

(* Where the call goes.                                                     *)
Control ==
  /\ pc \in Requesting \cup {"idle", "probe", "segment", "listing", "health", "page"}
  /\ caller \in Callers /\ purpose \in Purposes /\ initial \in Statuses
  /\ job \in Jobs \cup {NoJob} /\ saved \in Jobs \cup {NoJob}
  /\ told \in BOOLEAN /\ (told => saved # NoJob)
  /\ (caller = "none") <=> (pc = "idle")
  /\ (caller = "batch") <=> (job # NoJob)

LEMMA BatchHasJob == TypeOK /\ caller = "batch" => job # NoJob
  BY Zenon DEF TypeOK

(* The checkpoint is untouched.                                             *)
Kept == saved' = saved /\ told' = told

LEMMA EndsType ==
  ASSUME TypeOK, Ends, saved' \in Jobs \cup {NoJob},
         told' \in BOOLEAN, told' => saved' # NoJob
  PROVE  Control'
  BY Zenon DEF TypeOK, Control, Ends, Callers, Purposes

LEMMA KeptEndsType == TypeOK /\ Ends /\ Kept => Control'
  BY EndsType DEF TypeOK, Kept

LEMMA GoesType ==
  ASSUME TypeOK, pc # "idle", NEW why \in Purposes,
         NEW next \in Requesting \cup {"probe", "segment", "listing", "health", "page"},
         Goes(next, why), saved' \in Jobs \cup {NoJob},
         told' = told, told => saved' # NoJob,
         job' = job \/ (job \in Jobs /\ job' \in Jobs)
  PROVE  Control'
  <1>1. pc' # "idle" /\ pc' \in Requesting \cup {"idle", "probe", "segment", "listing", "health", "page"}
    BY DEF Goes, Requesting
  <1>2. job' \in Jobs \cup {NoJob} /\ ((job' # NoJob) <=> (job # NoJob))
    BY NoJobAssumption DEF TypeOK
  <1>3. QED
    BY <1>1, <1>2, Zenon DEF TypeOK, Control, Goes

LEMMA KeptGoesType ==
  ASSUME TypeOK, pc # "idle", NEW why \in Purposes,
         NEW next \in Requesting \cup {"probe", "segment", "listing", "health", "page"},
         Goes(next, why), Kept, job' = job
  PROVE  Control'
  <1>1. saved' \in Jobs \cup {NoJob}
    BY DEF TypeOK, Kept
  <1>2. told \in BOOLEAN /\ told' = told /\ (told => saved' # NoJob)
    BY Zenon DEF TypeOK, Kept
  <1>3. QED
    BY <1>1, <1>2, GoesType

LEMMA JobFields ==
  ASSUME NEW j \in Jobs, NEW c \in Snapshots
  PROVE  /\ [j EXCEPT !.discovering = FALSE] \in Jobs
         /\ [j EXCEPT !.checked = TRUE] \in Jobs
         /\ [j EXCEPT !.circuit = c] \in Jobs
  BY DEF Jobs

LEMMA FallsBackType == TypeOK /\ pc # "idle" /\ FallsBack => Control'
  <1> SUFFICES ASSUME TypeOK, pc # "idle", FallsBack PROVE Control'
    OBVIOUS
  <1>1. Kept
    BY Zenon DEF FallsBack, Kept
  <1>2. CASE Ends
    BY <1>1, <1>2, KeptEndsType
  <1>3. CASE NextPage
    BY <1>1, <1>3, KeptGoesType DEF NextPage, Purposes
  <1>4. CASE caller = "batch" /\ purpose = "probe"
    BY <1>1, <1>4, KeptGoesType DEF FallsBack, Purposes
  <1>5. CASE caller = "batch" /\ purpose # "probe"
    <2>1. job \in Jobs /\ Goes("listing", "none") /\ job' = [job EXCEPT !.discovering = FALSE]
      BY <1>5 DEF FallsBack, TypeOK
    <2>2. job' \in Jobs
      BY <2>1, BlankType, JobFields
    <2>3. QED
      BY <1>1, <2>1, <2>2, GoesType DEF Purposes, Kept, TypeOK
  <1>6. QED
    BY <1>2, <1>3, <1>4, <1>5, Zenon DEF FallsBack

LEMMA PausesType ==
  ASSUME TypeOK, caller = "batch", NEW b \in Snapshots, Pauses(b)
  PROVE  Control'
  <1>1. saved' \in Jobs
    BY JobFields DEF Pauses, TypeOK
  <1>2. told' \in BOOLEAN /\ saved' # NoJob
    BY <1>1, NoJobAssumption, Zenon DEF Pauses
  <1>3. QED
    BY <1>1, <1>2, EndsType, Zenon DEF Pauses

LEMMA OutOfTimeType == TypeOK /\ pc # "idle" /\ RunsOutOfTime => Control'
  <1> SUFFICES ASSUME TypeOK, pc # "idle", RunsOutOfTime PROVE Control'
    OBVIOUS
  <1>1. CASE Ends /\ UNCHANGED <<saved, told>>
    BY <1>1, KeptEndsType DEF Kept
  <1>2. CASE NextPage /\ UNCHANGED <<saved, told>>
    BY <1>2, KeptGoesType DEF NextPage, Purposes, Kept
  <1>3. CASE Goes("segment", "none") /\ UNCHANGED batch
    BY <1>3, KeptGoesType DEF batch, Purposes, Kept
  <1>4. CASE caller = "batch" /\ Pauses(breaker)
    BY <1>4, PausesType DEF TypeOK
  <1>5. QED
    BY <1>1, <1>2, <1>3, <1>4, Zenon DEF RunsOutOfTime

LEMMA HealthyType == TypeOK /\ pc # "idle" /\ Healthy /\ Kept => Control'
  <1> SUFFICES ASSUME TypeOK, pc # "idle", Healthy, Kept PROVE Control'
    OBVIOUS
  <1>1. CASE job' = job
    BY <1>1, KeptGoesType DEF Healthy, Purposes
  <1>2. CASE caller = "batch" /\ Goes("page", "none") /\ job' = [job EXCEPT !.checked = TRUE]
    <2>1. job \in Jobs /\ job' \in Jobs
      BY <1>2, BlankType, JobFields DEF TypeOK
    <2>2. QED
      BY <1>2, <2>1, GoesType DEF Purposes, Kept, TypeOK
  <1>3. QED
    BY <1>1, <1>2, Zenon DEF Healthy

LEMMA DiagnosedType == TypeOK /\ pc # "idle" /\ Diagnosed => Control'
  <1>1. TypeOK /\ pc # "idle" /\ Goes("replay", "none") /\ UNCHANGED batch => Control'
    BY KeptGoesType DEF Kept, batch, Purposes, Requesting
  <1>2. QED
    BY <1>1, FallsBackType DEF Diagnosed

(* Control and the rest together are the type invariant.                    *)
LEMMA TypeParts ==
  ASSUME Control', breaker' \in Snapshots,
         ready' \in BOOLEAN, confirmed' \in BOOLEAN, down' \in BOOLEAN,
         cooling' \in Nat, streak' \in 0..NetworkThreshold, replaced' \in BOOLEAN
  PROVE  TypeOK'
  BY Zenon DEF Control, TypeOK

-----------------------------------------------------------------------------
(* Every action preserves the types.                                        *)

LEMMA CallType ==
  ASSUME TypeOK, NEW who \in {"search", "preview"}, NEW next \in {"health", "page"},
         NEW why \in Purposes, Call(who, next, why), UNCHANGED <<breaker, batch, history>>
  PROVE  TypeOK'
  <1>1. job = NoJob /\ who # "batch" /\ who # "none" /\ who \in Callers /\ next # "idle"
    BY DEF TypeOK, Call, Callers
  <1>2. Control'
    BY <1>1, Zenon DEF TypeOK, Control, Call, batch
  <1>3. QED
    BY <1>2, TypeParts, Zenon DEF TypeOK, Call, history

LEMMA BatchCallType ==
  ASSUME TypeOK, Call("batch", "probe", "none"), job' \in Jobs, saved' \in Jobs, told' = told
  PROVE  Control'
  <1>1. job' # NoJob /\ saved' # NoJob
    BY NoJobAssumption
  <1>2. "batch" # "none" /\ "probe" # "idle" /\ "batch" \in Callers /\ "none" \in Purposes
    BY DEF Callers, Purposes
  <1>3. QED
    BY <1>1, <1>2, Zenon DEF TypeOK, Control, Call

LEMMA StepType ==
  ASSUME TypeOK, Control', breaker' \in Snapshots,
         UNCHANGED history, UNCHANGED <<ready, confirmed, down>>
  PROVE  TypeOK'
  BY TypeParts, Zenon DEF TypeOK, history

LEMMA QuietType ==
  ASSUME TypeOK, breaker' = breaker \/ breaker' = BeforeRequest(breaker)
  PROVE  breaker' \in Snapshots
  BY BeforeRequestType DEF TypeOK

LEMMA TickType == TypeOK /\ Tick => TypeOK'
  <1> SUFFICES ASSUME TypeOK, Tick PROVE TypeOK'
    OBVIOUS
  <1>1. breaker' \in Snapshots /\ cooling' \in Nat
    BY AgedType DEF Tick, TypeOK
  <1>2. ASSUME NEW j \in Jobs PROVE AgedJob(j) \in Jobs
    <2>1. Aged(j.circuit) \in Snapshots
      BY AgedType DEF Jobs
    <2>2. QED
      BY <2>1, NoJobAssumption DEF AgedJob, Jobs
  <1>3. AgedJob(NoJob) = NoJob
    BY DEF AgedJob
  <1>4. /\ job' \in Jobs \cup {NoJob} /\ saved' \in Jobs \cup {NoJob}
        /\ (job' = NoJob) <=> (job = NoJob)
        /\ (saved' = NoJob) <=> (saved = NoJob)
    BY <1>2, <1>3, NoJobAssumption DEF Tick, TypeOK
  <1>5. Control'
    BY <1>4, Zenon DEF TypeOK, Control, Tick, call
  <1>6. QED
    BY <1>1, <1>5, TypeParts, Zenon DEF Tick, TypeOK

LEMMA TypeNext == TypeOK /\ [Next]_vars => TypeOK'
  <1> SUFFICES ASSUME TypeOK, [Next]_vars PROVE TypeOK'
    OBVIOUS
  <1>1. CASE Search \/ Preview
    BY <1>1, CallType DEF Search, Preview, Purposes
  <1>2. CASE RunBatch
    <2>1. job' \in Jobs
      BY <1>2 DEF RunBatch, TypeOK, Jobs
    <2>2. Control'
      BY <1>2, <2>1, BatchCallType DEF RunBatch
    <2>3. QED
      BY <1>2, <2>2, QuietType, StepType, Zenon DEF RunBatch, Call
  <1>3. CASE ContinueBatch
    <2>1. saved \in Jobs /\ saved.circuit \in Snapshots
      BY <1>3 DEF ContinueBatch, TypeOK, Jobs
    <2>2. breaker' \in Snapshots
      BY <1>3, <2>1, BeforeRequestType DEF ContinueBatch, Restore
    <2>3. Control'
      BY <1>3, <2>1, BatchCallType, Zenon DEF ContinueBatch
    <2>4. streak' \in 0..NetworkThreshold /\ cooling' = cooling
      BY <1>3, BreakerAssumption DEF ContinueBatch
    <2>5. replaced' \in BOOLEAN
      BY <1>3, Zenon DEF ContinueBatch
    <2>6. QED
      BY <1>3, <2>2, <2>3, <2>4, <2>5, TypeParts, Zenon DEF ContinueBatch, Call, TypeOK
  <1>4. CASE Probe
    <2>1. Control'
      BY <1>4, KeptGoesType DEF Probe, batch, Kept, Purposes
    <2>2. QED
      BY <1>4, <2>1, QuietType, StepType, Zenon DEF Probe
  <1>5. CASE Segment
    <2>1. Control'
      BY <1>5, KeptGoesType DEF Segment, batch, Kept, Purposes
    <2>2. QED
      BY <1>5, <2>1, QuietType, StepType, Zenon DEF Segment, client
  <1>6. CASE PageDeadline \/ ListingPauses
    <2>1. caller = "batch"
      BY <1>6 DEF PageDeadline, ListingPauses
    <2>2. Control'
      BY <1>6, <2>1, PausesType DEF PageDeadline, ListingPauses, TypeOK
    <2>3. QED
      BY <1>6, <2>2, QuietType, StepType, Zenon DEF PageDeadline, ListingPauses, client
  <1>7. CASE ListingCompletes
    <2>1. Control'
      BY <1>7, EndsType, Zenon DEF ListingCompletes
    <2>2. QED
      BY <1>7, <2>1, QuietType, StepType, Zenon DEF ListingCompletes, client
  <1>8. CASE HealthBlocked \/ PageBlocked
    <2>1. Control'
      BY <1>8, FallsBackType DEF HealthBlocked, PageBlocked
    <2>2. QED
      BY <1>8, <2>1, QuietType, StepType, Zenon DEF HealthBlocked, PageBlocked
  <1>9. CASE HealthKnown
    <2>1. Control'
      BY <1>9, HealthyType DEF HealthKnown, Kept
    <2>2. QED
      BY <1>9, <2>1, QuietType, StepType, Zenon DEF HealthKnown
  <1>10. CASE HealthAsks
    <2>1. breaker' \in Snapshots /\ initial' \in Statuses
      BY <1>10, QuietType DEF HealthAsks, Snapshots
    <2>2. Control'
      BY <1>10, <2>1 DEF HealthAsks, TypeOK, Control, Requesting, batch
    <2>3. QED
      BY <1>10, <2>1, <2>2, StepType, Zenon DEF HealthAsks
  <1>11. CASE MainDoOk
    <2>1. Control'
      BY <1>11, DiagnosedType, HealthyType DEF MainDoOk, Kept
    <2>2. /\ breaker' \in Snapshots /\ cooling' \in Nat
          /\ streak' \in 0..NetworkThreshold /\ replaced' \in BOOLEAN
      BY <1>11, RecoveredType, Zenon DEF MainDoOk, history, TypeOK
    <2>3. QED
      BY <1>11, <2>1, <2>2, TypeParts, Zenon DEF MainDoOk, TypeOK
  <1>12. CASE MainDoFails
    <2>1. Control'
      BY <1>12, DiagnosedType, FallsBackType DEF MainDoFails
    <2>2. /\ breaker' \in Snapshots /\ cooling' \in Nat
          /\ streak' \in 0..NetworkThreshold /\ replaced' \in BOOLEAN
      BY <1>12, RecordedType DEF MainDoFails, Classes
    <2>3. QED
      BY <1>12, <2>1, <2>2, TypeParts, Zenon DEF MainDoFails, TypeOK
  <1>13. CASE PageAsks
    <2>1. Control'
      BY <1>13, KeptGoesType DEF PageAsks, batch, Kept, Purposes, Requesting
    <2>2. QED
      BY <1>13, <2>1, QuietType, StepType, Zenon DEF PageAsks
  <1>14. CASE SetupOk
    <2>1. Control'
      BY <1>14, KeptGoesType DEF SetupOk, batch, Kept, Purposes, Requesting
    <2>2. QED
      BY <1>14, <2>1, TypeParts, Zenon DEF SetupOk, history, TypeOK
  <1>15. CASE RequestFails
    <2>1. Control'
      BY <1>15, FallsBackType DEF RequestFails
    <2>2. /\ breaker' \in Snapshots /\ cooling' \in Nat /\ confirmed' = FALSE
          /\ streak' \in 0..NetworkThreshold /\ replaced' \in BOOLEAN
      BY <1>15, TransportType DEF RequestFails
    <2>3. QED
      BY <1>15, <2>1, <2>2, TypeParts, Zenon DEF RequestFails, TypeOK
  <1>16. CASE PageOk
    <2>1. CASE NextPage
      <3>1. saved' = saved \/ (saved' = job /\ job # NoJob)
        <4>1. UNCHANGED job /\ saved' = IF caller = "batch" THEN job ELSE saved
          BY <1>16, <2>1 DEF PageOk, NextPage, Ends, Goes
        <4>2. QED
          BY <4>1, BatchHasJob
      <3>2. saved' \in Jobs \cup {NoJob}
        BY <3>1 DEF TypeOK
      <3>3. told => saved' # NoJob
        BY <3>1, Zenon DEF TypeOK
      <3>4. told \in BOOLEAN
        BY DEF TypeOK
      <3>5. Goes("page", "none") /\ job' = job /\ told' = told /\ pc # "idle"
        BY <1>16, <2>1 DEF PageOk, NextPage
      <3>6. Control'
        BY <3>2, <3>3, <3>4, <3>5, GoesType DEF Purposes
      <3>7. QED
        BY <1>16, <3>6, RecoveredType, TypeParts, Zenon DEF PageOk, TypeOK
    <2>2. CASE Ends /\ UNCHANGED saved
      <3>1. Control'
        BY <1>16, <2>2, KeptEndsType DEF PageOk, Kept
      <3>2. QED
        BY <1>16, <3>1, RecoveredType, TypeParts, Zenon DEF PageOk, TypeOK
    <2>3. CASE /\ caller = "batch" /\ job' = [job EXCEPT !.discovering = FALSE]
               /\ saved' = job' /\ Goes("listing", "none")
      <3>1. job \in Jobs /\ job' \in Jobs /\ saved' # NoJob
        BY <2>3, BlankType, JobFields, NoJobAssumption DEF TypeOK
      <3>2. Control'
        BY <1>16, <2>3, <3>1, GoesType DEF PageOk, Purposes
      <3>3. QED
        BY <1>16, <3>2, RecoveredType, TypeParts, Zenon DEF PageOk, TypeOK
    <2>4. QED
      BY <1>16, <2>1, <2>2, <2>3, Zenon DEF PageOk
  <1>17. CASE OddPage
    <2>1. Control'
      BY <1>17, KeptGoesType DEF OddPage, batch, Kept, Purposes
    <2>2. QED
      BY <1>17, <2>1, QuietType, StepType, Zenon DEF OddPage, client
  <1>18. CASE OddAgain
    <2>1. Control'
      BY <1>18, FallsBackType DEF OddAgain
    <2>2. /\ breaker' \in Snapshots /\ cooling' \in Nat
          /\ streak' \in 0..NetworkThreshold /\ replaced' \in BOOLEAN
      BY <1>18, RecordedType DEF OddAgain, Classes
    <2>3. QED
      BY <1>18, <2>1, <2>2, TypeParts, Zenon DEF OddAgain, TypeOK
  <1>19. CASE OutOfTime
    <2>1. Control'
      BY <1>19, OutOfTimeType DEF OutOfTime, Requesting
    <2>2. QED
      BY <1>19, <2>1, QuietType, StepType, Zenon DEF OutOfTime, client
  <1>20. CASE Tick
    BY <1>20, TickType
  <1>21. CASE Restart
    <2>1. Control'
      BY <1>21, KeptEndsType DEF Restart, Kept
    <2>2. cooling' \in Nat /\ streak' \in 0..NetworkThreshold
      BY <1>21, BreakerAssumption DEF Restart
    <2>3. QED
      BY <1>21, <2>1, <2>2, BlankType, TypeParts, Zenon DEF Restart, TypeOK
  <1>22. CASE Repaired
    <2>1. Control'
      BY <1>22, Zenon DEF Repaired, Control, TypeOK, batch, call
    <2>2. QED
      BY <1>22, <2>1, TypeParts, Zenon DEF Repaired, TypeOK, client, history
  <1>23. CASE UNCHANGED vars
    <2>1. Control'
      BY <1>23, Zenon DEF vars, Control, TypeOK
    <2>2. QED
      BY <1>23, <2>1, TypeParts, Zenon DEF vars, TypeOK
  <1>24. QED
    BY <1>1, <1>2, <1>3, <1>4, <1>5, <1>6, <1>7, <1>8, <1>9, <1>10, <1>11, <1>12, <1>13,
       <1>14, <1>15, <1>16, <1>17, <1>18, <1>19, <1>20, <1>21, <1>22, <1>23, Zenon DEF Next

LEMMA TypeInit == Init => TypeOK
  <1> SUFFICES ASSUME Init PROVE TypeOK
    OBVIOUS
  <1>1. ready \in BOOLEAN /\ confirmed \in BOOLEAN /\ down \in BOOLEAN
        /\ told \in BOOLEAN /\ ~told /\ replaced \in BOOLEAN
    BY Zenon DEF Init
  <1>2. breaker \in Snapshots /\ streak \in 0..NetworkThreshold /\ cooling \in Nat
    BY BlankType, BreakerAssumption DEF Init
  <1>3. (caller = "none") <=> (pc = "idle")
    BY DEF Init
  <1>4. (caller = "batch") <=> (job # NoJob)
    BY DEF Init
  <1>5. "idle" \in Requesting \cup {"idle"} /\ "none" \in Callers /\ "none" \in Purposes
        /\ "HEALTHY" \in Statuses
    BY DEF Requesting, Callers, Purposes, Statuses
  <1>6. QED
    BY <1>1, <1>2, <1>3, <1>4, <1>5, Zenon DEF TypeOK, Init

(* The channel's state always has its types, whatever the interleaving of   *)
(* calls, failures, timeouts and restarts.                                  *)
THEOREM ChannelTypeCorrect == Spec => []TypeOK
  BY TypeInit, TypeNext, PTL DEF Spec

-----------------------------------------------------------------------------
(* The memory of the channel: no request while the circuit is open, a block *)
(* imposed is the block in force, and every failure in a row is counted.    *)

(* Where a call lands when it is not asking DART.                           *)
LEMMA Lands ==
  ASSUME \/ FallsBack \/ RunsOutOfTime \/ Healthy \/ NextPage \/ Ends
  PROVE  pc' \notin Requesting
  <1>1. pc' \in {"idle", "page", "segment", "listing"}
    BY Zenon DEF FallsBack, RunsOutOfTime, Healthy, NextPage, Ends, Goes, Pauses
  <1>2. QED
    BY <1>1 DEF Requesting

(* A step without an outcome: at most an expired block becomes a probe.     *)
LEMMA QuietMemory ==
  ASSUME TypeOK, ChannelMemory, breaker' = breaker \/ breaker' = BeforeRequest(breaker),
         UNCHANGED history, pc' \in Requesting => breaker'.status # "CIRCUIT_OPEN"
  PROVE  ChannelMemory'
  <1>1. cooling' = cooling /\ streak' = streak /\ (replaced' <=> replaced)
    BY Zenon DEF history
  <1>2. breaker \in Snapshots /\ cooling \in Nat
    BY DEF TypeOK
  <1>3. breaker'.left = breaker.left /\ breaker'.class = breaker.class
        /\ breaker'.count = breaker.count
    BY <1>2, BeforeRequestType
  <1>4. breaker'.status = breaker.status
        \/ (breaker.status = "CIRCUIT_OPEN" /\ breaker.left = 0 /\ breaker'.status = "PROBING")
    BY <1>2, BeforeRequestType DEF Snapshots
  <1>5. BlockOwned'
    BY <1>1, <1>2, <1>3, <1>4 DEF BlockOwned, ChannelMemory
  <1>6. StreakCounted'
    BY <1>1, <1>3, <1>4 DEF StreakCounted, ChannelMemory
  <1>7. QED
    BY <1>5, <1>6 DEF ChannelMemory, QuietWhileOpen

LEMMA RecoveredMemory ==
  ASSUME Recovered
  PROVE  ChannelMemory'
  <1>1. breaker' = Blank /\ cooling' = 0 /\ streak' = 0
    BY Zenon DEF Recovered, Success
  <1>2. QED
    BY <1>1 DEF Blank, ChannelMemory, QuietWhileOpen, BlockOwned, StreakCounted

(* A failure of a request: the circuit was not open, so what it does to the *)
(* count is what it does to the row.                                        *)
LEMMA RecordedMemory ==
  ASSUME TypeOK, ChannelMemory, pc \in Requesting, NEW class \in Classes,
         \/ Recorded(Failure(breaker, class), class)
         \/ Recorded(Trip(breaker, class), class),
         pc' \in Requesting => breaker'.status # "CIRCUIT_OPEN"
  PROVE  ChannelMemory'
  <1>1. breaker.status # "CIRCUIT_OPEN" /\ breaker \in Snapshots
    BY DEF TypeOK, ChannelMemory, QuietWhileOpen
  <1>2. breaker'.status = "CIRCUIT_OPEN" \/ (breaker' = Failure(breaker, class)
                                             /\ breaker'.status = "DEGRADED")
    BY <1>1, FailureType, OpenedType DEF Recorded, Trip
  <1>3. CASE breaker'.status = "CIRCUIT_OPEN"
    <2>1. cooling' = breaker'.left /\ breaker'.left \in Nat
      BY <1>3, RecordedType DEF Recorded, Snapshots
    <2>2. QED
      BY <1>3, <2>1 DEF ChannelMemory, QuietWhileOpen, BlockOwned, StreakCounted
  <1>4. CASE breaker' = Failure(breaker, class) /\ breaker'.status = "DEGRADED"
    <2>1. /\ breaker.status # "PROBING" /\ breaker'.class = class
          /\ breaker'.count \in Nat /\ breaker'.count > 0
          /\ breaker'.count < Threshold(class)
          /\ breaker.class = class => breaker'.count > breaker.count
      BY <1>1, <1>4, FailureType DEF Snapshots
    <2>2. cooling' = cooling /\ (replaced' <=> replaced)
      BY <1>4 DEF Recorded, Trip, Opened
    <2>3. BlockOwned'
      BY <1>1, <2>2 DEF BlockOwned, ChannelMemory
    <2>4. StreakCounted'
      <3>1. CASE class # "network"
        BY <1>4, <3>1 DEF Recorded, StreakCounted
      <3>2. CASE class = "network" /\ streak = 0
        <4>1. streak' = 1 /\ breaker'.count >= 1 /\ breaker'.count < NetworkThreshold
          BY <3>2, <2>1, BreakerAssumption DEF Recorded, Threshold
        <4>2. QED
          BY <1>4, <2>1, <3>2, <4>1, BreakerAssumption DEF StreakCounted
      <3>3. CASE class = "network" /\ streak # 0
        <4>1. breaker.class = "network" /\ breaker.count >= streak /\ streak < NetworkThreshold
          BY <1>1, <2>1, <3>3 DEF StreakCounted, ChannelMemory, TypeOK
        <4>2. streak' = streak + 1
          BY <3>3, <4>1 DEF Recorded
        <4>3. breaker'.count >= streak + 1 /\ streak + 1 < NetworkThreshold
          BY <1>1, <2>1, <3>3, <4>1, BreakerAssumption DEF Threshold, TypeOK, Snapshots
        <4>4. QED
          BY <1>4, <2>1, <3>3, <4>2, <4>3 DEF StreakCounted
      <3>4. QED
        BY <3>1, <3>2, <3>3
    <2>5. QED
      BY <1>4, <2>3, <2>4 DEF ChannelMemory, QuietWhileOpen
  <1>5. QED
    BY <1>2, <1>3, <1>4

LEMMA TickMemory == TypeOK /\ ChannelMemory /\ Tick => ChannelMemory'
  <1> SUFFICES ASSUME TypeOK, ChannelMemory, Tick PROVE ChannelMemory'
    OBVIOUS
  <1>1. breaker \in Snapshots /\ cooling \in Nat
    BY DEF TypeOK
  <1>2. /\ breaker'.status = breaker.status /\ breaker'.class = breaker.class
        /\ breaker'.count = breaker.count
        /\ breaker'.left = IF breaker.left > 0 THEN breaker.left - 1 ELSE 0
        /\ cooling' = IF cooling > 0 THEN cooling - 1 ELSE 0
    BY <1>1, AgedType DEF Tick
  <1>3. pc' = pc /\ streak' = streak /\ (replaced' <=> replaced)
    BY Zenon DEF Tick, call
  <1>4. breaker.left \in Nat
    BY <1>1 DEF Snapshots
  <1>5. BlockOwned'
    BY <1>1, <1>2, <1>3, <1>4 DEF BlockOwned, ChannelMemory
  <1>6. StreakCounted' /\ QuietWhileOpen'
    BY <1>2, <1>3 DEF StreakCounted, QuietWhileOpen, ChannelMemory
  <1>7. QED
    BY <1>5, <1>6 DEF ChannelMemory

LEMMA MemoryNext == TypeOK /\ ChannelMemory /\ [Next]_vars => ChannelMemory'
  <1> SUFFICES ASSUME TypeOK, ChannelMemory, [Next]_vars PROVE ChannelMemory'
    OBVIOUS
  <1> USE DEF Requesting
  <1>1. CASE Search \/ Preview \/ RunBatch
    BY <1>1, QuietMemory DEF Search, Preview, RunBatch, Call
  <1>2. CASE ContinueBatch
    BY <1>2 DEF ContinueBatch, Call, ChannelMemory, QuietWhileOpen, BlockOwned, StreakCounted
  <1>3. CASE Probe \/ Segment
    BY <1>3, QuietMemory DEF Probe, Segment, Goes, client
  <1>4. CASE PageDeadline \/ ListingPauses \/ ListingCompletes
    BY <1>4, QuietMemory, Lands
       DEF PageDeadline, ListingPauses, ListingCompletes, Pauses, client
  <1>5. CASE HealthBlocked \/ PageBlocked \/ HealthKnown
    BY <1>5, QuietMemory, Lands DEF HealthBlocked, PageBlocked, HealthKnown
  <1>6. CASE HealthAsks \/ PageAsks
    BY <1>6, QuietMemory DEF HealthAsks, PageAsks
  <1>7. CASE MainDoOk
    <2>1. CASE Recovered
      BY <2>1, RecoveredMemory
    <2>2. CASE UNCHANGED <<breaker, history>>
      <3>1. breaker'.status # "CIRCUIT_OPEN"
        BY <1>7, <2>2 DEF MainDoOk, ChannelMemory, QuietWhileOpen
      <3>2. QED
        BY <2>2, <3>1, QuietMemory
    <2>3. QED
      BY <1>7, <2>1, <2>2 DEF MainDoOk
  <1>8. CASE MainDoFails
    <2>1. pc' \in Requesting => breaker'.status # "CIRCUIT_OPEN"
      BY <1>8, Lands DEF MainDoFails, Diagnosed
    <2>2. QED
      BY <1>8, <2>1, RecordedMemory DEF MainDoFails, Classes
  <1>9. CASE SetupOk
    <2>1. breaker'.status # "CIRCUIT_OPEN"
      BY <1>9 DEF SetupOk, ChannelMemory, QuietWhileOpen
    <2>2. QED
      BY <1>9, <2>1, QuietMemory DEF SetupOk
  <1>10. CASE RequestFails
    <2>1. pc' \notin Requesting
      BY <1>10, Lands DEF RequestFails
    <2>2. QED
      BY <1>10, <2>1, RecordedMemory DEF RequestFails, TransportFailure, Classes
  <1>11. CASE PageOk
    BY <1>11, RecoveredMemory DEF PageOk
  <1>12. CASE OddPage \/ OutOfTime
    BY <1>12, QuietMemory, Lands DEF OddPage, OutOfTime, client, Goes
  <1>13. CASE OddAgain
    <2>1. pc' \notin Requesting
      BY <1>13, Lands DEF OddAgain
    <2>2. QED
      BY <1>13, <2>1, RecordedMemory DEF OddAgain, Classes
  <1>14. CASE Tick
    BY <1>14, TickMemory
  <1>15. CASE Restart
    BY <1>15 DEF Restart, Ends, Blank, ChannelMemory, QuietWhileOpen, BlockOwned, StreakCounted
  <1>16. CASE Repaired \/ UNCHANGED vars
    <2>1. breaker' = breaker /\ pc' = pc /\ UNCHANGED history
      BY <1>16, Zenon DEF Repaired, vars, client, call, history
    <2>2. QED
      BY <2>1, QuietMemory DEF ChannelMemory, QuietWhileOpen
  <1>17. QED
    BY <1>1, <1>2, <1>3, <1>4, <1>5, <1>6, <1>7, <1>8, <1>9, <1>10, <1>11, <1>12, <1>13,
       <1>14, <1>15, <1>16, Zenon DEF Next

(* No request is on its way to DART while the circuit is open, a block is   *)
(* the one the breaker is in, and the breaker counts every failure of a row:*)
(* the inductive invariant of the theorems below.                           *)
THEOREM MemoryKept == Spec => []ChannelMemory
  <1>1. Init => ChannelMemory
    BY DEF Init, Requesting, ChannelMemory, QuietWhileOpen, BlockOwned, StreakCounted
  <1>2. QED
    BY <1>1, ChannelTypeCorrect, MemoryNext, PTL DEF Spec

(* Whatever the threshold, the block times and the checkpoints that replace *)
(* the breaker: no step of a call has a request under way to DART while the *)
(* circuit is open, because before_request comes before every one of them   *)
(* and nothing opens the circuit between it and the answer.                 *)
THEOREM NoRequestWhileOpen == Spec => []QuietWhileOpen
  <1>1. ChannelMemory => QuietWhileOpen
    BY DEF ChannelMemory
  <1>2. QED
    BY <1>1, MemoryKept, PTL

(* For every block time: a block this process imposed is sat out in full,   *)
(* unless the snapshot of a checkpoint replaced the breaker meanwhile.      *)
THEOREM BlocksSatOut == Spec => []BlockSatOut
  <1>1. ChannelMemory => BlockSatOut
    BY DEF ChannelMemory, QuietWhileOpen, BlockOwned, BlockSatOut
  <1>2. QED
    BY <1>1, MemoryKept, PTL

(* For every threshold: that many network failures in a row open the        *)
(* circuit, whatever status checks succeed in between.                      *)
THEOREM FailuresOpen == Spec => []FailuresInARowOpen
  <1>1. TypeOK /\ ChannelMemory => FailuresInARowOpen
    BY BreakerAssumption DEF TypeOK, ChannelMemory, StreakCounted, FailuresInARowOpen
  <1>2. QED
    BY <1>1, ChannelTypeCorrect, MemoryKept, PTL

-----------------------------------------------------------------------------
(* Stored blocks, and what may follow a block.                              *)

Blocked(b) == b.status = "CIRCUIT_OPEN" /\ b.left > 0
Calm(b) == b.status \in {"HEALTHY", "DEGRADED"}

LEMMA JobTypes ==
  ASSUME TypeOK, caller = "batch"
  PROVE  /\ job \in Jobs /\ job # NoJob /\ job.circuit \in Snapshots /\ job.checked \in BOOLEAN
         /\ [job EXCEPT !.discovering = FALSE].circuit = job.circuit
         /\ [job EXCEPT !.discovering = FALSE].checked = job.checked
         /\ [job EXCEPT !.checked = TRUE].circuit = job.circuit
  <1>1. job # NoJob /\ job \in Jobs
    BY BatchHasJob DEF TypeOK
  <1>2. QED
    BY <1>1 DEF Jobs

(* Where an outcome takes a call that does not go on asking.                *)
Leaves ==
  \/ caller' = "none" /\ pc' = "idle" /\ purpose' = "none"
  \/ caller = "preview" /\ caller' = "preview" /\ pc' = "page" /\ purpose' = "none"
  \/ /\ caller = "batch" /\ caller' = "batch" /\ purpose' = "none"
     /\ job'.circuit = job.circuit /\ job'.checked = job.checked
     /\ pc' = "listing" \/ (pc' = "segment" /\ purpose = "probe")

LEMMA EndsLeaves == Ends => Leaves
  BY DEF Ends, Leaves

LEMMA FallsBackLeaves == TypeOK /\ FallsBack => Leaves
  <1> SUFFICES ASSUME TypeOK, FallsBack PROVE Leaves
    OBVIOUS
  <1>1. CASE Ends
    BY <1>1, EndsLeaves
  <1>2. CASE caller = "preview" /\ NextPage
    BY <1>2 DEF NextPage, Goes, Leaves
  <1>3. CASE caller = "batch"
    BY <1>3, JobTypes DEF FallsBack, Goes, Leaves
  <1>4. QED
    BY <1>1, <1>2, <1>3 DEF FallsBack

LEMMA OutOfTimeLeaves == TypeOK /\ RunsOutOfTime => Leaves
  <1> SUFFICES ASSUME TypeOK, RunsOutOfTime PROVE Leaves
    OBVIOUS
  <1>1. CASE Ends
    BY <1>1, EndsLeaves
  <1>2. CASE caller = "preview" /\ NextPage
    BY <1>2 DEF NextPage, Goes, Leaves
  <1>3. CASE caller = "batch" /\ purpose = "probe" /\ Goes("segment", "none") /\ UNCHANGED batch
    BY <1>3 DEF Goes, Leaves, batch
  <1>4. QED
    BY <1>1, <1>2, <1>3 DEF RunsOutOfTime, Pauses

-----------------------------------------------------------------------------
(* The block of the checkpoint.                                             *)

(* The breaker is in it, as long as it lasts.                               *)
StoredOwned ==
  caller = "batch" /\ Blocked(job.circuit) =>
    breaker.status = "CIRCUIT_OPEN" /\ breaker.left >= job.circuit.left

CircuitKept == caller' = "batch" => caller = "batch" /\ job'.circuit = job.circuit

LEMMA LeavesKept == Leaves => CircuitKept
  BY DEF Leaves, CircuitKept

(* A step without an outcome keeps the breaker while a block lasts.         *)
LEMMA StoredQuiet ==
  ASSUME TypeOK, StoredOwned, breaker' = breaker \/ breaker' = BeforeRequest(breaker), CircuitKept
  PROVE  StoredOwned'
  <1> SUFFICES ASSUME caller = "batch", job'.circuit = job.circuit, Blocked(job.circuit)
               PROVE  breaker' = breaker
    BY DEF StoredOwned, CircuitKept, Blocked
  <1>1. breaker \in Snapshots /\ job.circuit \in Snapshots
    BY JobTypes DEF TypeOK
  <1>2. breaker.status = "CIRCUIT_OPEN" /\ breaker.left > 0
    BY <1>1 DEF StoredOwned, Blocked, Snapshots
  <1>3. QED
    BY <1>1, <1>2, BeforeRequestType

(* Requests are only made when no block of the checkpoint lasts.            *)
LEMMA StoredAnswered ==
  ASSUME StoredOwned, ChannelMemory, pc \in Requesting, CircuitKept
  PROVE  StoredOwned'
  BY DEF StoredOwned, ChannelMemory, QuietWhileOpen, CircuitKept, Blocked

LEMMA StoredTick == TypeOK /\ StoredOwned /\ Tick => StoredOwned'
  <1> SUFFICES ASSUME TypeOK, StoredOwned, Tick, caller' = "batch", Blocked(job'.circuit)
               PROVE  breaker'.status = "CIRCUIT_OPEN" /\ breaker'.left >= job'.circuit.left
    BY DEF StoredOwned
  <1>1. caller = "batch"
    BY DEF Tick, call
  <1>2. breaker \in Snapshots /\ job \in Jobs /\ job # NoJob /\ job.circuit \in Snapshots
    BY <1>1, JobTypes DEF TypeOK
  <1>3. job'.circuit = Aged(job.circuit) /\ breaker' = Aged(breaker)
    BY <1>2 DEF Tick, AgedJob, Jobs
  <1>4. /\ job'.circuit.status = job.circuit.status /\ breaker'.status = breaker.status
        /\ job'.circuit.left = IF job.circuit.left > 0 THEN job.circuit.left - 1 ELSE 0
        /\ breaker'.left = IF breaker.left > 0 THEN breaker.left - 1 ELSE 0
        /\ job.circuit.left \in Nat /\ breaker.left \in Nat
    BY <1>2, <1>3, AgedType DEF Snapshots
  <1>5. Blocked(job.circuit)
    BY <1>4 DEF Blocked
  <1>6. breaker.status = "CIRCUIT_OPEN" /\ breaker.left >= job.circuit.left
    BY <1>1, <1>5 DEF StoredOwned
  <1>7. QED
    BY <1>4, <1>6

LEMMA StoredNext == TypeOK /\ ChannelMemory /\ StoredOwned /\ [Next]_vars => StoredOwned'
  <1> SUFFICES ASSUME TypeOK, ChannelMemory, StoredOwned, [Next]_vars PROVE StoredOwned'
    OBVIOUS
  <1>1. CASE Search \/ Preview
    BY <1>1 DEF Search, Preview, Call, StoredOwned
  <1>2. CASE RunBatch
    <2>1. breaker.left \in Nat /\ job'.circuit = breaker /\ breaker' = breaker
      BY <1>2 DEF RunBatch, TypeOK, Snapshots
    <2>2. QED
      BY <2>1 DEF StoredOwned, Blocked
  <1>3. CASE ContinueBatch
    <2>1. saved \in Jobs /\ saved.circuit \in Snapshots
      BY <1>3, Zenon DEF ContinueBatch, TypeOK, Jobs
    <2>2. job'.circuit = saved.circuit /\ breaker' = BeforeRequest(saved.circuit)
      BY <1>3 DEF ContinueBatch, Restore
    <2>3. Blocked(saved.circuit) => breaker' = saved.circuit
      BY <2>1, <2>2, BeforeRequestType DEF Blocked
    <2>4. saved.circuit.left \in Nat
      BY <2>1 DEF Snapshots
    <2>5. QED
      BY <2>2, <2>3, <2>4 DEF StoredOwned, Blocked
  <1>4. CASE Probe \/ Segment \/ HealthAsks \/ PageAsks \/ OddPage
    BY <1>4, StoredQuiet DEF Probe, Segment, HealthAsks, PageAsks, OddPage, Goes, client, batch, CircuitKept
  <1>5. CASE PageDeadline \/ ListingPauses \/ ListingCompletes
    BY <1>5, EndsLeaves, LeavesKept, StoredQuiet
       DEF PageDeadline, ListingPauses, ListingCompletes, Pauses, client
  <1>6. CASE HealthBlocked \/ PageBlocked
    BY <1>6, FallsBackLeaves, LeavesKept, StoredQuiet DEF HealthBlocked, PageBlocked
  <1>7. Healthy => CircuitKept
    BY JobTypes DEF Healthy, Goes, CircuitKept
  <1>8. CASE HealthKnown
    BY <1>7, <1>8, StoredQuiet DEF HealthKnown
  <1>9. Diagnosed => CircuitKept
    BY FallsBackLeaves, LeavesKept DEF Diagnosed, Goes, batch, CircuitKept
  <1>10. CASE MainDoOk \/ MainDoFails
    <2>1. CircuitKept
      BY <1>7, <1>9, <1>10, FallsBackLeaves, LeavesKept DEF MainDoOk, MainDoFails
    <2>2. QED
      BY <1>10, <2>1, StoredAnswered DEF MainDoOk, MainDoFails, Requesting
  <1>11. CASE SetupOk
    BY <1>11, StoredAnswered DEF SetupOk, Goes, batch, CircuitKept, Requesting
  <1>12. CASE RequestFails \/ OddAgain
    BY <1>12, FallsBackLeaves, LeavesKept, StoredAnswered DEF RequestFails, OddAgain, Requesting
  <1>13. CASE PageOk
    <2>1. CircuitKept
      <3>1. CASE NextPage
        BY <3>1 DEF NextPage, Goes, CircuitKept
      <3>2. CASE Ends
        BY <3>2, EndsLeaves, LeavesKept
      <3>3. CASE caller = "batch" /\ job' = [job EXCEPT !.discovering = FALSE] /\ Goes("listing", "none")
        BY <3>3, JobTypes DEF Goes, CircuitKept
      <3>4. QED
        BY <1>13, <3>1, <3>2, <3>3 DEF PageOk
    <2>2. QED
      BY <1>13, <2>1, StoredAnswered DEF PageOk, Requesting
  <1>14. CASE OutOfTime
    BY <1>14, OutOfTimeLeaves, LeavesKept, StoredAnswered DEF OutOfTime
  <1>15. CASE Tick
    BY <1>15, StoredTick
  <1>16. CASE Restart
    BY <1>16 DEF Restart, Ends, StoredOwned
  <1>17. CASE Repaired \/ UNCHANGED vars
    BY <1>17, StoredQuiet DEF Repaired, vars, client, call, batch, CircuitKept
  <1>18. QED
    BY <1>1, <1>2, <1>3, <1>4, <1>5, <1>6, <1>8, <1>10, <1>11, <1>12, <1>13, <1>14, <1>15,
       <1>16, <1>17, Zenon DEF Next

(* For every block time: a job does not call DART while the block that its  *)
(* checkpoint carries lasts, across restarts of the server and whatever     *)
(* other calls have found out in between.                                   *)
THEOREM StoredBlocksHold == Spec => []StoredBlockHolds
  <1>1. Init => StoredOwned
    BY DEF Init, StoredOwned
  <1>2. ChannelMemory /\ StoredOwned => StoredBlockHolds
    BY DEF ChannelMemory, QuietWhileOpen, StoredOwned, StoredBlockHolds, Blocked
  <1>3. QED
    BY <1>1, <1>2, ChannelTypeCorrect, MemoryKept, StoredNext, PTL DEF Spec

-----------------------------------------------------------------------------
(* The probe after a block.                                                 *)

(* A search is under way or comes next, without a status check before it.   *)
Searching == pc \in {"page", "setup", "search.ax", "replay"} \/ purpose = "diagnose"
Entering == caller = "batch" /\ pc = "segment" /\ job.checked

(* A confirmed channel has not been blocked since; the status check knows   *)
(* the state it found; only a continued job has made its status check; and  *)
(* who comes to search finds the channel calm, or the block not over.       *)
ProbesFirst ==
  /\ confirmed /\ ~replaced => Calm(breaker)
  /\ pc = "main.do" => initial = breaker.status
  /\ caller = "batch" /\ pc \in {"probe", "health", "main.do"} /\ purpose # "diagnose" /\ job.checked
       => replaced
  /\ caller \in {"search", "batch"} /\ ~replaced /\ (Searching \/ Entering)
       => Calm(breaker) \/ Blocked(breaker)
  /\ purpose # "none" => pc \in {"health", "main.do"}
  /\ pc \in {"probe", "segment"} => caller = "batch"

(* The channel's state after an outcome.                                    *)
Settled == ~replaced => Calm(breaker) \/ (Blocked(breaker) /\ ~confirmed)

LEMMA RecoveredSettled == Recovered => Settled'
  BY DEF Recovered, Success, Blank, Settled, Calm

LEMMA RecordedSettled ==
  ASSUME TypeOK, NEW class \in Classes, confirmed' = FALSE, ~replaced => Calm(breaker) \/ breaker.status = "PROBING",
         \/ Recorded(Failure(breaker, class), class)
         \/ Recorded(Trip(breaker, class), class)
  PROVE  Settled'
  <1>1. breaker \in Snapshots
    BY DEF TypeOK
  <1>2. \/ breaker' = Failure(breaker, class) /\ breaker'.status = "DEGRADED"
        \/ \E count \in Nat : breaker' = Opened(class, count)
    <2> DEFINE before == IF breaker.class = class THEN breaker.count ELSE 0
               count == IF before < CountBound THEN before + 1 ELSE CountBound
    <2>1. count \in Nat
      BY <1>1, BreakerAssumption DEF CountBound, Snapshots
    <2>2. Failure(breaker, class) = Opened(class, count) \/ Failure(breaker, class).status = "DEGRADED"
      BY <1>1 DEF Failure, Snapshots
    <2> HIDE DEF count
    <2>3. QED
      BY <2>1, <2>2 DEF Recorded, Trip
  <1>3. \A count \in Nat : Blocked(Opened(class, count))
    BY BreakerAssumption DEF Blocked, Opened, Block
  <1>4. QED
    BY <1>2, <1>3 DEF Settled, Calm

(* A call that leaves finds what it comes to in order.                      *)
LEMMA LeavesProbes ==
  ASSUME TypeOK, ProbesFirst, Leaves, confirmed' /\ ~replaced' => Calm(breaker)',
         \/ Settled'
         \/ pc' = "segment" => (replaced' <=> replaced) /\ pc \in {"health", "main.do"}
  PROVE  ProbesFirst'
  BY DEF Leaves, ProbesFirst, Searching, Entering, Settled

(* While no outcome comes, a calm channel stays calm and a block a block.   *)
LEMMA QuietBreaker ==
  ASSUME TypeOK, breaker' = breaker \/ breaker' = BeforeRequest(breaker)
  PROVE  /\ Calm(breaker) => Calm(breaker')
         /\ Blocked(breaker) => Blocked(breaker')
         /\ breaker'.status # "CIRCUIT_OPEN" => ~Blocked(breaker)
  BY BeforeRequestType DEF TypeOK, Calm, Blocked

LEMMA ProbesTick == TypeOK /\ ChannelMemory /\ ProbesFirst /\ Tick => ProbesFirst'
  <1> SUFFICES ASSUME TypeOK, ChannelMemory, ProbesFirst, Tick PROVE ProbesFirst'
    OBVIOUS
  <1>1. breaker'.status = breaker.status
    BY AgedType DEF Tick, TypeOK
  <1>2. UNCHANGED <<pc, caller, purpose, initial>> /\ (confirmed' <=> confirmed) /\ (replaced' <=> replaced)
    BY DEF Tick, call
  <1>3. ASSUME caller = "batch" PROVE job'.checked = job.checked
    <2>1. job \in Jobs /\ job # NoJob
      BY <1>3, JobTypes
    <2>2. QED
      BY <2>1 DEF Tick, AgedJob, Jobs
  <1>4. caller \in {"search", "batch"} => pc \in Requesting \cup {"idle", "listing"}
    BY DEF Tick
  <1>5. pc \in Requesting => ~Blocked(breaker)
    BY DEF ChannelMemory, QuietWhileOpen, Blocked
  <1>6. QED
    BY <1>1, <1>2, <1>3, <1>4, <1>5 DEF ProbesFirst, Searching, Entering, Calm, Requesting

LEMMA ProbesNext == TypeOK /\ ChannelMemory /\ ProbesFirst /\ [Next]_vars => ProbesFirst'
  <1> SUFFICES ASSUME TypeOK, ChannelMemory, ProbesFirst, [Next]_vars PROVE ProbesFirst'
    OBVIOUS
  <1>1. CASE Search \/ Preview
    BY <1>1 DEF Search, Preview, Call, history, ProbesFirst, Searching, Entering
  <1>2. CASE RunBatch
    BY <1>2 DEF RunBatch, Call, history, ProbesFirst, Searching, Entering
  <1>3. CASE ContinueBatch
    BY <1>3 DEF ContinueBatch, Call, ProbesFirst, Searching, Entering
  <1>4. CASE Probe
    <2>1. Calm(breaker) => Calm(breaker')
      BY <1>4, QuietBreaker DEF Probe
    <2>2. QED
      BY <1>4, <2>1 DEF Probe, Goes, batch, history, ProbesFirst, Searching, Entering
  <1>5. CASE Segment
    BY <1>5 DEF Segment, Goes, client, batch, history, ProbesFirst, Searching, Entering
  <1>6. CASE PageDeadline \/ ListingPauses \/ ListingCompletes
    <2>1. Leaves /\ pc' = "idle"
      BY <1>6, EndsLeaves DEF PageDeadline, ListingPauses, ListingCompletes, Pauses, Ends
    <2>2. QED
      BY <1>6, <2>1, LeavesProbes
         DEF PageDeadline, ListingPauses, ListingCompletes, client, history, ProbesFirst
  <1>7. CASE HealthBlocked \/ PageBlocked
    <2>1. Leaves /\ (Calm(breaker) => Calm(breaker'))
      BY <1>7, FallsBackLeaves, QuietBreaker DEF HealthBlocked, PageBlocked
    <2>2. pc' = "segment" => pc = "health"
      BY <1>7, <2>1 DEF HealthBlocked, PageBlocked, Leaves, ProbesFirst
    <2>3. QED
      BY <1>7, <2>1, <2>2, LeavesProbes DEF HealthBlocked, PageBlocked, history, ProbesFirst
  <1>8. CASE HealthKnown
    <2>1. ~replaced => Calm(breaker')
      BY <1>8, QuietBreaker DEF HealthKnown, ProbesFirst
    <2>2. QED
      BY <1>8, <2>1 DEF HealthKnown, Healthy, Goes, history, ProbesFirst, Searching, Entering
  <1>9. CASE HealthAsks
    <2>1. (Calm(breaker) => Calm(breaker')) /\ ~Blocked(breaker)
      BY <1>9, QuietBreaker DEF HealthAsks
    <2>2. QED
      BY <1>9, <2>1 DEF HealthAsks, batch, history, ProbesFirst, Searching, Entering
  <1>10. CASE MainDoOk
    <2>1. Settled' /\ (~replaced' => Calm(breaker)')
      <3>1. CASE Recovered
        BY <3>1 DEF Recovered, Success, Blank, Settled, Calm
      <3>2. CASE initial \notin {"HEALTHY", "PROBING"} /\ UNCHANGED <<breaker, history>>
        <4>1. breaker.status = "DEGRADED"
          BY <1>10, <3>2
             DEF MainDoOk, ProbesFirst, ChannelMemory, QuietWhileOpen, Requesting, TypeOK, Statuses
        <4>2. QED
          BY <3>2, <4>1 DEF Settled, Calm
      <3>3. QED
        BY <1>10, <3>1, <3>2 DEF MainDoOk
    <2>2. CASE Leaves
      BY <2>1, <2>2, LeavesProbes
    <2>3. CASE Goes("replay", "none") /\ UNCHANGED batch
      BY <2>1, <2>3 DEF Goes, batch, ProbesFirst, Searching, Entering
    <2>4. CASE Healthy
      BY <2>1, <2>4 DEF Healthy, Goes, ProbesFirst, Searching, Entering
    <2>5. QED
      BY <1>10, <2>2, <2>3, <2>4, FallsBackLeaves DEF MainDoOk, Diagnosed
  <1>11. ASSUME confirmed' = FALSE, pc \in Requesting, NEW class \in Classes,
                \/ Recorded(Failure(breaker, class), class)
                \/ Recorded(Trip(breaker, class), class)
         PROVE  Settled'
    <2>1. ~replaced => Calm(breaker) \/ breaker.status = "PROBING"
      BY <1>11 DEF ChannelMemory, QuietWhileOpen, TypeOK, Snapshots, Statuses, Calm
    <2>2. QED
      BY <1>11, <2>1, RecordedSettled
  <1>12. CASE MainDoFails
    <2>1. Settled' /\ confirmed' = FALSE
      BY <1>11, <1>12 DEF MainDoFails, Requesting, Classes
    <2>2. CASE Leaves
      BY <2>1, <2>2, LeavesProbes
    <2>3. CASE Goes("replay", "none") /\ UNCHANGED batch
      BY <2>1, <2>3 DEF Goes, batch, ProbesFirst, Searching, Entering, Settled
    <2>4. QED
      BY <1>12, <2>2, <2>3, FallsBackLeaves DEF MainDoFails, Diagnosed
  <1>13. CASE PageAsks
    <2>1. (Calm(breaker) => Calm(breaker')) /\ ~Blocked(breaker)
      BY <1>13, QuietBreaker DEF PageAsks
    <2>2. QED
      BY <1>13, <2>1 DEF PageAsks, Goes, batch, history, ProbesFirst, Searching, Entering
  <1>14. CASE SetupOk
    BY <1>14 DEF SetupOk, Goes, batch, history, ProbesFirst, Searching, Entering
  <1>15. CASE RequestFails \/ OddAgain
    <2>1. Settled' /\ confirmed' = FALSE
      BY <1>11, <1>15 DEF RequestFails, TransportFailure, OddAgain, Requesting, Classes
    <2>2. QED
      BY <1>15, <2>1, FallsBackLeaves, LeavesProbes DEF RequestFails, OddAgain
  <1>16. CASE PageOk
    <2>1. Calm(breaker)'
      BY <1>16 DEF PageOk, Recovered, Success, Blank, Calm
    <2>2. CASE NextPage \/ Goes("listing", "none")
      BY <2>1, <2>2 DEF NextPage, Goes, ProbesFirst, Searching, Entering
    <2>3. CASE Ends
      BY <2>1, <2>3 DEF Ends, ProbesFirst, Searching, Entering
    <2>4. QED
      BY <1>16, <2>2, <2>3 DEF PageOk
  <1>17. CASE OddPage
    BY <1>17 DEF OddPage, Goes, client, batch, history, ProbesFirst, Searching, Entering
  <1>18. CASE OutOfTime
    <2>1. Leaves
      BY <1>18, OutOfTimeLeaves DEF OutOfTime
    <2>2. pc' = "segment" => pc \in {"health", "main.do"}
      BY <2>1 DEF Leaves, ProbesFirst
    <2>3. QED
      BY <1>18, <2>1, <2>2, LeavesProbes DEF OutOfTime, client, history, ProbesFirst
  <1>19. CASE Tick
    BY <1>19, ProbesTick
  <1>20. CASE Restart
    BY <1>20 DEF Restart, Ends, ProbesFirst, Searching, Entering
  <1>21. CASE Repaired \/ UNCHANGED vars
    BY <1>21 DEF Repaired, vars, client, call, batch, history, ProbesFirst, Searching, Entering
  <1>22. QED
    BY <1>1, <1>2, <1>3, <1>4, <1>5, <1>6, <1>7, <1>8, <1>9, <1>10, <1>12, <1>13, <1>14, <1>15,
       <1>16, <1>17, <1>18, <1>19, <1>20, <1>21, Zenon DEF Next

(* For every threshold and block time: a block of this process is followed  *)
(* by a status check, not by a search, unless it is a preview that calls or *)
(* a checkpoint has replaced the breaker.                                   *)
THEOREM ProbesAreStatusChecks == Spec => []ProbeIsStatusCheck
  <1>1. Init => ProbesFirst
    BY DEF Init, ProbesFirst, Searching, Entering
  <1>2. TypeOK /\ ChannelMemory /\ ProbesFirst => ProbeIsStatusCheck
    <2> SUFFICES ASSUME TypeOK, ProbesFirst, pc \in {"setup", "search.ax", "replay"},
                        breaker.status = "PROBING", caller # "preview", ~replaced
                 PROVE  FALSE
      BY DEF ProbeIsStatusCheck
    <2>1. caller \in {"search", "batch"}
      BY DEF TypeOK, Callers
    <2>2. QED
      BY <2>1 DEF ProbesFirst, Searching, Calm, Blocked
  <1>3. QED
    BY <1>1, <1>2, ChannelTypeCorrect, MemoryKept, ProbesNext, PTL DEF Spec
=============================================================================
