--------------------------- MODULE CircuitBreaker ---------------------------
(***************************************************************************)
(* The circuit breaker of app/channels/health.py as functions on its       *)
(* snapshot.  blocked_until is kept relative to the clock: left is the     *)
(* number of time units until it, 0 once it has passed.  The count of      *)
(* failures is only ever compared with the thresholds, so it stops at      *)
(* CountBound.                                                             *)
(***************************************************************************)
EXTENDS Integers

CONSTANTS
  NetworkBlock, StructureBlock,         (* *_CIRCUIT_SECONDS, in time units *)
  NetworkThreshold, StructureThreshold  (* *_FAILURE_THRESHOLD              *)

ASSUME BreakerAssumption ==
  /\ NetworkBlock \in Nat \ {0} /\ StructureBlock \in Nat \ {0}
  /\ NetworkThreshold \in Nat \ {0} /\ StructureThreshold \in Nat \ {0}

Classes == {"network", "structure_or_access"}
Statuses == {"HEALTHY", "DEGRADED", "CIRCUIT_OPEN", "PROBING"}
Snapshots ==
  [status : Statuses, class : Classes \cup {"none"}, count : Nat, left : Nat]

Block(class) == IF class = "network" THEN NetworkBlock ELSE StructureBlock
Threshold(class) == IF class = "network" THEN NetworkThreshold ELSE StructureThreshold
CountBound ==
  IF NetworkThreshold > StructureThreshold THEN NetworkThreshold ELSE StructureThreshold

Blank == [status |-> "HEALTHY", class |-> "none", count |-> 0, left |-> 0]

(* Mutants of BeforeRequest: the block is not waited for; a block never     *)
(* ends.                                                                    *)
BeforeRequestEager(b) ==
  IF b.status = "CIRCUIT_OPEN" THEN [b EXCEPT !.status = "PROBING"] ELSE b
BeforeRequestStuck(b) == b

(* before_request: an expired block lets requests through to probe.         *)
BeforeRequest(b) ==
  IF b.status = "CIRCUIT_OPEN" /\ b.left = 0 THEN [b EXCEPT !.status = "PROBING"] ELSE b

Success(b) == Blank

Opened(class, count) ==
  [status |-> "CIRCUIT_OPEN", class |-> class, count |-> count, left |-> Block(class)]

Failure(b, class) ==
  LET before == IF b.class = class THEN b.count ELSE 0
      count == IF before < CountBound THEN before + 1 ELSE CountBound
  IN  IF b.status = "PROBING" \/ count >= Threshold(class)
      THEN Opened(class, count)
      ELSE [b EXCEPT !.status = "DEGRADED", !.class = class, !.count = count]

Trip(b, class) == Opened(class, 1)

(* Mutant of Restore: the time at which the block ends is not kept.         *)
RestoreTimeless(snapshot) == BeforeRequest([snapshot EXCEPT !.left = 0])
Restore(snapshot) == BeforeRequest(snapshot)

(* One unit of wall-clock time.                                             *)
Aged(b) == [b EXCEPT !.left = IF @ > 0 THEN @ - 1 ELSE 0]
=============================================================================
