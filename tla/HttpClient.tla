----------------------------- MODULE HttpClient -----------------------------
(***************************************************************************)
(* app/http_client.py: requests with retries, waits and timeouts that all  *)
(* share one hard deadline.  Each client is a thread inside one request of *)
(* HttpClient.request; what it wanted and what the answer says is for the  *)
(* module that uses it.                                                    *)
(*                                                                         *)
(* Time passes only while somebody waits: for a socket, or in a back-off.  *)
(* The timeout handed to urllib holds for each operation of the socket (a  *)
(* connection, a handshake, a read), not for the attempt: an attempt may   *)
(* go on to another operation, with the same timeout again, as often as    *)
(* MaxOperations allows.  The code's own steps take no time.               *)
(***************************************************************************)
EXTENDS Integers, FiniteSets

CONSTANTS
  Clients,     (* threads that may be inside a request                      *)
  Timeout,     (* HTTP_TIMEOUT_SECONDS                                      *)
  Backoff,     (* HTTP_BACKOFF_BASE_SECONDS                                 *)
  MaxRetries,  (* HTTP_MAX_RETRIES                                          *)
  MaxOperations,  (* bound on the socket operations of one attempt          *)
  EndsAt       (* ends_at of the DeadlineBudget, the call starting at 0     *)

ASSUME HttpAssumption ==
  /\ Timeout \in Nat \ {0}
  /\ Backoff \in Nat \ {0}
  /\ MaxRetries \in Nat
  /\ MaxOperations \in Nat \ {0}
  /\ EndsAt \in Nat \ {0}

VARIABLES
  now,         (* time since the call began                                 *)
  http         (* the request each thread is in                             *)

(* "body": an answer that was read; "rejected": a 4xx, or an answer broken  *)
(* off (IncompleteRead, which nothing here catches); "busy": the last 429   *)
(* or 5xx; "unreachable": the last connection error or timeout; "late":     *)
(* SEARCH_TIMEOUT_PARTIAL.                                                  *)
Results == {"none", "body", "rejected", "busy", "unreachable", "late"}

Free == [at |-> "free", attempt |-> 0, began |-> 0, operation |-> 0, until |-> 0,
         limited |-> FALSE, result |-> "none"]
Fresh == [Free EXCEPT !.at = "starting"]

Remaining == EndsAt - now
Pause(attempt) == Backoff * 2^attempt

(* Arithmetic that the provers do not know.                                 *)
ASSUME PauseAssumption == \A attempt \in 0..MaxRetries : Pause(attempt) \in Nat

TimeoutAt(time) == IF Timeout < EndsAt - time THEN Timeout ELSE EndsAt - time
AttemptTimeout == TimeoutAt(now)

Over(t, result) ==
  http' = [http EXCEPT ![t].at = "over", ![t].result = result]

(* require_remaining() and timeout_for()                                    *)
Starts(t) ==
  /\ http[t].at = "starting"
  /\ \/ Remaining <= 0 /\ Over(t, "late")
     \/ /\ Remaining > 0
        /\ http' = [http EXCEPT ![t].at = "sent", ![t].operation = 1,
                                ![t].began = now,
                                ![t].until = now + AttemptTimeout,
                                ![t].limited = AttemptTimeout < Timeout]
  /\ UNCHANGED now

(* One operation of the socket is over, and the next has the same timeout.  *)
GoesOn(t) ==
  /\ http[t].at = "sent" /\ now < http[t].until /\ http[t].operation < MaxOperations
  /\ http' = [http EXCEPT ![t].operation = @ + 1, ![t].until = now + TimeoutAt(http[t].began)]
  /\ UNCHANGED now

Answers(t) ==
  /\ http[t].at = "sent" /\ now < http[t].until
  /\ \E result \in {"body", "rejected"} : Over(t, result)
  /\ UNCHANGED now

(* Mutant of RestsOrGivesUp: the wait is not measured against the deadline. *)
RestsAnyway(t, result) ==
  \/ http[t].attempt >= MaxRetries /\ Over(t, result)
  \/ /\ http[t].attempt < MaxRetries
     /\ http' = [http EXCEPT ![t].at = "resting",
                             ![t].until = now + Pause(http[t].attempt)]

(* After the last attempt the failure is raised; before it, the next one    *)
(* must have a start left after the wait.                                   *)
RestsOrGivesUp(t, result) ==
  \/ http[t].attempt >= MaxRetries /\ Over(t, result)
  \/ /\ http[t].attempt < MaxRetries
     /\ Remaining <= Pause(http[t].attempt) /\ Over(t, "late")
  \/ /\ http[t].attempt < MaxRetries /\ Remaining > Pause(http[t].attempt)
     /\ http' = [http EXCEPT ![t].at = "resting",
                             ![t].until = now + Pause(http[t].attempt)]

(* 429 and 5xx                                                              *)
Stalls(t) ==
  /\ http[t].at = "sent" /\ now < http[t].until
  /\ RestsOrGivesUp(t, "busy")
  /\ UNCHANGED now

(* A connection error at any time, or the timeout.                          *)
Breaks(t) ==
  /\ http[t].at = "sent"
  /\ IF http[t].limited THEN Over(t, "late") ELSE RestsOrGivesUp(t, "unreachable")
  /\ UNCHANGED now

Wakes(t) ==
  /\ http[t].at = "resting" /\ now = http[t].until
  /\ http' = [http EXCEPT ![t].at = "starting", ![t].attempt = @ + 1]
  /\ UNCHANGED now

HttpStep(t) == Starts(t) \/ GoesOn(t) \/ Answers(t) \/ Stalls(t) \/ Breaks(t) \/ Wakes(t)

Waiting == {t \in Clients : http[t].at \in {"sent", "resting"}}

Passes ==
  /\ Waiting # {}
  /\ \A t \in Waiting : now < http[t].until
  /\ \A t \in Clients : http[t].at # "starting"
  /\ now' = now + 1
  /\ UNCHANGED http

HttpTypeOK ==
  /\ now \in Nat
  /\ http \in [Clients -> [at : {"free", "starting", "sent", "resting", "over"},
                           attempt : 0..MaxRetries, began : Nat,
                           operation : 0..MaxOperations, until : Nat,
                           limited : BOOLEAN, result : Results]]

(* With whatever retries, and however long an attempt drags on, a call that *)
(* observes its deadline starts no attempt and ends no pause after it, and  *)
(* gives an attempt that gets nowhere up by then: only an attempt that went *)
(* on to another operation of its socket may reach beyond.                  *)
GetsNowhere(t) == http[t].at = "sent" /\ http[t].operation = 1

InTime ==
  \A t \in Clients :
    /\ http[t].at = "sent" => http[t].began < EndsAt
    /\ GetsNowhere(t) \/ http[t].at = "resting"
         => now <= http[t].until /\ http[t].until <= EndsAt
=============================================================================
