---------------------------- MODULE BatchPromise ----------------------------
(***************************************************************************)
(* What an approved batch job promises, seen from the files it leaves: a   *)
(* growing set of filings whose verdict is settled, the results among      *)
(* them, and one delivery, after which nothing changes.  It knows nothing  *)
(* of channels, pages, rows, segments, failures or restarts; of a source   *)
(* that keeps filings back it knows which ones these may be.               *)
(***************************************************************************)
EXTENDS Integers, FiniteSets

CONSTANTS
  Receipts,   (* all filings                                                *)
  Relevant,   (* those with a matching passage                              *)
  Scopes,     (* the sets of filings of which one must be covered           *)
  Concealable, (* filings that the source may keep back                     *)
  Exhaustive, Target

VARIABLES
  settled,    (* filings with a durable verdict                             *)
  results,    (* those delivered, or to be delivered, to the user           *)
  withheld,   (* filings the source has kept back from an open job          *)
  verdict     (* "open", "delivered" or "expired"                           *)

vars == <<settled, results, withheld, verdict>>

Enough == ~Exhaustive /\ Cardinality(results) >= Target

Init == settled = {} /\ results = {} /\ withheld = {} /\ verdict = "open"

(* Some more filings are settled; the relevant ones among them become       *)
(* results as long as there is room.  It may come out, once, that filings   *)
(* are kept back.                                                           *)
Settle ==
  /\ verdict = "open"
  /\ \E more \in SUBSET (Receipts \ settled) :
       /\ more # {} \/ withheld' # withheld
       /\ settled' = settled \cup more
       /\ \E found \in SUBSET (more \cap Relevant) :
            /\ results' = results \cup found
            /\ found = more \cap Relevant \/ Enough'
            /\ Exhaustive \/ Cardinality(results') <= Target
  /\ withheld' = withheld \/ (withheld = {} /\ withheld' \subseteq Concealable)
  /\ UNCHANGED verdict

Deliver ==
  /\ verdict = "open"
  /\ Enough \/ \E scope \in Scopes : scope \ withheld \subseteq settled
  /\ verdict' = "delivered"
  /\ withheld' = {}
  /\ UNCHANGED <<settled, results>>

GiveUp ==
  /\ verdict = "open"
  /\ verdict' = "expired"
  /\ settled' = {} /\ results' = {} /\ withheld' = {}

Next == Settle \/ Deliver \/ GiveUp

Spec == Init /\ [][Next]_vars
=============================================================================
