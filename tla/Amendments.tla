----------------------------- MODULE Amendments -----------------------------
(***************************************************************************)
(* Chains of corrections, as the strategies S6 and S7 find them:           *)
(* build_amendment_chains of app/research/amendments.py, and               *)
(* _relation_analysis of app/orchestrator/engine.py, which runs it over    *)
(* the filings whose text is in the cache and groups the verified cases.   *)
(*                                                                         *)
(* Filings are numbered in the order of their receipt numbers, which begin *)
(* with the date, so a chain ordered by date and receipt is ordered by     *)
(* number.  All have the same company and report name; others are never    *)
(* linked by their date.  What the code does not see is the truth: which   *)
(* filing each correction corrects.  The name of a filing tells it that it *)
(* is a correction (the prefix).  The OpenDART listing has flags for what  *)
(* was corrected or withdrawn; the body search has none.  The text of a    *)
(* correction states the receipt of the filing it corrects, the receipt of *)
(* the first filing, only the date of that one, or nothing; and the text   *)
(* of any filing may name the receipt of another, of its case or not, as a *)
(* related filing, which is read in the same way.                          *)
(* The variables and the specification have names that differ from those   *)
(* of InteractiveSearch, the rest of the engine, which is proved together  *)
(* with this module.                                                       *)
(***************************************************************************)
EXTENDS Integers, FiniteSets, FiniteSetsExt

CONSTANTS
  Count,    (* filings                                                      *)
  DatesOf,  (* the days they may be filed on                                *)
  ListedOf  (* which of them the OpenDART listing may have                  *)

ASSUME CountAssumption == Count \in Nat \ {0}
ASSUME DatesAssumption ==
  \A dates \in DatesOf : \A i, j \in 1..Count : i < j => dates[i] <= dates[j]

None == 0
Filings == 1..Count
Statements == {"target", "first", "date", "none"}

VARIABLES
  corrects,   (* truth: the filing each correction corrects                 *)
  date,       (* receipt_date                                               *)
  states,     (* what the text of each correction states                    *)
  related,    (* the receipt in the related-filing field of each text       *)
  flagged,    (* the filings from the OpenDART listing: rm_flags            *)
  withdrawn,  (* truth: the filing that was withdrawn                       *)
  cached,     (* candidates: the filings whose texts are in the cache       *)
  confirmed,  (* those with a verified case                                 *)
  chains,     (* amendment_chains of the analysis                           *)
  results     (* the filings of each case that is returned                  *)

listing == <<corrects, date, states, related, flagged, withdrawn, cached, confirmed>>
chainsVars == <<listing, chains, results>>

(* The first filing of a case, by the truth, and the case.                  *)
Firsts(truth) ==
  LET first[f \in Filings] == IF truth[f] = None THEN f ELSE first[truth[f]] IN first

FirstOf(f) == Firsts(corrects)[f]
CaseOf(f) == {g \in Filings : FirstOf(g) = FirstOf(f)}

Correction(f) == corrects[f] # None
Corrected(f) == \E g \in Filings : corrects[g] = f
Withdrawn(f) == withdrawn = f

(* The flags of a candidate; row_to_candidate gives none.                   *)
FlagCorrected(f) == f \in flagged /\ Corrected(f)
FlagWithdrawn(f) == f \in flagged /\ Withdrawn(f)

-----------------------------------------------------------------------------
(* extract_amendment_context: what the text of a filing says of others.     *)
Stated(f) ==
  [receipt |-> IF related[f] # None THEN related[f]
               ELSE IF Correction(f) /\ states[f] = "target" THEN corrects[f]
               ELSE IF Correction(f) /\ states[f] = "first" THEN FirstOf(f)
               ELSE None,
   date    |-> IF Correction(f) /\ states[f] = "date" THEN date[FirstOf(f)] ELSE None]

(* The other cached filings of the stated day.                              *)
OfDay(f) == {g \in cached \ {f} : date[g] = Stated(f).date}

(* Mutant of LinkTo: any filing of the day will do.                         *)
LinkToAny(f) ==
  IF Stated(f).receipt \in cached THEN Stated(f).receipt
  ELSE IF Stated(f).date # None /\ OfDay(f) # {} THEN Min(OfDay(f))
  ELSE None

(* The relation a filing contributes: the receipt it states, or the only    *)
(* candidate of the day it states.                                          *)
LinkTo(f) ==
  IF Stated(f).receipt \in cached THEN Stated(f).receipt
  ELSE IF Stated(f).date # None /\ Cardinality(OfDay(f)) = 1 THEN Min(OfDay(f))
  ELSE None

(* Mutant of Roots: a filing takes the number of the one it links, unfound. *)
RootsAlone(some, link) == [f \in some |-> IF link[f] = None THEN f ELSE link[f]]

(* union and find: the root of each filing when the first n have been       *)
(* linked, the least of those it is joined to.                              *)
Roots(some, link) ==
  LET root[n \in 0..Count] ==
        IF n = 0 THEN [f \in some |-> f]
        ELSE IF n \notin some \/ link[n] = None THEN root[n - 1]
        ELSE LET ends == {root[n - 1][n], root[n - 1][link[n]]}
             IN [f \in some |-> IF root[n - 1][f] \in ends THEN Min(ends) ELSE root[n - 1][f]]
  IN root[Count]

Groups ==
  LET root == Roots(cached, [f \in cached |-> LinkTo(f)])
  IN {{g \in cached : root[g] = root[f]} : f \in cached}

(* A filing alone makes a chain when something says it was corrected.       *)
Signals(f) == Correction(f) \/ FlagCorrected(f)

(* chain_complete, and chain_confidence: confirmed.                         *)
Complete(S) == Cardinality(S) > 1 /\ \A f \in S \ {Min(S)} : LinkTo(f) # None

(* effective_receipt_no.                                                    *)
Effective(S) ==
  IF Complete(S) /\ ~FlagWithdrawn(Max(S)) /\ ~FlagCorrected(Max(S)) THEN Max(S) ELSE None

(* The chain of a group; compare_amendment_chain compares its two ends when *)
(* the chain has both, whose texts are then in the cache.                   *)
Chain(S) ==
  [members |-> S, complete |-> Complete(S), effective |-> Effective(S),
   compared |-> IF Complete(S) THEN {Min(S), Max(S)} ELSE {}]

ChainsOf(groups) ==
  {Chain(S) : S \in {T \in groups : Cardinality(T) > 1 \/ \E f \in T : Signals(f)}}

(* _relation_analysis: the verified cases of a chain become one, which has  *)
(* all its filings; the others stay.                                        *)
Grouped(found) ==
  {S \in {c.members : c \in found} : Cardinality(S) > 1 /\ S \cap confirmed # {}}

CasesOf(found) ==
  Grouped(found) \cup {{f} : f \in confirmed \ UNION Grouped(found)}

-----------------------------------------------------------------------------
Nothing ==
  /\ corrects = [f \in Filings |-> None] /\ states = [f \in Filings |-> "none"]
  /\ related = [f \in Filings |-> None] /\ flagged = {}
  /\ withdrawn = None /\ cached = {} /\ confirmed = {}

ChainsInit == Nothing /\ date \in DatesOf /\ chains = {} /\ results = {}

(* A search lists filings and reads some; their texts are in the cache.     *)
(* At most one of them names another as a related filing.                   *)
Observe ==
  /\ cached = {}
  /\ corrects' \in {c \in [Filings -> 0..Count] : \A f \in Filings : c[f] < f}
  /\ \E f, g \in Filings :
       related' = [h \in Filings |-> IF h = f /\ f # g THEN g ELSE None]
  /\ states' \in {s \in [Filings -> Statements] : \A f \in Filings :
                    /\ corrects'[f] = None => s[f] = "none"
                    /\ related'[f] # None => s[f] \in {"date", "none"}}
  /\ flagged' \in ListedOf
  /\ withdrawn' \in {None, Count}
  /\ cached' \in (SUBSET Filings) \ {{}}
  /\ confirmed' \in {cached', {Max(cached')}}
  /\ UNCHANGED <<date, chains, results>>

(* The analysis of the strategies S6 and S7.                                *)
Relate ==
  /\ cached # {} /\ results = {}
  /\ chains' = ChainsOf(Groups)
  /\ results' = CasesOf(chains')
  /\ UNCHANGED listing

ChainsNext == Observe \/ Relate

ChainsSpec == ChainsInit /\ [][ChainsNext]_chainsVars

-----------------------------------------------------------------------------
(* The related-filing field of a text names no filing of another case.      *)
Sincere(f) == related[f] # None => related[f] \in CaseOf(f)

(* What S6 and S7 tell is true as far as they can know: a complete chain    *)
(* holds, and compares, filings of one case whenever the cache holds every  *)
(* filing of the cases it meets and no related-filing field leads to        *)
(* another case; the filing in force was not corrected or withdrawn, as far *)
(* as it comes from the OpenDART listing, and wherever it comes from no     *)
(* later text of the cache links to it; whatever the texts say, a filing    *)
(* and what it links stay in one chain when later links join what is joined *)
(* already; and every verified case is in exactly one result, of which each *)
(* has one (amendments.py:118-186, engine.py:615-646).                      *)
RelationsSound ==
  /\ \A chain \in chains :
       /\ chain.complete /\ (\A f \in chain.members : CaseOf(f) \subseteq cached /\ Sincere(f))
            => \A f \in chain.members : chain.members \cup chain.compared \subseteq CaseOf(f)
       /\ chain.effective # None =>
            /\ chain.effective \in flagged =>
                 ~Corrected(chain.effective) /\ ~Withdrawn(chain.effective)
            /\ \A g \in cached : LinkTo(g) = chain.effective => g < chain.effective
  /\ chains # {} => \A f \in cached : LinkTo(f) # None =>
       \E chain \in chains : {f, LinkTo(f)} \subseteq chain.members
  /\ results # {} => confirmed \subseteq UNION results
  /\ \A A \in results : A \cap confirmed # {} /\ \A B \in results : A # B => A \cap B = {}
=============================================================================
