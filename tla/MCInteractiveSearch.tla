------------------------ MODULE MCInteractiveSearch ------------------------
(* Small instances of InteractiveSearch for TLC.                            *)
EXTENDS InteractiveSearch

CONSTANTS r1, r2, r3

MCReceipts == {r1, r2, r3}
MCRelevant == {r1, r3}

MCAllSearches ==
  [strategy : {"list", "class", "fulltext", "events", "relation"}, key : BOOLEAN]
MCBodySearches == {[strategy |-> "fulltext", key |-> TRUE]}

(* The body search ranks by score, the listing by date.                     *)
MCFound == <<r2, r1>>
MCListing == <<r3, r1>>
MCChains == SUBSET MCReceipts
=============================================================================
