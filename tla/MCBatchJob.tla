----------------------------- MODULE MCBatchJob -----------------------------
(* Small instances of BatchJob for TLC.                                     *)
EXTENDS BatchJobInvariant

CONSTANTS r1, r2, r3, r4, r5, new

MCReceipts == {r1, r2, r3, r4, new}
WideReceipts == {r1, r2, r3, r4, r5, new}

(* Two windows; the newest is longer than a page, and a filing that is in   *)
(* the first page moves to the second one when "new" is published.          *)
MCCatalog == <<<<r1, r2, r3>>, <<r4>>>>

(* Three rows a page and three downloads at a time.                         *)
WideCatalog == <<<<r1, r2, r3, r4>>, <<r5>>>>

(* Two search terms over one live period: they find r2 both.                *)
MCDartCatalog == <<<<r2, r1>>, <<r3, r2>>>>

(* One of them has two pages of two rows.                                   *)
WideDartCatalog == <<<<r2, r1, r4>>, <<r3, r2>>>>
MCLiveUnits == {1, 2}

KindOf(evidence, unavailable, broken) ==
  [r \in WideReceipts |-> IF r \in evidence THEN "evidence"
                        ELSE IF r \in unavailable THEN "unavailable"
                        ELSE IF r \in broken THEN "broken" ELSE "plain"]

WideKind == KindOf({r1, r3, r4, new}, {r2}, {})
MCKind == [r \in MCReceipts |-> WideKind[r]]
MCBrokenKind == [r \in MCReceipts |-> KindOf({r1, r3}, {}, {r2})[r]]
=============================================================================
