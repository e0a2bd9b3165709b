---------------------------- MODULE MCBatchPlans ----------------------------
(* Four previews of two queries.  Of the first query, "wide" is half as wide*)
(* again as "narrow", "broad" is not.                                       *)
EXTENDS BatchPlans

MCScopes == {"narrow", "broad", "wide", "other"}
MCLineage == [s \in MCScopes |-> IF s = "other" THEN "second" ELSE "first"]
MCWeight == [s \in MCScopes |->
  CASE s = "broad" -> 5 [] s = "wide" -> 6 [] OTHER -> 4]
=============================================================================
