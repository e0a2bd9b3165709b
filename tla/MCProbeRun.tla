----------------------------- MODULE MCProbeRun -----------------------------
(* Servers that differ in what the measurements are to find out.            *)
EXTENDS ProbeRun

Case(source, how) ==
  [source |-> source, pair |-> how # "unpaired", receipt |-> how = "receipt",
   plan |-> how \in {"plan", "undated"}, label |-> how \in {"plan", "undated"},
   dated |-> how = "plan", subject |-> how = "subject"]

Good ==
  [up |-> TRUE, hits |-> [a |-> "few", b |-> "many"], sticky |-> FALSE, total |-> 5,
   honours |-> FALSE, withCb |-> FALSE, odd |-> {}, filings |-> <<1, 2, 1, 0, 1>>,
   first |-> TRUE, last |-> TRUE, bonds |-> <<1, 3, 1>>, combined |-> TRUE,
   cases |-> [w1 |-> Case("p", "plan"), w2 |-> Case("q", "subject")]]

MCTerms == <<"a", "b">>

MCServers ==
  {Good,
   [Good EXCEPT !.up = FALSE],
   [Good EXCEPT !.sticky = TRUE, !.honours = TRUE],
   [Good EXCEPT !.sticky = TRUE, !.hits = [a |-> "few", b |-> "few"], !.withCb = TRUE,
                !.odd = {3}],
   [Good EXCEPT !.last = FALSE, !.filings = <<1, 0, 0, 0, 0>>,
                !.cases = [w1 |-> Case("p", "undated"), w2 |-> Case("q", "unpaired")]],
   [Good EXCEPT !.first = FALSE, !.filings = <<0, 1, 1, 0, 1>>,
                !.cases = [w1 |-> Case("p", "receipt"), w2 |-> Case("p", "subject")]],
   [Good EXCEPT !.filings = <<3, 3, 3, 3, 3>>, !.total = 0, !.combined = FALSE,
                !.cases = [w1 |-> Case("p", "receipt"), w2 |-> Case("q", "plan")]]}
=============================================================================
