------------------------- MODULE BatchJobInvariant -------------------------
(***************************************************************************)
(* Two inductive invariants of BatchJob.  Coverage is why it loses no      *)
(* filing: what the cursors of a dictionary promise about the rows that    *)
(* are already behind them.  The listings are given as arguments (f and df *)
(* are the filings published since approval), so that a step of the job    *)
(* and a publication can be argued about separately.  Bookkeeping is why   *)
(* its results add up, in memory, in the checkpoint and in the records.    *)
(***************************************************************************)
EXTENDS BatchJob

Newcomers(f, df) ==
  (UNION {RangeOf(f[w]) : w \in Windows}) \cup (UNION {RangeOf(df[u]) : u \in Units})

(* Everything before the cursor of the body search is among the candidates, *)
(* if every page was as the code counts.                                    *)
Found(df, j) ==
  j.strayed \/ \A u \in Units : \A i \in DOMAIN DartCatalog[u] :
    (u < j.unit \/ (u = j.unit /\ Len(df[u]) + i <= PageStart(j.unitPage, DartPageSize)))
      => DartCatalog[u][i] \in RangeOf(j.cands)

(* Every filing before the cursor of the OpenDART windows is processed: a   *)
(* row only ever moves away from the beginning of its window.               *)
ListCovered(f, j) ==
  \A w \in Windows : \A i \in DOMAIN Catalog[w] :
    (w < j.window \/ (w = j.window /\ Len(f[w]) + i <= PageStart(j.page, PageSize) + j.offset))
      => Catalog[w][i] \in j.done

(* Every candidate before the offset, or every one, is processed or new.    *)
CandsCovered(new, j) ==
  \A k \in DOMAIN j.cands :
    (j.window > 1 \/ k <= j.offset) => j.cands[k] \in j.done \cup new

Covered(f, df, j) ==
  /\ Found(df, j)
  /\ j.phase = "dart_verification" => j.unit \notin Units
  /\ \/ TargetMet(j)
     \/ /\ j.phase = "dart_verification" => CandsCovered(Newcomers(f, df), j)
        /\ j.phase = "opendart_discovery" => ListCovered(f, j)

(* The page the row loop holds: its rows up to r are processed or new, and  *)
(* a row of the window is behind the page cursor, on the page or after it.  *)
PageCovered(f, df, j, rs, r, final) ==
  /\ \A m \in DOMAIN rs : m <= r => rs[m] \in j.done \cup Newcomers(f, df)
  /\ j.phase = "dart_verification" => rs = j.cands /\ final
  /\ j.phase = "opendart_discovery" =>
       \A i \in DOMAIN Catalog[j.window] :
         /\ \A k \in 0..Len(rs) :
              Len(f[j.window]) + i <= PageStart(j.page, PageSize) + k =>
                Catalog[j.window][i] \in j.done \cup {rs[m] : m \in 1..k}
         /\ final => Catalog[j.window][i] \in j.done \cup RangeOf(rs)
         /\ ~final => Len(rs) = PageSize

Coverage ==
  /\ Newcomers(fresh, dartFresh) \cap (CatalogRows \cup DartCatalogRows) = {}
  /\ \A j \in {job, disk} \ {NoJob} : Covered(fresh, dartFresh, j)
  /\ pc = "discover" => job.phase = "dart_discovery"
  /\ pc \in Segment \ {"discover"} => job.phase # "dart_discovery"
  /\ pc = "rows" => ~Listed(job)
  /\ pc \in {"record", "audit", "delete"} => Listed(job)
  /\ pc = "rows" => TargetMet(job) \/ PageCovered(fresh, dartFresh, job, rows, row, last)

-----------------------------------------------------------------------------
(* What a dictionary says of its own work.                                  *)

Distinct(s) == \A a, b \in DOMAIN s : s[a] = s[b] => a = b

Balanced(j) ==
  /\ IsFiniteSet(j.results)
  /\ Accounted(j)
  /\ Exhaustive \/ j.count <= Target
  /\ Distinct(j.cands)
  /\ UseDart \/ j.phase = "opendart_discovery"
  /\ PagesAsCounted => ~j.strayed

(* A segment goes on from its checkpoint d: it adds processed filings, and  *)
(* results only from among the filings it has added; candidates that are    *)
(* being verified stay what they are.                                       *)
Continues(j, d) ==
  /\ d.done \subseteq j.done
  /\ d.results \subseteq j.results
  /\ d.count <= j.count
  /\ j.results \cap d.done \subseteq d.results
  /\ d.phase = "dart_verification" => j.phase = d.phase /\ j.cands = d.cands

Outcome(j) ==
  [results |-> j.results, count |-> j.count, skipped |-> j.skipped, done |-> j.done]

(* Once a record is written, a segment only walks to the end again, with    *)
(* the dictionary the record was made from.                                 *)
Concluded ==
  /\ \A r \in records : disk # NoJob => r = Outcome(disk)
  /\ disk # NoJob => Listed(disk) /\ disk.phase # "dart_discovery"
  /\ job # NoJob => job = disk /\ pc \in {"page", "leave", "record", "audit", "delete"}

Bookkeeping ==
  /\ \A j \in {job, disk} \ {NoJob} : Balanced(j)
  /\ \A w \in Windows : Distinct(Rows(w))
  /\ pc = "rows" => Distinct(rows)
  /\ pc \notin Segment => job = NoJob
  /\ job # NoJob => Continues(job, disk)
  /\ pc = "approved" => disk = NoJob /\ records = {}
  /\ pc \in {"record", "audit", "delete"} => job = disk
  /\ pc \in {"audit", "delete", "completed"} => records # {}
  /\ RecordsAgree
  /\ records # {} => Concluded
=============================================================================
