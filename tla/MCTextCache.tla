---------------------------- MODULE MCTextCache ----------------------------
(* Two small texts, of which the session cache holds both and the disk one, *)
(* and a large one, which drives both out of the session cache and is too   *)
(* large for the disk.                                                      *)
EXTENDS TextCache, TLC

CONSTANTS p1, p2, small, other, large

MCSize == (small :> 1) @@ (other :> 1) @@ (large :> 2)
MCProcesses == {p1, p2}
MCSymmetry == Permutations(MCProcesses) \cup Permutations({small, other})
=============================================================================
