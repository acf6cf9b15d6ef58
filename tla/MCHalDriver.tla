----------------------------- MODULE MCHalDriver -----------------------------
(* HalDriver for TLC: three clients of which two can be counted.  Clients are  *)
(* interchangeable and only invariants are checked, so symmetry is sound.      *)
EXTENDS HalDriver, TLC

Symmetry == Permutations(Clients)
=============================================================================
