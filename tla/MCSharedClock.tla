---------------------------- MODULE MCSharedClock ----------------------------
(* SharedClock for TLC.  Readers store nothing the others load, so one is     *)
(* enough here; the proofs are for any set of them.                           *)
EXTENDS SharedClock
=============================================================================
