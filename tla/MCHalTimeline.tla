---------------------------- MODULE MCHalTimeline ----------------------------
(* HalTimeline for TLC: rates of 3 to 6 ticks per frame, of which 3 to 5 are   *)
(* within the skew, and periods of 2 frames.                                   *)
EXTENDS HalTimeline
=============================================================================
