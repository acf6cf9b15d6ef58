------------------------------ MODULE Regulation ------------------------------
(***************************************************************************)
(* The arithmetic of shared_audio_read_interleaved_regulated: how many     *)
(* frames one regulated read drops or duplicates, given the ring's fill.   *)
(* SharedAudio uses it inside the concurrent ring, DriftRegulation in the  *)
(* cycle-by-cycle model of two clocks that drift apart.                    *)
(***************************************************************************)
EXTENDS Integers

CONSTANTS
  TargetFill,    \* fill the reader steers to (kDevice_TargetFill, 4800)
  Tolerance,     \* half width of the band left alone (kDevice_FillTolerance)
  MaxCorrection  \* SHARED_AUDIO_MAX_CORRECTION, 8

ASSUME RegulationAssumption ==
  /\ TargetFill \in Nat
  /\ Tolerance \in Nat
  /\ MaxCorrection \in Nat \ {0}

\* The C idiom  a < b ? a : b.
MinOf(a, b) == IF a < b THEN a ELSE b

\* fill > target_fill + tolerance: the reader is too far behind the writer.
TooFull(fill) == fill > TargetFill + Tolerance

\* fill + tolerance < target_fill && frames > 0: the reader is too close.
TooEmpty(fill, frames) == fill + Tolerance < TargetFill /\ frames > 0

\* Mutant: nothing is ever dropped.
DropOfNothing(fill) == 0

\* Frames skipped before the read; only meaningful when TooFull(fill).
DropOf(fill) == MinOf(fill - TargetFill, MaxCorrection)

\* Mutant: nothing is ever inserted.
InsertOfNothing(fill, frames) == 0

\* Mutant: the cap of one correction is forgotten, so a starved ring is never read.
InsertOfUncapped(fill, frames) ==
  IF TooEmpty(fill, frames) THEN MinOf(TargetFill - fill, frames) ELSE 0

\* Output frames made up by duplication instead of being consumed.
InsertOf(fill, frames) ==
  IF TooEmpty(fill, frames)
  THEN MinOf(MinOf(TargetFill - fill, MaxCorrection), frames)
  ELSE 0

\* Fill left by seek_to_fill.
SeekFill(fill) == MinOf(fill, TargetFill)
=============================================================================
