--------------------------- MODULE DriftRegulation ---------------------------
(***************************************************************************)
(* The fill of the ring over many IO cycles, when the clock of the REAC    *)
(* device and the clock of the recording host drift apart.  In each cycle  *)
(* the daemon delivers about as many frames as the host reads, and the     *)
(* regulated read drops or duplicates a few to keep the fill near its      *)
(* target.  Cycles may be disturbed: packets are lost, or the host misses  *)
(* its deadline.                                                           *)
(*                                                                         *)
(* SharedAudio shows that the ring's operations behave as if they were     *)
(* atomic; here they are.  Only the number of buffered frames is kept.     *)
(***************************************************************************)
EXTENDS Regulation

CONSTANTS
  Capacity,         \* capacity_frames (48000)
  IOFrames,         \* inIOBufferFrameSize: frames of one regulated read
  Jitter,           \* a cycle delivers IOFrames - Jitter .. IOFrames + Jitter
  MaxDisturbances   \* bound: cycles in which packets or a deadline are lost

ASSUME DriftAssumption ==
  /\ Capacity \in Nat /\ IOFrames \in Nat /\ Jitter \in Nat
  /\ MaxDisturbances \in Nat
  /\ IOFrames > MaxCorrection
  /\ Jitter <= MaxCorrection
  /\ Capacity >= TargetFill + Tolerance + IOFrames + Jitter

VARIABLES
  fill,          \* write_pos - read_pos
  phase,         \* whose turn it is in this cycle: "write" or "read"
  event,         \* what the last step counted: "overrun", "underrun" or "none"
  disturbances   \* cycles disturbed so far

vars == <<fill, phase, event, disturbances>>

\* IO start: seek_to_fill leaves the target or what there was below it.
Init ==
  /\ fill \in 0 .. TargetFill
  /\ phase = "write"
  /\ event = "none"
  /\ disturbances = 0

\* The daemon's packets of one cycle; without space they are dropped whole.
Write(frames) ==
  /\ phase = "write"
  /\ fill' = IF frames > Capacity - fill THEN fill ELSE fill + frames
  /\ event' = IF frames > Capacity - fill THEN "overrun" ELSE "none"
  /\ phase' = "read"
  /\ UNCHANGED disturbances

\* The frames of one cycle never reach the daemon.
Lose ==
  /\ phase = "write"
  /\ disturbances < MaxDisturbances
  /\ disturbances' = disturbances + 1
  /\ phase' = "read"
  /\ event' = "none"
  /\ UNCHANGED fill

Drop == IF TooFull(fill) THEN DropOf(fill) ELSE 0
Want == IF TooFull(fill) THEN IOFrames ELSE IOFrames - InsertOf(fill, IOFrames)

Real == MinOf(fill - Drop, Want)

\* shared_audio_read_interleaved_regulated
Read ==
  /\ phase = "read"
  /\ fill' = fill - Drop - Real
  /\ event' = IF Real < Want THEN "underrun" ELSE "none"
  /\ phase' = "write"
  /\ UNCHANGED disturbances

\* The host is late and this cycle's read does not happen.
Miss ==
  /\ phase = "read"
  /\ disturbances < MaxDisturbances
  /\ disturbances' = disturbances + 1
  /\ phase' = "write"
  /\ event' = "none"
  /\ UNCHANGED fill

Cycle == Read \/ \E frames \in IOFrames - Jitter .. IOFrames + Jitter : Write(frames)

Next == Cycle \/ Lose \/ Miss

Spec == Init /\ [][Next]_vars

\* Both clocks keep ticking.
FairSpec == Spec /\ WF_vars(Cycle)

-----------------------------------------------------------------------------
(* Properties. *)

\* The fill is a number of frames the ring can hold.
TypeOK ==
  /\ fill \in 0 .. Capacity
  /\ phase \in {"write", "read"}
  /\ event \in {"overrun", "underrun", "none"}
  /\ disturbances \in 0 .. MaxDisturbances

\* A whole IO buffer fits below the band, so that a fill inside the band is
\* enough for a read.  With the driver's 4800 and 2400: IO buffers up to 2400.
Headroom == IOFrames <= TargetFill - Tolerance

AboveFloor ==
  fill >= TargetFill - Tolerance - (IF phase = "read" THEN Jitter ELSE IOFrames)

BelowCeiling ==
  fill <= TargetFill + Tolerance + (IF phase = "read" THEN IOFrames + Jitter ELSE 0)

\* Once the fill has reached the band, a source that is slower than the host, by
\* any pattern of up to MaxCorrection frames a cycle, neither empties the ring
\* nor causes a single underrun; only a lost cycle can ("slightly slow keeps ring
\* fill bounded", COREAUDIO_PLAN.md; zero underruns in test_shared_audio.c).
SlowSourceAbsorbed ==
  [][AboveFloor /\ disturbances' = disturbances => AboveFloor' /\ event' # "underrun"]_vars

\* And a faster source neither fills the ring nor causes an overrun ("slightly
\* fast keeps ring fill bounded").
FastSourceAbsorbed ==
  [][BelowCeiling /\ disturbances' = disturbances => BelowCeiling' /\ event' # "overrun"]_vars

\* Whatever packets and deadlines were lost, the fill comes back into the band
\* and stays there, although each read corrects only MaxCorrection frames.
Converges == <>[](AboveFloor /\ BelowCeiling)

\* A source slower than the host by less than the correction does not go on
\* causing underruns ("does not drift into underrun/overrun", COREAUDIO_PLAN.md).
UnderrunsStop == <>[](event # "underrun")
=============================================================================
