----------------------------- MODULE HalTimeline -----------------------------
(***************************************************************************)
(* The device clock of the CoreAudio driver (ReacJackDriver.c): zero time  *)
(* stamps on a line whose rate is slaved to the clock observations the     *)
(* daemon publishes in the ring, rebased whenever the estimate of the rate *)
(* changes.                                                                *)
(*                                                                         *)
(* Rates are fractions <<ticks, frames>>, exact where the code has a       *)
(* Float64, and its casts to UInt64 round down.  An observation is whole   *)
(* (see SharedClock) and StartIO, StopIO and GetZeroTimeStamp are steps    *)
(* under the mutex (see HalDriver).  Around the driver: a source that      *)
(* sends a packet of one frame every so many ticks, a network that may     *)
(* lose one, and the ring, which is full once nobody has read it for       *)
(* Capacity frames and then takes no packet and publishes nothing.         *)
(***************************************************************************)
EXTENDS Integers

CONSTANTS
  Nominal,       \* gDevice_HostTicksPerFrame, set by Initialize
  RingFrames,    \* kDevice_RingFrames, the period of the time stamps
  MinObserved,   \* kClock_MinObservedFrames
  SkewInv,       \* 1 / kClock_MaxRateSkew
  BandInv,       \* 1 / 0.000002, below which a change of rate is ignored
  Capacity, TargetFill,
  SourceTicks,   \* rates a source may have, in ticks per frame
  MaxTime,       \* bound: ticks
  MaxStarts,     \* bound: recordings
  MaxLost        \* bound: packets the network loses

ASSUME HalTimelineAssumption ==
  /\ {Nominal, RingFrames, MinObserved, SkewInv, BandInv, Capacity} \subseteq Nat \ {0}
  /\ SkewInv > 1
  /\ TargetFill \in 0 .. Capacity
  /\ SourceTicks \subseteq Nat \ {0}
  /\ {MaxTime, MaxStarts, MaxLost} \subseteq Nat

None == [time |-> 0, pos |-> 0]   \* no observation: position 0 is never published

VARIABLES
  now,                        \* mach_absolute_time
  source, due, pos, fill,     \* the source's rate and next packet; write_pos and fill
  clock,                      \* the last observation published
  running, open,              \* gDevice_IOIsRunning > 0, gDevice_RingIsOpen
  anchor, last,               \* [time, sample] anchor and last stamp
  slaved,                     \* gDevice_SlavedTicksPerFrame
  seed,                       \* gDevice_TimelineSeed
  ref,                        \* gDevice_ClockRef..., None if not valid
  starts, lost,               \* recordings begun, packets lost
  fresh,                      \* the last packet had been published when the recording began, and
                              \* no packet was lost since
  observed                    \* frames published since, as far as the driver saw them

env == <<now, source, due, pos, fill, clock, lost>>
timeline == <<anchor, last, slaved, seed, ref>>
TimelineVars == <<now, source, due, pos, fill, clock, lost, running, open, anchor, last, slaved,
                  seed, ref, starts, fresh, observed>>

Origin == [time |-> 0, sample |-> 0]

TimelineInit ==
  /\ now = 0 /\ source \in SourceTicks /\ due = source /\ pos = 0 /\ fill = 0 /\ clock = None
  /\ running = FALSE /\ open = FALSE
  /\ anchor = Origin /\ last = Origin /\ slaved = <<Nominal, 1>> /\ seed = 1 /\ ref = None
  /\ starts = 0 /\ lost = 0 /\ fresh = FALSE /\ observed = 0

-----------------------------------------------------------------------------
(* Fractions. *)

Less(a, b) == a[1] * b[2] < b[1] * a[2]

Low == <<Nominal * (SkewInv - 1), SkewInv>>
High == <<Nominal * (SkewInv + 1), SkewInv>>

Clamp(r) == IF Less(r, Low) THEN Low ELSE IF Less(High, r) THEN High ELSE r

\* fabs(a - b) <= b * 0.000002
Near(a, b) ==
  LET d == a[1] * b[2] - b[1] * a[2]
  IN (IF d < 0 THEN -d ELSE d) * BandInv <= b[1] * a[2]

-----------------------------------------------------------------------------
(* The driver. *)

\* The first client's StartIO; the ring may not be there.
StartIO(opens) ==
  /\ ~running /\ starts < MaxStarts
  /\ running' = TRUE /\ starts' = starts + 1
  /\ anchor' = [time |-> now, sample |-> 0] /\ last' = anchor'
  /\ slaved' = <<Nominal, 1>> /\ ref' = None
  /\ open' = opens
  /\ fill' = IF opens /\ fill > TargetFill THEN TargetFill ELSE fill
  /\ fresh' = (clock = None \/ due = clock.time + source) /\ observed' = 0
  /\ UNCHANGED <<now, source, due, pos, clock, lost, seed>>

\* The last client's StopIO; the last recording that the bound allows goes on.
StopIO ==
  /\ running /\ starts < MaxStarts
  /\ running' = FALSE /\ open' = FALSE
  /\ UNCHANGED <<env, timeline, starts, fresh, observed>>

\* update_clock_estimate: whether the window is long enough, and the rate over it.
Enough == ref # None /\ clock.pos >= ref.pos /\ clock.pos - ref.pos >= MinObserved

\* Mutant: the window ends at the call instead of at the observation.
EstimateToNow == Clamp(<<now - ref.time, clock.pos - ref.pos>>)

Estimate == Clamp(<<clock.time - ref.time, clock.pos - ref.pos>>)

\* Mutant: the new line begins at the last host time, but at sample 0.
RebaseForgetsSample ==
  /\ anchor' = [last EXCEPT !.sample = 0]
  /\ slaved' = Estimate
  /\ seed' = seed + 1

\* Mutant: the new line begins now instead of at the last stamp.
RebaseAtNow ==
  /\ anchor' = [time |-> now, sample |-> last.sample]
  /\ slaved' = Estimate
  /\ seed' = seed + 1

Rebase ==
  /\ anchor' = last
  /\ slaved' = Estimate
  /\ seed' = seed + 1

\* update_clock_estimate with an observation: the first one, or one of a counter that
\* was restarted, is the reference; later ones may change the rate.
Observe ==
  /\ open /\ clock # None
  /\ IF ref = None \/ clock.pos < ref.pos
     THEN ref' = clock /\ UNCHANGED <<anchor, slaved, seed>>
     ELSE /\ UNCHANGED ref
          /\ IF Enough /\ ~Near(Estimate, slaved) THEN Rebase ELSE UNCHANGED <<anchor, slaved, seed>>

\* update_clock_estimate without one: no ring, never published, or torn 16 times.
ObserveNothing == UNCHANGED <<ref, anchor, slaved, seed>>

\* Mutant: the stamp is rounded to the nearest period.
PeriodsRounded(elapsed, rate) ==
  (elapsed * rate[2] + (rate[1] * RingFrames) \div 2) \div (rate[1] * RingFrames)

Periods(elapsed, rate) == (elapsed * rate[2]) \div (rate[1] * RingFrames)

\* GetZeroTimeStamp, after the estimate.
NewStamp ==
  LET n == Periods(now - anchor'.time, slaved')
      host == anchor'.time + (n * slaved'[1] * RingFrames) \div slaved'[2]
  IN last' = IF host < last.time THEN last
             ELSE [time |-> host, sample |-> anchor'.sample + n * RingFrames]

GetZeroTimeStamp ==
  /\ running
  /\ \/ Observe /\ observed' = IF ref' = clock THEN 0 ELSE clock.pos - ref'.pos
     \/ ObserveNothing /\ UNCHANGED observed
  /\ NewStamp
  /\ UNCHANGED <<env, running, open, starts, fresh>>

-----------------------------------------------------------------------------
(* Around it. *)

Tick ==
  /\ now < due /\ now < MaxTime
  /\ now' = now + 1
  /\ UNCHANGED <<source, due, pos, fill, clock, lost, running, open, timeline, starts, fresh, observed>>

\* A packet is written and published; a recording that reads the ring makes room for it.
Packet ==
  /\ now = due /\ fill < Capacity
  /\ due' = due + source /\ pos' = pos + 1
  /\ fill' = IF open THEN fill ELSE fill + 1
  /\ clock' = [time |-> now, pos |-> pos']
  /\ UNCHANGED <<now, source, lost, running, open, timeline, starts, fresh, observed>>

\* The ring is full: the packet is dropped, and its time is not published.
PacketRefused ==
  /\ now = due /\ fill = Capacity
  /\ due' = due + source
  /\ UNCHANGED <<now, source, pos, fill, clock, lost, running, open, timeline, starts, fresh, observed>>

PacketLost ==
  /\ now = due /\ lost < MaxLost
  /\ due' = due + source /\ lost' = lost + 1 /\ fresh' = FALSE
  /\ UNCHANGED <<now, source, pos, fill, clock, running, open, timeline, starts, observed>>

TimelineNext ==
  \/ \E opens \in BOOLEAN : StartIO(opens)
  \/ StopIO \/ GetZeroTimeStamp
  \/ Tick \/ Packet \/ PacketRefused \/ PacketLost

TimelineSpec == TimelineInit /\ [][TimelineNext]_TimelineVars

-----------------------------------------------------------------------------
(* Properties. *)

Fraction == (Nat \ {0}) \X (Nat \ {0})
Time == [time : Nat, sample : Nat]
Observation == [time : Nat, pos : Nat]

\* Every variable stays in its domain; the slaved rate is within the skew the driver
\* believes in, whatever was observed (kClock_MaxRateSkew).
TimelineTypeOK ==
  /\ now \in Nat /\ due \in Nat /\ source \in SourceTicks /\ pos \in Nat
  /\ fill \in 0 .. Capacity
  /\ clock \in Observation /\ ref \in Observation
  /\ running \in BOOLEAN /\ open \in BOOLEAN /\ fresh \in BOOLEAN
  /\ anchor \in Time /\ last \in Time
  /\ slaved \in Fraction /\ ~Less(slaved, Low) /\ ~Less(High, slaved)
  /\ seed \in Nat /\ starts \in 0 .. MaxStarts /\ lost \in 0 .. MaxLost /\ observed \in Nat

SameRecording == starts' = starts

\* "Rebased continuously so timestamps stay monotonic" (COREAUDIO_PLAN.md): within a
\* recording neither the host time nor the sample time of a stamp goes back.
StampsMonotone ==
  [][SameRecording => last'.time >= last.time /\ last'.sample >= last.sample]_TimelineVars

\* A stamp is the latest one: not in the future, and less than a period old.
StampCurrent ==
  [][GetZeroTimeStamp =>
       /\ last'.time <= now
       /\ (now - last'.time - 1) * slaved'[2] < slaved'[1] * RingFrames]_TimelineVars

\* From one stamp to the next both times advance at rate r, up to a tick of rounding.
AtRate(r) ==
  LET d == (last'.time - last.time) * r[2] - (last'.sample - last.sample) * r[1]
  IN -r[2] <= d /\ d <= r[2]

\* As long as the seed stays, so does the rate a client has measured, for the host resyncs
\* its clients only when the seed changes; and when it changes, the stamps go on from the
\* last one at the new rate: the timeline has no jump.
TimelineContinuous ==
  [][SameRecording => /\ AtRate(slaved')
                      /\ seed' = seed => AtRate(slaved)]_TimelineVars

\* The device follows the source: once enough frames were observed, the rate is the
\* source's, or as near to it as the skew allows - for a recording that began before the
\* ring was full and lost no packet.
Follows == Near(Clamp(<<source, 1>>), slaved)
FollowsSteadySource == fresh /\ observed >= MinObserved => Follows

\* Periods from the anchor to the last stamp.
StampPeriods == (last.sample - anchor.sample) \div RingFrames

\* The last stamp is a whole number of periods behind the anchor, on the line of the rate in
\* force, and those periods have passed.
StampStages ==
  /\ last.sample >= anchor.sample /\ last.sample = anchor.sample + StampPeriods * RingFrames
  /\ last.time = anchor.time + (StampPeriods * slaved[1] * RingFrames) \div slaved[2]
  /\ StampPeriods * slaved[1] * RingFrames <= (now - anchor.time) * slaved[2]

\* An observation is of the last frame written, the reference is an earlier one; as long as
\* every packet of a recording was published, the source's rate is between the two.
ObservationStages ==
  /\ clock.pos = pos /\ (pos = 0 => clock = None)
  /\ ref.pos <= pos /\ (ref.pos = 0 => ref = None)
  /\ fresh /\ open =>
       /\ fill < Capacity => clock = None \/ due = clock.time + source
       /\ ref # None => clock.time - ref.time = (clock.pos - ref.pos) * source

\* What holds of the slaved clock in every state: the rate is one the driver may believe,
\* and for a steady recording it is the source's.
TimelineInvariant == TimelineTypeOK /\ FollowsSteadySource /\ StampStages /\ ObservationStages

\* "The CoreAudio device slaves its timestamps to the observed REAC rate" (README.md):
\* the same of every recording that loses no packet.
FollowsSource == lost = 0 /\ observed >= MinObserved => Follows
=============================================================================
