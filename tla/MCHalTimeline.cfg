SPECIFICATION TimelineSpec
CONSTANTS
  Nominal = 4
  RingFrames = 2
  MinObserved = 2
  SkewInv = 4
  BandInv = 20
  Capacity = 3
  TargetFill = 1
  SourceTicks = {3, 4, 6}
  MaxTime = 28
  MaxStarts = 2
  MaxLost = 1
INVARIANT TimelineInvariant
PROPERTY StampsMonotone
PROPERTY StampCurrent
PROPERTY TimelineContinuous
