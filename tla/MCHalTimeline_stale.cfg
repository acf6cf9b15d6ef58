SPECIFICATION TimelineSpec
CONSTANTS
  Nominal = 4
  RingFrames = 2
  MinObserved = 2
  SkewInv = 4
  BandInv = 20
  Capacity = 3
  TargetFill = 1
  SourceTicks = {4}
  MaxTime = 28
  MaxStarts = 1
  MaxLost = 0
INVARIANT FollowsSource
