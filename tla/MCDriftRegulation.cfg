SPECIFICATION FairSpec
CONSTANTS
  TargetFill = 4800
  Tolerance = 2400
  MaxCorrection = 8
  Capacity = 48000
  IOFrames = 512
  Jitter = 7
  MaxDisturbances = 2
PROPERTY SlowSourceAbsorbed
PROPERTY FastSourceAbsorbed
PROPERTY Converges
PROPERTY UnderrunsStop
