SPECIFICATION FairSpec
CONSTANTS
  ByteMod = 2
  FramesPerPacket = 2
  MaxChannels = 4
  Channels = 4
  Capacity = 3
  FirstCounter = 2
  ForeignSizes = {51, 52, 57, 58, 64, 76, 88}
  Requested = {1, 3}
  MaxPackets = 4
  MaxFaults = 1
  MaxUnderruns = 1
CHECK_DEADLOCK FALSE
INVARIANT SourceInvariant
INVARIANT DeliveredExact
INVARIANT LossAccounted
PROPERTY ImplementsFifo
PROPERTY ShutdownCompletes
