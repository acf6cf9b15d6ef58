SPECIFICATION HostFairSpec
CONSTANTS
  TargetFill = 3
  Tolerance = 0
  MaxCorrection = 1
  Capacity = 4
  Channels = 2
  OutChannels = 3
  WriteSizes = {2}
  ReadSizes = {1, 2}
  MaxWritten = 6
  MaxRestarts = 1
  CounterMod = 2
INVARIANT NoSlotRace
INVARIANT DeliveredExact
PROPERTY SilenceIsCounted
PROPERTY ImplementsFifo
PROPERTY ReaderProgress
