SPECIFICATION FairSpec
CONSTANTS
  CounterMod = 4
  FramesPerPacket = 2
  Capacity = 3
  ChannelCounts = {2, 4}
  ToneChannels = 2
  Rate = 6
  Second = 4
  WordMod = 1000
  MaxPackets = 4
  MaxRestarts = 1
  MaxErrors = 1
  MaxTime = 6
CHECK_DEADLOCK FALSE
INVARIANT DaemonInvariant
INVARIANT LossAccounted
INVARIANT ToneKeepsUp
PROPERTY ShutdownCompletes
