SPECIFICATION FairSpec
CONSTANTS
  Widths = {2, 3}
  MaxChannels = 3
  FramesPerPacket = 2
  RingSize = 8
  RxFrames = 2
  CounterMod = 4
  FirstCounter = 3
  BufferFrames = 2
  CycleFrames = {1, 3}
  MaxFrames = 2
  Jumps = {0}
CHECK_DEADLOCK FALSE
INVARIANT BridgeInvariant
INVARIANT WholeFramesPlayed
INVARIANT FramesHandledOnce
INVARIANT NoUseAfterRelease
PROPERTY ShutdownCompletes
