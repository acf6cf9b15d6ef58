SPECIFICATION FairSpec
CONSTANTS
  Daemons = {d1, d2}
  None = None
INVARIANT OneWriterPerRing
INVARIANT AttachedComplete
INVARIANT NoRingLeftBehind
PROPERTY RestartRecovers
