SPECIFICATION FairSpec
CONSTANTS
  Daemons = {d1, d2}
  None = None
PROPERTY RestartAlwaysRecovers
