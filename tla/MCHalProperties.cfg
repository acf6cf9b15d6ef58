SPECIFICATION PropertiesSpec
CONSTANTS
  CountMod = 3
  Sizes = {0, 3, 7, 15, 39, 55, 811, 1000}
  OtherValues = {"44100", "another format"}
  MaxRunning = 1
INVARIANT TablesAgree
INVARIANT PropertiesInvariant
