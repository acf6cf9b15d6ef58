SPECIFICATION Spec
SYMMETRY Symmetry
CONSTANTS
  Clients = {c1, c2, c3}
  Nobody = Nobody
  CountMax = 2
INVARIANT DriverInvariant
INVARIANT ReadsMappedRing
INVARIANT StampNeverWaitsForSyscall
