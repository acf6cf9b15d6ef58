SPECIFICATION CallFairSpec
CONSTANTS
  Readers = {driver}
  Attempts = 3
  MaxPublished = 5
INVARIANT Fresh
INVARIANT FailureHonest
PROPERTY ObservationsMonotone
PROPERTY GetReturns
