SPECIFICATION FairSpec
CONSTANTS
  Capacity = 2
  Subjects = {a, b}
  Readers = {r1}
  Limits = {1, 2}
  MaxSequence = 5
  MaxEpoch = 2
INVARIANTS NoSilentLoss RefusedOnlyWhenLost
PROPERTIES CatchesUp
