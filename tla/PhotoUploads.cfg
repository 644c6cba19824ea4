SPECIFICATION EitherSpec
CONSTANTS
  Photos = {p1}
  Preparers = {d1, d2}
  RetryKeys = {k1}
  MaxFaults = 2
  MaxPhotoRevision = 3
INVARIANTS ReadyIsStored CompletedLeavesNothingPending
PROPERTY KeptSettles
