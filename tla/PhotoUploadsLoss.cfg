SPECIFICATION LossySpec
CONSTANTS
  Photos = {p1}
  Preparers = {d1, d2}
  RetryKeys = {k1}
  MaxFaults = 2
  MaxPhotoRevision = 3
PROPERTY PendingSettles
