SPECIFICATION AspectSpec
CONSTANTS
  Events = {e1, e2}
  Nonces = {n1, n2}
  Browser = browser
  Mappings = {m1}
  Workers = {w1, w2}
  NoOne = noone
  None = none
  MaxAttempts = 2
  MaxGeneration = 4
  Capacity = 1
INVARIANTS
  AcceptedIsDurable
  RetryConverges
PROPERTIES
  ImplementsIntake
  JobSettles
