SPECIFICATION AspectSpec
CONSTANTS
  Packages = {p1}
  Sessions = {s1, s2}
  None = None
  MaxReport = 2
  MaxVersion = 3
  MaxRevision = 6
  MaxProject = 2
  MaxPolicy = 2
  MaxFacts = 2
  MaxField = 3
  MaxOverride = 1
SYMMETRY Symmetry
INVARIANTS RowAgreesWithEvents ReadyIsDelivered
PROPERTIES SentWasApproved NeverLatched
