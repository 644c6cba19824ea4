\* A draft of up to two versions, edited by a member whose membership changes,
\* two invocations that may fail or die at any statement.  Without symmetry, as a
\* liveness property is checked.
CONSTANTS
  Drafts = {d1}
  Members = {alice}
  Workers = {w1, w2}
  NoDraft = NoDraft
  NoMember = NoMember
  MaxAttempts = 2
  MaxVersion = 2
  MaxMembership = 2
SPECIFICATION FairSpec
INVARIANTS
  ReadyIsCurrent
  PreparedOnce
PROPERTIES
  OnlyHolderWrites
  JobSettles
