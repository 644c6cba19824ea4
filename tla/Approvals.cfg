SPECIFICATION AspectSpec
CONSTANTS
  MaxProposals = 2
  Keys = {k1, k2, k3}
  Sessions = {s1, s2}
  Requests = {r1, r2}
  Renderers = {d1}
  MaxVersion = 2
  MaxRevision = 6
  Sources = {visited, revisited, lacking, missing}
  Ready = {visited, revisited}
  Unusable = {missing}
  People = {p1}
  ApprovalKeys = {r1, r2}
  Calls = {s1, s2}
  None = None
  MaxReportVersion = 2
  MaxReportRevision = 8
SYMMETRY Symmetry
INVARIANTS OneProposal AgreementStands RecordedIsAnswered
PROPERTIES CommitIsFresh DocumentsAreArtifacts
