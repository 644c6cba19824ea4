SPECIFICATION AspectSpec
CONSTANTS
  Projects = {p1, p2}
  Visits = {v1, v2}
  Members = {m1}
  Hours = {1, 2}
  Nobody = nobody
  Pages = {s1, s2}
  MaxRevision = 4
  MaxLeads = 4
  Faces = {f1, f2}
  Answers = 1
  CandidateLimit = 3
  MaxLeadVersion = 3
  MaxPolicy = 1
SYMMETRY Symmetry
INVARIANTS NoDoubleBooking ClosedProjectIsOver CompletedIsReady NoticeAgrees
PROPERTIES HandoffIsReviewed
