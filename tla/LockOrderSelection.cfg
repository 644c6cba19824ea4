SPECIFICATION SelectionSpec
CONSTANTS
  Connections = {t1, t2}
  People = {alice, bob}
  Sessions = {s1}
  Company = company
INVARIANT NoDeadlock
