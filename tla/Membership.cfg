\* The bounds of each aspect are in MCMembership.
CONSTANTS
  Founder = alice
  Identities = {alice, bob, carol}
  Invitations = {i1, i2}
  Transactions = {t1, t2, t3}
  Connections = {t1, t2, t3}
  People = {bob, carol}
  Sessions = {s1, s2}
  Company = company
  Nobody = Nobody
  NoInvitation = NoInvitation
  MaxVersion = 3
SPECIFICATION AspectSpec
SYMMETRY Alike
INVARIANTS
  OwnerRemains
  AccessIsLive
  RedeemedOnce
  OrderedNoDeadlock
PROPERTY RaisedByOwner
