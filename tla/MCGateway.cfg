CONSTANTS
  Nodes = {n1, n2}
  Sources = {s1}
  Dialers = {d1, d2}
  Sessions = {c1, c2}
  Leases = {c1, c2, n1, n2}
  NoDialer = NoDialer
  NoNode = NoNode
SPECIFICATION GatewaySpec
SYMMETRY Symmetry
INVARIANTS GatewayTypeOK LeasesHaveOwners OneHalfOpenAttempt PinnedOutboundStays
PROPERTY NoLeaseOnRemoved
