CONSTANTS
  Nodes = {n1}
  Sources = {s1}
  Dialers = {d1}
  Sessions = {c1}
  Leases = {c1, n1}
  NoDialer = NoDialer
  NoNode = NoNode
SPECIFICATION GatewaySpec
INVARIANT NoLockout
