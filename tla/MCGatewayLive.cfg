CONSTANTS
  Nodes = {n1, n2}
  Sources = {s1}
  Dialers = {d1, d2}
  Sessions = {c1}
  Leases = {c1, n1, n2}
  NoDialer = NoDialer
  NoNode = NoNode
SPECIFICATION GatewayFairSpec
PROPERTIES DialReturns SessionsReleased TriedAgain
