CONSTANTS
  Nodes = {n1, n2}
  Sources = {s1}
  Dialers = {d1, d2}
  Leases = {l1, l2, l3}
  NoDialer = NoDialer
  NoNode = NoNode
SPECIFICATION RegistryFairSpec
INVARIANTS TypeOK LeaseAccounting LeasedDialerIsLive ProbingIsOneGatedLease OrderAndDraining NoOutboundLeaked
PROPERTIES DrainingEnds ImplementsLeasePool
