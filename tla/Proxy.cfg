CONSTANTS
  Conns = {c1, c2}
SPECIFICATION ProxyFairSpec
INVARIANTS ProxyTypeOK ActiveCounted
PROPERTIES HalfCloseSurvives ImplementsServerLife ShutdownReturns TunnelForgotten
CHECK_DEADLOCK FALSE
