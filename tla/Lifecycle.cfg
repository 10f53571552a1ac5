SPECIFICATION LifecycleFairSpec
INVARIANTS LifecycleTypeOK EngineClosedLast
PROPERTY RunReturns
CHECK_DEADLOCK FALSE
