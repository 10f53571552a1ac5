CONSTANTS
  Sources = {s1}
  Times = {t1, t2}
  Never = Never
  MaxEpisodes = 2
SPECIFICATION AlertsFairSpec
INVARIANTS AlertsTypeOK AlertsPerEpisode LowAlertsPerPeriod
PROPERTIES FailureReported LowReported
