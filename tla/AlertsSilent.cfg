CONSTANTS
  Sources = {s1}
  Times = {t1}
  Never = Never
  MaxEpisodes = 2
SPECIFICATION AlertsFairSpec
PROPERTY LowReportedAfterRefresh
