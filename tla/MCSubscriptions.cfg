CONSTANTS
  MaxNodesPerSource = 4
  Sources = {s1, s2}
  Answers <- MCAnswers
  Times = {t1}
  Never = Never
SPECIFICATION SubscriptionsSpec
SYMMETRY Symmetry
INVARIANTS SubscriptionsTypeOK LastKnownGood PoolIsLastGood
