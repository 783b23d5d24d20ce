SPECIFICATION FairSpec
CONSTANTS
  d1 = d1
  t1 = t1
  t2 = t2
  Days = {d1}
  Periods = {1}
  PeriodOf <- OnePeriod
  ClaimTypes = {"commute"}
  Key <- TheKey
  Threads = {t1, t2}
  Kinds = {"approve", "reject"}
  MaxClicks = 4
  MaxCards = 1
  MaxAge = 2
  Late = 1
  Budget <- Bounds
  also = 1
  stranger = 0
  crash = 1
  drop = 1
  fault = 1
  deaf = 0
PROPERTIES LiveSocketIsNotKilled ApprovalGetsThrough
CHECK_DEADLOCK FALSE
