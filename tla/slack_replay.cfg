SPECIFICATION Spec
CONSTANTS
  d1 = d1
  t1 = t1
  t2 = t2
  Days = {d1}
  Periods = {1}
  PeriodOf <- OnePeriod
  ClaimTypes = {"commute"}
  Key <- TheKey
  Threads = {t1, t2}
  Kinds = {"approve", "reject", "correct"}
  MaxClicks = 3
  MaxCards = 2
  MaxAge = 2
  Late = 0
  Budget <- Bounds
  also = 1
  stranger = 1
  crash = 1
  drop = 1
  fault = 0
  deaf = 1
INVARIANTS TypeOK ClickActsOnce 
SYMMETRY Alike
CHECK_DEADLOCK FALSE
