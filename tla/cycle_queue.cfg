SPECIFICATION Spec
CONSTANTS
  d1 = d1
  d2 = d2
  Days = {d1, d2}
  Periods = {1, 2}
  PeriodOf <- TwoPeriods
  ClaimTypes = {"commute", "home"}
  InitialDays <- PerhapsHome
  TaskIds = {1, 2}
  MaxRounds = 3
  MaxChanges = 1
  DaysChangeAnyTime = TRUE
  MaxCrashes = 1
  MaxFaults = 0
  MaxHandEdits = 0
  HandEdits = {"delete"}
  MaxFlips = 0
INVARIANTS DayClaimedOnce OneOpenDraftPerType
CHECK_DEADLOCK FALSE
