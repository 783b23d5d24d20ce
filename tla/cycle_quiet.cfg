SPECIFICATION Spec
CONSTANTS
  d1 = d1
  d2 = d2
  Days = {d1, d2}
  Periods = {1}
  PeriodOf <- OnePeriod
  ClaimTypes = {"commute"}
  InitialDays <- PerhapsUndecided
  TaskIds = {1, 2}
  MaxRounds = 3
  MaxChanges = 1
  DaysChangeAnyTime = FALSE
  MaxCrashes = 1
  MaxFaults = 1
  MaxHandEdits = 1
  HandEdits = {"delete", "file", "reject"}
  MaxFlips = 0
INVARIANTS FiledWasApproved  
CHECK_DEADLOCK FALSE
