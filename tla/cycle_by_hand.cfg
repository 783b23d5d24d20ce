SPECIFICATION Spec
CONSTANTS
  d1 = d1
  d2 = d2
  Days = {d1, d2}
  Periods = {1}
  PeriodOf <- OnePeriod
  ClaimTypes = {"commute"}
  InitialDays <- AllCommute
  TaskIds = {1, 2}
  MaxRounds = 3
  MaxChanges = 0
  DaysChangeAnyTime = TRUE
  MaxCrashes = 0
  MaxFaults = 1
  MaxHandEdits = 2
  HandEdits = {"delete", "file", "edit", "reject", "create"}
  MaxFlips = 2
INVARIANTS SubmittedDayWasFiled RehearsalUndoesApproval
CHECK_DEADLOCK FALSE
