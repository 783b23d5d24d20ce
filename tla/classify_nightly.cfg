SPECIFICATION Spec
CONSTANTS
  Days = {1, 2, 3}
  Periods = {1}
  PeriodOf <- OneMonth
  ClaimTypes = {"commute", "home"}
  Events <- DeskAndLeave
  Weekend = {2}
  Holidays = {}
  Window = 1
  RequireEvents = TRUE
  MaxMissed = 1
  MaxEdits = 1
INVARIANTS TypeOK PlannedHasEvidence NoDayFallsThrough
PROPERTIES ImplementsLedger OutageKeepsDecisions OfficeNeverTurnsHome
CHECK_DEADLOCK FALSE
