SPECIFICATION Spec
CONSTANTS
  Days = {d1, d2}
  Periods = {1}
  PeriodOf <- MCPeriodOf
  ClaimTypes = {"commute"}
  MaxRounds = 2
INVARIANTS TypeOK OnlyLatestRoundOpen
PROPERTIES FiledRoundIsHistory FiledDayIsHistory HumanDecisionKept
