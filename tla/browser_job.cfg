SPECIFICATION Spec
CONSTANTS
  d1 = d1
  d2 = d2
  Await = 2
  STALL_SECONDS = 3
  Deadline = 12
  MaxLag = 1
  CanStall = TRUE
  Weeks = {0, 1, 2}
  ThisWeek = 1
  Events <- SomeEvents
  WeekOf <- TheWeekOf
  max_steps = 2
  GridLags = FALSE
  Lines = {d1, d2}
  DraftGrids <- SomeDraftGrids
  MainGrids <- SomeMainGrids
  MAX_PAGES = 4
  PAGER_POLLS = 3
  FormDays = {d1, d2}
  MaxTrip = 5
  Attempts = 2
  allow_login = TRUE
INVARIANTS SubmitIsForThisPane RejectedPasswordEndsSignIn   
PROPERTY OwaImplementsContract
CHECK_DEADLOCK FALSE
