SPECIFICATION Spec
CONSTANTS
  Entries <- Calendar
  Mailboxes <- AnyMailbox
  First = 3
  Last = 5
  LOOKBACK_DAYS = 2
  MAX_ALL_DAY_SPAN = 3
  PAGE_LIMIT = 2
  MAX_PAGES = 2
  RequireEvents = TRUE
  Life = 5
  Slack = 2
  Timeout = 2
  Budget <- Bounds
  refused = 1
  unsaved = 1
  error = 1
  note = 1
  blind = 1
  hang = 1
INVARIANTS TokenOutlivesRequest DegradedHasReason
PROPERTY ImplementsContract
CHECK_DEADLOCK FALSE
