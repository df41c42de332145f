SPECIFICATION FairSpec
CONSTANTS
  r1 = r1
  r2 = r2
  t1 = t1
  Reminders = {r1, r2}
  TodoItems = {t1}
  Dispatchers = {daemon}
  None = None
  Period <- Periods
  ReminderOf <- Links
  Delays = {1}
  Backoff = 1
  MaxRetries = 2
  MaxLate = 1
  MaxAge = 1
  MaxFailures = 1
INVARIANTS
  NeverTooOften
  NoSilentLoss
  ClosedTodoQuiet
PROPERTIES
  ReminderPromise
  ReminderSettles
CHECK_DEADLOCK FALSE
