SPECIFICATION WifiSpec
CONSTANTS
  RetryTasks = 2
  ApSeconds = 1
  EventMax = 1
INVARIANTS
  StationRetried
