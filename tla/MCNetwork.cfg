SPECIFICATION Spec
CONSTANTS
  RetryTasks = 1
  ApSeconds = 1
  EventMax = 1
  HandlerMax = 2
  InetConfig <- MCInetConfig
INVARIANTS
  NetTypesOK
  AbortNeedsRace
  
  
  AllOrNothing
  ServicesFollowLink
  MonitorSafe
  RadioFollowsAdapter
