SPECIFICATION LivelyClientSpec
CONSTANTS
  supervisor = supervisor
  ap_timeout = ap_timeout
  Caller = {supervisor, ap_timeout}
  Supervisor = supervisor
INVARIANTS
  HandleMeansTask
  OnlyWholeImageSelected
  StoppedMeansStopped
PROPERTIES
  StartedServes
  StopEnds
