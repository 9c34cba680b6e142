SPECIFICATION FairSpec
CONSTANTS
  ota_0 = ota_0
  ota_1 = ota_1
  Slot = {ota_0, ota_1}
  FirstSlot = ota_0
  Threshold = 3
  StableTime = 3
  NvsReliable = TRUE
  ConfCounter = {0, 1}
  CrashBound = 4
INVARIANTS
  SafeModeOnlyAfterCrashes
  CrashLoopCaught
  RestartLeavesSafeMode
  AlwaysBootable
  ValidatedMeansValid
PROPERTIES
  StableRunClears
