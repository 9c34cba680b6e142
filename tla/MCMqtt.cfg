SPECIFICATION Spec
CONSTANTS
  supervisor = supervisor
  mqtt_shutdown_task = mqtt_shutdown_task
  t1 = t1
  t2 = t2
  NoTask = NoTask
  Caller = {supervisor, mqtt_shutdown_task}
  GiveUp = mqtt_shutdown_task
  CommandTask = {t1, t2}
  TelemetryTask = {t1, t2}
  QueueLength = 1
  MaxRetry = 1
INVARIANTS
  NoReceiveAfterDelete
  AbortNeedsRace
CHECK_DEADLOCK FALSE
