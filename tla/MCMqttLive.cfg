SPECIFICATION FairSpec
CONSTANTS
  supervisor = supervisor
  mqtt_shutdown_task = mqtt_shutdown_task
  t1 = t1
  t2 = t2
  NoTask = NoTask
  Caller = {mqtt_shutdown_task}
  GiveUp = mqtt_shutdown_task
  CommandTask = {t1, t2}
  TelemetryTask = {t1}
  QueueLength = 1
  MaxRetry = 0
PROPERTIES
  StaleTasksEnd
  ConnectionServed
  ShutdownEndsUnlessBlocked
CHECK_DEADLOCK FALSE
