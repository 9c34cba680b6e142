SPECIFICATION MonitorSpec
INVARIANTS
  HookForwards
