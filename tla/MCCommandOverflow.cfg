SPECIFICATION Spec
CONSTANTS
  led = led
  indicator = indicator
  adapter = adapter
  restart = restart
  c1 = c1
  c2 = c2
  c3 = c3
  mqtt = mqtt
  http = http
  NoCommand = NoCommand
  Adapter = {led, indicator}
  Client = {mqtt, http}
  CoreCommands <- MCCoreCommands
  AdapterCmd = adapter
  RestartCmds = {restart}
  Group <- MCGroup
  BootOrder <- MCBootOrder
  MaxCommands = 4
  QueueLength = 1
INVARIANTS
  CoreInv
  NoOrphanCommands
SYMMETRY MCSymmetry
