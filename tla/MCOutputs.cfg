SPECIFICATION Spec
CONSTANTS
  ListA = ListA
  ListB = ListB
  SwitchList = {ListA, ListB}
  SwitchCount <- MCSwitchCount
  NoSwitchList = NoSwitchList
  SwitchNvsMayFail = TRUE
  LightList <- MCLightList
  LightMax = 1
  LightChannel = 7
  Level = {0}
  Mix = {0}
  Tint = {1}
  DefaultTint = 1
  NoLightList = NoLightList
  LightNvsMayFail = TRUE
  LedId = {1}
  Brightness = {0, 1, 2}
  LedNvsMayFail = TRUE
  CoreTele <- MCCoreTele
  TeleGroup <- MCTeleGroup
  MdnsTele = "mdns"
  TeleMax = 3
  NoTele = NoTele
INVARIANTS
  TypesOK
  SwitchesComeBack
  LitWhenOn
  CleanMeansSaved
  LedsKept
  EffectsEnd
PROPERTIES
  TelemetryComplete
