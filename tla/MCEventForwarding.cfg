SPECIFICATION FairSpec
CONSTANTS
  completed = completed
  initialized = initialized
  lost = lost
  Event = {completed, initialized, lost}
  CmndCompleted = completed
  Initialized = initialized
  AdapterCount = 3
INVARIANTS
  NoEventLost
PROPERTIES
  EventsReachAdapters
  ImplementsDelivery
