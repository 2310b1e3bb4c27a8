SPECIFICATION Spec
CONSTANTS
  p1 = p1
  p2 = p2
  f1 = f1
  Ticks <- TwoTicks
  Feeds <- OneFeed
  LastTs = 1
  MaxRetries = 1
  Faults <- AllFaults
  MaxDeaths = 1
SYMMETRY Symmetry
INVARIANTS
  ShortlistForEveryCycle
  CyclesPerCadence
PROPERTIES
  DueUntilRun
