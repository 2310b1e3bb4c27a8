SPECIFICATION FairSpec
CONSTANTS
  p1 = p1
  p2 = p2
  f1 = f1
  Ticks <- OneTick
  Feeds <- OneFeed
  LastTs = 2
  MaxRetries = 2
  Faults <- VendorFaults
  MaxDeaths = 0
PROPERTIES
  MaterialIsStored
  TicksEnd
