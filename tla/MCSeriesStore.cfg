SPECIFICATION Spec
CONSTANTS
  s1 = s1
  s2 = s2
  k1 = k1
  k2 = k2
  k3 = k3
  i1 = i1
  i2 = i2
  Order <- TwoSeries
  Ingests <- TwoIngests
  Relabelled <- TheFirst
  SampleDays = 3
  MaxIngests = 2
  FirstDay = 3
  LastDay = 5
  Setups <- ManySetups
  Tolerance = 1
  GapLimit = 0
  DiscoveryPct = 50
  RefinementPct = 34
  BusinessDays <- AllButTheSecond
  BusinessKeys <- TheThirdKey
CHECK_DEADLOCK FALSE
INVARIANTS
  SplitsInOrder
  SplitIsStable
  RowDescribesFile
PROPERTIES
  GateIsTrue
