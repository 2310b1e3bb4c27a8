SPECIFICATION FetchSpec
CONSTANTS
  k1 = k1
  k2 = k2
  other = other
  Keys <- TwoKeys
  Other = other
  All = all
  Configurations <- Descriptor
  Shards <- TwoShards
  Columns <- OtherFirst
  Collections <- InOrder
  Begun = 6
  MaxTime = 9
  PartsPerDay = 2
  PageLimit = 3
CHECK_DEADLOCK FALSE
INVARIANTS
  SeriesIsWhole
  MeanWeighsOnce
  SharedFileIsOneSnapshot
PROPERTIES
  FetchEnds
