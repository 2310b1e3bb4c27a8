SPECIFICATION ScreeningSpec
CONSTANTS
  Instruments <- TwoInstruments
  Levels <- TwoLevels
  Hypotheses <- FourTheses
  MaxDays = 5
  MinActive = 2
  BlockSize = 2
  PValues <- SomePValues
  One = 12
  Alpha = 6
  Methods <- BothMethods
CHECK_DEADLOCK FALSE
INVARIANTS
  NoLookahead
  RoundTrips
  FamilyControl
