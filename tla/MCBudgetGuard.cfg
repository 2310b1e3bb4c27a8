SPECIFICATION Spec
CONSTANTS
  p1 = p1
  p2 = p2
  Processes <- TwoProcesses
  Kinds <- BothKinds
  Limit <- SmallLimits
  CallsPerUnit <- FewCalls
  LastPeriod = 1
  MayDie = TRUE
SYMMETRY Symmetry
INVARIANTS
  OvershootIsBounded
  SpendIsBounded
  BlockedMeansExhausted
  NoticesAreFew
