SPECIFICATION Spec
CONSTANTS
  a = a
  b = b
  r1 = r1
  r2 = r2
  Proposals <- TwoProposals
  Researchers <- TwoResearchers
  MaxCommits = 2
  MaxMerges = 3
  MayDie = TRUE
SYMMETRY Symmetry
CHECK_DEADLOCK FALSE
INVARIANTS
  ApprovedIsMerged
  MergedIsRecorded
