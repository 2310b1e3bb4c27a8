SPECIFICATION FairSpec
CONSTANTS
  Settings <- WideAndDeep
  Faults <- AllFaults
INVARIANTS
  LedgerAccountsForFinals
  OneSurvivorPerLineage
  PromotionHasEvidence
  RefinementChain
  CapsHold
  CompletedIsAccountedFor
PROPERTIES
  ImplementsEntitlement
  RunEnds
