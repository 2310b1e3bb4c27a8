SPECIFICATION Spec
CONSTANTS
  c1 = c1
  c2 = c2
  ons = ons
  ccee = ccee
  spot = spot
  flow = flow
  Bootstraps <- BootstrapOnly
  Onboards <- OnboardOnly
  Keys <- SmallKeys
  Values <- SmallValues
  Modules <- SmallModules
  Initial <- StartingConfiguration
  Drafts <- SmallDrafts
  Descriptors <- SmallDescriptors
  MaxProposals = 2
  MaxMerges = 2
INVARIANTS
  OnlyApprovedInEffect
  VendorsAreAnswered
PROPERTY
  ApprovedLinesStay
