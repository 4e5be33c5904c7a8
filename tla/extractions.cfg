CONSTANTS
  i1 = i1  i2 = i2  k1 = k1  k2 = k2  h1 = h1  h2 = h2  u1 = u1  u2 = u2
  Other = Other
  Interactions <- OneInteraction
  Names <- TwoNames
  WithDomain <- OneName
  Handlers <- TwoHandlers
  Users <- TwoUsers
  MaxProposals = 2
  MaxDeals = 3
  MaxEdits = 1
  MaxFaults = 1
SPECIFICATION Spec
SYMMETRY Symmetry
INVARIANTS AcceptedHasDeal ProposedOnce OneCompanyPerName
PROPERTIES DecisionsStand NoSecondDeal
CHECK_DEADLOCK FALSE
