CONSTANTS
  e1 = e1  e2 = e2  e3 = e3  r1 = r1  r2 = r2
  Events <- ThreeEvents
  Relays <- OneRelay
  Batch = 2
  Refused <- OneRefused
  MaxFaults = 2
SPECIFICATION FairSpec
INVARIANTS PublishedIsOnLog CausalOrder
PROPERTIES CommittedGetsPublished
CHECK_DEADLOCK FALSE
