CONSTANTS
  e1 = e1  e2 = e2  r1 = r1  r2 = r2  m1 = m1  m2 = m2  NoOwner = NoOwner
  Events <- TwoEvents
  Relays <- TwoRelays
  Members <- TwoMembers
  Refused <- NoneRefused
  RefusedLetters <- OneLetter
  Batch = 1
  RelayFaults = 1
  GroupFaults = 1
SPECIFICATION FairSpec
INVARIANTS CommittedIsSettled HandledInOrder CopiesNeedFaults
PROPERTIES OffsetNeverBack ImplementsFairDelivery
CHECK_DEADLOCK FALSE
