CONSTANTS
  inbox = inbox  all = all  a1 = a1  a2 = a2  NoAttempt = NoAttempt
  MaxItems = 2
  PageSize = 1
  Scopes <- TwoScopes
  Matches <- Labels
  Attempts <- TwoAttempts
  Ops <- AllOps
  MaxOps = 2
  MaxSyncFaults = 1
SPECIFICATION SyncFairSpec
INVARIANTS NothingSkipped OneEventPerItem
PROPERTIES ItemsGetStored
CHECK_DEADLOCK FALSE
