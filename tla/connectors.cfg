CONSTANTS
  a1 = a1  a2 = a2  c1 = c1  c2 = c2
  Providers <- AllProviders
  Folders <- OutlookFolders
  MaxChanges <- MostChanges
  Mailbox <- Mailboxes
  Skipped <- SomeSkipped
  EventDay <- EventDays
  Ahead = 1
  Calls = {c1, c2}
  CallDay <- CallDays
  Backfill = 4
  Window = 2
  Overlap <- Overlaps
  FirstDay = 5
  LastDay <- LastDays
  PageSize = 1
  Attempts = {a1, a2}
  MaxFaults = 2
SPECIFICATION FairSpec
INVARIANTS Inv
PROPERTIES EverythingGetsStored RoundsEnd
