CONSTANTS
  f1 = f1  s1 = s1  s2 = s2  None = None
  Flows = {f1}
  Sessions = {s1, s2}
  MaxAttempts = 2
  MaxEdits = 1
  MaxUploads = 2
  MaxImportFaults = 2
SPECIFICATION ImportFairSpec
INVARIANTS ImportInv ImportedOnce
PROPERTIES StageFollowsCrm
CHECK_DEADLOCK FALSE
