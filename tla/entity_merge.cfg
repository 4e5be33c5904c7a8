CONSTANTS
  k1 = k1  k2 = k2  k3 = k3  k4 = k4  s1 = s1  s2 = s2  s3 = s3
  Emails <- TwoEmails
  Sourced <- NoDomains
  Sessions <- ThreeSessions
  MaxEnts = 3
SPECIFICATION Spec
SYMMETRY Symmetry
INVARIANTS MergesPointBack
PROPERTIES IdentityOnlyMerges
CHECK_DEADLOCK FALSE
