CONSTANTS
  k1 = k1  k2 = k2  k3 = k3  k4 = k4  s1 = s1  s2 = s2  s3 = s3
  Emails <- FourEmails
  Sourced <- OneDomain
  Sessions <- OneSession
  MaxEnts = 4
SPECIFICATION Spec
INVARIANTS  PendingIsDecidable OneEntityPerEmail
CHECK_DEADLOCK FALSE
