CONSTANTS
  ann = ann  bob = bob  x = x  y = y  z = z  w1 = w1  w2 = w2  Daily = Daily
  Users = {ann, bob}
  Voters = {x, y, z}
  Voted = {x}
  Workers = {w1, w2}
  MinLabels = 2
  MaxOps = 2
  MaxFaults = 1
SPECIFICATION FairSpec
INVARIANTS Inv
PROPERTIES FeedSettles ModelSettles FeedUsesModel
CHECK_DEADLOCK FALSE
