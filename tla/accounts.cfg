SPECIFICATION Spec
CONSTANTS
  a = a
  b = b
  c = c
  User = {a, b, c}
  NoOne = NoOne
  Creator = a
  Founder <- TwoAdmins
  Inviters = {a, b}
  Leavers = {a}
  Rotators = {b}
  Closers = {c}
  Promoters = {a}
  Converts = TRUE
  MaxGen = 2
  MaxEpoch = 1
  MaxKey = 3
  MaxReq = 1
INVARIANT ClaimedMarkerIsCurrent
PROPERTIES NeverBackward WrapsAreCurrent PendingRowKept OnlyTheLivingJoin
CHECK_DEADLOCK FALSE
