SPECIFICATION PostSpec
CONSTANTS
  a = a
  b = b
  c = c
  User = {a, b, c}
  NoOne = NoOne
  Creator = a
  Founder <- TwoAdmins
  Inviters = {}
  Leavers = {a, b, c}
  Rotators = {}
  Closers = {}
  Promoters = {a}
  Converts = TRUE
  MaxGen = 1
  MaxEpoch = 0
  MaxKey = 1
  MaxReq = 2
  Authors = {b}
  MaxPost = 1
INVARIANTS AdminRemains LeaverStillAdmitted
PROPERTIES PostNotBehindItsStart
CHECK_DEADLOCK FALSE
