SPECIFICATION Spec
CONSTANTS
  a = a
  b = b
  c = c
  User = {a, b, c}
  NoOne = NoOne
  Creator = a
  Founder <- TwoAdmins
  Inviters = {a}
  Leavers = {}
  Rotators = {}
  Closers = {}
  Promoters = {a}
  Converts = FALSE
  MaxGen = 2
  MaxEpoch = 0
  MaxKey = 1
  MaxReq = 2
INVARIANTS TypeOK ChainUnbroken CurrentKeyHeld EveryMemberAdmitted
PROPERTIES ChainSpec
