SPECIFICATION Spec
CONSTANTS
  a = a
  b = b
  c = c
  User = {a, b, c}
  NoOne = NoOne
  Creator = a
  Founder <- TwoAdmins
  Inviters = {}
  Leavers = {c}
  Rotators = {c}
  Closers = {}
  Promoters = {}
  Converts = FALSE
  MaxGen = 1
  MaxEpoch = 1
  MaxKey = 2
  MaxReq = 1
INVARIANTS BareMarkerUnminted
