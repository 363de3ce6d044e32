SPECIFICATION VaultSpec
CONSTANTS
  a = a
  b = b
  c = c
  User = {a, b, c}
  NoOne = NoOne
  Creator = a
  Founder <- TwoAdmins
  Inviters = {a}
  Leavers = {c}
  Rotators = {b}
  Closers = {}
  Promoters = {}
  Converts = TRUE
  MaxGen = 2
  MaxEpoch = 1
  MaxKey = 2
  MaxReq = 1
  Writers = {b}
  MaxDay = 2
INVARIANTS CurrentMembersReadBack PendingHandoffOpens DepartedLearnNothingNew ContentReadable
PROPERTIES RetiredPairLearnsNothingNew
CHECK_DEADLOCK FALSE
