SPECIFICATION Spec
CONSTANTS
  ann = ann
  ben = ben
  cat = cat
  dan = dan
  i1 = i1
  i2 = i2
  s1 = s1
  s2 = s2
  User = {ann, ben, cat, dan}
  NoOne = NoOne
  Invite = {i1, i2}
  NoInvite = NoInvite
  Slot = {s1, s2}
  Founder <- Pair
  Inviter = ben
  Waiting <- One
  Cap = 3
  Attempts = 2
  Life = 0
  Wait = 0
  Makers = {ben}
  Leavers = {ben, cat}
  Rotators = {ben, cat}
  Closers = {ben, cat}
  Promoted = {ben}
  Converts = TRUE
  MaxDay = 1
  MaxKey = 1
  MaxUpsets = 2
INVARIANTS CapHolds AdmitsOnce RevokedIsVoid
PROPERTIES AcceptedStands
CHECK_DEADLOCK FALSE
SYMMETRY SlotSymmetry
