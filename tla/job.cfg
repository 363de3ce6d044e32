SPECIFICATION Spec
CONSTANTS
  a = a
  b = b
  c = c
  t1 = t1
  User = {a, b, c}
  NoOne = NoOne
  Creator = a
  Founder <- TwoAdmins
  Tab = {t1}
  Owner <- OneTab
  Leavers = {c}
  Changers = {c}
  Strays = {c}
  Spoiled = {c}
  MaxGen = 1
  MaxKey = 2
  MaxLost = 1
  MaxPass = 2
  Batch = 1
PROPERTIES WrapsOnlyInvited PinsKept CompletedIsTrue ApprovedIsTrue ReadmitsOnlyNeverRemoved JobEnds
CHECK_DEADLOCK FALSE
