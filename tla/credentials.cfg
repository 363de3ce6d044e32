SPECIFICATION Spec
CONSTANTS
  None = None
  User = {1}
  laptop = laptop
  phone = phone
  Tab <- TwoTabs
  Uses <- Divided
  Password = {first, second}
  MaxMinted = 4
  MaxLosses = 1
  MaxRounds = 2
  Throttles = FALSE
INVARIANTS  CodeNotLost 
PROPERTIES AttemptsEnd
CHECK_DEADLOCK FALSE
