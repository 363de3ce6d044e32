SPECIFICATION Spec
CONSTANTS
  None = None
  User = {alice, bob}
  Kinds <- SomeKinds
  MaxCall = 3
  MaxWorker = 2
  MaxBreak = 1
INVARIANTS AnsweredForItsCaller OneHolder
PROPERTIES CallsSettle
CHECK_DEADLOCK FALSE
