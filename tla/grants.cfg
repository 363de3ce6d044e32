SPECIFICATION Spec
CONSTANTS
  None = None
  alice = alice
  bob = bob
  carol = carol
  User = {alice, bob, carol}
  Creator = alice
  MaxDay = 3
  Period = 2
  Skew <- SlowClocks
  Astray = {bob}
  Movers = {alice, bob}
  Given <- SomeRoles
  Away = {alice}
  Namers = {alice}
  Rotators = {alice}
  MaxRow = 4
  MaxNamed = 2
INVARIANTS OnlyAdminsGrant OffersHold
PROPERTIES AcceptedVerifies VerdictsSettle
CHECK_DEADLOCK FALSE
