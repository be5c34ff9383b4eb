CONSTANTS
  a1 = a1
  a2 = a2
  Account = {a1}
  NoAddress = NoAddress
  Manager = Manager
  Token = {t1, t2}
  Deployer = a1
  YearlyAmounts = {0, 1}
  Unit = 2
  MaxUint = 100
  StakingPeriod = 1
  InitialBalance = 2
  MaxBlock = 3
  MaxVersion = 1
SPECIFICATION Spec
CHECK_DEADLOCK FALSE
INVARIANTS
  StakesBackedInTotal
PROPERTIES
  OrphanIsFrozen
