CONSTANTS
  a1 = a1
  a2 = a2
  Account = {a1, a2}
  NoAddress = NoAddress
  Manager = Manager
  Token = {t1}
  Deployer = a1
  YearlyAmounts = {0}
  Unit = 2
  MaxUint = 100
  StakingPeriod = 1
  InitialBalance = 0
  MaxBlock = 2
  MaxVersion = 1
SPECIFICATION Spec
CHECK_DEADLOCK FALSE
PROPERTY
  OwnershipLeavesNothingBehind
