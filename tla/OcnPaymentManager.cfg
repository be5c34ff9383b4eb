CONSTANTS
  a1 = a1
  a2 = a2
  Account = {a1, a2}
  NoAddress = NoAddress
  Manager = Manager
  Token = {t1}
  Deployer = a1
  YearlyAmounts = {1, 2}
  Unit = 2
  MaxUint = 100
  StakingPeriod = 2
  InitialBalance = 4
  MaxBlock = 4
  MaxVersion = 1
SPECIFICATION Spec
ACTION_CONSTRAINT RolesAsDeployed
CHECK_DEADLOCK FALSE
INVARIANTS
  TypeOK
  StakesDated
  StakesBackedByStablecoin
PROPERTIES
  StakeUntouchedUntilMature
  TokensLeaveAsMatureStakes
  PaidIsNeverPending
