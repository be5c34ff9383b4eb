CONSTANTS
  a1 = a1
  a2 = a2
  v1 = v1
  cv1 = cv1
  id1 = id1
  Account = {a1, a2}
  NoAddress = NoAddress
  Deployer = a1
  Domain = {d1}
  NoDomain = NoDomain
  OcpiId = {o1}
  NoOcpiId = NoOcpiId
  NotListed = NotListed
  MaxParties = 2
  Validator = {validator}
  PaymentStatus = {"PENDING", "PAYMENT_UP_TO_DATE", "INSUFFICIENT_FUNDS"}
  Verifier = {v1}
  Unrecognised = Unrecognised
  CertificateVerifier = {cv1}
  Oracle = {oracle}
  CredentialOwner = {a1}
  Identifier = {id1}
  Role = {"CPO", "EMSP"}
  Certificate <- Certificates
  RoleLists <- ShortRoleLists
  MaxUint8 = 2
  Manager = Manager
  Token = {t1}
  YearlyAmounts = {1}
  Unit = 1
  MaxUint = 100
  StakingPeriod = 1
  InitialBalance = 2
  MaxBlock = 2
  MaxVersion = 0
SPECIFICATION Spec
ACTION_CONSTRAINT AsDeployed
CHECK_DEADLOCK FALSE
INVARIANTS
  StoredStatusOnlyLags
PROPERTIES
  ListingNeedsCertificates
  LookupsDivergeByPaymentOnly
  ImplementsRegistry
