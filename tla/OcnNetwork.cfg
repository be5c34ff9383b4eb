CONSTANTS
  a1 = a1
  a2 = a2
  Account = {a1, a2}
  NoAddress = NoAddress
  Domain <- Typed
  NoDomain = NoDomain
  OcpiId = {"DE ABC", "DE XYZ"}
  NoOcpiId = NoOcpiId
  Role = {"CPO"}
  PaymentStatus = {"PENDING", "PAYMENT_UP_TO_DATE"}
  Validator = {v1}
  CredentialOwner = {a1, a2}
  Deployer = a1
  NotListed = NotListed
  MaxParties = 5
  Origin <- Origins
  NotUrl = NotUrl
  TypedId <- TypedIds
  Upper <- UpperCased
  Certificates <- Files
  Founder <- FounderNode
  MaxCalls = 3
  MaxReplays = 1
  NoEntity = NoEntity
  MaxLag = 2
SPECIFICATION Spec
ACTION_CONSTRAINT Usage
CHECK_DEADLOCK FALSE
INVARIANTS
  TypeOK
  ReportsTell
  ReadsFaithful
PROPERTIES
  DomainsLeakOnlyWhenOvertaken
  EventuallyInSync
  ShowsADirectory
  
