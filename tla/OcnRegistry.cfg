CONSTANTS
  a1 = a1
  a2 = a2
  Account = {a1, a2}
  NoAddress = NoAddress
  Domain = {d1, d2}
  NoDomain = NoDomain
  OcpiId = {id1, id2}
  NoOcpiId = NoOcpiId
  Role = {cpo, emsp}
  PaymentStatus = {"PENDING"}
  Validator = {v1, v2}
  CredentialOwner = {a1, a2}
  Deployer = a1
  NotListed = NotListed
  MaxParties = 3
SPECIFICATION Spec
SYMMETRY Interchangeable
CHECK_DEADLOCK FALSE
INVARIANTS
  TypeOK
  DomainsReserved
  OperatorsListedOnce
  PartiesIndexed
  ListingConsistent
  FoundUnderOwnId
  ListedOncePerQuery
PROPERTIES
  IdReleasedByDelistingOnly
  OneListingPerTransaction
  PositionsStable
  ImplementsDirectory
