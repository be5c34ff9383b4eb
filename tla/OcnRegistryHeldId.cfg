CONSTANTS
  a1 = a1
  a2 = a2
  Account = {a1, a2}
  NoAddress = NoAddress
  Domain = {d1, d2}
  NoDomain = NoDomain
  OcpiId = {id1, id2}
  NoOcpiId = NoOcpiId
  Role = {cpo}
  PaymentStatus = {"PENDING"}
  Validator = {v1, v2}
  CredentialOwner = {a1, a2}
  Deployer = a1
  NotListed = NotListed
  MaxParties = 3
SPECIFICATION Spec
CHECK_DEADLOCK FALSE
INVARIANT
  HeldIdIsListed
