CONSTANTS
  a1 = a1
  a2 = a2
  v1 = v1
  v2 = v2
  cv1 = cv1
  cv2 = cv2
  id1 = id1
  id2 = id2
  Account = {admin}
  CredentialOwner = {a1, a2, NoAddress}
  NoAddress = NoAddress
  Deployer = admin
  Verifier = {v1, v2}
  Unrecognised = Unrecognised
  CertificateVerifier = {cv1, cv2}
  Oracle = {o1}
  Identifier = {id1, id2}
  Role = {"EMSP", "CPO"}
  Certificate <- AllCertificates
  RoleLists <- AllRoleLists
  MaxUint8 = 2
  MaxRoles = 3
SPECIFICATION Spec
CHECK_DEADLOCK FALSE
INVARIANTS
  TypeOK
  AcceptedMeansCertified
PROPERTIES
  OrphanIsFrozen
  RevocationOnlyRefuses
