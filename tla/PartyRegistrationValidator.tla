---------------------- MODULE PartyRegistrationValidator ----------------------
(***************************************************************************)
(* The PartyRegistrationValidator contract: which certificates let a party *)
(* register, by whom they must be signed and which providers are active.   *)
(*                                                                         *)
(* Two contracts it calls are external: the certificate verifier, which    *)
(* recovers the signer of a certificate, and the provider oracles.  A      *)
(* certificate is a record of what they read from it:                      *)
(*   signedFor   the verifier contract in whose EIP-712 domain it is signed*)
(*   kind        the struct type signed: "EMP", "CPO" or "OTHER"           *)
(*   signer, identifier, owner                                             *)
(***************************************************************************)
EXTENDS Naturals, SequencesExt, AccessControl

CONSTANTS
  Account,        \* addresses that can administer, other than 0
  NoAddress,      \* address(0)
  Deployer,       \* who deploys the contract
  Verifier,       \* addresses that sign certificates
  Unrecognised,   \* what a signature over something else recovers to
  CertificateVerifier,  \* deployed certificate verifier contracts
  Oracle,         \* deployed provider oracles
  CredentialOwner,      \* addresses certificates name as owner, 0 if they do
  Identifier,     \* provider identifiers
  Role,           \* enum Role
  Certificate,    \* the certificates in circulation
  RoleLists,      \* the lists of role details submitted
  MaxUint8        \* 255, the last value of the loop's uint8 index

Kinds == {"EMP", "CPO", "OTHER"}

ASSUME ValidatorAssumption ==
  /\ NoAddress \notin Account \union Verifier \union Oracle \union CertificateVerifier
  /\ Unrecognised \notin Verifier
  /\ Deployer \in Account
  /\ Certificate \subseteq [signedFor : CertificateVerifier, kind : Kinds, signer : Verifier,
                            identifier : Identifier, owner : CredentialOwner]
  /\ RoleLists \subseteq Seq([role : Role, certificate : Certificate])
  /\ MaxUint8 \in Nat

VARIABLES
  admins,                       \* members of DEFAULT_ADMIN_ROLE
  allowedCertificateVerifiers,
  roleOracle,                   \* role -> its oracle, or address 0
  certificateVerifier,
  activeProviders               \* oracle -> identifiers it answers for

vars == <<admins, allowedCertificateVerifiers, roleOracle, certificateVerifier, activeProviders>>

Init ==
  /\ admins = {Deployer}
  /\ allowedCertificateVerifiers = {}
  /\ roleOracle = [r \in Role |-> NoAddress]
  /\ certificateVerifier \in CertificateVerifier
  /\ activeProviders = [o \in Oracle |-> {}]

-----------------------------------------------------------------------------
(* Validation *)

KindOf(role) == CASE role = "EMSP" -> "EMP" [] role = "CPO" -> "CPO" [] OTHER -> "OTHER"

\* verifyEMP, verifyCPO, verifyOther: the signer, if the certificate is of that
\* kind and signed for this verifier contract; else some other address, or a
\* revert, which the caller treats alike.
Recovered(role, certificate) ==
  IF certificate.kind = KindOf(role) /\ certificate.signedFor = certificateVerifier
  THEN certificate.signer ELSE Unrecognised

\* Mutant: any signer will do.
SignedByAnyone(roleDetails) ==
  Recovered(roleDetails.role, roleDetails.certificate) # Unrecognised

VerifyCertificate(roleDetails) ==
  Recovered(roleDetails.role, roleDetails.certificate) \in allowedCertificateVerifiers

\* Mutant: an oracle that lists no provider is taken for none.
EmptyOracleAccepts(roleDetails) ==
  LET oracle == roleOracle[roleDetails.role] IN
  \/ oracle = NoAddress
  \/ activeProviders[oracle] = {}
  \/ roleDetails.certificate.identifier \in activeProviders[oracle]

\* getProvider reverts on an identifier the oracle does not know.
OracleAccepts(roleDetails) ==
  LET oracle == roleOracle[roleDetails.role] IN
  oracle = NoAddress \/ roleDetails.certificate.identifier \in activeProviders[oracle]

\* Mutant: the owner of the last certificate counts.
ValidateRoleOfLastOwner(result, roleDetails) ==
  [credentialOwner |-> roleDetails.certificate.owner,
   accepted |-> result.accepted /\ VerifyCertificate(roleDetails) /\ OracleAccepts(roleDetails)]

\* Mutant: the owner is checked and never returned.
ValidateRoleOfNoOwner(result, roleDetails) ==
  [result EXCEPT !.accepted = @ /\ VerifyCertificate(roleDetails) /\ OracleAccepts(roleDetails)]

\* One pass of the loop; address 0 stands for an owner not read yet.
ValidateRole(result, roleDetails) ==
  LET owner == roleDetails.certificate.owner
      credentialOwner == IF result.credentialOwner = NoAddress THEN owner
                         ELSE result.credentialOwner
  IN [credentialOwner |-> credentialOwner,
      accepted |-> /\ result.accepted
                   /\ VerifyCertificate(roleDetails)
                   /\ credentialOwner = owner
                   /\ OracleAccepts(roleDetails)]

\* validateRegistration(roles): not accepted where the contract reverts, which
\* incrementing the index past MaxUint8 does too.
ValidateRegistration(roles) ==
  LET result == FoldLeft(ValidateRole, [credentialOwner |-> NoAddress, accepted |-> TRUE], roles)
  IN [result EXCEPT !.accepted = @ /\ Len(roles) <= MaxUint8]

-----------------------------------------------------------------------------
(* Administration *)

TransferOwnership(sender, newOwner) ==
  /\ sender \in admins
  /\ admins' = Transferred(admins, sender, newOwner)
  /\ UNCHANGED <<allowedCertificateVerifiers, roleOracle, certificateVerifier, activeProviders>>

ReassignAdmin(sender, account) ==
  /\ admins' \in Reassigned(admins, sender, account)
  /\ UNCHANGED <<allowedCertificateVerifiers, roleOracle, certificateVerifier, activeProviders>>

SetCertificateVerifier(sender, verifier) ==
  /\ sender \in admins
  /\ verifier # NoAddress
  /\ certificateVerifier' = verifier
  /\ UNCHANGED <<admins, allowedCertificateVerifiers, roleOracle, activeProviders>>

\* Mutant: without the check of the address.
SetAnyVerifier(sender, verifier) ==
  /\ sender \in admins
  /\ allowedCertificateVerifiers' = allowedCertificateVerifiers \union {verifier}
  /\ UNCHANGED <<admins, roleOracle, certificateVerifier, activeProviders>>

SetVerifier(sender, verifier) ==
  /\ sender \in admins
  /\ verifier # NoAddress
  /\ verifier \notin allowedCertificateVerifiers
  /\ allowedCertificateVerifiers' = allowedCertificateVerifiers \union {verifier}
  /\ UNCHANGED <<admins, roleOracle, certificateVerifier, activeProviders>>

\* Mutant: without onlyOwner.
RemoveVerifierByAnyone(sender, verifier) ==
  /\ verifier \in allowedCertificateVerifiers
  /\ allowedCertificateVerifiers' = allowedCertificateVerifiers \ {verifier}
  /\ UNCHANGED <<admins, roleOracle, certificateVerifier, activeProviders>>

RemoveVerifier(sender, verifier) ==
  /\ sender \in admins
  /\ verifier # NoAddress
  /\ verifier \in allowedCertificateVerifiers
  /\ allowedCertificateVerifiers' = allowedCertificateVerifiers \ {verifier}
  /\ UNCHANGED <<admins, roleOracle, certificateVerifier, activeProviders>>

SetProviderOracle(sender, role, oracle) ==
  /\ sender \in admins
  /\ roleOracle' = [roleOracle EXCEPT ![role] = oracle]
  /\ UNCHANGED <<admins, allowedCertificateVerifiers, certificateVerifier, activeProviders>>

\* An oracle's own operator adds or withdraws a provider.
ProviderChanges(oracle, identifiers) ==
  /\ activeProviders' = [activeProviders EXCEPT ![oracle] = identifiers]
  /\ UNCHANGED <<admins, allowedCertificateVerifiers, roleOracle, certificateVerifier>>

AdminStep(sender) ==
  \/ \E a \in Account \union {NoAddress} : TransferOwnership(sender, a)
  \/ \E a \in Account \union {NoAddress} : ReassignAdmin(sender, a)
  \/ \E v \in CertificateVerifier \union {NoAddress} : SetCertificateVerifier(sender, v)
  \/ \E v \in Verifier \union {NoAddress} : SetVerifier(sender, v)
  \/ \E v \in Verifier \union {NoAddress} : RemoveVerifier(sender, v)
  \/ \E r \in Role, o \in Oracle \union {NoAddress} : SetProviderOracle(sender, r, o)

Next ==
  \/ \E sender \in Account : AdminStep(sender)
  \/ \E o \in Oracle, ids \in SUBSET Identifier : ProviderChanges(o, ids)

Spec == Init /\ [][Next]_vars

-----------------------------------------------------------------------------
(* Properties *)

TypeOK ==
  /\ admins \subseteq Account \union {NoAddress}
  /\ allowedCertificateVerifiers \subseteq Verifier
  /\ roleOracle \in [Role -> Oracle \union {NoAddress}]
  /\ certificateVerifier \in CertificateVerifier
  /\ activeProviders \in [Oracle -> SUBSET Identifier]

\* What the roles of a party are asked to show, with no loop: each certificate
\* is of the role's kind and signed, for the verifier contract in use, by an
\* allowed verifier, and its provider is active; and all have the one owner the
\* party is then listed under.
Certified(roles, owner) ==
  \A i \in DOMAIN roles :
    LET c == roles[i].certificate
        oracle == roleOracle[roles[i].role]
    IN
    /\ c.kind = KindOf(roles[i].role)
    /\ c.signedFor = certificateVerifier
    /\ c.signer \in allowedCertificateVerifiers
    /\ c.owner = owner
    /\ oracle # NoAddress => c.identifier \in activeProviders[oracle]

\* Certificates of real owners: none of the roles' certificates names address 0.
RealOwners(roles) == \A i \in DOMAIN roles : roles[i].certificate.owner # NoAddress

\* The loop accepts what Certified accepts, for the same owner and in any order
\* of the roles, as long as its uint8 index does not overflow.
AcceptedMeansCertified ==
  \A roles \in RoleLists :
    LET result == ValidateRegistration(roles) IN
    RealOwners(roles) /\ roles # << >> =>
      /\ result.accepted <=> /\ \E owner \in CredentialOwner : Certified(roles, owner)
                             /\ Len(roles) <= MaxUint8
      /\ result.accepted => Certified(roles, result.credentialOwner)

\* Removing a verifier or a provider never lets a list of roles in that was
\* refused before.
RevocationOnlyRefuses ==
  [][(/\ allowedCertificateVerifiers' \subseteq allowedCertificateVerifiers
      /\ \A o \in Oracle : activeProviders'[o] \subseteq activeProviders[o]
      /\ UNCHANGED <<roleOracle, certificateVerifier>>) =>
        \A roles \in RoleLists :
          ValidateRegistration(roles)'.accepted => ValidateRegistration(roles).accepted]_vars

\* Without an admin the rules of registration can never change again; only the
\* oracles' own answers do.
OrphanIsFrozen ==
  [][admins = {} =>
       UNCHANGED <<admins, allowedCertificateVerifiers, roleOracle, certificateVerifier>>]_vars

\* "Certificates have different owners": a list is accepted only if its
\* certificates all have the owner returned.
OwnersAgree ==
  \A roles \in RoleLists :
    LET result == ValidateRegistration(roles) IN
    result.accepted =>
      \A i \in DOMAIN roles : roles[i].certificate.owner = result.credentialOwner
=============================================================================
