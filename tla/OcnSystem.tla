------------------------------ MODULE OcnSystem ------------------------------
(***************************************************************************)
(* The three contracts together, as deployed: OcnRegistry asks the         *)
(* registration validator who may be listed and the payment manager what   *)
(* has been paid, inside the transaction that lists the party.  Each of    *)
(* the other transactions belongs to one contract.                         *)
(***************************************************************************)
EXTENDS Naturals, Sequences

CONSTANTS
  Account, NoAddress, Deployer,                                  \* shared
  Domain, NoDomain, OcpiId, NoOcpiId, NotListed, MaxParties,     \* OcnRegistry
  Validator, PaymentStatus,
  Verifier, Unrecognised, CertificateVerifier, Oracle,           \* validator
  CredentialOwner, Identifier, Role, Certificate, RoleLists, MaxUint8,
  Manager, Token, YearlyAmounts, Unit, MaxUint, StakingPeriod,   \* payments
  InitialBalance, MaxBlock, MaxVersion

VARIABLES
  registryAdmins, partyRegistrationValidator,
  nodeOf, uniqueDomains, uniqueOperators, operators,
  uniqueParties, uniquePartyAddresses, partyOf, operatorOf, parties

VARIABLES
  validatorAdmins, allowedCertificateVerifiers, roleOracle, certificateVerifier,
  activeProviders

VARIABLES
  paymentAdmins, upgraders, version, fundingYearlyAmount, euroStablecoin, operatorAddress,
  stakingBlock, stakedFunds, balance, allowance, blockNumber

Registry == INSTANCE OcnRegistry WITH admins <- registryAdmins
Rules == INSTANCE PartyRegistrationValidator WITH admins <- validatorAdmins
Payments == INSTANCE OcnPaymentManager WITH admins <- paymentAdmins

ASSUME SystemAssumption ==
  /\ Registry!RegistryAssumption
  /\ Rules!ValidatorAssumption
  /\ Payments!PaymentAssumption
  /\ PaymentStatus = {"PENDING", "PAYMENT_UP_TO_DATE", "INSUFFICIENT_FUNDS"}

registryVars == <<registryAdmins, partyRegistrationValidator,
                  nodeOf, uniqueDomains, uniqueOperators, operators,
                  uniqueParties, uniquePartyAddresses, partyOf, operatorOf, parties>>
rulesVars == <<validatorAdmins, allowedCertificateVerifiers, roleOracle, certificateVerifier,
               activeProviders>>
paymentVars == <<paymentAdmins, upgraders, version, fundingYearlyAmount, euroStablecoin,
                 operatorAddress, stakingBlock, stakedFunds, balance, allowance, blockNumber>>
vars == <<registryVars, rulesVars, paymentVars>>

Init == Registry!Init /\ Rules!Init /\ Payments!Init

-----------------------------------------------------------------------------
\* Mutant: stores the payment status of the operator, not of the owner.
SetPartyWithOperatorStatus(ocpi, roles, operator) ==
  LET result == Rules!ValidateRegistration(roles) IN
  /\ result.accepted
  /\ Registry!SetParty(ocpi, {roles[i].role : i \in DOMAIN roles}, operator,
                       result.credentialOwner, Payments!GetPaymentStatus(operator))
  /\ UNCHANGED <<rulesVars, paymentVars>>

\* setParty with the calls it makes: the validator names the owner and the
\* roles, and the payment manager's answer of this moment is stored.
SetParty(ocpi, roles, operator) ==
  LET result == Rules!ValidateRegistration(roles) IN
  /\ result.accepted
  /\ Registry!SetParty(ocpi, {roles[i].role : i \in DOMAIN roles}, operator,
                       result.credentialOwner,
                       Payments!GetPaymentStatus(result.credentialOwner))
  /\ UNCHANGED <<rulesVars, paymentVars>>

RegistryStep ==
  /\ \/ \E sender \in Account : Registry!AdminStep(sender)
     \/ Registry!NodeStep
     \/ \E a \in Account : Registry!DeleteParty(a)
  /\ UNCHANGED <<rulesVars, paymentVars>>

RulesStep == Rules!Next /\ UNCHANGED <<registryVars, paymentVars>>

PaymentsStep == Payments!Next /\ UNCHANGED <<registryVars, rulesVars>>

Next ==
  \/ \E id \in OcpiId, roles \in RoleLists, operator \in Account : SetParty(id, roles, operator)
  \/ RegistryStep
  \/ RulesStep
  \/ PaymentsStep

Spec == Init /\ [][Next]_vars

-----------------------------------------------------------------------------
(* Views that read two contracts *)

\* getPartyDetailsByAddress answers with the status stored at registration ...
PaymentStatusByAddress(party) == partyOf[party].paymentStatus

\* ... and getPartyDetailsByOcpi with the one of the payment manager now.
PaymentStatusByOcpi(ocpi) == Payments!GetPaymentStatus(uniqueParties[ocpi])

LookupsAgree(party) == PaymentStatusByAddress(party) = PaymentStatusByOcpi(partyOf[party].ocpi)

-----------------------------------------------------------------------------
(* Properties *)

\* The status stored with a listing may be out of date, but only by payments and
\* withdrawals made since: a party stored as having paid is never one the
\* payment manager knows no payment of, by either lookup.
StoredStatusOnlyLags ==
  \A p \in Registry!ListedParties :
    PaymentStatusByAddress(p) # "PENDING" =>
      /\ Payments!GetPaymentStatus(p) # "PENDING"
      /\ PaymentStatusByOcpi(partyOf[p].ocpi) # "PENDING"

\* A party enters the directory, or changes its roles there, only with
\* certificates that show, by the validator's rules of that moment, exactly
\* these roles for exactly this address; a later change of the rules delists
\* nobody.
ListingNeedsCertificates ==
  [][\A p \in Account :
       (/\ operatorOf'[p] # NoAddress
        /\ <<partyOf[p].roles, operatorOf[p]>>' # <<partyOf[p].roles, operatorOf[p]>>) =>
         \E roles \in RoleLists :
           /\ Rules!Certified(roles, p)
           /\ partyOf'[p].roles = {roles[i].role : i \in DOMAIN roles}]_vars

\* Clients that look a party up by address and by OCPI credentials get different
\* payment statuses only once a stake of that party was paid or withdrawn after
\* its registration: no registration, deletion or id change of anybody does it.
\* (A payment of a yearly amount of 0 shows in the staking block alone.)
LookupsDivergeByPaymentOnly ==
  [][\A p \in Account :
       p \in Registry!ListedParties' /\ ~LookupsAgree(p)' =>
         \/ p \in Registry!ListedParties /\ ~LookupsAgree(p)
         \/ <<stakedFunds[p], stakingBlock[p]>>' # <<stakedFunds[p], stakingBlock[p]>>]_vars

\* The registry inside the system is the one of OcnRegistry, so what is proved
\* of it holds here.
ImplementsRegistry == Registry!Spec
=============================================================================
