--------------------------- MODULE OcnSystemProofs ---------------------------
(***************************************************************************)
(* Theorems about the three contracts together.  What is proved of each of *)
(* them alone holds in the system, as each of its steps is a step or a     *)
(* stutter of each contract; the theorems below relate their states.       *)
(***************************************************************************)
EXTENDS OcnSystem, TLAPS

Contract == INSTANCE OcnRegistryProofs WITH admins <- registryAdmins
Certifier == INSTANCE PartyRegistrationValidatorProofs WITH admins <- validatorAdmins
Payer == INSTANCE OcnPaymentManagerProofs WITH admins <- paymentAdmins

-----------------------------------------------------------------------------
(* The contracts of OcnSystem are the ones the theorems are about *)

LEMMA SameRegistry ==
  Registry!Init = Contract!Init /\ Registry!Next = Contract!Next /\ Registry!vars = Contract!vars
<1>1. Registry!Init = Contract!Init
  BY DEF Registry!Init, Contract!Init, Registry!NoDetails, Contract!NoDetails,
         Registry!Address, Contract!Address
<1>2. Registry!vars = Contract!vars
  BY DEF Registry!vars, Registry!nodeVars, Registry!partyVars, Registry!adminVars,
         Contract!vars, Contract!nodeVars, Contract!partyVars, Contract!adminVars
<1>3. Registry!Next = Contract!Next
  BY DEF
    Registry!Next, Registry!AdminStep, Registry!NodeStep, Registry!PartyStep, Registry!Address,
    Registry!NoDetails, Registry!TransferOwnership, Registry!ReassignAdmin, Registry!Transferred,
    Registry!Reassigned, Registry!Granted, Registry!Revoked,
    Registry!SetPartyRegistrationValidator, Registry!AdminDeleteOperator,
    Registry!AdminDeleteParty, Registry!SetNode, Registry!SetNodeRaw, Registry!SetNodeFor,
    Registry!DomainFree, Registry!OperatorsWith, Registry!DeleteNode, Registry!DeleteNodeRaw,
    Registry!DeleteNodeOf, Registry!SetParty, Registry!IdFree, Registry!HasNode, Registry!Known,
    Registry!PartyIndex, Registry!PartiesWith, Registry!DeleteParty, Registry!DeletePartyOf,
    Registry!PartiesWithout, Registry!nodeVars, Registry!partyVars, Registry!adminVars,
    Contract!Next, Contract!AdminStep, Contract!NodeStep, Contract!PartyStep, Contract!Address,
    Contract!NoDetails, Contract!TransferOwnership, Contract!ReassignAdmin, Contract!Transferred,
    Contract!Reassigned, Contract!Granted, Contract!Revoked,
    Contract!SetPartyRegistrationValidator, Contract!AdminDeleteOperator,
    Contract!AdminDeleteParty, Contract!SetNode, Contract!SetNodeRaw, Contract!SetNodeFor,
    Contract!DomainFree, Contract!OperatorsWith, Contract!DeleteNode, Contract!DeleteNodeRaw,
    Contract!DeleteNodeOf, Contract!SetParty, Contract!IdFree, Contract!HasNode, Contract!Known,
    Contract!PartyIndex, Contract!PartiesWith, Contract!DeleteParty, Contract!DeletePartyOf,
    Contract!PartiesWithout, Contract!nodeVars, Contract!partyVars, Contract!adminVars
<1> QED BY <1>1, <1>2, <1>3
LEMMA SameRules ==
  Rules!Init = Certifier!Init /\ Rules!Next = Certifier!Next /\ Rules!vars = Certifier!vars
BY DEF
    Rules!Init, Rules!Next, Rules!vars, Rules!AdminStep, Rules!TransferOwnership,
    Rules!ReassignAdmin, Rules!Transferred, Rules!Reassigned, Rules!Granted, Rules!Revoked,
    Rules!SetCertificateVerifier, Rules!SetVerifier, Rules!RemoveVerifier,
    Rules!SetProviderOracle, Rules!ProviderChanges, Certifier!Init, Certifier!Next,
    Certifier!vars, Certifier!AdminStep, Certifier!TransferOwnership, Certifier!ReassignAdmin,
    Certifier!Transferred, Certifier!Reassigned, Certifier!Granted, Certifier!Revoked,
    Certifier!SetCertificateVerifier, Certifier!SetVerifier, Certifier!RemoveVerifier,
    Certifier!SetProviderOracle, Certifier!ProviderChanges

LEMMA SamePayments ==
  Payments!Init = Payer!Init /\ Payments!Next = Payer!Next /\ Payments!vars = Payer!vars
<1>1. Payments!Init = Payer!Init
  BY DEF
    Payments!Init, Payments!Address, Payments!Holder, Payer!Init, Payer!Address, Payer!Holder
<1>2. Payments!vars = Payer!vars
  BY DEF
    Payments!vars, Payments!roleVars, Payments!settingVars, Payments!stakeVars,
    Payments!tokenVars, Payer!vars, Payer!roleVars, Payer!settingVars, Payer!stakeVars,
    Payer!tokenVars
<1>3. Payments!Next = Payer!Next
  BY DEF
    Payments!Next, Payments!TokenStep, Payments!StakeStep, Payments!AdminStep, Payments!Address,
    Payments!Holder, Payments!Moved, Payments!Approve, Payments!Transfer, Payments!Mine,
    Payments!MayPay, Payments!Dated, Payments!Pay, Payments!Mature, Payments!AmountToWithdraw,
    Payments!StakeCleared, Payments!WithdrawToRegistryOperator, Payments!SetOperator,
    Payments!SetFundingYearlyAmount, Payments!SetStablecoinAddress, Payments!TransferOwnership,
    Payments!ReassignRole, Payments!Transferred, Payments!Reassigned, Payments!Granted,
    Payments!Revoked, Payments!Upgrade, Payments!roleVars, Payments!settingVars,
    Payments!stakeVars, Payments!tokenVars, Payer!Next, Payer!TokenStep, Payer!StakeStep,
    Payer!AdminStep, Payer!Address, Payer!Holder, Payer!Moved, Payer!Approve, Payer!Transfer,
    Payer!Mine, Payer!MayPay, Payer!Dated, Payer!Pay, Payer!Mature, Payer!AmountToWithdraw,
    Payer!StakeCleared, Payer!WithdrawToRegistryOperator, Payer!SetOperator,
    Payer!SetFundingYearlyAmount, Payer!SetStablecoinAddress, Payer!TransferOwnership,
    Payer!ReassignRole, Payer!Transferred, Payer!Reassigned, Payer!Granted, Payer!Revoked,
    Payer!Upgrade, Payer!roleVars, Payer!settingVars, Payer!stakeVars, Payer!tokenVars
<1> QED BY <1>1, <1>2, <1>3

LEMMA SameAnswers ==
  /\ \A roles : Rules!ValidateRegistration(roles) = Certifier!ValidateRegistration(roles)
  /\ \A roles, owner : Rules!Certified(roles, owner) = Certifier!Certified(roles, owner)
  /\ \A p : Payments!GetPaymentStatus(p) = Payer!GetPaymentStatus(p)
<1>1. \A roles : Rules!ValidateRegistration(roles) = Certifier!ValidateRegistration(roles)
  BY DEF
    Rules!ValidateRegistration, Rules!ValidateRole, Rules!VerifyCertificate,
    Rules!OracleAccepts, Rules!Recovered, Rules!KindOf, Rules!FoldLeft, Rules!MapThenFoldSet,
    Rules!Max, Certifier!ValidateRegistration, Certifier!ValidateRole,
    Certifier!VerifyCertificate, Certifier!OracleAccepts, Certifier!Recovered, Certifier!KindOf,
    Certifier!FoldLeft, Certifier!MapThenFoldSet, Certifier!Max
<1>2. \A roles, owner : Rules!Certified(roles, owner) = Certifier!Certified(roles, owner)
  BY DEF Rules!Certified, Certifier!Certified, Rules!KindOf, Certifier!KindOf
<1>3. \A p : Payments!GetPaymentStatus(p) = Payer!GetPaymentStatus(p)
  BY DEF Payments!GetPaymentStatus, Payer!GetPaymentStatus
<1> QED BY <1>1, <1>2, <1>3
LEMMA Assumptions ==
  ASSUME SystemAssumption
  PROVE  Contract!RegistryAssumption /\ Certifier!ValidatorAssumption /\ Payer!PaymentAssumption
<1>1. Contract!RegistryAssumption
  BY DEF SystemAssumption, Registry!RegistryAssumption, Registry!Address,
         Contract!RegistryAssumption, Contract!Address
<1>2. Certifier!ValidatorAssumption
  BY DEF SystemAssumption, Rules!ValidatorAssumption, Rules!Kinds,
         Certifier!ValidatorAssumption, Certifier!Kinds
<1>3. Payer!PaymentAssumption
  BY DEF SystemAssumption, Payments!PaymentAssumption, Payments!Address,
         Payments!IsFiniteSet, Payer!PaymentAssumption, Payer!Address, Payer!IsFiniteSet
<1> QED BY <1>1, <1>2, <1>3

-----------------------------------------------------------------------------
(* Each step of the system is a step or a stutter of each contract *)

LEMMA RegistrationIsRegistryStep ==
  ASSUME SystemAssumption, NEW id \in OcpiId, NEW roles \in RoleLists, NEW operator \in Account,
         SetParty(id, roles, operator)
  PROVE  Contract!Next
<1> DEFINE owner == Rules!ValidateRegistration(roles).credentialOwner
           listed == {roles[i].role : i \in DOMAIN roles}
           status == Payments!GetPaymentStatus(owner)
<1>1. Registry!SetParty(id, listed, operator, owner, status)
  BY DEF SetParty
<1>2. listed # {}
  BY <1>1 DEF Registry!SetParty
<1>3. roles # << >>
  BY <1>2
<1>4. owner \in CredentialOwner
  BY <1>3, Assumptions, SameAnswers, Certifier!OwnerIsNamed
<1>5. listed \in SUBSET Role
  <2> DEFINE RoleDetails == [role : Role, certificate : Certificate]
  <2>1. roles \in Seq(RoleDetails)
    BY Assumptions DEF Certifier!ValidatorAssumption
  <2>2. \A i \in DOMAIN roles : roles[i] \in RoleDetails
    <3> HIDE DEF RoleDetails
    <3> QED BY <2>1
  <2> QED BY <2>2
<1>6. status \in PaymentStatus
  BY DEF Payments!GetPaymentStatus, SystemAssumption
<1> HIDE DEF owner, listed, status
<1>7. Registry!PartyStep
  BY <1>1, <1>4, <1>5, <1>6 DEF Registry!PartyStep, Registry!Address
<1> QED BY <1>7, SameRegistry DEF Registry!Next

LEMMA RegistrySteps ==
  ASSUME SystemAssumption, [Next]_vars PROVE [Contract!Next]_(Contract!vars)
<1>1. ASSUME RegistryStep PROVE Contract!Next
  BY <1>1, SameRegistry DEF RegistryStep, Registry!Next, Registry!PartyStep
<1>2. ASSUME UNCHANGED registryVars PROVE UNCHANGED Contract!vars
  BY <1>2 DEF registryVars, Contract!vars, Contract!nodeVars, Contract!partyVars, Contract!adminVars
<1> QED BY <1>1, <1>2, RegistrationIsRegistryStep DEF Next, RulesStep, PaymentsStep, vars

LEMMA RulesSteps == ASSUME [Next]_vars PROVE [Certifier!Next]_(Certifier!vars)
<1>1. ASSUME UNCHANGED rulesVars PROVE UNCHANGED Certifier!vars
  BY <1>1 DEF rulesVars, Certifier!vars
<1> QED BY <1>1, SameRules DEF Next, SetParty, RegistryStep, RulesStep, PaymentsStep, vars

LEMMA PaymentsSteps == ASSUME [Next]_vars PROVE [Payer!Next]_(Payer!vars)
<1>1. ASSUME UNCHANGED paymentVars PROVE UNCHANGED Payer!vars
  BY <1>1 DEF paymentVars, Payer!vars, Payer!roleVars, Payer!settingVars, Payer!stakeVars,
              Payer!tokenVars
<1> QED BY <1>1, SamePayments DEF Next, SetParty, RegistryStep, RulesStep, PaymentsStep, vars

LEMMA ContractsInSystem ==
  ASSUME SystemAssumption
  PROVE  Spec => Contract!Spec /\ Certifier!Spec /\ Payer!Spec
<1>1. Init => Contract!Init /\ Certifier!Init /\ Payer!Init
  BY SameRegistry, SameRules, SamePayments DEF Init
<1>2. [Next]_vars => /\ [Contract!Next]_(Contract!vars)
                     /\ [Certifier!Next]_(Certifier!vars)
                     /\ [Payer!Next]_(Payer!vars)
  BY RegistrySteps, RulesSteps, PaymentsSteps
<1> QED BY <1>1, <1>2, PTL DEF Spec, Contract!Spec, Certifier!Spec, Payer!Spec

\* The registry of the system is the one of OcnRegistry: whatever the validator
\* and the payment manager answer, each step is a step or a stutter of it.
THEOREM SystemImplementsRegistry ==
  ASSUME SystemAssumption PROVE Spec => ImplementsRegistry
<1>1. Init => Registry!Init
  BY DEF Init
<1>2. [Next]_vars => [Registry!Next]_(Registry!vars)
  BY RegistrySteps, SameRegistry
     DEF Registry!vars, Registry!nodeVars, Registry!partyVars, Registry!adminVars,
         Contract!vars, Contract!nodeVars, Contract!partyVars, Contract!adminVars
<1> QED BY <1>1, <1>2, PTL DEF Spec, ImplementsRegistry, Registry!Spec
-----------------------------------------------------------------------------
(* Who enters the directory *)

OwnerOf(roles) == Rules!ValidateRegistration(roles).credentialOwner

RolesOf(roles) == {roles[i].role : i \in DOMAIN roles}

\* What a registration leaves behind, for the owner of its certificates.
Entered(roles, operator) ==
  LET owner == OwnerOf(roles) IN
  /\ roles # << >> /\ Rules!ValidateRegistration(roles).accepted
  /\ owner \in CredentialOwner
  /\ operatorOf'[owner] = operator
  /\ partyOf'[owner].roles = RolesOf(roles)
  /\ partyOf'[owner].paymentStatus = Payments!GetPaymentStatus(owner)
  /\ \A p \in Registry!Address \ {owner} : UNCHANGED <<partyOf[p], operatorOf[p]>>
  /\ UNCHANGED <<rulesVars, paymentVars>>

LEMMA Registered ==
  ASSUME SystemAssumption, Contract!TypeOK,
         NEW id \in OcpiId, NEW roles \in RoleLists, NEW operator \in Account,
         SetParty(id, roles, operator)
  PROVE  Entered(roles, operator)
<1> DEFINE owner == OwnerOf(roles)
           listed == RolesOf(roles)
           status == Payments!GetPaymentStatus(owner)
<1>1. /\ Registry!SetParty(id, listed, operator, owner, status)
      /\ Rules!ValidateRegistration(roles).accepted
      /\ UNCHANGED <<rulesVars, paymentVars>>
  BY DEF SetParty, OwnerOf, RolesOf
<1>2. listed # {}
  BY <1>1 DEF Registry!SetParty
<1>3. roles # << >>
  BY <1>2 DEF RolesOf
<1>4. owner \in CredentialOwner
  BY <1>3, Assumptions, SameAnswers, Certifier!OwnerIsNamed DEF OwnerOf
<1> HIDE DEF owner, listed, status
<1>5. owner \in Registry!Address
  BY <1>4 DEF SystemAssumption, Registry!RegistryAssumption
<1>6. /\ partyOf \in [Registry!Address -> Contract!PartyDetails]
      /\ operatorOf \in [Registry!Address -> Registry!Address]
  BY DEF Contract!TypeOK, Contract!Address, Registry!Address
<1>7. \E details :
        /\ details.roles = listed /\ details.paymentStatus = status
        /\ partyOf' = [partyOf EXCEPT ![owner] = details]
        /\ operatorOf' = [operatorOf EXCEPT ![owner] = operator]
  BY <1>1 DEF Registry!SetParty
<1>8. /\ operatorOf'[owner] = operator
      /\ partyOf'[owner].roles = listed
      /\ partyOf'[owner].paymentStatus = status
      /\ \A p \in Registry!Address \ {owner} : UNCHANGED <<partyOf[p], operatorOf[p]>>
  BY <1>5, <1>6, <1>7
<1> QED BY <1>1, <1>3, <1>4, <1>8 DEF Entered, owner, listed, status

Registers ==
  \E id \in OcpiId, roles \in RoleLists, operator \in Account : SetParty(id, roles, operator)

\* Every listing stays as it is or ends.
NobodyEnters ==
  \A p \in Registry!Address : UNCHANGED <<partyOf[p], operatorOf[p]>> \/ operatorOf'[p] = NoAddress

LEMMA OtherSteps ==
  ASSUME SystemAssumption, Contract!TypeOK, [Next]_vars, ~Registers
  PROVE  NobodyEnters /\ (UNCHANGED paymentVars \/ UNCHANGED registryVars)
<1>1. CASE RegistryStep
  <2>1. UNCHANGED paymentVars
    BY <1>1 DEF RegistryStep
  <2>2. \/ UNCHANGED <<partyOf, operatorOf>>
        \/ \E p \in Registry!Address : Registry!DeletePartyOf(p)
    <3>1. ASSUME NEW sender \in Account, Registry!AdminStep(sender)
          PROVE  \/ UNCHANGED <<partyOf, operatorOf>>
                 \/ \E p \in Registry!Address : Registry!DeletePartyOf(p)
      <4>1. \A id \in OcpiId \union {NoOcpiId} : uniqueParties[id] \in Registry!Address
        BY DEF Contract!TypeOK, Contract!Address, Registry!Address
      <4> QED
        BY <3>1, <4>1 DEF Registry!AdminStep, Registry!TransferOwnership, Registry!ReassignAdmin,
           Registry!SetPartyRegistrationValidator, Registry!AdminDeleteOperator,
           Registry!DeleteNodeOf, Registry!AdminDeleteParty, Registry!partyVars
    <3>2. ASSUME Registry!NodeStep PROVE UNCHANGED <<partyOf, operatorOf>>
      BY <3>2 DEF Registry!NodeStep, Registry!SetNode, Registry!SetNodeRaw, Registry!SetNodeFor,
         Registry!DeleteNode, Registry!DeleteNodeRaw, Registry!DeleteNodeOf, Registry!partyVars
    <3>3. ASSUME NEW a \in Account, Registry!DeleteParty(a)
          PROVE  \E p \in Registry!Address : Registry!DeletePartyOf(p)
      BY <3>3 DEF Registry!DeleteParty, Registry!Address
    <3> QED BY <1>1, <3>1, <3>2, <3>3 DEF RegistryStep
  <2>3. ASSUME NEW p \in Registry!Address, Registry!DeletePartyOf(p) PROVE NobodyEnters
    <3>1. /\ partyOf \in [Registry!Address -> Contract!PartyDetails]
          /\ operatorOf \in [Registry!Address -> Registry!Address]
      BY DEF Contract!TypeOK, Contract!Address, Registry!Address
    <3>2. /\ partyOf' = [partyOf EXCEPT ![p] = Registry!NoDetails]
          /\ operatorOf' = [operatorOf EXCEPT ![p] = NoAddress]
      BY <2>3 DEF Registry!DeletePartyOf
    <3> QED BY <3>1, <3>2 DEF NobodyEnters
  <2> QED BY <2>1, <2>2, <2>3 DEF NobodyEnters
<1>2. CASE UNCHANGED registryVars
  BY <1>2 DEF NobodyEnters, registryVars
<1> QED BY <1>1, <1>2 DEF Next, Registers, RulesStep, PaymentsStep, vars

\* A party enters the directory, or changes its roles there, only with
\* certificates that show these roles for its own address by the rules of that
\* moment: nobody is listed by a step that does not ask the validator.
THEOREM ListingsNeedCertificates ==
  ASSUME SystemAssumption, NoAddress \notin CredentialOwner
  PROVE  Spec => ListingNeedsCertificates
<1> DEFINE Shown ==
             \A p \in Account :
               (/\ operatorOf'[p] # NoAddress
                /\ <<partyOf[p].roles, operatorOf[p]>>' # <<partyOf[p].roles, operatorOf[p]>>) =>
                 \E roles \in RoleLists :
                   /\ Rules!Certified(roles, p)
                   /\ partyOf'[p].roles = {roles[i].role : i \in DOMAIN roles}
<1>1. Contract!TypeOK /\ Certifier!TypeOK /\ [Next]_vars => [Shown]_vars
  <2> SUFFICES ASSUME Contract!TypeOK, Certifier!TypeOK, [Next]_vars, NEW p \in Account,
                      operatorOf'[p] # NoAddress,
                      <<partyOf[p].roles, operatorOf[p]>>' # <<partyOf[p].roles, operatorOf[p]>>
               PROVE  \E roles \in RoleLists :
                        /\ Rules!Certified(roles, p)
                        /\ partyOf'[p].roles = {roles[i].role : i \in DOMAIN roles}
    OBVIOUS
  <2>1. p \in Registry!Address
    BY DEF Registry!Address
  <2>2. Registers
    BY <2>1, OtherSteps DEF NobodyEnters
  <2>3. PICK id \in OcpiId, roles \in RoleLists, operator \in Account : SetParty(id, roles, operator)
    BY <2>2 DEF Registers
  <2>4. Entered(roles, operator)
    BY <2>3, Registered
  <2>5. p = OwnerOf(roles)
    BY <2>1, <2>4 DEF Entered
  <2>6. Certifier!RealOwners(roles)
    <3> DEFINE RoleDetails == [role : Role, certificate : Certificate]
    <3>1. roles \in Seq(RoleDetails)
      BY Assumptions DEF Certifier!ValidatorAssumption
    <3>2. \A i \in DOMAIN roles : roles[i] \in RoleDetails
      <4> HIDE DEF RoleDetails
      <4> QED BY <3>1
    <3>3. \A c \in Certificate : c.owner \in CredentialOwner
      BY Assumptions DEF Certifier!ValidatorAssumption
    <3> QED BY <3>2, <3>3 DEF Certifier!RealOwners
  <2>7. Rules!Certified(roles, OwnerOf(roles))
    BY <2>4, <2>6, Assumptions, SameAnswers, Certifier!AcceptedIsCertified DEF Entered, OwnerOf
  <2> QED BY <2>4, <2>5, <2>7 DEF Entered, RolesOf
<1>2. Contract!RegistryAssumption /\ Certifier!ValidatorAssumption
  BY Assumptions
<1> QED BY <1>1, <1>2, ContractsInSystem, Contract!TypeCorrect, Certifier!TypeCorrect, PTL
        DEF Spec, ListingNeedsCertificates
-----------------------------------------------------------------------------
(* The status of payment that is stored *)

\* What is stored of a listed party is not ahead of what is paid.
Lags ==
  \A p \in Registry!ListedParties :
    PaymentStatusByAddress(p) # "PENDING" => Payments!GetPaymentStatus(p) # "PENDING"

\* A stored status other than PENDING means that the party has paid at some
\* time, by either lookup: payments are never forgotten, and a listing is found
\* under its own id.
THEOREM StoredStatusesOnlyLag ==
  ASSUME SystemAssumption, NoAddress \notin CredentialOwner
  PROVE  Spec => []StoredStatusOnlyLags
<1> DEFINE Kept ==
             \A p \in Payer!Address :
               Payer!GetPaymentStatus(p) # "PENDING" => Payer!GetPaymentStatus(p)' # "PENDING"
<1>1. Init => Lags
  BY DEF Init, Lags, Registry!Init, Registry!ListedParties
<1>2. Contract!TypeOK /\ Lags /\ [Next]_vars /\ [Kept]_(Payer!vars) => Lags'
  <2> SUFFICES ASSUME Contract!TypeOK, Lags, [Next]_vars, [Kept]_(Payer!vars),
                      NEW p \in Registry!Address, operatorOf'[p] # NoAddress,
                      partyOf'[p].paymentStatus # "PENDING"
               PROVE  Payments!GetPaymentStatus(p)' # "PENDING"
    BY DEF Lags, PaymentStatusByAddress, Registry!ListedParties
  <2>1. ASSUME UNCHANGED <<partyOf[p], operatorOf[p]>>
        PROVE  Payments!GetPaymentStatus(p)' # "PENDING"
    <3>1. Payments!GetPaymentStatus(p) # "PENDING"
      BY <2>1 DEF Lags, PaymentStatusByAddress, Registry!ListedParties
    <3>2. p \in Payer!Address
      BY DEF Registry!Address, Payer!Address
    <3>3. CASE UNCHANGED Payer!vars
      BY <3>1, <3>3 DEF Payments!GetPaymentStatus, Payer!vars, Payer!stakeVars
    <3>4. CASE Kept
      BY <3>1, <3>2, <3>4 DEF Payments!GetPaymentStatus, Payer!GetPaymentStatus
    <3> QED BY <3>3, <3>4
  <2>2. CASE Registers
    <3>1. PICK id \in OcpiId, roles \in RoleLists, operator \in Account :
            SetParty(id, roles, operator)
      BY <2>2 DEF Registers
    <3>2. Entered(roles, operator)
      BY <3>1, Registered
    <3>3. CASE p = OwnerOf(roles)
      BY <3>2, <3>3 DEF Entered, Payments!GetPaymentStatus, paymentVars
    <3>4. CASE p # OwnerOf(roles)
      BY <2>1, <3>2, <3>4 DEF Entered
    <3> QED BY <3>3, <3>4
  <2>3. CASE ~Registers
    BY <2>1, <2>3, OtherSteps DEF NobodyEnters
  <2> QED BY <2>2, <2>3
<1>3. Contract!FoundUnderOwnId /\ Lags => StoredStatusOnlyLags
  BY DEF Contract!FoundUnderOwnId, Contract!ListedParties, Contract!Address, Lags,
         StoredStatusOnlyLags, PaymentStatusByOcpi, Registry!ListedParties, Registry!Address
<1>4. Contract!RegistryAssumption /\ Payer!PaymentAssumption
  BY Assumptions
<1> QED BY <1>1, <1>2, <1>3, <1>4, ContractsInSystem, Contract!TypeCorrect,
           Contract!PartiesFoundUnderOwnId, Payer!PaidStaysPaid, PTL
        DEF Spec, Payer!PaidIsNeverPending

\* The two lookups of a party come to differ only when a stake of that party is
\* paid or withdrawn: a registration stores what the payment manager answers,
\* and no other transaction of the registry touches a listing that stays.
THEOREM LookupsDivergeOnlyByPayment ==
  ASSUME SystemAssumption, NoAddress \notin CredentialOwner
  PROVE  Spec => LookupsDivergeByPaymentOnly
<1> DEFINE ByPayment ==
             \A p \in Account :
               p \in Registry!ListedParties' /\ ~LookupsAgree(p)' =>
                 \/ p \in Registry!ListedParties /\ ~LookupsAgree(p)
                 \/ <<stakedFunds[p], stakingBlock[p]>>' # <<stakedFunds[p], stakingBlock[p]>>
           Agree(p) == partyOf[p].paymentStatus = Payments!GetPaymentStatus(p)
<1>1. Contract!FoundUnderOwnId => \A p \in Registry!ListedParties : LookupsAgree(p) <=> Agree(p)
  BY DEF Contract!FoundUnderOwnId, Contract!ListedParties, Contract!Address, LookupsAgree,
         PaymentStatusByAddress, PaymentStatusByOcpi, Registry!ListedParties, Registry!Address
<1>2. (Contract!FoundUnderOwnId => \A p \in Registry!ListedParties : LookupsAgree(p) <=> Agree(p))'
  BY <1>1, PTL
<1>3. /\ Contract!TypeOK /\ Contract!FoundUnderOwnId /\ Contract!FoundUnderOwnId'
      /\ [Next]_vars
      => [ByPayment]_vars
  <2> SUFFICES ASSUME Contract!TypeOK, Contract!FoundUnderOwnId, Contract!FoundUnderOwnId',
                      [Next]_vars, NEW p \in Account,
                      p \in Registry!ListedParties', ~LookupsAgree(p)',
                      UNCHANGED <<stakedFunds[p], stakingBlock[p]>>
               PROVE  p \in Registry!ListedParties /\ ~LookupsAgree(p)
    OBVIOUS
  <2>1. p \in Registry!Address /\ operatorOf'[p] # NoAddress /\ ~Agree(p)'
    <3>1. ~Agree(p)'
      BY <1>2
    <3> QED BY <3>1 DEF Registry!ListedParties, Registry!Address
  <2>2. Payments!GetPaymentStatus(p)' = Payments!GetPaymentStatus(p)
    BY DEF Payments!GetPaymentStatus
  <2>3. ASSUME UNCHANGED <<partyOf[p], operatorOf[p]>>
        PROVE  p \in Registry!ListedParties /\ ~LookupsAgree(p)
    <3>1. p \in Registry!ListedParties /\ ~Agree(p)
      BY <2>1, <2>2, <2>3 DEF Registry!ListedParties
    <3> QED BY <1>1, <3>1
  <2>4. CASE Registers
    <3>1. PICK id \in OcpiId, roles \in RoleLists, operator \in Account :
            SetParty(id, roles, operator)
      BY <2>4 DEF Registers
    <3>2. Entered(roles, operator)
      BY <3>1, Registered
    <3>3. p # OwnerOf(roles)
      BY <2>1, <2>2, <3>2 DEF Entered
    <3> QED BY <2>1, <2>3, <3>2, <3>3 DEF Entered
  <2>5. CASE ~Registers
    BY <2>1, <2>3, <2>5, OtherSteps DEF NobodyEnters
  <2> QED BY <2>4, <2>5
<1>4. Contract!RegistryAssumption
  BY Assumptions
<1> QED BY <1>3, <1>4, ContractsInSystem, Contract!TypeCorrect, Contract!PartiesFoundUnderOwnId, PTL
        DEF Spec, LookupsDivergeByPaymentOnly
=============================================================================
