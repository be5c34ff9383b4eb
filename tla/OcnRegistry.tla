----------------------------- MODULE OcnRegistry -----------------------------
(***************************************************************************)
(* The OcnRegistry contract: the directory of OCN nodes and of the OCPI    *)
(* parties connected to them.                                              *)
(*                                                                         *)
(* A transaction is one step, as on the chain.  A revert is a guard: a     *)
(* transaction that reverts changes nothing.  The answers setParty gets    *)
(* from the other contracts are parameters of its action (the credential   *)
(* owner and roles of the registration validator, the payment status of    *)
(* the payment manager); OcnSystem gives them their values.                *)
(***************************************************************************)
EXTENDS Naturals, Sequences, SequencesExt, AccessControl

CONSTANTS
  Account,          \* addresses other than 0
  NoAddress,        \* address(0)
  Domain,           \* non-empty domain names
  NoDomain,         \* the empty string
  OcpiId,           \* (countryCode, partyId) pairs with both parts set
  NoOcpiId,         \* a pair with a part left 0
  Role,             \* enum Role
  PaymentStatus,    \* the payment statuses the payment manager can answer
  Validator,        \* addresses of deployed registration validators
  CredentialOwner,  \* addresses that certificates name as their owner
  Deployer,         \* who deploys the contract
  NotListed,        \* Directory's "no listing"
  MaxParties        \* bound on the length of `parties`

Address == Account \union {NoAddress}

ASSUME RegistryAssumption ==
  /\ NoAddress \notin Account
  /\ NoDomain \notin Domain
  /\ NoOcpiId \notin OcpiId
  /\ "PENDING" \in PaymentStatus
  /\ CredentialOwner \subseteq Address
  /\ Deployer \in Account
  /\ NotListed \notin [ocpi : OcpiId, roles : SUBSET Role, operator : Address]
  /\ MaxParties \in Nat

VARIABLES
  admins,                      \* members of DEFAULT_ADMIN_ROLE
  partyRegistrationValidator,
  nodeOf,                      \* operator -> domain
  uniqueDomains,               \* domains whose flag is set
  uniqueOperators,             \* operators whose flag is set
  operators,                   \* every operator that ever listed a node
  uniqueParties,               \* (countryCode, partyId) -> party
  uniquePartyAddresses,        \* parties whose flag is set
  partyOf,                     \* party -> details
  operatorOf,                  \* party -> operator
  parties                      \* every party listed, 0 where one was deleted

nodeVars == <<nodeOf, uniqueDomains, uniqueOperators, operators>>
partyVars == <<uniqueParties, uniquePartyAddresses, partyOf, operatorOf, parties>>
adminVars == <<admins, partyRegistrationValidator>>
vars == <<nodeVars, partyVars, adminVars>>

\* The struct's name and url are payload, and its cvStatus is always
\* NOT_VERIFIED: all three are left out.
PartyDetails ==
  [ocpi : OcpiId \union {NoOcpiId}, roles : SUBSET Role,
   paymentStatus : PaymentStatus, active : BOOLEAN, partyIndex : Nat]

\* A zeroed struct: what `delete` leaves and an unset key reads.
NoDetails ==
  [ocpi |-> NoOcpiId, roles |-> {}, paymentStatus |-> "PENDING",
   active |-> FALSE, partyIndex |-> 0]

Init ==
  /\ admins = {Deployer}
  /\ partyRegistrationValidator \in Validator
  /\ nodeOf = [a \in Address |-> NoDomain]
  /\ uniqueDomains = {}
  /\ uniqueOperators = {}
  /\ operators = << >>
  /\ uniqueParties = [id \in OcpiId \union {NoOcpiId} |-> NoAddress]
  /\ uniquePartyAddresses = {}
  /\ partyOf = [a \in Address |-> NoDetails]
  /\ operatorOf = [a \in Address |-> NoAddress]
  /\ parties = << >>

-----------------------------------------------------------------------------
(* Administration *)

TransferOwnership(sender, newOwner) ==
  /\ sender \in admins
  /\ admins' = Transferred(admins, sender, newOwner)
  /\ UNCHANGED <<partyRegistrationValidator, nodeVars, partyVars>>

ReassignAdmin(sender, account) ==
  /\ admins' \in Reassigned(admins, sender, account)
  /\ UNCHANGED <<partyRegistrationValidator, nodeVars, partyVars>>

\* Mutant: without the check of the address.
SetAnyRegistrationValidator(sender, validator) ==
  /\ sender \in admins
  /\ partyRegistrationValidator' = validator
  /\ UNCHANGED <<admins, nodeVars, partyVars>>

SetPartyRegistrationValidator(sender, validator) ==
  /\ sender \in admins
  /\ validator # NoAddress
  /\ partyRegistrationValidator' = validator
  /\ UNCHANGED <<admins, nodeVars, partyVars>>

-----------------------------------------------------------------------------
(* Nodes *)

\* Mutant: without the check of the domain.
DomainTakenOver(domain) == TRUE

DomainFree(domain) == domain \notin uniqueDomains

\* Mutant: an operator with no node is taken for a new one.
OperatorsWithNew(operator) ==
  IF nodeOf[operator] # NoDomain THEN operators ELSE Append(operators, operator)

OperatorsWith(operator) ==
  IF operator \in uniqueOperators THEN operators ELSE Append(operators, operator)

SetNodeFor(operator, domain) ==
  /\ domain # NoDomain
  /\ DomainFree(domain)
  /\ uniqueDomains' = uniqueDomains \union {domain}
  /\ operators' = OperatorsWith(operator)
  /\ uniqueOperators' = uniqueOperators \union {operator}
  /\ nodeOf' = [nodeOf EXCEPT ![operator] = domain]
  /\ UNCHANGED <<partyVars, adminVars>>

SetNode(sender, domain) == SetNodeFor(sender, domain)

\* Whoever sends the transaction, the node set is that of the address ecrecover
\* returns: the operator who signed, or address 0 when nothing is recovered.
SetNodeRaw(signer, domain) == SetNodeFor(signer, domain)

DeleteNodeOf(operator) ==
  /\ nodeOf[operator] # NoDomain
  /\ uniqueDomains' = uniqueDomains \ {nodeOf[operator]}
  /\ nodeOf' = [nodeOf EXCEPT ![operator] = NoDomain]
  /\ UNCHANGED <<uniqueOperators, operators, partyVars, adminVars>>

DeleteNode(sender) == DeleteNodeOf(sender)

DeleteNodeRaw(signer) == DeleteNodeOf(signer)

AdminDeleteOperator(sender, operator) ==
  /\ sender \in admins
  /\ DeleteNodeOf(operator)

-----------------------------------------------------------------------------
(* Parties *)

\* Mutant: without the check of the id.
IdTakenOver(ocpi, party) == TRUE

IdFree(ocpi, party) == uniqueParties[ocpi] \in {NoAddress, party}

\* Mutant: an operator that ever had a node will do.
HadNode(operator) == operator \in uniqueOperators

HasNode(operator) == nodeOf[operator] # NoDomain

Known(party) == party \in uniquePartyAddresses

\* Mutant: a listing that is replaced gets the next position too.
NextPartyIndex(party) == Len(parties)

PartyIndex(party) == IF Known(party) THEN partyOf[party].partyIndex ELSE Len(parties)

\* Mutant: a listing that is replaced is appended again.
PartiesAppended(party) == Append(parties, party)

PartiesWith(party) == IF Known(party) THEN parties ELSE Append(parties, party)

SetParty(ocpi, roles, operator, credentialOwner, paymentStatus) ==
  /\ ocpi # NoOcpiId
  /\ roles # {}
  /\ operator # NoAddress
  /\ IdFree(ocpi, credentialOwner)
  /\ HasNode(operator)
  /\ Known(credentialOwner) \/ Len(parties) < MaxParties
  /\ uniqueParties' = [uniqueParties EXCEPT ![ocpi] = credentialOwner]
  /\ parties' = PartiesWith(credentialOwner)
  /\ uniquePartyAddresses' = uniquePartyAddresses \union {credentialOwner}
  /\ partyOf' = [partyOf EXCEPT ![credentialOwner] =
       [ocpi |-> ocpi, roles |-> roles, paymentStatus |-> paymentStatus,
        active |-> TRUE, partyIndex |-> PartyIndex(credentialOwner)]]
  /\ operatorOf' = [operatorOf EXCEPT ![credentialOwner] = operator]
  /\ UNCHANGED <<nodeVars, adminVars>>

\* Mutant: the array is compacted.
PartiesCompacted(index) == SubSeq(parties, 1, index) \o SubSeq(parties, index + 2, Len(parties))

PartiesWithout(index) == [parties EXCEPT ![index + 1] = NoAddress]

DeletePartyOf(party) ==
  LET details == partyOf[party] IN
  /\ operatorOf[party] # NoAddress
  /\ details.partyIndex < Len(parties)  \* else the array access panics
  /\ operatorOf' = [operatorOf EXCEPT ![party] = NoAddress]
  /\ uniqueParties' = [uniqueParties EXCEPT ![details.ocpi] = NoAddress]
  /\ partyOf' = [partyOf EXCEPT ![party] = NoDetails]
  /\ parties' = PartiesWithout(details.partyIndex)
  /\ uniquePartyAddresses' = uniquePartyAddresses \ {party}
  /\ UNCHANGED <<nodeVars, adminVars>>

\* Mutant: only disconnects the party from its operator.
DisconnectParty(sender) ==
  /\ operatorOf[sender] # NoAddress
  /\ operatorOf' = [operatorOf EXCEPT ![sender] = NoAddress]
  /\ UNCHANGED <<uniqueParties, uniquePartyAddresses, partyOf, parties, nodeVars, adminVars>>

DeleteParty(sender) == DeletePartyOf(sender)

AdminDeleteParty(sender, ocpi) ==
  /\ sender \in admins
  /\ DeletePartyOf(uniqueParties[ocpi])

-----------------------------------------------------------------------------
AdminStep(sender) ==
  \/ \E a \in Address : TransferOwnership(sender, a)
  \/ \E a \in Address : ReassignAdmin(sender, a)
  \/ \E v \in Validator \union {NoAddress} : SetPartyRegistrationValidator(sender, v)
  \/ \E a \in Address : AdminDeleteOperator(sender, a)
  \/ \E id \in OcpiId \union {NoOcpiId} : AdminDeleteParty(sender, id)

NodeStep ==
  \/ \E a \in Account, d \in Domain \union {NoDomain} : SetNode(a, d)
  \/ \E a \in Address, d \in Domain \union {NoDomain} : SetNodeRaw(a, d)
  \/ \E a \in Account : DeleteNode(a)
  \/ \E a \in Address : DeleteNodeRaw(a)

PartyStep ==
  \/ \E id \in OcpiId \union {NoOcpiId}, roles \in SUBSET Role, operator \in Address,
        owner \in CredentialOwner, status \in PaymentStatus :
       SetParty(id, roles, operator, owner, status)
  \/ \E a \in Account : DeleteParty(a)

Next ==
  \/ \E sender \in Account : AdminStep(sender)
  \/ NodeStep
  \/ PartyStep

Spec == Init /\ [][Next]_vars

-----------------------------------------------------------------------------
(* Views *)

GetNode(operator) == nodeOf[operator]

GetNodeOperators == operators

GetOperatorByAddress(party) ==
  [operator |-> operatorOf[party], domain |-> nodeOf[operatorOf[party]]]

GetOperatorByOcpi(ocpi) == GetOperatorByAddress(uniqueParties[ocpi])

\* The entries of `parties` that are in the given set, in their order.
PartiesAmong(chosen) ==
  FoldLeft(LAMBDA found, p : IF p \in chosen THEN Append(found, p) ELSE found, << >>, parties)

GetPartiesByOperator(operator) == PartiesAmong({p \in Address : operatorOf[p] = operator})

GetPartiesByRole(role) == PartiesAmong({p \in Address : role \in partyOf[p].roles})

ListedParties == {p \in Address : operatorOf[p] # NoAddress}

Occurrences(x, seq) == {i \in DOMAIN seq : seq[i] = x}

-----------------------------------------------------------------------------
(* Properties *)

TypeOK ==
  /\ admins \subseteq Address
  /\ partyRegistrationValidator \in Validator
  /\ nodeOf \in [Address -> Domain \union {NoDomain}]
  /\ uniqueDomains \subseteq Domain
  /\ uniqueOperators \subseteq Address
  /\ operators \in Seq(Address)
  /\ uniqueParties \in [OcpiId \union {NoOcpiId} -> Address]
  /\ uniquePartyAddresses \subseteq Address
  /\ partyOf \in [Address -> PartyDetails]
  /\ operatorOf \in [Address -> Address]
  /\ parties \in Seq(Address)
  /\ Len(parties) <= MaxParties

\* Every listed domain is reserved, so setNode and setNodeRaw, whoever relays
\* them, never let a second operator list it, even after updates and deletions.
DomainsReserved ==
  /\ \A a \in Address : nodeOf[a] # NoDomain => nodeOf[a] \in uniqueDomains
  /\ \A a, b \in Address : nodeOf[a] = nodeOf[b] /\ nodeOf[a] # NoDomain => a = b

\* getNodeOperators names every operator with a node and every operator a party
\* is connected to, each once, however often nodes are deleted and set again.
OperatorsListedOnce ==
  /\ \A a \in Address : nodeOf[a] # NoDomain => \E i \in DOMAIN operators : operators[i] = a
  /\ \A p \in ListedParties : \E i \in DOMAIN operators : operators[i] = operatorOf[p]
  /\ \A i, j \in DOMAIN operators : operators[i] = operators[j] => i = j

\* partyIndex and the parties array point at each other: a deletion blanks the
\* entry of the party deleted and no other, and no party is listed twice.
PartiesIndexed ==
  /\ \A p \in ListedParties :
       /\ partyOf[p].partyIndex < Len(parties)
       /\ parties[partyOf[p].partyIndex + 1] = p
  /\ \A i \in DOMAIN parties :
       parties[i] # NoAddress =>
         /\ parties[i] \in ListedParties
         /\ partyOf[parties[i]].partyIndex + 1 = i

\* The four mappings kept by setParty and deleteParty agree on who is listed,
\* and nothing of a deleted party stays behind to be read by address.
ListingConsistent ==
  /\ uniquePartyAddresses = ListedParties
  /\ \A p \in Address : partyOf[p].active <=> p \in ListedParties
  /\ \A p \in Address : p \notin ListedParties => partyOf[p] = NoDetails

\* A listed party is found under the country_code/party_id of its own listing:
\* lookups by address and by OCPI credentials answer the same.
FoundUnderOwnId ==
  \A p \in ListedParties :
    /\ uniqueParties[partyOf[p].ocpi] = p
    /\ GetOperatorByOcpi(partyOf[p].ocpi) = GetOperatorByAddress(p)

\* Each listed party is returned by getPartiesByOperator for its own operator
\* only, once, and by getPartiesByRole once for each of its roles.
ListedOncePerQuery ==
  \A p \in ListedParties \ {NoAddress} :
    /\ \A o \in Account :
         LET found == Occurrences(p, GetPartiesByOperator(o)) IN
         IF o = operatorOf[p] THEN \E i \in found : found = {i} ELSE found = {}
    /\ \A r \in Role :
         LET found == Occurrences(p, GetPartiesByRole(r)) IN
         IF r \in partyOf[p].roles THEN \E i \in found : found = {i} ELSE found = {}

\* A country_code/party_id passes from one address to another only through a
\* state in which its holder is no longer listed.
IdReleasedByDelistingOnly ==
  [][\A id \in OcpiId :
       uniqueParties[id] # NoAddress /\ uniqueParties'[id] # uniqueParties[id] =>
         /\ uniqueParties'[id] = NoAddress
         /\ operatorOf[uniqueParties[id]] # NoAddress
         /\ operatorOf'[uniqueParties[id]] = NoAddress]_vars

\* No transaction touches the listing of more than one party: details and
\* operator of every other stay as they are, and so does its id.
OneListingPerTransaction ==
  [][\A p, q \in Account :
       <<partyOf[p], operatorOf[p]>>' # <<partyOf[p], operatorOf[p]>> /\ q # p =>
         /\ <<partyOf[q], operatorOf[q]>>' = <<partyOf[q], operatorOf[q]>>
         /\ \A id \in OcpiId : uniqueParties[id] = q => uniqueParties'[id] = q]_vars

\* Positions in the two arrays are stable for clients that page through them:
\* entries are only added at the end, and a party's entry only turns into 0.
PositionsStable ==
  [][/\ \A i \in DOMAIN operators : i \in DOMAIN operators' /\ operators'[i] = operators[i]
     /\ \A i \in DOMAIN parties :
          i \in DOMAIN parties' /\ parties'[i] \in {parties[i], NoAddress}]_vars

-----------------------------------------------------------------------------
(* What the documentation says and the code does not do *)

\* "Domain name already registered.": a domain setNode refuses is listed by
\* some operator.
ReservedDomainIsListed ==
  \A d \in uniqueDomains : \E a \in Address : nodeOf[a] = d

\* "Party with country_code/party_id already registered under different
\* address.": an id setParty refuses is the id of a listed party.
HeldIdIsListed ==
  \A id \in OcpiId :
    uniqueParties[id] # NoAddress => partyOf[uniqueParties[id]].ocpi = id

-----------------------------------------------------------------------------
(* The directory this contract implements *)

Listings ==
  [p \in Account |->
     IF operatorOf[p] = NoAddress THEN NotListed
     ELSE [ocpi |-> partyOf[p].ocpi, roles |-> partyOf[p].roles, operator |-> operatorOf[p]]]

Dir == INSTANCE Directory WITH
         Operator <- Address, Party <- Account,
         node <- nodeOf, listing <- Listings

\* The contract implements Directory: no transaction lists a domain or an id
\* twice, or lists a party at an operator that has no node.
ImplementsDirectory == Dir!Spec
=============================================================================
