-------------------------- MODULE RegistrySubgraph --------------------------
(***************************************************************************)
(* The subgraph of the registry: graph-node hands the events of the        *)
(* registry's transactions to the handlers one by one, in the chain's      *)
(* order, some time after they were mined.  The handlers keep one entity   *)
(* for each operator and for each country_code/party_id; consumers read    *)
(* these instead of the contract.  The handlers also append a copy of each *)
(* event, which they never read; of these copies only what the role events *)
(* add up to is kept here.                                                 *)
(***************************************************************************)
EXTENDS Naturals, Sequences

CONSTANTS
  Account, NoAddress, Domain, NoDomain, OcpiId, NoOcpiId, Role, PaymentStatus,
  Validator, CredentialOwner, Deployer, NotListed, MaxParties,   \* OcnRegistry
  NoEntity,         \* nothing is stored under the id
  MaxLag            \* bound on the events waiting to be handled

Address == Account \union {NoAddress}

SubgraphAssumption ==
  /\ MaxLag \in Nat \ {0}
  /\ "unknown" \notin Domain
  /\ NoEntity \notin Domain \union {NoDomain}

VARIABLES
  admins, partyRegistrationValidator, nodeOf, uniqueDomains, uniqueOperators, operators,
  uniqueParties, uniquePartyAddresses, partyOf, operatorOf, parties

VARIABLES
  events,        \* emitted and not handled yet
  operatorEntity,\* operator -> domain of its entity
  partyEntity,   \* entity id -> entity
  adminsCopied   \* who administers the registry, by the copies of the role events

registryVars == <<admins, partyRegistrationValidator, nodeOf, uniqueDomains, uniqueOperators,
                  operators, uniqueParties, uniquePartyAddresses, partyOf, operatorOf, parties>>
entityVars == <<operatorEntity, partyEntity, adminsCopied>>
subgraphVars == <<events, entityVars>>
vars == <<registryVars, subgraphVars>>

Registry == INSTANCE OcnRegistry

-----------------------------------------------------------------------------
(* What the registry's transactions emit *)

OperatorUpdate(operator, domain) ==
  [event |-> "OperatorUpdate", operator |-> operator, domain |-> domain]

PartyUpdate(party, ocpi, roles, status, operator) ==
  [event |-> "PartyUpdate", party |-> party, ocpi |-> ocpi, roles |-> roles,
   paymentStatus |-> status, operator |-> operator]

PartyDelete(party) ==
  [event |-> "PartyDelete", party |-> party, ocpi |-> partyOf[party].ocpi]

OwnershipTransferred(newOwner) == [event |-> "OwnershipTransferred", newAdmin |-> newOwner]

\* grantRole and revokeRole emit only what they change.
RoleEvents(before, after) ==
  LET granted == after \ before
      revoked == before \ after
  IN  (IF granted = {} THEN << >>
       ELSE << [event |-> "RoleGranted", account |-> CHOOSE a \in granted : TRUE] >>)
        \o (IF revoked = {} THEN << >>
            ELSE << [event |-> "RoleRevoked", account |-> CHOOSE a \in revoked : TRUE] >>)

Emits(batch) ==
  /\ Len(events) < MaxLag
  /\ events' = events \o batch
  /\ UNCHANGED entityVars

AdminTransaction(sender) ==
  \/ \E a \in Address :
       /\ Registry!TransferOwnership(sender, a)
       /\ Emits(Append(RoleEvents(admins, admins'), OwnershipTransferred(a)))
  \/ \E a \in Address :
       /\ Registry!ReassignAdmin(sender, a)
       /\ Emits(RoleEvents(admins, admins'))
  \/ \E a \in Address :
       /\ Registry!AdminDeleteOperator(sender, a)
       /\ Emits(<<OperatorUpdate(a, NoDomain)>>)
  \/ \E id \in OcpiId \union {NoOcpiId} :
       /\ Registry!AdminDeleteParty(sender, id)
       /\ Emits(<<PartyDelete(uniqueParties[id])>>)

NodeTransaction(operator) ==
  \/ \E d \in Domain :
       /\ Registry!SetNodeFor(operator, d)
       /\ Emits(<<OperatorUpdate(operator, d)>>)
  \/ /\ Registry!DeleteNodeOf(operator)
     /\ Emits(<<OperatorUpdate(operator, NoDomain)>>)

PartyTransaction(party) ==
  \/ \E id \in OcpiId, roles \in SUBSET Role, o \in Account, status \in PaymentStatus :
       /\ party \in CredentialOwner
       /\ Registry!SetParty(id, roles, o, party, status)
       /\ Emits(<<PartyUpdate(party, id, roles, status, o)>>)
  \/ /\ Registry!DeleteParty(party)
     /\ Emits(<<PartyDelete(party)>>)

RegistryTransaction ==
  \/ \E a \in Account : AdminTransaction(a) \/ PartyTransaction(a)
  \/ \E a \in Address : NodeTransaction(a)

-----------------------------------------------------------------------------
(* The handlers *)

\* Mutant: the contract's own names.
PaymentStatusAsEmitted(status) == status

\* The contract's enum is PENDING, PAYMENT_UP_TO_DATE, INSUFFICIENT_FUNDS, INACTIVE.
GetPaymentStatus(status) ==
  CASE status = "PENDING"            -> "NOT_PAID"
    [] status = "PAYMENT_UP_TO_DATE" -> "PAID"
    [] status = "INSUFFICIENT_FUNDS" -> "PENDING"
    [] OTHER                         -> "UNKNOWN"

\* Both enums of roles have the same order, so each role is shown by its name.
GetRoles(roles) == roles

\* The id of a party's entity: country_code and party_id with or without a '/'.
Slashed(ocpi) == <<ocpi, "/">>
Plain(ocpi) == <<ocpi, "">>
PartyKey == (OcpiId \union {NoOcpiId}) \X {"/", ""}

\* Mutant: only an operator seen for the first time gets its domain.
OperatorDomainOnce(operator, domain) ==
  IF operatorEntity[operator] = NoEntity THEN domain ELSE operatorEntity[operator]

OperatorDomain(operator, domain) == domain

HandleOperatorUpdate(e) ==
  /\ operatorEntity' = [operatorEntity EXCEPT ![e.operator] = OperatorDomain(e.operator, e.domain)]
  /\ UNCHANGED <<partyEntity, adminsCopied>>

\* Mutant: a listing makes its operator one of unknown domain.
OperatorForgotten(operator) == "unknown"

OperatorSeen(operator) ==
  IF operatorEntity[operator] = NoEntity THEN "unknown" ELSE operatorEntity[operator]

HandlePartyUpdate(e) ==
  LET key == Slashed(e.ocpi) IN
  /\ partyEntity' = [partyEntity EXCEPT ![key] =
       [party |-> e.party, roles |-> GetRoles(e.roles), operator |-> e.operator,
        paymentStatus |-> GetPaymentStatus(e.paymentStatus),
        deleted |-> IF @ = NoEntity THEN FALSE ELSE @.deleted]]
  /\ operatorEntity' = [operatorEntity EXCEPT ![e.operator] = OperatorSeen(e.operator)]
  /\ UNCHANGED adminsCopied

\* Mutant: the id the update handler uses.
DeletedKey(ocpi) == Slashed(ocpi)

KeyOfDelete(ocpi) == Plain(ocpi)

HandlePartyDelete(e) ==
  LET key == KeyOfDelete(e.ocpi) IN
  /\ partyEntity' = IF partyEntity[key] = NoEntity THEN partyEntity
                    ELSE [partyEntity EXCEPT ![key].deleted = TRUE]
  /\ UNCHANGED <<operatorEntity, adminsCopied>>

\* Only copied: who administers the registry is told by the role events.
HandleOwnershipTransferred(e) == UNCHANGED entityVars

HandleRoleGranted(e) ==
  /\ adminsCopied' = adminsCopied \union {e.account}
  /\ UNCHANGED <<operatorEntity, partyEntity>>

HandleRoleRevoked(e) ==
  /\ adminsCopied' = adminsCopied \ {e.account}
  /\ UNCHANGED <<operatorEntity, partyEntity>>

HandleNext ==
  /\ events # << >>
  /\ events' = Tail(events)
  /\ LET e == Head(events) IN
     \/ e.event = "OperatorUpdate" /\ HandleOperatorUpdate(e)
     \/ e.event = "PartyUpdate" /\ HandlePartyUpdate(e)
     \/ e.event = "PartyDelete" /\ HandlePartyDelete(e)
     \/ e.event = "OwnershipTransferred" /\ HandleOwnershipTransferred(e)
     \/ e.event = "RoleGranted" /\ HandleRoleGranted(e)
     \/ e.event = "RoleRevoked" /\ HandleRoleRevoked(e)
  /\ UNCHANGED registryVars

EntitiesInit ==
  /\ events = RoleEvents({}, {Deployer})
  /\ operatorEntity = [a \in Address |-> NoEntity]
  /\ partyEntity = [key \in PartyKey |-> NoEntity]
  /\ adminsCopied = {}

\* The subgraph starts in the block in which the registry is deployed.
Init ==
  /\ Registry!Init
  /\ EntitiesInit

Next == RegistryTransaction \/ HandleNext

\* graph-node goes on as long as there are events; nobody has to send transactions.
Fairness == WF_vars(HandleNext)

Spec == Init /\ [][Next]_vars /\ Fairness

-----------------------------------------------------------------------------
(* Properties *)

PartyEntity ==
  [party : Address, roles : SUBSET Role, operator : Address,
   paymentStatus : {"NOT_PAID", "PAID", "PENDING", "UNKNOWN"}, deleted : BOOLEAN]

TypeOK ==
  /\ Len(events) <= MaxLag + 2
  /\ operatorEntity \in [Address -> Domain \union {NoDomain, "unknown", NoEntity}]
  /\ partyEntity \in [PartyKey -> PartyEntity \union {NoEntity}]
  /\ adminsCopied \subseteq Address

\* What the subgraph shows of an operator's node.
ShownNode ==
  [a \in Address |-> IF operatorEntity[a] = NoEntity THEN NoDomain ELSE operatorEntity[a]]

InSync ==
  /\ ShownNode = nodeOf
  /\ adminsCopied = admins
  /\ \A p \in Registry!ListedParties :
       LET entity == partyEntity[Slashed(partyOf[p].ocpi)] IN
       /\ entity # NoEntity
       /\ entity.party = p
       /\ entity.operator = operatorOf[p]
       /\ entity.roles = partyOf[p].roles
       /\ entity.paymentStatus = "PAID" <=> partyOf[p].paymentStatus = "PAYMENT_UP_TO_DATE"

\* Once the registry rests, the subgraph comes to show every operator's node,
\* every listed party as it is listed, and who administers the registry, whatever
\* ids and operators the parties went through before.
EventuallyInSync == <>[][HandleNext]_vars => <>[]InSync

Shown == INSTANCE Directory WITH
           Operator <- Address, Party <- Account,
           node <- ShownNode, listing <- [p \in Account |-> NotListed]

\* Late as it is, the subgraph shows the nodes as a directory at all times: no
\* domain for two operators, and no operator of "unknown" domain.
ShowsADirectory == Shown!Spec

\* The entity of a country_code/party_id changes by the update event of a listing
\* under exactly this id and never becomes marked as deleted: handlePartyDelete
\* looks for it by another id.
EntityChangesByListingOnly ==
  [][\A key \in PartyKey : partyEntity'[key] # partyEntity[key] =>
       /\ Head(events).event = "PartyUpdate"
       /\ key = Slashed(Head(events).ocpi)
       /\ partyEntity'[key].party = Head(events).party
       /\ ~partyEntity'[key].deleted]_vars
=============================================================================
