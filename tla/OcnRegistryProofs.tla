-------------------------- MODULE OcnRegistryProofs --------------------------
(***************************************************************************)
(* Theorems about OcnRegistry, for every set of accounts, domains, ids and *)
(* roles and every bound on the parties array.                             *)
(*                                                                         *)
(* Transactions fall into five kinds (NextKinds); each invariant is then   *)
(* shown to survive each kind.                                             *)
(***************************************************************************)
EXTENDS OcnRegistry, FiniteSetTheorems, SequenceTheorems, TLAPS

\* A step that only administers: roles and the validator's address.
AdminOnly ==
  /\ UNCHANGED <<nodeVars, partyVars>>
  /\ admins' \subseteq Address
  /\ partyRegistrationValidator' \in Validator

\* What a transaction can do, once the entry points that share a private
\* function are taken together.
NodeSet == \E a \in Address, d \in Domain : SetNodeFor(a, d)
NodeDeleted == \E a \in Address : DeleteNodeOf(a)
PartySet ==
  \E id \in OcpiId, roles \in SUBSET Role, o \in Account, owner \in CredentialOwner,
     status \in PaymentStatus :
    SetParty(id, roles, o, owner, status)
PartyDeleted == \E p \in Address : DeletePartyOf(p)

\* Every step, stuttering included, is of one of the five kinds.
LEMMA NextKinds ==
  ASSUME TypeOK, [Next]_vars
  PROVE  AdminOnly \/ NodeSet \/ NodeDeleted \/ PartySet \/ PartyDeleted
<1>1. CASE UNCHANGED vars
  BY <1>1 DEF AdminOnly, TypeOK, vars, adminVars
<1>2. ASSUME NEW sender \in Account, AdminStep(sender)
      PROVE  AdminOnly \/ NodeDeleted \/ PartyDeleted
  <2>1. ASSUME NEW a \in Address, TransferOwnership(sender, a) PROVE AdminOnly
    BY <2>1 DEF TransferOwnership, Transferred, Granted, Revoked, AdminOnly, TypeOK
  <2>2. ASSUME NEW a \in Address, ReassignAdmin(sender, a) PROVE AdminOnly
    <3>1. admins' \subseteq Address
      BY <2>2 DEF ReassignAdmin, Reassigned, Granted, Revoked, TypeOK
    <3> QED
      BY <2>2, <3>1 DEF ReassignAdmin, AdminOnly, TypeOK
  <2>3. ASSUME NEW v \in Validator \union {NoAddress}, SetPartyRegistrationValidator(sender, v)
        PROVE  AdminOnly
    BY <2>3 DEF SetPartyRegistrationValidator, AdminOnly, TypeOK
  <2>4. ASSUME NEW a \in Address, AdminDeleteOperator(sender, a) PROVE NodeDeleted
    BY <2>4 DEF AdminDeleteOperator, NodeDeleted
  <2>5. ASSUME NEW id \in OcpiId \union {NoOcpiId}, AdminDeleteParty(sender, id)
        PROVE  PartyDeleted
    BY <2>5 DEF AdminDeleteParty, PartyDeleted, TypeOK
  <2> QED
    BY <1>2, <2>1, <2>2, <2>3, <2>4, <2>5 DEF AdminStep
<1>3. ASSUME NodeStep PROVE NodeSet \/ NodeDeleted
  <2>1. ASSUME NEW a \in Address, NEW d \in Domain \union {NoDomain}, SetNodeFor(a, d)
        PROVE  NodeSet
    BY <2>1 DEF SetNodeFor, NodeSet
  <2> QED
    BY <1>3, <2>1 DEF NodeStep, SetNode, SetNodeRaw, DeleteNode, DeleteNodeRaw, NodeDeleted,
       Address
<1>4. ASSUME PartyStep PROVE PartySet \/ PartyDeleted
  <2>1. ASSUME NEW id \in OcpiId \union {NoOcpiId}, NEW roles \in SUBSET Role,
               NEW operator \in Address, NEW owner \in CredentialOwner,
               NEW status \in PaymentStatus, SetParty(id, roles, operator, owner, status)
        PROVE  PartySet
    <3>1. id \in OcpiId /\ operator \in Account
      BY <2>1 DEF SetParty, Address
    <3> QED
      BY <2>1, <3>1 DEF PartySet
  <2> QED
    BY <1>4, <2>1 DEF PartyStep, DeleteParty, PartyDeleted, Address
<1> QED
  BY <1>1, <1>2, <1>3, <1>4 DEF Next

-----------------------------------------------------------------------------
(* Type correctness *)

\* What SetParty stores in the array and in the owner's details.
LEMMA SetPartyType ==
  ASSUME RegistryAssumption, TypeOK,
         NEW id \in OcpiId, NEW roles \in SUBSET Role, NEW o \in Account,
         NEW owner \in CredentialOwner, NEW status \in PaymentStatus,
         SetParty(id, roles, o, owner, status)
  PROVE  TypeOK'
<1>1. owner \in Address /\ o \in Address
  BY DEF RegistryAssumption, Address
<1>2. parties' \in Seq(Address) /\ Len(parties') <= MaxParties
  BY <1>1 DEF SetParty, PartiesWith, TypeOK, RegistryAssumption
<1>3. partyOf' \in [Address -> PartyDetails]
  <2>1. Len(parties) \in Nat /\ partyOf[owner].partyIndex \in Nat
    BY <1>1 DEF TypeOK, PartyDetails
  <2>2. PICK n \in Nat :
          partyOf' = [partyOf EXCEPT ![owner] =
            [ocpi |-> id, roles |-> roles, paymentStatus |-> status, active |-> TRUE,
             partyIndex |-> n]]
    BY <2>1 DEF SetParty, PartyIndex
  <2>3. [ocpi |-> id, roles |-> roles, paymentStatus |-> status, active |-> TRUE,
         partyIndex |-> n] \in PartyDetails
    BY DEF PartyDetails
  <2> QED
    BY <2>2, <2>3 DEF TypeOK
<1> QED
  BY <1>1, <1>2, <1>3 DEF SetParty, TypeOK, nodeVars, adminVars

\* No step breaks the type of a variable.
LEMMA TypeStep ==
  ASSUME RegistryAssumption, TypeOK, [Next]_vars
  PROVE  TypeOK'
<1>1. CASE AdminOnly
  BY <1>1 DEF AdminOnly, TypeOK, nodeVars, partyVars
<1>2. CASE NodeSet
  <2> PICK a \in Address, d \in Domain : SetNodeFor(a, d)
    BY <1>2 DEF NodeSet
  <2> QED
    BY DEF SetNodeFor, OperatorsWith, TypeOK, partyVars, adminVars
<1>3. CASE NodeDeleted
  BY <1>3 DEF NodeDeleted, DeleteNodeOf, TypeOK, partyVars, adminVars
<1>4. CASE PartySet
  BY <1>4, SetPartyType DEF PartySet
<1>5. CASE PartyDeleted
  <2> PICK p \in Address : DeletePartyOf(p)
    BY <1>5 DEF PartyDeleted
  <2>1. NoAddress \in Address /\ NoDetails \in PartyDetails
    BY DEF Address, NoDetails, PartyDetails, RegistryAssumption
  <2>2. partyOf' \in [Address -> PartyDetails] /\ operatorOf' \in [Address -> Address]
    BY <2>1 DEF DeletePartyOf, TypeOK
  <2>3. parties' \in Seq(Address) /\ Len(parties') <= MaxParties
    BY <2>1 DEF DeletePartyOf, PartiesWithout, TypeOK, PartyDetails
  <2> QED
    BY <2>1, <2>2, <2>3 DEF DeletePartyOf, PartiesWithout, TypeOK, nodeVars, adminVars
<1> QED
  BY <1>1, <1>2, <1>3, <1>4, <1>5, NextKinds

\* Every transaction keeps the type of every variable and the length of the
\* parties array within its bound.
THEOREM TypeCorrect == ASSUME RegistryAssumption PROVE Spec => []TypeOK
<1>1. Init => TypeOK
  <2>1. NoDetails \in PartyDetails
    BY DEF NoDetails, PartyDetails, RegistryAssumption
  <2> QED
    BY <2>1 DEF Init, TypeOK, Address, RegistryAssumption
<1>2. TypeOK /\ [Next]_vars => TypeOK'
  BY TypeStep
<1> QED
  BY <1>1, <1>2, PTL DEF Spec

-----------------------------------------------------------------------------
(* Nodes *)

\* No step lets two operators list one domain, or list a domain without its
\* flag.  The flag is what makes the invariant inductive: setNode only tests it.
LEMMA DomainsReservedStep ==
  ASSUME RegistryAssumption, TypeOK, DomainsReserved, [Next]_vars
  PROVE  DomainsReserved'
<1>1. CASE AdminOnly
  BY <1>1 DEF AdminOnly, nodeVars, DomainsReserved
<1>2. CASE NodeSet
  <2> PICK a \in Address, d \in Domain : SetNodeFor(a, d)
    BY <1>2 DEF NodeSet
  <2>1. \A x \in Address : nodeOf'[x] = IF x = a THEN d ELSE nodeOf[x]
    BY DEF SetNodeFor, TypeOK
  <2>2. \A x \in Address : nodeOf[x] # NoDomain => nodeOf[x] # d
    BY DEF SetNodeFor, DomainFree, DomainsReserved
  <2> QED
    BY <2>1, <2>2 DEF SetNodeFor, DomainFree, DomainsReserved
<1>3. CASE NodeDeleted
  <2> PICK a \in Address : DeleteNodeOf(a)
    BY <1>3 DEF NodeDeleted
  <2>1. \A x \in Address : nodeOf'[x] = IF x = a THEN NoDomain ELSE nodeOf[x]
    BY DEF DeleteNodeOf, TypeOK
  <2> QED
    BY <2>1 DEF DeleteNodeOf, DomainsReserved
<1>4. CASE PartySet
  BY <1>4 DEF PartySet, SetParty, nodeVars, DomainsReserved
<1>5. CASE PartyDeleted
  BY <1>5 DEF PartyDeleted, DeletePartyOf, nodeVars, DomainsReserved
<1> QED
  BY <1>1, <1>2, <1>3, <1>4, <1>5, NextKinds

\* Every listed domain is reserved and belongs to one operator, for every
\* sequence of setNode, setNodeRaw, deleteNode and admin deletions.
THEOREM DomainsStayReserved ==
  ASSUME RegistryAssumption PROVE Spec => []DomainsReserved
<1>1. Init => DomainsReserved
  BY DEF Init, DomainsReserved
<1>2. TypeOK /\ DomainsReserved /\ [Next]_vars => DomainsReserved'
  BY DomainsReservedStep
<1> QED
  BY <1>1, <1>2, TypeCorrect, PTL DEF Spec

\* OperatorsListedOnce, through the flags that setNode tests.
OperatorsFlagged ==
  /\ \A a \in Address : nodeOf[a] # NoDomain => a \in uniqueOperators
  /\ \A p \in Address : operatorOf[p] # NoAddress => operatorOf[p] \in uniqueOperators
  /\ \A o \in uniqueOperators : \E i \in DOMAIN operators : operators[i] = o
  /\ \A i \in DOMAIN operators : operators[i] \in uniqueOperators
  /\ \A i, j \in DOMAIN operators : operators[i] = operators[j] => i = j

LEMMA OperatorsFlaggedStep ==
  ASSUME RegistryAssumption, TypeOK, OperatorsFlagged, [Next]_vars
  PROVE  OperatorsFlagged'
<1>1. CASE AdminOnly
  BY <1>1 DEF AdminOnly, nodeVars, partyVars, OperatorsFlagged
<1>2. CASE NodeSet
  <2> PICK a \in Address, d \in Domain : SetNodeFor(a, d)
    BY <1>2 DEF NodeSet
  <2>1. \A x \in Address : nodeOf'[x] # NoDomain => x \in uniqueOperators'
    BY DEF SetNodeFor, TypeOK, OperatorsFlagged
  <2>2. \A p \in Address : operatorOf'[p] # NoAddress => operatorOf'[p] \in uniqueOperators'
    BY DEF SetNodeFor, partyVars, OperatorsFlagged
  <2>3. CASE a \in uniqueOperators
    <3>1. uniqueOperators' = uniqueOperators /\ operators' = operators
      BY <2>3 DEF SetNodeFor, OperatorsWith
    <3> QED
      BY <2>1, <2>2, <3>1 DEF OperatorsFlagged
  <2>4. CASE a \notin uniqueOperators
    <3>1. uniqueOperators' = uniqueOperators \union {a} /\ operators' = Append(operators, a)
      BY <2>4 DEF SetNodeFor, OperatorsWith
    <3>2. /\ DOMAIN operators = 1..Len(operators) /\ Len(operators) \in Nat
          /\ DOMAIN operators' = 1..(Len(operators) + 1)
          /\ operators'[Len(operators) + 1] = a
          /\ \A i \in DOMAIN operators : operators'[i] = operators[i]
      BY <3>1 DEF TypeOK
    <3>3. \A o \in uniqueOperators' : \E i \in DOMAIN operators' : operators'[i] = o
      BY <3>1, <3>2 DEF OperatorsFlagged
    <3>4. \A i \in DOMAIN operators' : operators'[i] \in uniqueOperators'
      BY <3>1, <3>2 DEF OperatorsFlagged
    <3>5. \A i, j \in DOMAIN operators' : operators'[i] = operators'[j] => i = j
      BY <2>4, <3>2 DEF OperatorsFlagged
    <3> QED
      BY <2>1, <2>2, <3>3, <3>4, <3>5 DEF OperatorsFlagged
  <2> QED
    BY <2>3, <2>4
<1>3. CASE NodeDeleted
  <2> PICK a \in Address : DeleteNodeOf(a)
    BY <1>3 DEF NodeDeleted
  <2> QED
    BY DEF DeleteNodeOf, partyVars, TypeOK, OperatorsFlagged
<1>4. CASE PartySet
  <2> PICK id \in OcpiId, roles \in SUBSET Role, o \in Account, owner \in CredentialOwner,
           status \in PaymentStatus : SetParty(id, roles, o, owner, status)
    BY <1>4 DEF PartySet
  <2>1. o \in uniqueOperators
    BY DEF SetParty, HasNode, OperatorsFlagged, Address
  <2>2. \A p \in Address : operatorOf'[p] = operatorOf[p] \/ operatorOf'[p] = o
    BY DEF SetParty, HasNode, TypeOK
  <2> QED
    BY <2>1, <2>2 DEF SetParty, HasNode, nodeVars, OperatorsFlagged
<1>5. CASE PartyDeleted
  <2> PICK p \in Address : DeletePartyOf(p)
    BY <1>5 DEF PartyDeleted
  <2>1. \A q \in Address : operatorOf'[q] = operatorOf[q] \/ operatorOf'[q] = NoAddress
    BY DEF DeletePartyOf, TypeOK
  <2> QED
    BY <2>1 DEF DeletePartyOf, nodeVars, OperatorsFlagged
<1> QED
  BY <1>1, <1>2, <1>3, <1>4, <1>5, NextKinds

\* getNodeOperators lists every operator that has a node, or that a party still
\* names, exactly once.
THEOREM OperatorsStayListedOnce ==
  ASSUME RegistryAssumption PROVE Spec => []OperatorsListedOnce
<1>1. Init => OperatorsFlagged
  BY DEF Init, OperatorsFlagged
<1>2. TypeOK /\ OperatorsFlagged /\ [Next]_vars => OperatorsFlagged'
  BY OperatorsFlaggedStep
<1>3. OperatorsFlagged => OperatorsListedOnce
  BY DEF OperatorsFlagged, OperatorsListedOnce, ListedParties
<1> QED
  BY <1>1, <1>2, <1>3, TypeCorrect, PTL DEF Spec

-----------------------------------------------------------------------------
(* Parties *)

\* What the mappings and the array say of the same party: the two invariants
\* about listings depend on each other and are proved together.
ListingInv == PartiesIndexed /\ ListingConsistent

LEMMA SetPartyKeepsListings ==
  ASSUME RegistryAssumption, TypeOK, ListingInv,
         NEW id \in OcpiId, NEW roles \in SUBSET Role, NEW o \in Account,
         NEW owner \in CredentialOwner, NEW status \in PaymentStatus,
         SetParty(id, roles, o, owner, status)
  PROVE  ListingInv'
<1>1. owner \in Address /\ o \in Address /\ o # NoAddress
  BY DEF RegistryAssumption, Address, SetParty
<1> DEFINE known == owner \in uniquePartyAddresses
           index == IF known THEN partyOf[owner].partyIndex ELSE Len(parties)
<1>2. /\ \A p \in Address : operatorOf'[p] = IF p = owner THEN o ELSE operatorOf[p]
      /\ \A p \in Address \ {owner} : partyOf'[p] = partyOf[p]
      /\ partyOf'[owner] = [ocpi |-> id, roles |-> roles, paymentStatus |-> status,
                            active |-> TRUE, partyIndex |-> index]
  BY <1>1 DEF SetParty, Known, PartyIndex, TypeOK
<1>3. ListedParties' = ListedParties \union {owner}
  BY <1>1, <1>2 DEF ListedParties
<1>4. known <=> owner \in ListedParties
  BY DEF ListingInv, ListingConsistent
<1>5. Len(parties) \in Nat /\ DOMAIN parties = 1..Len(parties)
  BY DEF TypeOK
<1>6. ListingConsistent'
  <2>1. uniquePartyAddresses' = ListedParties'
    BY <1>3 DEF SetParty, ListingInv, ListingConsistent
  <2>2. \A p \in Address : partyOf'[p].active <=> p \in ListedParties'
    BY <1>2, <1>3 DEF ListingInv, ListingConsistent
  <2>3. \A p \in Address : p \notin ListedParties' => partyOf'[p] = NoDetails
    BY <1>2, <1>3 DEF ListingInv, ListingConsistent
  <2> QED
    BY <2>1, <2>2, <2>3 DEF ListingConsistent
<1>7. PartiesIndexed'
  <2>1. CASE known
    <3>1. parties' = parties /\ ListedParties' = ListedParties
      BY <2>1, <1>3, <1>4 DEF SetParty, Known, PartiesWith
    <3>2. \A p \in Address : partyOf'[p].partyIndex = partyOf[p].partyIndex
      BY <1>1, <1>2, <2>1
    <3> QED
      BY <3>1, <3>2 DEF ListingInv, PartiesIndexed, TypeOK, ListedParties
  <2>2. CASE ~known
    <3>1. parties' = Append(parties, owner)
      BY <2>2 DEF SetParty, Known, PartiesWith
    <3>2. /\ Len(parties') = Len(parties) + 1
          /\ DOMAIN parties' = 1..(Len(parties) + 1)
          /\ parties'[Len(parties) + 1] = owner
          /\ \A i \in DOMAIN parties : parties'[i] = parties[i]
      BY <1>1, <1>5, <3>1 DEF TypeOK
    <3>3. partyOf'[owner].partyIndex = Len(parties)
      BY <1>2, <2>2
    <3>4. \A p \in ListedParties' :
            /\ partyOf'[p].partyIndex < Len(parties')
            /\ parties'[partyOf'[p].partyIndex + 1] = p
      <4> TAKE p \in ListedParties'
      <4>1. CASE p = owner
        BY <4>1, <3>2, <3>3, <1>5
      <4>2. CASE p # owner
        <5>1. p \in ListedParties /\ partyOf'[p] = partyOf[p] /\ p \in Address
          BY <4>2, <1>2, <1>3 DEF ListedParties
        <5>2. partyOf[p].partyIndex \in Nat
          BY <5>1 DEF TypeOK, PartyDetails
        <5> QED
          BY <5>1, <5>2, <3>2, <1>5 DEF ListingInv, PartiesIndexed
      <4> QED
        BY <4>1, <4>2
    <3>5. \A i \in DOMAIN parties' :
            parties'[i] # NoAddress =>
              /\ parties'[i] \in ListedParties'
              /\ partyOf'[parties'[i]].partyIndex + 1 = i
      <4> SUFFICES ASSUME NEW i \in DOMAIN parties', parties'[i] # NoAddress
                   PROVE  /\ parties'[i] \in ListedParties'
                          /\ partyOf'[parties'[i]].partyIndex + 1 = i
        OBVIOUS
      <4>1. CASE i = Len(parties) + 1
        BY <4>1, <3>2, <3>3, <1>3
      <4>2. CASE i # Len(parties) + 1
        <5>1. i \in DOMAIN parties /\ parties'[i] = parties[i]
          BY <4>2, <3>2, <1>5
        <5>2. parties[i] \in ListedParties /\ partyOf[parties[i]].partyIndex + 1 = i
          BY <5>1 DEF ListingInv, PartiesIndexed
        <5>3. parties[i] # owner /\ parties[i] \in Address
          BY <5>2, <1>4, <2>2 DEF ListedParties
        <5> QED
          BY <5>1, <5>2, <5>3, <1>2, <1>3
      <4> QED
        BY <4>1, <4>2
    <3> QED
      BY <3>4, <3>5 DEF PartiesIndexed
  <2> QED
    BY <2>1, <2>2
<1> QED
  BY <1>6, <1>7 DEF ListingInv

LEMMA DeletePartyKeepsListings ==
  ASSUME RegistryAssumption, TypeOK, ListingInv, NEW p \in Address, DeletePartyOf(p)
  PROVE  ListingInv'
<1>1. /\ \A q \in Address : operatorOf'[q] = IF q = p THEN NoAddress ELSE operatorOf[q]
      /\ \A q \in Address : partyOf'[q] = IF q = p THEN NoDetails ELSE partyOf[q]
      /\ p \in ListedParties
  BY DEF DeletePartyOf, TypeOK, ListedParties
<1>2. ListedParties' = ListedParties \ {p}
  BY <1>1 DEF ListedParties
<1>3. ListingConsistent'
  <2>1. uniquePartyAddresses' = ListedParties'
    BY <1>2 DEF DeletePartyOf, ListingInv, ListingConsistent
  <2>2. \A q \in Address : partyOf'[q].active <=> q \in ListedParties'
    BY <1>1, <1>2 DEF ListingInv, ListingConsistent, NoDetails
  <2>3. \A q \in Address : q \notin ListedParties' => partyOf'[q] = NoDetails
    BY <1>1, <1>2 DEF ListingInv, ListingConsistent
  <2> QED
    BY <2>1, <2>2, <2>3 DEF ListingConsistent
<1>4. PartiesIndexed'
  <2> DEFINE index == partyOf[p].partyIndex
  <2>1. index \in Nat /\ index < Len(parties) /\ parties[index + 1] = p
    BY <1>1 DEF ListingInv, PartiesIndexed, TypeOK, PartyDetails
  <2>2. /\ Len(parties') = Len(parties) /\ DOMAIN parties' = DOMAIN parties
        /\ DOMAIN parties = 1..Len(parties) /\ Len(parties) \in Nat
        /\ \A i \in DOMAIN parties : parties'[i] = IF i = index + 1 THEN NoAddress ELSE parties[i]
    BY <2>1 DEF DeletePartyOf, PartiesWithout, TypeOK
  <2>3. \A q \in ListedParties' :
          /\ partyOf'[q].partyIndex < Len(parties')
          /\ parties'[partyOf'[q].partyIndex + 1] = q
    <3> TAKE q \in ListedParties'
    <3>1. q \in ListedParties /\ q # p /\ q \in Address /\ partyOf'[q] = partyOf[q]
      BY <1>1, <1>2 DEF ListedParties
    <3>2. partyOf[q].partyIndex \in Nat
      BY <3>1 DEF TypeOK, PartyDetails
    <3>3. partyOf[q].partyIndex < Len(parties) /\ parties[partyOf[q].partyIndex + 1] = q
      BY <3>1 DEF ListingInv, PartiesIndexed
    <3> QED
      BY <2>1, <2>2, <3>1, <3>2, <3>3
  <2>4. \A i \in DOMAIN parties' :
          parties'[i] # NoAddress =>
            /\ parties'[i] \in ListedParties'
            /\ partyOf'[parties'[i]].partyIndex + 1 = i
    <3> SUFFICES ASSUME NEW i \in DOMAIN parties', parties'[i] # NoAddress
                 PROVE  /\ parties'[i] \in ListedParties'
                        /\ partyOf'[parties'[i]].partyIndex + 1 = i
      OBVIOUS
    <3>1. i \in DOMAIN parties /\ i # index + 1 /\ parties'[i] = parties[i]
      BY <2>2
    <3>2. parties[i] \in ListedParties /\ partyOf[parties[i]].partyIndex + 1 = i
      BY <3>1 DEF ListingInv, PartiesIndexed
    <3>3. parties[i] # p /\ parties[i] \in Address
      BY <3>1, <3>2 DEF ListedParties
    <3> QED
      BY <1>1, <1>2, <3>1, <3>2, <3>3
  <2> QED
    BY <2>3, <2>4 DEF PartiesIndexed
<1> QED
  BY <1>3, <1>4 DEF ListingInv

LEMMA ListingInvStep ==
  ASSUME RegistryAssumption, TypeOK, ListingInv, [Next]_vars
  PROVE  ListingInv'
<1>1. ASSUME UNCHANGED partyVars PROVE ListingInv'
  BY <1>1 DEF partyVars, ListingInv, PartiesIndexed, ListingConsistent, ListedParties
<1>2. AdminOnly \/ NodeSet \/ NodeDeleted => UNCHANGED partyVars
  BY DEF AdminOnly, NodeSet, SetNodeFor, NodeDeleted, DeleteNodeOf
<1>3. CASE PartySet
  BY <1>3, SetPartyKeepsListings DEF PartySet
<1>4. CASE PartyDeleted
  BY <1>4, DeletePartyKeepsListings DEF PartyDeleted
<1> QED
  BY <1>1, <1>2, <1>3, <1>4, NextKinds

\* ListingInv holds of every reachable state.
LEMMA ListingInvariant == ASSUME RegistryAssumption PROVE Spec => []ListingInv
<1>1. Init => ListingInv
  BY DEF Init, ListingInv, PartiesIndexed, ListingConsistent, ListedParties, NoDetails
<1>2. TypeOK /\ ListingInv /\ [Next]_vars => ListingInv'
  BY ListingInvStep
<1> QED
  BY <1>1, <1>2, TypeCorrect, PTL DEF Spec

\* The parties array and the parties' indexes always agree, so deleting a party
\* never blanks the entry of another.
THEOREM PartiesStayIndexed == ASSUME RegistryAssumption PROVE Spec => []PartiesIndexed
<1>1. ListingInv => PartiesIndexed
  BY DEF ListingInv
<1> QED
  BY <1>1, ListingInvariant, PTL

\* The mappings always agree on who is listed, and a deleted party leaves no
\* details behind.
THEOREM ListingsStayConsistent ==
  ASSUME RegistryAssumption PROVE Spec => []ListingConsistent
<1>1. ListingInv => ListingConsistent
  BY DEF ListingInv
<1> QED
  BY <1>1, ListingInvariant, PTL

-----------------------------------------------------------------------------
(* The lists of parties.  The loop over `parties` is a fold: a recursive     *)
(* function over sets of positions, each taken from its last position.       *)

LEMMA LeastNumber ==
  ASSUME NEW T \in SUBSET Nat, T # {}
  PROVE  \E n \in T : \A m \in T : n <= m
<1> DEFINE R == OpToRel(<, Nat)
<1>1. \A a, b \in Nat : a < b => <<a, b>> \in R
  BY DEF OpToRel
<1>2. IsWellFoundedOn(R, Nat)
  BY NatLessThanWellFounded
<1> HIDE DEF R
<1>3. PICK n \in T : \A m \in T : <<m, n>> \notin R
  BY <1>2, WFMin
<1>4. ASSUME NEW m \in T PROVE n <= m
  <2>1. ~(m < n)
    BY <1>1, <1>3
  <2> QED BY <2>1
<1> QED BY <1>4

LEMMA LastPosition ==
  ASSUME NEW n \in Nat, NEW s \in SUBSET (1..n), s # {}
  PROVE  /\ Max(s) \in s
         /\ \A i \in s : i <= Max(s)
<1> DEFINE after == {n - j : j \in s}
<1>1. after \in SUBSET Nat /\ after # {}
  <2>1. \A j \in s : j \in 1..n
    OBVIOUS
  <2>2. \A j \in 1..n : n - j \in Nat
    OBVIOUS
  <2> QED BY <2>1, <2>2
<1>2. PICK k \in after : \A l \in after : k <= l
  BY <1>1, LeastNumber
<1>3. PICK i \in s : k = n - i
  OBVIOUS
<1>4. \A j \in s : i >= j
  <2> SUFFICES ASSUME NEW j \in s PROVE i >= j
    OBVIOUS
  <2>1. n - i <= n - j
    BY <1>2, <1>3
  <2> QED BY <2>1
<1> QED BY <1>4 DEF Max

\* The positions of s whose entry is chosen; those up to i; the k-th of them;
\* and the entries there.
Hits(seq, chosen, s) == {i \in s : seq[i] \in chosen}

HitsUpTo(seq, chosen, s, i) == {j \in Hits(seq, chosen, s) : j <= i}

Kth(seq, chosen, s, k) ==
  CHOOSE i : i \in {j \in Hits(seq, chosen, s) : Cardinality(HitsUpTo(seq, chosen, s, j)) = k}

Entries(seq, chosen, s) ==
  [k \in 1..Cardinality(Hits(seq, chosen, s)) |-> seq[Kth(seq, chosen, s, k)]]

LEMMA AppendedIs ==
  ASSUME NEW m \in Nat, NEW e, e = [k \in 1..m |-> e[k]], NEW v
  PROVE  Append(e, v) = [k \in 1..m + 1 |-> IF k = m + 1 THEN v ELSE e[k]]
<1> DEFINE S == {e[k] : k \in 1..m} \union {v}
<1>1. e \in Seq(S) /\ v \in S /\ Len(e) = m
  OBVIOUS
<1> HIDE DEF S
<1>2. /\ Append(e, v) \in Seq(S)
      /\ Len(Append(e, v)) = m + 1
      /\ \A k \in 1..m : Append(e, v)[k] = e[k]
      /\ Append(e, v)[m + 1] = v
  BY <1>1, AppendProperties
<1>3. Append(e, v) = [k \in 1..m + 1 |-> Append(e, v)[k]]
  BY <1>2
<1>4. \A k \in 1..m + 1 : k # m + 1 => k \in 1..m
  OBVIOUS
<1> QED BY <1>2, <1>3, <1>4

\* One more pass of the loop, over an entry that is chosen or not.
Pass(now, before, entry, chosen) ==
  now = IF entry \in chosen THEN Append(before, entry) ELSE before

LEMMA OneMoreEntry ==
  ASSUME NEW n \in Nat, NEW seq, NEW chosen, NEW s \in SUBSET (1..n), NEW x \in s, \A i \in s : i <= x
  PROVE  Pass(Entries(seq, chosen, s), Entries(seq, chosen, s \ {x}), seq[x], chosen)
<1> DEFINE t == s \ {x}
           H == Hits(seq, chosen, t)
           count == Cardinality(H)
<1>0. /\ x \in Nat /\ s \in SUBSET Nat
      /\ \A i \in t : i \in Nat /\ i < x
  OBVIOUS
<1>1. /\ IsFiniteSet(H) /\ count \in Nat
      /\ \A j \in H : /\ IsFiniteSet(HitsUpTo(seq, chosen, t, j))
                      /\ Cardinality(HitsUpTo(seq, chosen, t, j)) <= count
                      /\ Cardinality(HitsUpTo(seq, chosen, t, j)) \in Nat
  <2>1. H \subseteq 1..n /\ IsFiniteSet(1..n)
    <3>1. H \subseteq 1..n
      BY DEF Hits
    <3>2. 1 \in Int /\ n \in Int
      OBVIOUS
    <3> QED BY <3>1, <3>2, FS_Interval
  <2>2. IsFiniteSet(H) /\ count \in Nat
    BY <2>1, FS_Subset, FS_CardinalityType
  <2>3. \A j \in H : HitsUpTo(seq, chosen, t, j) \subseteq H
    BY DEF HitsUpTo
  <2> QED BY <2>2, <2>3, FS_Subset, FS_CardinalityType
<1>2. CASE seq[x] \notin chosen
  <2>1. Hits(seq, chosen, s) = H
    BY <1>2 DEF Hits
  <2>2. \A j : HitsUpTo(seq, chosen, s, j) = HitsUpTo(seq, chosen, t, j)
    BY <2>1 DEF HitsUpTo
  <2>3. \A k : Kth(seq, chosen, s, k) = Kth(seq, chosen, t, k)
    BY <2>1, <2>2 DEF Kth
  <2> QED BY <1>2, <2>1, <2>3 DEF Entries, Pass
<1>3. CASE seq[x] \in chosen
  <2>1. Hits(seq, chosen, s) = H \union {x} /\ x \notin H
    BY <1>3 DEF Hits
  <2>2. Cardinality(Hits(seq, chosen, s)) = count + 1
    BY <1>1, <2>1, FS_AddElement
  <2>3. \A j \in H : HitsUpTo(seq, chosen, s, j) = HitsUpTo(seq, chosen, t, j)
    <3>1. \A j \in H : j \in Nat /\ j < x
      BY <1>0 DEF Hits
    <3>2. \A j \in H : ~(x <= j)
      BY <1>0, <3>1
    <3> HIDE DEF H
    <3> QED BY <2>1, <3>2 DEF HitsUpTo, H
  <2>4. HitsUpTo(seq, chosen, s, x) = Hits(seq, chosen, s)
    BY DEF HitsUpTo, Hits
  <2> HIDE DEF H, count
  <2>5. ASSUME NEW k \in 1..count PROVE Kth(seq, chosen, s, k) = Kth(seq, chosen, t, k)
    <3>1. \A j : /\ j \in Hits(seq, chosen, s)
                 /\ Cardinality(HitsUpTo(seq, chosen, s, j)) = k
                 => j \in H
      <4>1. k # count + 1
        BY <1>1
      <4> QED BY <2>1, <2>2, <2>4, <4>1
    <3>2. {j \in Hits(seq, chosen, s) : Cardinality(HitsUpTo(seq, chosen, s, j)) = k} =
          {j \in H : Cardinality(HitsUpTo(seq, chosen, t, j)) = k}
      BY <2>1, <2>3, <3>1
    <3> QED BY <3>2 DEF Kth, H
  <2>6. Kth(seq, chosen, s, count + 1) = x
    <3>1. \A j \in H : Cardinality(HitsUpTo(seq, chosen, s, j)) # count + 1
      BY <1>1, <2>3
    <3>2. {j \in Hits(seq, chosen, s) : Cardinality(HitsUpTo(seq, chosen, s, j)) = count + 1} = {x}
      BY <2>1, <2>2, <2>4, <3>1
    <3> QED BY <3>2 DEF Kth
  <2> DEFINE now == Entries(seq, chosen, s)
             before == Entries(seq, chosen, t)
  <2>7. now = [k \in 1..count + 1 |-> IF k = count + 1 THEN seq[x] ELSE before[k]]
    <3>1. \A k \in 1..count + 1 : k # count + 1 => k \in 1..count
      BY <1>1
    <3>2. \A k \in 1..count : before[k] = seq[Kth(seq, chosen, t, k)]
      BY DEF Entries, count, H
    <3>3. now = [k \in 1..count + 1 |-> seq[Kth(seq, chosen, s, k)]]
      BY <2>2 DEF Entries
    <3> HIDE DEF now, before
    <3> QED BY <2>5, <2>6, <3>1, <3>2, <3>3
  <2>8. Append(before, seq[x]) =
          [k \in 1..count + 1 |-> IF k = count + 1 THEN seq[x] ELSE before[k]]
    <3>1. before = [k \in 1..count |-> seq[Kth(seq, chosen, t, k)]]
      BY DEF Entries, count, H
    <3>2. before = [k \in 1..count |-> before[k]]
      BY <3>1
    <3> HIDE DEF before
    <3> QED BY <1>1, <3>2, AppendedIs
  <2> QED BY <1>3, <2>7, <2>8 DEF Pass
<1> QED BY <1>2, <1>3

LEMMA LoopOverParties ==
  ASSUME TypeOK, NEW chosen
  PROVE  \E g : /\ PartiesAmong(chosen) = g[DOMAIN parties]
                /\ g[{}] = << >>
                /\ \A s \in SUBSET DOMAIN parties :
                     s # {} => g[s] = IF parties[Max(s)] \in chosen
                                      THEN Append(g[s \ {Max(s)}], parties[Max(s)])
                                      ELSE g[s \ {Max(s)}]
<1> DEFINE D == DOMAIN parties
           Eq(g) == g = [s \in SUBSET D |->
                      IF s = {} THEN << >>
                      ELSE IF parties[Max(s)] \in chosen
                           THEN Append(g[s \ {Max(s)}], parties[Max(s)])
                           ELSE g[s \ {Max(s)}]]
           closed == [s \in SUBSET D |-> Entries(parties, chosen, s)]
<1>1. PartiesAmong(chosen) = (CHOOSE g : Eq(g))[D]
  BY DEF PartiesAmong, FoldLeft, MapThenFoldSet
<1>2. D = 1..Len(parties) /\ Len(parties) \in Nat /\ \A i \in D : parties[i] \in Address
  BY DEF TypeOK
<1>3. \A s \in SUBSET D : s # {} => Max(s) \in s /\ \A i \in s : i <= Max(s)
  BY <1>2, LastPosition
<1>4. Eq(closed)
  <2>1. closed[{}] = << >>
    <3>1. Hits(parties, chosen, {}) = {}
      BY DEF Hits
    <3>2. Cardinality(Hits(parties, chosen, {})) = 0
      BY <3>1, FS_EmptySet
    <3> QED BY <3>2 DEF Entries
  <2>2. ASSUME NEW s \in SUBSET D, s # {}
        PROVE  closed[s] = IF parties[Max(s)] \in chosen
                           THEN Append(closed[s \ {Max(s)}], parties[Max(s)])
                           ELSE closed[s \ {Max(s)}]
    <3>1. Pass(Entries(parties, chosen, s), Entries(parties, chosen, s \ {Max(s)}),
               parties[Max(s)], chosen)
      BY <1>2, <1>3, <2>2, OneMoreEntry
    <3> QED BY <3>1 DEF Pass
  <2> QED BY <2>1, <2>2
<1>5. Eq(CHOOSE g : Eq(g))
  BY <1>4
<1> QED BY <1>1, <1>5

\* A party that is in the array once is found once if it is chosen, and never
\* if it is not.
LEMMA FoundOnce ==
  ASSUME TypeOK, NEW chosen, NEW p, NEW at \in DOMAIN parties,
         \A i \in DOMAIN parties : parties[i] = p <=> i = at
  PROVE  LET found == Occurrences(p, PartiesAmong(chosen)) IN
         IF p \in chosen THEN \E k \in found : found = {k} ELSE found = {}
<1> DEFINE D == DOMAIN parties
<1>0. PICK g : /\ PartiesAmong(chosen) = g[D]
               /\ g[{}] = << >>
               /\ \A s \in SUBSET D :
                    s # {} => g[s] = IF parties[Max(s)] \in chosen
                                     THEN Append(g[s \ {Max(s)}], parties[Max(s)])
                                     ELSE g[s \ {Max(s)}]
  BY LoopOverParties
<1> DEFINE Fine(s) ==
             /\ g[s] \in Seq(Address)
             /\ IF p \in chosen /\ at \in s
                THEN \E k \in Occurrences(p, g[s]) : Occurrences(p, g[s]) = {k}
                ELSE Occurrences(p, g[s]) = {}
<1>1. D = 1..Len(parties) /\ Len(parties) \in Nat /\ \A i \in D : parties[i] \in Address
  BY DEF TypeOK
<1>2. \A s \in SUBSET D : s # {} => Max(s) \in s
  BY <1>1, LastPosition
<1>3. Fine({})
  BY <1>0 DEF Occurrences
<1>4. ASSUME NEW s \in SUBSET D, s # {}, Fine(s \ {Max(s)}) PROVE Fine(s)
  <2> DEFINE x == Max(s)
             before == g[s \ {Max(s)}]
  <2>1. x \in s /\ x \in D /\ parties[x] \in Address
    BY <1>1, <1>2, <1>4
  <2>2. g[s] = IF parties[x] \in chosen THEN Append(before, parties[x]) ELSE before
    BY <1>0, <1>4
  <2>3. before \in Seq(Address)
    BY <1>4
  <2>4. /\ Append(before, parties[x]) \in Seq(Address)
        /\ Occurrences(p, Append(before, parties[x])) =
             Occurrences(p, before) \union (IF x = at THEN {Len(before) + 1} ELSE {})
    <3> HIDE DEF before, x
    <3>1. /\ Append(before, parties[x]) \in Seq(Address)
          /\ Len(Append(before, parties[x])) = Len(before) + 1
          /\ \A i \in 1..Len(before) : Append(before, parties[x])[i] = before[i]
          /\ Append(before, parties[x])[Len(before) + 1] = parties[x]
      BY <2>1, <2>3, AppendProperties
    <3>2. DOMAIN Append(before, parties[x]) = 1..Len(before) \union {Len(before) + 1}
      BY <2>3, <3>1
    <3>3. DOMAIN before = 1..Len(before)
      BY <2>3
    <3>4. parties[x] = p <=> x = at
      BY <2>1
    <3> QED BY <3>1, <3>2, <3>3, <3>4 DEF Occurrences
  <2>5. at \in s <=> at \in s \ {x} \/ x = at
    BY <2>1
  <2>6. at \notin s \ {x} => Occurrences(p, before) = {}
    BY <1>4
  <2>7. p \notin chosen => Occurrences(p, before) = {}
    BY <1>4
  <2>8. p \in chosen /\ at \in s \ {x} =>
          \E k \in Occurrences(p, before) : Occurrences(p, before) = {k}
    BY <1>4
  <2>9. parties[x] = p <=> x = at
    BY <2>1
  <2> HIDE DEF before, x
  <2>10. CASE x = at
    BY <2>1, <2>2, <2>3, <2>4, <2>6, <2>9, <2>10
  <2>11. CASE x # at
    BY <2>2, <2>3, <2>4, <2>5, <2>6, <2>7, <2>8, <2>11
  <2> QED BY <2>10, <2>11
<1>5. Fine(D)
  <2> DEFINE Bad == {s \in SUBSET D : ~Fine(s)}
  <2> SUFFICES ASSUME Bad # {} PROVE FALSE
    OBVIOUS
  <2>1. IsWellFoundedOn(StrictSubsetOrdering(D), SUBSET D)
    <3>1. IsFiniteSet(D)
      BY <1>1, FS_Interval
    <3> QED BY <3>1, FS_StrictSubsetOrderingWellFounded, FS_FiniteSubsetsOfFinite
  <2> HIDE DEF Fine
  <2>2. PICK s \in Bad : \A t \in Bad : <<t, s>> \notin StrictSubsetOrdering(D)
    BY <2>1, WFMin
  <2>3. s \in SUBSET D /\ s # {}
    BY <1>3
  <2>4. Max(s) \in s /\ s \ {Max(s)} \in SUBSET D
    BY <1>2, <2>3
  <2>5. s \ {Max(s)} \notin Bad
    <3>1. s \ {Max(s)} # s
      BY <2>4
    <3>2. <<s \ {Max(s)}, s>> \in StrictSubsetOrdering(D)
      BY <2>3, <2>4, <3>1 DEF StrictSubsetOrdering
    <3> QED BY <2>2, <3>2
  <2> QED BY <1>4, <2>3, <2>4, <2>5
<1> QED BY <1>0, <1>5

\* Each listed party is returned by getPartiesByOperator for its own operator
\* only, once, and by getPartiesByRole once for each of its roles: it is in the
\* array of parties once.
THEOREM PartiesListedOncePerQuery ==
  ASSUME RegistryAssumption PROVE Spec => []ListedOncePerQuery
<1>1. ASSUME TypeOK, PartiesIndexed, NEW p \in ListedParties \ {NoAddress}, NEW chosen
      PROVE  LET found == Occurrences(p, PartiesAmong(chosen)) IN
             IF p \in chosen THEN \E i \in found : found = {i} ELSE found = {}
  <2> DEFINE at == partyOf[p].partyIndex + 1
  <2>1. at \in DOMAIN parties /\ parties[at] = p
    <3>1. p \in Address /\ partyOf[p].partyIndex \in Nat
      BY <1>1 DEF TypeOK, ListedParties, PartyDetails
    <3>2. parties \in Seq(Address)
      BY <1>1 DEF TypeOK
    <3> QED BY <1>1, <3>1, <3>2 DEF PartiesIndexed
  <2>2. \A i \in DOMAIN parties : parties[i] = p <=> i = at
    BY <1>1, <2>1 DEF PartiesIndexed
  <2> HIDE DEF at
  <2> QED BY <1>1, <2>1, <2>2, FoundOnce
<1>2. TypeOK /\ PartiesIndexed => ListedOncePerQuery
  <2> SUFFICES ASSUME TypeOK, PartiesIndexed, NEW p \in ListedParties \ {NoAddress}
               PROVE  /\ \A o \in Account :
                           LET found == Occurrences(p, GetPartiesByOperator(o)) IN
                           IF o = operatorOf[p] THEN \E i \in found : found = {i} ELSE found = {}
                      /\ \A r \in Role :
                           LET found == Occurrences(p, GetPartiesByRole(r)) IN
                           IF r \in partyOf[p].roles THEN \E i \in found : found = {i} ELSE found = {}
    BY DEF ListedOncePerQuery
  <2>1. p \in Address
    BY DEF ListedParties
  <2>2. ASSUME NEW o \in Account
        PROVE  LET found == Occurrences(p, GetPartiesByOperator(o)) IN
               IF o = operatorOf[p] THEN \E i \in found : found = {i} ELSE found = {}
    <3> DEFINE chosen == {q \in Address : operatorOf[q] = o}
    <3>1. p \in chosen <=> o = operatorOf[p]
      BY <2>1
    <3>2. GetPartiesByOperator(o) = PartiesAmong(chosen)
      BY DEF GetPartiesByOperator
    <3> HIDE DEF chosen
    <3> QED BY <1>1, <3>1, <3>2
  <2>3. ASSUME NEW r \in Role
        PROVE  LET found == Occurrences(p, GetPartiesByRole(r)) IN
               IF r \in partyOf[p].roles THEN \E i \in found : found = {i} ELSE found = {}
    <3> DEFINE chosen == {q \in Address : r \in partyOf[q].roles}
    <3>1. p \in chosen <=> r \in partyOf[p].roles
      BY <2>1
    <3>2. GetPartiesByRole(r) = PartiesAmong(chosen)
      BY DEF GetPartiesByRole
    <3> HIDE DEF chosen
    <3> QED BY <1>1, <3>1, <3>2
  <2> QED BY <2>2, <2>3
<1> QED BY <1>2, TypeCorrect, PartiesStayIndexed, PTL

-----------------------------------------------------------------------------
(* Ids: from here on certificates name owners other than address 0, which the *)
(* validator itself does not refuse                                           *)

\* Every listed party holds the id of its listing.
IdHeld ==
  \A p \in ListedParties :
    /\ p # NoAddress
    /\ partyOf[p].ocpi \in OcpiId
    /\ uniqueParties[partyOf[p].ocpi] = p

LEMMA IdHeldStep ==
  ASSUME RegistryAssumption, NoAddress \notin CredentialOwner, TypeOK, IdHeld, [Next]_vars
  PROVE  IdHeld'
<1>1. ASSUME UNCHANGED partyVars PROVE IdHeld'
  BY <1>1 DEF partyVars, IdHeld, ListedParties
<1>2. AdminOnly \/ NodeSet \/ NodeDeleted => UNCHANGED partyVars
  BY DEF AdminOnly, NodeSet, SetNodeFor, NodeDeleted, DeleteNodeOf
<1>3. CASE PartySet
  <2> PICK id \in OcpiId, roles \in SUBSET Role, o \in Account, owner \in CredentialOwner,
           status \in PaymentStatus : SetParty(id, roles, o, owner, status)
    BY <1>3 DEF PartySet
  <2>1. owner \in Address /\ owner # NoAddress
    BY DEF RegistryAssumption
  <2>2. uniqueParties[id] \in {NoAddress, owner}
    BY DEF SetParty, IdFree
  <2>3. \A x \in OcpiId : uniqueParties'[x] = IF x = id THEN owner ELSE uniqueParties[x]
    BY DEF SetParty, IdFree, TypeOK
  <2>4. /\ partyOf'[owner].ocpi = id
        /\ \A p \in Address \ {owner} : partyOf'[p] = partyOf[p] /\ operatorOf'[p] = operatorOf[p]
    BY <2>1 DEF SetParty, TypeOK
  <2> SUFFICES ASSUME NEW p \in ListedParties'
               PROVE  /\ p # NoAddress
                      /\ partyOf'[p].ocpi \in OcpiId
                      /\ uniqueParties'[partyOf'[p].ocpi] = p
    BY DEF IdHeld
  <2>5. CASE p = owner
    BY <2>5, <2>1, <2>3, <2>4
  <2>6. CASE p # owner
    <3>1. p \in ListedParties /\ partyOf'[p] = partyOf[p]
      BY <2>6, <2>4 DEF ListedParties
    <3>2. p # NoAddress /\ partyOf[p].ocpi \in OcpiId /\ uniqueParties[partyOf[p].ocpi] = p
      BY <3>1 DEF IdHeld
    <3>3. partyOf[p].ocpi # id
      BY <2>2, <2>6, <3>2
    <3> QED
      BY <2>3, <3>1, <3>2, <3>3
  <2> QED
    BY <2>5, <2>6
<1>4. CASE PartyDeleted
  <2> PICK p \in Address : DeletePartyOf(p)
    BY <1>4 DEF PartyDeleted
  <2>1. p \in ListedParties
    BY DEF DeletePartyOf, ListedParties
  <2>2. uniqueParties[partyOf[p].ocpi] = p
    BY <2>1 DEF IdHeld
  <2> SUFFICES ASSUME NEW q \in ListedParties'
               PROVE  /\ q # NoAddress
                      /\ partyOf'[q].ocpi \in OcpiId
                      /\ uniqueParties'[partyOf'[q].ocpi] = q
    BY DEF IdHeld
  <2>3. q \in ListedParties /\ q # p /\ partyOf'[q] = partyOf[q]
    BY DEF DeletePartyOf, ListedParties, TypeOK
  <2>4. q # NoAddress /\ partyOf[q].ocpi \in OcpiId /\ uniqueParties[partyOf[q].ocpi] = q
    BY <2>3 DEF IdHeld
  <2>5. partyOf[q].ocpi # partyOf[p].ocpi
    BY <2>2, <2>3, <2>4
  <2>6. uniqueParties'[partyOf[q].ocpi] = q
    BY <2>4, <2>5 DEF DeletePartyOf, TypeOK
  <2> QED
    BY <2>3, <2>4, <2>6
<1> QED
  BY <1>1, <1>2, <1>3, <1>4, NextKinds

LEMMA IdHeldInvariant ==
  ASSUME RegistryAssumption, NoAddress \notin CredentialOwner PROVE Spec => []IdHeld
<1>1. Init => IdHeld
  BY DEF Init, IdHeld, ListedParties
<1>2. TypeOK /\ IdHeld /\ [Next]_vars => IdHeld'
  BY IdHeldStep
<1> QED
  BY <1>1, <1>2, TypeCorrect, PTL DEF Spec

\* A listed party is always found under its own country_code/party_id, so
\* looking it up by address and by OCPI credentials gives the same node.
THEOREM PartiesFoundUnderOwnId ==
  ASSUME RegistryAssumption, NoAddress \notin CredentialOwner
  PROVE  Spec => []FoundUnderOwnId
<1>1. IdHeld => FoundUnderOwnId
  BY DEF IdHeld, FoundUnderOwnId, GetOperatorByOcpi
<1> QED
  BY <1>1, IdHeldInvariant, PTL

\* No id passes from one address to another while its holder is listed.
THEOREM IdsReleasedByDelistingOnly ==
  ASSUME RegistryAssumption, NoAddress \notin CredentialOwner
  PROVE  Spec => IdReleasedByDelistingOnly
<1> DEFINE Released ==
      \A id \in OcpiId :
        uniqueParties[id] # NoAddress /\ uniqueParties'[id] # uniqueParties[id] =>
          /\ uniqueParties'[id] = NoAddress
          /\ operatorOf[uniqueParties[id]] # NoAddress
          /\ operatorOf'[uniqueParties[id]] = NoAddress
<1>1. TypeOK /\ IdHeld /\ [Next]_vars => [Released]_vars
  <2> SUFFICES ASSUME TypeOK, IdHeld, [Next]_vars PROVE Released
    OBVIOUS
  <2>1. AdminOnly \/ NodeSet \/ NodeDeleted => Released
    BY DEF AdminOnly, NodeSet, SetNodeFor, NodeDeleted, DeleteNodeOf, partyVars
  <2>2. CASE PartySet
    BY <2>2 DEF PartySet, SetParty, IdFree, TypeOK
  <2>3. CASE PartyDeleted
    <3> PICK p \in Address : DeletePartyOf(p)
      BY <2>3 DEF PartyDeleted
    <3>1. /\ uniqueParties[partyOf[p].ocpi] = p
          /\ operatorOf[p] # NoAddress /\ operatorOf'[p] = NoAddress
      BY DEF DeletePartyOf, IdHeld, ListedParties, TypeOK
    <3>2. \A id \in OcpiId : uniqueParties'[id] =
            IF id = partyOf[p].ocpi THEN NoAddress ELSE uniqueParties[id]
      BY DEF DeletePartyOf, TypeOK
    <3> QED
      BY <3>1, <3>2
  <2> QED
    BY <2>1, <2>2, <2>3, NextKinds
<1> QED
  BY <1>1, TypeCorrect, IdHeldInvariant, PTL DEF Spec, IdReleasedByDelistingOnly

\* A transaction that changes one party's listing leaves every other listing,
\* and the ids the others hold, as they are.
THEOREM TransactionsTouchOneListing ==
  ASSUME RegistryAssumption, NoAddress \notin CredentialOwner
  PROVE  Spec => OneListingPerTransaction
<1> DEFINE One ==
      \A p, q \in Account :
        <<partyOf[p], operatorOf[p]>>' # <<partyOf[p], operatorOf[p]>> /\ q # p =>
          /\ <<partyOf[q], operatorOf[q]>>' = <<partyOf[q], operatorOf[q]>>
          /\ \A id \in OcpiId : uniqueParties[id] = q => uniqueParties'[id] = q
<1>1. TypeOK /\ IdHeld /\ [Next]_vars => [One]_vars
  <2> SUFFICES ASSUME TypeOK, IdHeld, [Next]_vars PROVE One
    OBVIOUS
  <2> USE DEF Address
  <2>1. AdminOnly \/ NodeSet \/ NodeDeleted => One
    BY DEF AdminOnly, NodeSet, SetNodeFor, NodeDeleted, DeleteNodeOf, partyVars
  <2>2. CASE PartySet
    <3> PICK id \in OcpiId, roles \in SUBSET Role, o \in Account, owner \in CredentialOwner,
             status \in PaymentStatus : SetParty(id, roles, o, owner, status)
      BY <2>2 DEF PartySet
    <3>1. \A p \in Address \ {owner} : partyOf'[p] = partyOf[p] /\ operatorOf'[p] = operatorOf[p]
      BY DEF SetParty, TypeOK
    <3>2. \A q \in Account \ {owner} : \A x \in OcpiId :
            uniqueParties[x] = q => uniqueParties'[x] = q
      BY DEF SetParty, IdFree, TypeOK, RegistryAssumption
    <3> QED
      BY <3>1, <3>2
  <2>3. CASE PartyDeleted
    <3> PICK p \in Address : DeletePartyOf(p)
      BY <2>3 DEF PartyDeleted
    <3>1. \A q \in Address \ {p} : partyOf'[q] = partyOf[q] /\ operatorOf'[q] = operatorOf[q]
      BY DEF DeletePartyOf, TypeOK
    <3>2. uniqueParties[partyOf[p].ocpi] = p
      BY DEF DeletePartyOf, IdHeld, ListedParties
    <3>3. \A x \in OcpiId : uniqueParties[x] # p => uniqueParties'[x] = uniqueParties[x]
      BY <3>2 DEF DeletePartyOf, TypeOK
    <3> QED
      BY <3>1, <3>3
  <2> QED
    BY <2>1, <2>2, <2>3, NextKinds
<1> QED
  BY <1>1, TypeCorrect, IdHeldInvariant, PTL DEF Spec, OneListingPerTransaction

\* Entries of the two arrays never move: they are appended, and a party's entry
\* is blanked at most.
THEOREM PositionsAreStable ==
  ASSUME RegistryAssumption PROVE Spec => PositionsStable
<1> DEFINE Stable ==
      /\ \A i \in DOMAIN operators : i \in DOMAIN operators' /\ operators'[i] = operators[i]
      /\ \A i \in DOMAIN parties :
           i \in DOMAIN parties' /\ parties'[i] \in {parties[i], NoAddress}
<1>1. TypeOK /\ [Next]_vars => [Stable]_vars
  <2> SUFFICES ASSUME TypeOK, [Next]_vars PROVE Stable
    OBVIOUS
  <2>1. CASE AdminOnly
    BY <2>1 DEF AdminOnly, nodeVars, partyVars
  <2>2. CASE NodeSet
    BY <2>2 DEF NodeSet, SetNodeFor, OperatorsWith, partyVars, TypeOK
  <2>3. CASE NodeDeleted
    BY <2>3 DEF NodeDeleted, DeleteNodeOf, partyVars
  <2>4. CASE PartySet
    <3> PICK id \in OcpiId, roles \in SUBSET Role, o \in Account, owner \in CredentialOwner,
             status \in PaymentStatus : SetParty(id, roles, o, owner, status)
      BY <2>4 DEF PartySet
    <3>1. parties' = parties \/ parties' = Append(parties, owner)
      BY DEF SetParty, PartiesWith
    <3>2. owner \in Address
      BY DEF RegistryAssumption
    <3> QED
      BY <3>1, <3>2 DEF SetParty, PartiesWith, nodeVars, TypeOK
  <2>5. CASE PartyDeleted
    <3> PICK p \in Address : DeletePartyOf(p)
      BY <2>5 DEF PartyDeleted
    <3>1. parties' = [parties EXCEPT ![partyOf[p].partyIndex + 1] = NoAddress]
      BY DEF DeletePartyOf, PartiesWithout
    <3> QED
      BY <3>1 DEF DeletePartyOf, PartiesWithout, nodeVars, TypeOK
  <2> QED
    BY <2>1, <2>2, <2>3, <2>4, <2>5, NextKinds
<1> QED
  BY <1>1, TypeCorrect, PTL DEF Spec, PositionsStable

-----------------------------------------------------------------------------
(* The contract implements the directory *)

LEMMA DirectoryStep ==
  ASSUME RegistryAssumption, NoAddress \notin CredentialOwner,
         TypeOK, DomainsReserved, IdHeld, [Next]_vars
  PROVE  [Dir!Next]_(Dir!vars)
<1> DEFINE ListingOf(p) == [ocpi |-> partyOf[p].ocpi, roles |-> partyOf[p].roles,
                            operator |-> operatorOf[p]]
<1>1. CASE AdminOnly
  BY <1>1 DEF AdminOnly, nodeVars, partyVars, Dir!vars, Listings
<1>2. CASE NodeSet
  <2> PICK a \in Address, d \in Domain : SetNodeFor(a, d)
    BY <1>2 DEF NodeSet
  <2>1. \A other \in Address : nodeOf[other] # d
    BY DEF SetNodeFor, DomainFree, DomainsReserved
  <2>2. Listings' = Listings
    BY DEF SetNodeFor, DomainFree, partyVars, Listings
  <2>3. Dir!PublishNode(a, d)
    BY <2>1, <2>2 DEF SetNodeFor, DomainFree, Dir!PublishNode
  <2> QED
    BY <2>3 DEF Dir!Next
<1>3. CASE NodeDeleted
  <2> PICK a \in Address : DeleteNodeOf(a)
    BY <1>3 DEF NodeDeleted
  <2>1. Listings' = Listings
    BY DEF DeleteNodeOf, partyVars, Listings
  <2>2. Dir!RetireNode(a)
    BY <2>1 DEF DeleteNodeOf, Dir!RetireNode
  <2> QED
    BY <2>2 DEF Dir!Next
<1>4. CASE PartySet
  <2> PICK id \in OcpiId, roles \in SUBSET Role, o \in Account, owner \in CredentialOwner,
           status \in PaymentStatus : SetParty(id, roles, o, owner, status)
    BY <1>4 DEF PartySet
  <2> DEFINE l == [ocpi |-> id, roles |-> roles, operator |-> o]
  <2>1. owner \in Account /\ owner \in Address /\ o \in Address /\ o # NoAddress
    BY DEF RegistryAssumption, Address
  <2>2. l \in Dir!Listing
    BY <2>1 DEF SetParty, Dir!Listing
  <2>3. /\ partyOf'[owner].ocpi = id /\ partyOf'[owner].roles = roles /\ operatorOf'[owner] = o
        /\ \A p \in Address \ {owner} : partyOf'[p] = partyOf[p] /\ operatorOf'[p] = operatorOf[p]
    BY <2>1 DEF SetParty, TypeOK
  <2>4. Listings' = [Listings EXCEPT ![owner] = l]
    BY <2>1, <2>3 DEF Listings, Address
  <2>5. ASSUME NEW other \in Account \ {owner}, Listings[other] # NotListed
        PROVE  Listings[other].ocpi # id
    <3>1. other \in ListedParties /\ Listings[other] = ListingOf(other)
      BY <2>5 DEF Listings, ListedParties, Address
    <3>2. uniqueParties[partyOf[other].ocpi] = other /\ other # NoAddress
      BY <3>1 DEF IdHeld
    <3>3. partyOf[other].ocpi # id
      BY <3>2 DEF SetParty, IdFree
    <3> QED
      BY <3>1, <3>3
  <2>6. nodeOf[o] # NoDomain /\ nodeOf' = nodeOf
    BY DEF SetParty, IdFree, HasNode, nodeVars
  <2>7. Dir!List(owner, l)
    BY <2>4, <2>5, <2>6 DEF Dir!List
  <2> QED
    BY <2>1, <2>2, <2>7 DEF Dir!Next
<1>5. CASE PartyDeleted
  <2> PICK p \in Address : DeletePartyOf(p)
    BY <1>5 DEF PartyDeleted
  <2>1. p \in ListedParties
    BY DEF DeletePartyOf, ListedParties
  <2>2. p \in Account
    BY <2>1 DEF IdHeld, Address
  <2>3. Listings[p] # NotListed
    <3>1. partyOf[p].ocpi \in OcpiId /\ partyOf[p].roles \in SUBSET Role
          /\ operatorOf[p] \in Address
      BY <2>1 DEF IdHeld, TypeOK, PartyDetails
    <3>2. ListingOf(p) \in [ocpi : OcpiId, roles : SUBSET Role, operator : Address]
      BY <3>1
    <3>3. Listings[p] = ListingOf(p)
      BY <2>1, <2>2 DEF Listings, ListedParties
    <3> QED
      BY <3>2, <3>3 DEF RegistryAssumption
  <2>4. /\ operatorOf'[p] = NoAddress
        /\ \A q \in Address \ {p} : partyOf'[q] = partyOf[q] /\ operatorOf'[q] = operatorOf[q]
    BY DEF DeletePartyOf, TypeOK
  <2>5. Listings' = [Listings EXCEPT ![p] = NotListed]
    BY <2>2, <2>4 DEF Listings, Address
  <2>6. Dir!Delist(p)
    BY <2>3, <2>5 DEF Dir!Delist, DeletePartyOf, nodeVars
  <2> QED
    BY <2>2, <2>6 DEF Dir!Next
<1> QED
  BY <1>1, <1>2, <1>3, <1>4, <1>5, NextKinds

\* Seen through its listings, the contract is a directory in which no domain
\* and no country_code/party_id is ever listed twice, and no party is listed at
\* an operator without a node: index arrays, flags and entries left over never
\* show.
THEOREM RegistryImplementsDirectory ==
  ASSUME RegistryAssumption, NoAddress \notin CredentialOwner
  PROVE  Spec => ImplementsDirectory
<1>1. Init => Dir!Init
  BY DEF Init, Dir!Init, Listings, Address
<1>2. TypeOK /\ DomainsReserved /\ IdHeld /\ [Next]_vars => [Dir!Next]_(Dir!vars)
  BY DirectoryStep
<1> QED
  BY <1>1, <1>2, TypeCorrect, DomainsStayReserved, IdHeldInvariant, PTL
     DEF Spec, ImplementsDirectory, Dir!Spec
=============================================================================
