-------------------------- MODULE OcnSubgraphProofs --------------------------
(***************************************************************************)
(* That the nodes the subgraph shows are a directory at all times, however *)
(* many events wait to be handled, for all sets of accounts, domains and   *)
(* ids.                                                                    *)
(*                                                                         *)
(* The events waiting are an account of how the registry came from the     *)
(* nodes shown to the nodes it has: each takes one directory to the next.  *)
(***************************************************************************)
EXTENDS OcnNetwork, TLAPS

Operator == Subgraph!Address
Nodes == [Operator -> Domain \union {NoDomain}]

\* No domain is listed by two operators.
Distinct(nodes) ==
  \A a, b \in Operator : nodes[a] = nodes[b] /\ nodes[a] # NoDomain => a = b

\* The registry's own nodes.
Reserved ==
  /\ nodeOf \in Nodes
  /\ Distinct(nodeOf)
  /\ \A a \in Operator : nodeOf[a] # NoDomain => nodeOf[a] \in uniqueDomains

\* An event tells how the nodes became others.
Told(e, before, after) ==
  \/ /\ e.event = "OperatorUpdate"
     /\ e.operator \in Operator
     /\ e.domain = NoDomain => before[e.operator] # NoDomain
     /\ after = [before EXCEPT ![e.operator] = e.domain]
  \/ /\ e.event = "PartyUpdate"
     /\ e.operator \in Operator
     /\ before[e.operator] # NoDomain
     /\ after = before
  \/ /\ e.event \notin {"OperatorUpdate", "PartyUpdate"}
     /\ after = before

\* The states of the nodes between the events waiting.
Between(seq, states, shown, nodes) ==
  /\ states \in [0..Len(seq) -> Nodes]
  /\ states[0] = shown
  /\ states[Len(seq)] = nodes
  /\ \A i \in 0..Len(seq) : Distinct(states[i])
  /\ \A i \in 1..Len(seq) : Told(seq[i], states[i - 1], states[i])

EventsTell ==
  /\ \E kinds : events \in Seq(kinds)
  /\ operatorEntity = [a \in Operator |-> operatorEntity[a]]
  /\ \E states : Between(events, states, Subgraph!ShownNode, nodeOf)

\* Events that are not about nodes.
Elsewhere(batch) ==
  \E kinds : /\ batch \in Seq(kinds)
             /\ \A e \in kinds : e.event \notin {"OperatorUpdate", "PartyUpdate"}

-----------------------------------------------------------------------------
(* What transactions emit *)

LEMMA SingleElsewhere ==
  ASSUME NEW e, e.event \notin {"OperatorUpdate", "PartyUpdate"} PROVE Elsewhere(<<e>>)
<1> DEFINE kinds == {e}
<1>1. <<e>> \in Seq(kinds)
  OBVIOUS
<1>2. \A x \in kinds : x.event \notin {"OperatorUpdate", "PartyUpdate"}
  OBVIOUS
<1> HIDE DEF kinds
<1> QED BY <1>1, <1>2 DEF Elsewhere

LEMMA RoleEventsElsewhere ==
  ASSUME NEW before, NEW after PROVE Elsewhere(Subgraph!RoleEvents(before, after))
<1> DEFINE granted == [event |-> "RoleGranted", account |-> CHOOSE a \in after \ before : TRUE]
           revoked == [event |-> "RoleRevoked", account |-> CHOOSE a \in before \ after : TRUE]
           first == IF after \ before = {} THEN << >> ELSE <<granted>>
           second == IF before \ after = {} THEN << >> ELSE <<revoked>>
<1>1. granted.event = "RoleGranted" /\ revoked.event = "RoleRevoked"
  OBVIOUS
<1>2. Subgraph!RoleEvents(before, after) = first \o second
  BY DEF Subgraph!RoleEvents
<1> HIDE DEF granted, revoked
<1>3. first \in Seq({granted, revoked}) /\ second \in Seq({granted, revoked})
  <2>1. /\ << >> \in Seq({granted, revoked})
        /\ <<granted>> \in Seq({granted, revoked})
        /\ <<revoked>> \in Seq({granted, revoked})
    OBVIOUS
  <2>2. /\ first = << >> \/ first = <<granted>>
        /\ second = << >> \/ second = <<revoked>>
    OBVIOUS
  <2> QED BY <2>1, <2>2
<1> HIDE DEF first, second
<1>4. first \o second \in Seq({granted, revoked})
  BY <1>3
<1> QED BY <1>1, <1>2, <1>4 DEF Elsewhere

LEMMA AppendElsewhere ==
  ASSUME NEW batch, Elsewhere(batch), NEW e, e.event \notin {"OperatorUpdate", "PartyUpdate"}
  PROVE  Elsewhere(Append(batch, e))
<1>1. PICK kinds : /\ batch \in Seq(kinds)
                   /\ \A x \in kinds : x.event \notin {"OperatorUpdate", "PartyUpdate"}
  BY DEF Elsewhere
<1>2. Append(batch, e) \in Seq(kinds \union {e})
  BY <1>1
<1> QED BY <1>1, <1>2 DEF Elsewhere

\* A transaction lists a node and says so, retires one and says so, lists a party
\* at an operator that has a node, or does not touch the nodes.
Emitted(batch) ==
  \/ Elsewhere(batch) /\ UNCHANGED <<nodeOf, uniqueDomains>>
  \/ \E a \in Operator, d \in Domain :
       /\ batch = <<Subgraph!OperatorUpdate(a, d)>>
       /\ d \notin uniqueDomains
       /\ nodeOf' = [nodeOf EXCEPT ![a] = d]
       /\ uniqueDomains' = uniqueDomains \union {d}
  \/ \E a \in Operator :
       /\ batch = <<Subgraph!OperatorUpdate(a, NoDomain)>>
       /\ nodeOf[a] # NoDomain
       /\ nodeOf' = [nodeOf EXCEPT ![a] = NoDomain]
       /\ uniqueDomains' = uniqueDomains \ {nodeOf[a]}
  \/ \E o \in Operator :
       /\ \E party, ocpi, roles, status :
            batch = <<Subgraph!PartyUpdate(party, ocpi, roles, status, o)>>
       /\ nodeOf[o] # NoDomain
       /\ UNCHANGED <<nodeOf, uniqueDomains>>

LEMMA TransactionsEmit ==
  ASSUME Subgraph!RegistryTransaction
  PROVE  \E batch : Subgraph!Emits(batch) /\ Emitted(batch)
<1>1. ASSUME NEW a \in Account, Subgraph!AdminTransaction(a)
      PROVE  \E batch : Subgraph!Emits(batch) /\ Emitted(batch)
  <2>1. ASSUME NEW b \in Operator, Subgraph!Registry!TransferOwnership(a, b),
               Subgraph!Emits(Append(Subgraph!RoleEvents(admins, admins'),
                                     Subgraph!OwnershipTransferred(b)))
        PROVE  \E batch : Subgraph!Emits(batch) /\ Emitted(batch)
    <3>1. Subgraph!OwnershipTransferred(b).event = "OwnershipTransferred"
      BY DEF Subgraph!OwnershipTransferred
    <3>2. Elsewhere(Append(Subgraph!RoleEvents(admins, admins'), Subgraph!OwnershipTransferred(b)))
      BY <3>1, RoleEventsElsewhere, AppendElsewhere
    <3>3. UNCHANGED <<nodeOf, uniqueDomains>>
      BY <2>1 DEF Subgraph!Registry!TransferOwnership, Subgraph!Registry!nodeVars
    <3> QED BY <2>1, <3>2, <3>3 DEF Emitted
  <2>2. ASSUME NEW b \in Operator, Subgraph!Registry!ReassignAdmin(a, b),
               Subgraph!Emits(Subgraph!RoleEvents(admins, admins'))
        PROVE  \E batch : Subgraph!Emits(batch) /\ Emitted(batch)
    <3>1. UNCHANGED <<nodeOf, uniqueDomains>>
      BY <2>2 DEF Subgraph!Registry!ReassignAdmin, Subgraph!Registry!nodeVars
    <3> QED BY <2>2, <3>1, RoleEventsElsewhere DEF Emitted
  <2>3. ASSUME NEW b \in Operator, Subgraph!Registry!AdminDeleteOperator(a, b),
               Subgraph!Emits(<<Subgraph!OperatorUpdate(b, NoDomain)>>)
        PROVE  \E batch : Subgraph!Emits(batch) /\ Emitted(batch)
    BY <2>3 DEF Subgraph!Registry!AdminDeleteOperator, Subgraph!Registry!DeleteNodeOf, Emitted
  <2>4. ASSUME NEW id, Subgraph!Registry!AdminDeleteParty(a, id),
               Subgraph!Emits(<<Subgraph!PartyDelete(uniqueParties[id])>>)
        PROVE  \E batch : Subgraph!Emits(batch) /\ Emitted(batch)
    <3>1. Elsewhere(<<Subgraph!PartyDelete(uniqueParties[id])>>)
      <4>1. Subgraph!PartyDelete(uniqueParties[id]).event = "PartyDelete"
        BY DEF Subgraph!PartyDelete
      <4> QED BY <4>1, SingleElsewhere
    <3>2. UNCHANGED <<nodeOf, uniqueDomains>>
      BY <2>4 DEF Subgraph!Registry!AdminDeleteParty, Subgraph!Registry!DeletePartyOf,
                  Subgraph!Registry!nodeVars
    <3> QED BY <2>4, <3>1, <3>2 DEF Emitted
  <2> QED
    BY <1>1, <2>1, <2>2, <2>3, <2>4 DEF Subgraph!AdminTransaction, Operator
<1>2. ASSUME NEW a \in Operator, Subgraph!NodeTransaction(a)
      PROVE  \E batch : Subgraph!Emits(batch) /\ Emitted(batch)
  <2>1. ASSUME NEW d \in Domain, Subgraph!Registry!SetNodeFor(a, d),
               Subgraph!Emits(<<Subgraph!OperatorUpdate(a, d)>>)
        PROVE  \E batch : Subgraph!Emits(batch) /\ Emitted(batch)
    BY <2>1 DEF Subgraph!Registry!SetNodeFor, Subgraph!Registry!DomainFree, Emitted
  <2>2. ASSUME Subgraph!Registry!DeleteNodeOf(a),
               Subgraph!Emits(<<Subgraph!OperatorUpdate(a, NoDomain)>>)
        PROVE  \E batch : Subgraph!Emits(batch) /\ Emitted(batch)
    BY <2>2 DEF Subgraph!Registry!DeleteNodeOf, Emitted
  <2> QED BY <1>2, <2>1, <2>2 DEF Subgraph!NodeTransaction
<1>3. ASSUME NEW a \in Account, Subgraph!PartyTransaction(a)
      PROVE  \E batch : Subgraph!Emits(batch) /\ Emitted(batch)
  <2>1. ASSUME NEW id, NEW roles, NEW o \in Account, NEW status,
               Subgraph!Registry!SetParty(id, roles, o, a, status),
               Subgraph!Emits(<<Subgraph!PartyUpdate(a, id, roles, status, o)>>)
        PROVE  \E batch : Subgraph!Emits(batch) /\ Emitted(batch)
    <3>1. nodeOf[o] # NoDomain /\ UNCHANGED <<nodeOf, uniqueDomains>> /\ o \in Operator
      BY <2>1 DEF Subgraph!Registry!SetParty, Subgraph!Registry!HasNode, Subgraph!Registry!nodeVars,
                  Operator, Subgraph!Address
    <3>2. Emitted(<<Subgraph!PartyUpdate(a, id, roles, status, o)>>)
      BY <3>1 DEF Emitted
    <3> QED BY <2>1, <3>2
  <2>2. ASSUME Subgraph!Registry!DeleteParty(a), Subgraph!Emits(<<Subgraph!PartyDelete(a)>>)
        PROVE  \E batch : Subgraph!Emits(batch) /\ Emitted(batch)
    <3>1. Elsewhere(<<Subgraph!PartyDelete(a)>>)
      <4>1. Subgraph!PartyDelete(a).event = "PartyDelete"
        BY DEF Subgraph!PartyDelete
      <4> QED BY <4>1, SingleElsewhere
    <3>2. UNCHANGED <<nodeOf, uniqueDomains>>
      BY <2>2 DEF Subgraph!Registry!DeleteParty, Subgraph!Registry!DeletePartyOf,
                  Subgraph!Registry!nodeVars
    <3> QED BY <2>2, <3>1, <3>2 DEF Emitted
  <2> QED BY <1>3, <2>1, <2>2 DEF Subgraph!PartyTransaction
<1> QED BY <1>1, <1>2, <1>3 DEF Subgraph!RegistryTransaction, Operator

-----------------------------------------------------------------------------
(* The registry keeps its nodes distinct, and its events tell the next ones *)

LEMMA TransactionsReserve ==
  ASSUME NetworkAssumption, Reserved, NEW batch, Emitted(batch) PROVE Reserved'
<1> USE DEF Emitted, Reserved, Distinct, Nodes
<1>1. NoDomain \notin Domain
  BY DEF NetworkAssumption, Client!Registry!RegistryAssumption
<1>2. CASE UNCHANGED <<nodeOf, uniqueDomains>>
  BY <1>2
<1>3. ASSUME NEW a \in Operator, NEW d \in Domain, d \notin uniqueDomains,
             nodeOf' = [nodeOf EXCEPT ![a] = d], uniqueDomains' = uniqueDomains \union {d}
      PROVE  Reserved'
  BY <1>1, <1>3
<1>4. ASSUME NEW a \in Operator, nodeOf[a] # NoDomain,
             nodeOf' = [nodeOf EXCEPT ![a] = NoDomain], uniqueDomains' = uniqueDomains \ {nodeOf[a]}
      PROVE  Reserved'
  BY <1>1, <1>4
<1> QED BY <1>2, <1>3, <1>4

\* What a transaction emits tells what it did to the nodes.
LEMMA EmittedTell ==
  ASSUME NetworkAssumption, NEW batch, Emitted(batch)
  PROVE  /\ \E kinds : batch \in Seq(kinds)
         /\ \A i \in 1..Len(batch) :
              Told(batch[i], IF i = 1 THEN nodeOf ELSE nodeOf', nodeOf')
         /\ Len(batch) = 0 => nodeOf' = nodeOf
<1>1. CASE Elsewhere(batch) /\ UNCHANGED nodeOf
  <2>1. PICK kinds : /\ batch \in Seq(kinds)
                     /\ \A e \in kinds : e.event \notin {"OperatorUpdate", "PartyUpdate"}
    BY <1>1 DEF Elsewhere
  <2>2. \A i \in 1..Len(batch) : batch[i].event \notin {"OperatorUpdate", "PartyUpdate"}
    BY <2>1
  <2> QED BY <1>1, <2>1, <2>2 DEF Told
<1>2. ASSUME NEW e, batch = <<e>>, Told(e, nodeOf, nodeOf')
      PROVE  /\ \E kinds : batch \in Seq(kinds)
             /\ \A i \in 1..Len(batch) :
                  Told(batch[i], IF i = 1 THEN nodeOf ELSE nodeOf', nodeOf')
             /\ Len(batch) = 0 => nodeOf' = nodeOf
  <2>1. batch \in Seq({e}) /\ Len(batch) = 1 /\ batch[1] = e
    BY <1>2
  <2>2. \A i \in 1..Len(batch) : i = 1
    BY <2>1
  <2>3. \A i \in 1..Len(batch) : Told(batch[i], IF i = 1 THEN nodeOf ELSE nodeOf', nodeOf')
    BY <1>2, <2>1, <2>2
  <2>4. \E kinds : batch \in Seq(kinds)
    BY <2>1
  <2> QED BY <2>1, <2>3, <2>4
<1>3. ASSUME NEW a \in Operator, NEW d, nodeOf' = [nodeOf EXCEPT ![a] = d],
             d = NoDomain => nodeOf[a] # NoDomain
      PROVE  Told(Subgraph!OperatorUpdate(a, d), nodeOf, nodeOf')
  BY <1>3 DEF Told, Subgraph!OperatorUpdate
<1>4. ASSUME NEW o \in Operator, NEW party, NEW ocpi, NEW roles, NEW status,
             nodeOf[o] # NoDomain, UNCHANGED nodeOf
      PROVE  Told(Subgraph!PartyUpdate(party, ocpi, roles, status, o), nodeOf, nodeOf')
  BY <1>4 DEF Told, Subgraph!PartyUpdate
<1>5. NoDomain \notin Domain
  BY DEF NetworkAssumption, Client!Registry!RegistryAssumption
<1> QED BY <1>1, <1>2, <1>3, <1>4, <1>5 DEF Emitted

LEMMA TransactionsKeepTelling ==
  ASSUME NetworkAssumption, EventsTell, Reserved, Subgraph!RegistryTransaction
  PROVE  EventsTell' /\ Reserved' /\ UNCHANGED operatorEntity
<1>1. PICK batch : Subgraph!Emits(batch) /\ Emitted(batch)
  BY TransactionsEmit
<1>2. events' = events \o batch /\ UNCHANGED operatorEntity
  BY <1>1 DEF Subgraph!Emits, Subgraph!entityVars
<1>3. Reserved'
  BY <1>1, TransactionsReserve
<1>4. PICK kinds, more, states : /\ events \in Seq(kinds) /\ batch \in Seq(more)
                                 /\ Between(events, states, Subgraph!ShownNode, nodeOf)
  BY <1>1, EmittedTell DEF EventsTell
<1> DEFINE longer == [i \in 0..Len(events') |-> IF i <= Len(events) THEN states[i] ELSE nodeOf']
<1>5. events \in Seq(kinds \union more) /\ batch \in Seq(kinds \union more)
  BY <1>4
<1>6. /\ events' \in Seq(kinds \union more) /\ Len(events') = Len(events) + Len(batch)
      /\ Len(events) \in Nat /\ Len(batch) \in Nat
      /\ \A i \in 1..Len(events) : events'[i] = events[i]
      /\ \A i \in 1..Len(events') : i > Len(events) =>
           events'[i] = batch[i - Len(events)] /\ i - Len(events) \in 1..Len(batch)
  BY <1>2, <1>5
<1>7. Subgraph!ShownNode' = Subgraph!ShownNode
  BY <1>2 DEF Subgraph!ShownNode
<1>8. Between(events', longer, Subgraph!ShownNode, nodeOf')
  <2>1. longer \in [0..Len(events') -> Nodes] /\ longer[0] = Subgraph!ShownNode
    BY <1>3, <1>4, <1>6 DEF Between, Reserved
  <2>2. longer[Len(events')] = nodeOf'
    BY <1>1, <1>4, <1>6, EmittedTell DEF Between
  <2>3. \A i \in 0..Len(events') : Distinct(longer[i])
    <3> SUFFICES ASSUME NEW i \in 0..Len(events') PROVE Distinct(longer[i])
      OBVIOUS
    <3>1. Distinct(nodeOf')
      BY <1>3 DEF Reserved, Distinct
    <3>2. CASE i <= Len(events)
      BY <1>4, <1>6, <3>2 DEF Between
    <3>3. CASE i > Len(events)
      BY <1>6, <3>1, <3>3
    <3> QED BY <1>6, <3>2, <3>3
  <2>4. ASSUME NEW i \in 1..Len(events') PROVE Told(events'[i], longer[i - 1], longer[i])
    <3>1. CASE i <= Len(events)
      <4>1. longer[i - 1] = states[i - 1] /\ longer[i] = states[i] /\ events'[i] = events[i]
        BY <1>6, <3>1
      <4> HIDE DEF longer
      <4>2. Told(events[i], states[i - 1], states[i])
        BY <1>4, <1>6, <3>1 DEF Between
      <4> QED BY <4>1, <4>2
    <3>2. CASE i > Len(events)
      <4> DEFINE j == i - Len(events)
      <4>1. j \in 1..Len(batch) /\ events'[i] = batch[j]
        BY <1>6, <3>2
      <4>2. Told(batch[j], IF j = 1 THEN nodeOf ELSE nodeOf', nodeOf')
        BY <1>1, <4>1, EmittedTell
      <4>3. longer[i] = nodeOf' /\ longer[i - 1] = IF j = 1 THEN nodeOf ELSE nodeOf'
        BY <1>4, <1>6, <3>2 DEF Between
      <4> HIDE DEF longer, j
      <4> QED BY <4>1, <4>2, <4>3
    <3> QED BY <1>6, <3>1, <3>2
  <2> HIDE DEF longer
  <2> QED BY <2>1, <2>2, <2>3, <2>4 DEF Between
<1> HIDE DEF longer
<1>9. EventsTell'
  BY <1>2, <1>6, <1>7, <1>8 DEF EventsTell
<1> QED BY <1>2, <1>3, <1>9

-----------------------------------------------------------------------------
(* The handlers follow *)

ShowsAStep == [Subgraph!Shown!Next]_Subgraph!Shown!vars

\* An event handled takes the nodes shown to the next ones.
LEMMA HandlersFollow ==
  ASSUME NetworkAssumption, NEW e, NEW after \in Nodes,
         operatorEntity = [a \in Operator |-> operatorEntity[a]],
         Told(e, Subgraph!ShownNode, after),
         \/ e.event = "OperatorUpdate" /\ Subgraph!HandleOperatorUpdate(e)
         \/ e.event = "PartyUpdate" /\ Subgraph!HandlePartyUpdate(e)
         \/ e.event \notin {"OperatorUpdate", "PartyUpdate"} /\ UNCHANGED operatorEntity
  PROVE  /\ Subgraph!ShownNode' = after
         /\ operatorEntity' = [a \in Operator |-> operatorEntity'[a]]
<1>1. NoEntity \notin Domain \union {NoDomain}
  BY DEF NetworkAssumption, Subgraph!SubgraphAssumption
<1>2. CASE e.event = "OperatorUpdate"
  <2>1. operatorEntity' = [operatorEntity EXCEPT ![e.operator] = e.domain]
    BY <1>2 DEF Subgraph!HandleOperatorUpdate, Subgraph!OperatorDomain
  <2>2. /\ e.operator \in Operator /\ after = [Subgraph!ShownNode EXCEPT ![e.operator] = e.domain]
    BY <1>2 DEF Told
  <2>3. e.domain \in Domain \union {NoDomain}
    <3>1. after[e.operator] = e.domain
      BY <2>2 DEF Subgraph!ShownNode, Operator
    <3> QED BY <2>2, <3>1 DEF Nodes
  <2>4. operatorEntity' = [a \in Operator |-> IF a = e.operator THEN e.domain ELSE operatorEntity[a]]
    BY <2>1
  <2>5. after = [a \in Operator |-> IF a = e.operator THEN e.domain ELSE Subgraph!ShownNode[a]]
    BY <2>2 DEF Subgraph!ShownNode, Operator
  <2> QED BY <1>1, <2>3, <2>4, <2>5 DEF Subgraph!ShownNode, Operator
<1>3. CASE e.event = "PartyUpdate"
  <2>1. e.operator \in Operator /\ Subgraph!ShownNode[e.operator] # NoDomain /\ after = Subgraph!ShownNode
    BY <1>3 DEF Told
  <2>2. operatorEntity[e.operator] # NoEntity
    BY <2>1 DEF Subgraph!ShownNode, Operator
  <2>3. operatorEntity' = operatorEntity
    BY <1>3, <2>2 DEF Subgraph!HandlePartyUpdate, Subgraph!OperatorSeen
  <2> QED BY <2>1, <2>3 DEF Subgraph!ShownNode
<1>4. CASE e.event \notin {"OperatorUpdate", "PartyUpdate"}
  BY <1>4 DEF Told, Subgraph!ShownNode
<1> QED BY <1>2, <1>3, <1>4

\* What an event tells is a step of Directory, or none.
LEMMA ToldIsAStep ==
  ASSUME Subgraph!ShownNode \in Nodes, Subgraph!ShownNode' \in Nodes,
         Distinct(Subgraph!ShownNode'), NEW e,
         Told(e, Subgraph!ShownNode, Subgraph!ShownNode')
  PROVE  ShowsAStep
<1>1. CASE Subgraph!ShownNode' = Subgraph!ShownNode
  BY <1>1 DEF ShowsAStep, Subgraph!Shown!vars
<1>2. CASE Subgraph!ShownNode' # Subgraph!ShownNode
  <2> DEFINE o == e.operator
             d == e.domain
  <2>1. /\ o \in Operator /\ Subgraph!ShownNode' = [Subgraph!ShownNode EXCEPT ![o] = d]
        /\ d = NoDomain => Subgraph!ShownNode[o] # NoDomain
    BY <1>2 DEF Told
  <2> HIDE DEF o, d
  <2>2. CASE d = NoDomain
    <3>1. Subgraph!Shown!RetireNode(o)
      BY <2>1, <2>2 DEF Subgraph!Shown!RetireNode
    <3> QED BY <2>1, <3>1 DEF ShowsAStep, Subgraph!Shown!Next, Operator
  <2>3. CASE d # NoDomain
    <3>1. d \in Domain /\ Subgraph!ShownNode'[o] = d
      BY <2>1, <2>3 DEF Nodes
    <3>2. \A other \in Operator : Subgraph!ShownNode[other] # d
      <4> SUFFICES ASSUME NEW other \in Operator, Subgraph!ShownNode[other] = d PROVE FALSE
        OBVIOUS
      <4>1. Subgraph!ShownNode'[other] = d
        BY <2>1 DEF Nodes
      <4>2. other = o
        BY <2>1, <2>3, <3>1, <4>1 DEF Distinct
      <4> QED BY <1>2, <2>1, <4>2 DEF Nodes
    <3>3. Subgraph!Shown!PublishNode(o, d)
      BY <2>1, <3>2 DEF Subgraph!Shown!PublishNode, Operator
    <3> QED BY <2>1, <3>1, <3>3 DEF ShowsAStep, Subgraph!Shown!Next, Operator
  <2> QED BY <2>2, <2>3
<1> QED BY <1>1, <1>2

LEMMA HandlersKeepTelling ==
  ASSUME NetworkAssumption, EventsTell, Subgraph!HandleNext
  PROVE  EventsTell' /\ UNCHANGED <<nodeOf, uniqueDomains>> /\ ShowsAStep
<1> DEFINE e == Head(events)
<1>1. PICK kinds, states : /\ events \in Seq(kinds)
                           /\ Between(events, states, Subgraph!ShownNode, nodeOf)
  BY DEF EventsTell
<1>2. /\ events # << >> /\ events' = Tail(events) /\ UNCHANGED <<nodeOf, uniqueDomains>>
  BY DEF Subgraph!HandleNext, Subgraph!registryVars
<1>3. /\ Len(events) \in Nat \ {0} /\ e = events[1]
      /\ events' \in Seq(kinds) /\ Len(events') = Len(events) - 1
      /\ \A i \in 1..Len(events') : events'[i] = events[i + 1]
  BY <1>1, <1>2
<1>4. /\ states[0] = Subgraph!ShownNode /\ states[0] \in Nodes /\ states[1] \in Nodes
      /\ Distinct(states[1]) /\ Told(e, states[0], states[1])
  <2>1. Told(events[1], states[1 - 1], states[1])
    BY <1>1, <1>3 DEF Between
  <2> QED BY <1>1, <1>3, <2>1 DEF Between
<1> HIDE DEF e
<1>5. \/ e.event = "OperatorUpdate" /\ Subgraph!HandleOperatorUpdate(e)
      \/ e.event = "PartyUpdate" /\ Subgraph!HandlePartyUpdate(e)
      \/ e.event \notin {"OperatorUpdate", "PartyUpdate"} /\ UNCHANGED operatorEntity
  BY DEF Subgraph!HandleNext, Subgraph!HandlePartyDelete, Subgraph!HandleOwnershipTransferred,
         Subgraph!HandleRoleGranted, Subgraph!HandleRoleRevoked, Subgraph!entityVars, e
<1>6. /\ Subgraph!ShownNode' = states[1]
      /\ operatorEntity' = [a \in Operator |-> operatorEntity'[a]]
  BY <1>4, <1>5, HandlersFollow DEF EventsTell
<1>7. ShowsAStep
  BY <1>4, <1>6, ToldIsAStep
<1> DEFINE shorter == [i \in 0..Len(events') |-> states[i + 1]]
<1>8. Between(events', shorter, Subgraph!ShownNode', nodeOf')
  <2>1. \A i \in 0..Len(events') : i + 1 \in 0..Len(events)
    BY <1>3
  <2>2. shorter \in [0..Len(events') -> Nodes] /\ \A i \in 0..Len(events') : Distinct(shorter[i])
    BY <1>1, <2>1 DEF Between
  <2>3. shorter[0] = Subgraph!ShownNode' /\ shorter[Len(events')] = nodeOf'
    BY <1>1, <1>2, <1>3, <1>6 DEF Between
  <2>4. ASSUME NEW i \in 1..Len(events') PROVE Told(events'[i], shorter[i - 1], shorter[i])
    <3> DEFINE j == i + 1
    <3>1. /\ j \in 1..Len(events) /\ events'[i] = events[j]
          /\ shorter[i - 1] = states[j - 1] /\ shorter[i] = states[j]
      BY <1>3
    <3> HIDE DEF j, shorter
    <3>2. Told(events[j], states[j - 1], states[j])
      BY <1>1, <3>1 DEF Between
    <3> QED BY <3>1, <3>2
  <2> HIDE DEF shorter
  <2> QED BY <2>2, <2>3, <2>4 DEF Between
<1> HIDE DEF shorter
<1> QED BY <1>2, <1>3, <1>6, <1>7, <1>8 DEF EventsTell

-----------------------------------------------------------------------------
\* However late the subgraph is, the nodes it shows are those of a directory, in
\* which they appear, move and go one at a time and no domain is listed twice.
THEOREM SubgraphShowsADirectory == ASSUME NetworkAssumption PROVE Spec => ShowsADirectory
<1> DEFINE Inv == part = "subgraph" => EventsTell /\ Reserved
<1>1. Init => Inv /\ Subgraph!Shown!Init
  <2> SUFFICES ASSUME Init PROVE Inv /\ Subgraph!Shown!Init
    OBVIOUS
  <2>1. /\ operatorEntity = [a \in Operator |-> NoEntity]
        /\ events = Subgraph!RoleEvents({}, {Deployer})
    BY DEF Init, Subgraph!Init, Subgraph!EntitiesInit, Operator
  <2>2. Subgraph!ShownNode = [a \in Operator |-> NoDomain]
    BY <2>1 DEF Subgraph!ShownNode, Operator
  <2>3. Subgraph!Shown!Init
    BY <2>2 DEF Subgraph!Shown!Init, Operator
  <2>4. ASSUME part = "subgraph" PROVE EventsTell /\ Reserved
    <3>1. nodeOf = [a \in Operator |-> NoDomain]
      BY <2>4 DEF Init, Subgraph!Init, Subgraph!Registry!Init, Subgraph!Registry!Address, Operator,
                  Subgraph!Address
    <3>2. Reserved
      BY <3>1 DEF Reserved, Nodes, Distinct
    <3>3. PICK kinds : /\ events \in Seq(kinds)
                       /\ \A e \in kinds : e.event \notin {"OperatorUpdate", "PartyUpdate"}
      BY <2>1, RoleEventsElsewhere DEF Elsewhere
    <3> DEFINE states == [i \in 0..Len(events) |-> nodeOf]
    <3>4. Len(events) \in Nat
          /\ \A i \in 1..Len(events) : events[i].event \notin {"OperatorUpdate", "PartyUpdate"}
      BY <3>3
    <3>5. \A i \in 0..Len(events) : states[i] = nodeOf
      OBVIOUS
    <3>6. \A i \in 1..Len(events) : Told(events[i], states[i - 1], states[i])
      BY <3>4, <3>5 DEF Told
    <3>7. states \in [0..Len(events) -> Nodes]
      BY <3>2 DEF Reserved
    <3> HIDE DEF states
    <3>8. Between(events, states, Subgraph!ShownNode, nodeOf)
      BY <2>2, <3>1, <3>2, <3>4, <3>5, <3>6, <3>7 DEF Between, Reserved
    <3> QED BY <2>1, <3>2, <3>3, <3>8 DEF EventsTell
  <2> QED BY <2>3, <2>4
<1>2. Inv /\ [Next]_vars => Inv' /\ ShowsAStep
  <2> SUFFICES ASSUME Inv, [Next]_vars PROVE Inv' /\ ShowsAStep
    OBVIOUS
  <2>1. CASE UNCHANGED vars
    <3>1. UNCHANGED <<part, events, operatorEntity, nodeOf, uniqueDomains>>
      BY <2>1 DEF vars, subgraphVars, registryVars
    <3>2. Subgraph!ShownNode' = Subgraph!ShownNode
      BY <3>1 DEF Subgraph!ShownNode
    <3> QED BY <3>1, <3>2 DEF EventsTell, Reserved, ShowsAStep, Subgraph!Shown!vars
  <2>2. CASE LibraryStep
    <3>1. part' = "library" /\ Subgraph!ShownNode' = Subgraph!ShownNode
      BY <2>2 DEF LibraryStep, subgraphVars, Subgraph!ShownNode
    <3> QED BY <3>1 DEF ShowsAStep, Subgraph!Shown!vars
  <2>3. CASE TransactionStep
    <3>1. part' = "subgraph" /\ EventsTell /\ Reserved /\ Subgraph!RegistryTransaction
      BY <2>3 DEF TransactionStep
    <3>2. EventsTell' /\ Reserved' /\ UNCHANGED operatorEntity
      BY <3>1, TransactionsKeepTelling
    <3>3. Subgraph!ShownNode' = Subgraph!ShownNode
      BY <3>2 DEF Subgraph!ShownNode
    <3> QED BY <3>2, <3>3 DEF ShowsAStep, Subgraph!Shown!vars
  <2>4. CASE HandlerStep
    <3>1. part' = "subgraph" /\ EventsTell /\ Reserved /\ Subgraph!HandleNext
      BY <2>4 DEF HandlerStep
    <3>2. EventsTell' /\ UNCHANGED <<nodeOf, uniqueDomains>> /\ ShowsAStep
      BY <3>1, HandlersKeepTelling
    <3> QED BY <3>1, <3>2 DEF Reserved
  <2> QED BY <2>1, <2>2, <2>3, <2>4 DEF Next
<1>3. Spec => Subgraph!Shown!Spec
  BY <1>1, <1>2, PTL DEF Spec, Subgraph!Shown!Spec, ShowsAStep
<1> QED BY <1>3 DEF ShowsADirectory, Subgraph!ShowsADirectory
=============================================================================
