-------------------------- MODULE OcnNetworkProofs --------------------------
(* What TLAPS proves of the library and the subgraph over the registry, for *)
(* all sets of accounts, domains, ids and commands, and for all bounds.     *)
EXTENDS OcnNetwork, SequenceTheorems, TLAPS

EntitiesUnchanged == UNCHANGED <<operatorEntity, partyEntity, adminsCopied>>

\* Commands and transactions leave the entities to the handlers.
LEMMA OnlyHandlersWrite ==
  ASSUME [Next]_vars PROVE EntitiesUnchanged \/ (part = "subgraph" /\ Subgraph!HandleNext)
<1>1. CASE UNCHANGED vars
  BY <1>1 DEF vars, subgraphVars, EntitiesUnchanged
<1>2. CASE LibraryStep
  BY <1>2 DEF LibraryStep, subgraphVars, EntitiesUnchanged
<1>3. CASE TransactionStep
  <2>1. ASSUME NEW batch, Subgraph!Emits(batch) PROVE EntitiesUnchanged
    BY <2>1 DEF Subgraph!Emits, Subgraph!entityVars, EntitiesUnchanged
  <2>2. Subgraph!RegistryTransaction
    BY <1>3 DEF TransactionStep
  <2>3. ASSUME NEW a, Subgraph!AdminTransaction(a) PROVE EntitiesUnchanged
    BY <2>1, <2>3 DEF Subgraph!AdminTransaction
  <2>4. ASSUME NEW a, Subgraph!PartyTransaction(a) PROVE EntitiesUnchanged
    BY <2>1, <2>4 DEF Subgraph!PartyTransaction
  <2>5. ASSUME NEW a, Subgraph!NodeTransaction(a) PROVE EntitiesUnchanged
    BY <2>1, <2>5 DEF Subgraph!NodeTransaction
  <2> QED BY <2>2, <2>3, <2>4, <2>5 DEF Subgraph!RegistryTransaction
<1>4. CASE HandlerStep
  BY <1>4 DEF HandlerStep
<1> QED BY <1>1, <1>2, <1>3, <1>4 DEF Next

-----------------------------------------------------------------------------
(* Entities of parties *)

\* Nothing is ever stored under the ids handlePartyDelete looks for.
NeverDeleted ==
  /\ partyEntity = [key \in Subgraph!PartyKey |-> partyEntity[key]]
  /\ \A ocpi : Subgraph!Plain(ocpi) \in Subgraph!PartyKey =>
       partyEntity[Subgraph!Plain(ocpi)] = NoEntity
  /\ \A key \in Subgraph!PartyKey : partyEntity[key] = NoEntity \/ partyEntity[key].deleted = FALSE

EntityWritten(e) ==
  \A key \in Subgraph!PartyKey : partyEntity'[key] # partyEntity[key] =>
    /\ e.event = "PartyUpdate"
    /\ key = Subgraph!Slashed(e.ocpi)
    /\ partyEntity'[key].party = e.party
    /\ ~partyEntity'[key].deleted

LEMMA HandlersWrite ==
  ASSUME NeverDeleted, Subgraph!HandleNext
  PROVE  NeverDeleted' /\ EntityWritten(Head(events))
<1> DEFINE e == Head(events)
<1>1. CASE e.event = "PartyUpdate" /\ Subgraph!HandlePartyUpdate(e)
  <2> DEFINE key == Subgraph!Slashed(e.ocpi)
             entity == [party |-> e.party, roles |-> Subgraph!GetRoles(e.roles), operator |-> e.operator,
                        paymentStatus |-> Subgraph!GetPaymentStatus(e.paymentStatus),
                        deleted |-> IF partyEntity[key] = NoEntity THEN FALSE ELSE partyEntity[key].deleted]
  <2>1. partyEntity' = [partyEntity EXCEPT ![key] = entity]
    BY <1>1 DEF Subgraph!HandlePartyUpdate
  <2>2. key \in Subgraph!PartyKey => entity.deleted = FALSE /\ entity.party = e.party
    BY DEF NeverDeleted
  <2>3. \A ocpi : Subgraph!Plain(ocpi) # key
    BY DEF Subgraph!Plain, Subgraph!Slashed
  <2> HIDE DEF key, entity
  <2>4. \A k \in Subgraph!PartyKey : partyEntity'[k] = IF k = key THEN entity ELSE partyEntity[k]
    BY <2>1 DEF NeverDeleted
  <2>5. NeverDeleted'
    BY <2>1, <2>2, <2>3, <2>4 DEF NeverDeleted
  <2>6. EntityWritten(e)
    BY <1>1, <2>2, <2>4 DEF EntityWritten, key
  <2> QED BY <2>5, <2>6
<1>2. CASE e.event = "PartyDelete" /\ Subgraph!HandlePartyDelete(e)
  <2> DEFINE key == Subgraph!Plain(e.ocpi)
  <2>1. partyEntity' = partyEntity
    <3>1. partyEntity' = IF partyEntity[key] = NoEntity THEN partyEntity
                         ELSE [partyEntity EXCEPT ![key].deleted = TRUE]
      BY <1>2 DEF Subgraph!HandlePartyDelete, Subgraph!KeyOfDelete
    <3>2. CASE key \in Subgraph!PartyKey
      BY <3>1, <3>2 DEF NeverDeleted
    <3>3. CASE key \notin Subgraph!PartyKey
      BY <3>1, <3>3 DEF NeverDeleted
    <3> QED BY <3>2, <3>3
  <2> QED BY <2>1 DEF NeverDeleted, EntityWritten
<1>3. CASE UNCHANGED partyEntity
  BY <1>3 DEF NeverDeleted, EntityWritten
<1> QED
  BY <1>1, <1>2, <1>3 DEF Subgraph!HandleNext, Subgraph!HandleOperatorUpdate,
     Subgraph!HandleOwnershipTransferred, Subgraph!HandleRoleGranted, Subgraph!HandleRoleRevoked,
     Subgraph!entityVars

\* Whatever happens, the entity of a party changes by the event of a listing under
\* its id only, and is never marked as deleted.
THEOREM EntitiesChangeByListingOnly == Spec => EntityChangesByListingOnly
<1>1. Init => NeverDeleted
  BY DEF Init, Subgraph!Init, Subgraph!EntitiesInit, NeverDeleted
<1>2. NeverDeleted /\ [Next]_vars =>
        /\ NeverDeleted'
        /\ [EntityWritten(Head(events))]_Subgraph!vars
  <2> SUFFICES ASSUME NeverDeleted, [Next]_vars
               PROVE  NeverDeleted' /\ EntityWritten(Head(events))
    OBVIOUS
  <2>1. CASE EntitiesUnchanged
    BY <2>1 DEF EntitiesUnchanged, NeverDeleted, EntityWritten
  <2>2. CASE Subgraph!HandleNext
    BY <2>2, HandlersWrite
  <2> QED BY <2>1, <2>2, OnlyHandlersWrite
<1>3. Spec => [][EntityWritten(Head(events))]_Subgraph!vars
  BY <1>1, <1>2, PTL DEF Spec
<1> QED BY <1>3 DEF EntityChangesByListingOnly, Subgraph!EntityChangesByListingOnly, EntityWritten

-----------------------------------------------------------------------------
(* The check for an existing node *)

Phase == {"idle", "check", "send", "wait", "list", "entries", "ended"}
TxState == {"none", "pending", "mined", "reverted", "dropped"}
NodeUpdate == {"setNode", "setNodeRaw"}

\* A node update on its way, and not overtaken, is of an operator without node.
CheckHolds(p) ==
  (phase[p] = "send" \/ tx[p] = "pending") /\ Client!Sent(p).kind \in NodeUpdate /\ p \notin overtaken
    => nodeOf[Client!Sent(p).owner] = NoDomain

CheckedInv ==
  /\ call \in [Client!Process -> Client!Command \union {Client!Blank}]
  /\ phase \in [Client!Process -> Phase]
  /\ tx \in [Client!Process -> TxState]
  /\ replays \in Nat
  /\ nodeOf = [a \in Client!Address |-> nodeOf[a]]
  /\ \A p \in Client!Process : phase[p] \in {"idle", "check", "send"} => tx[p] = "none"
  /\ \A p \in Client!Process : CheckHolds(p)

\* Whatever becomes of a node update was checked for, unless it is none.
LEMMA NodeUpdatesCheck ==
  ASSUME NEW c \in Client!Command, c.command \notin Client!Reads, ~Client!Method(c).checks
  PROVE  Client!Method(c).tx.kind \notin NodeUpdate
<1>1. c \in Client!SetNodeCommand => c.command = "set-node"
  <2>1. \A s, d : Client!SetNodeOf(s, d).command = "set-node"
    BY DEF Client!SetNodeOf, Client!Blank
  <2> QED BY <2>1 DEF Client!SetNodeCommand
<1>2. c \in Client!SetNodeRawCommand => c.command = "set-node-raw"
  <2>1. \A s, d : Client!SetNodeRawOf(s, d).command = "set-node-raw"
    BY DEF Client!SetNodeRawOf, Client!Blank
  <2> QED BY <2>1 DEF Client!SetNodeRawCommand
<1>3. c \in Client!SetPartyCommand => c.command = "set-party"
  <2>1. \A id, files, o : Client!SetPartyOf(id, files, o).command = "set-party"
    BY DEF Client!SetPartyOf, Client!Blank
  <2> QED BY <2>1 DEF Client!SetPartyCommand
<1>4. /\ c \in Client!DeleteNodeCommand => c.command = "delete-node"
      /\ c \in Client!DeleteNodeRawCommand => c.command = "delete-node-raw"
      /\ c \in Client!DeletePartyCommand => c.command = "delete-party"
      /\ c \in Client!ListNodesCommand => c.command = "list-nodes"
      /\ c \in Client!ListPartiesCommand => c.command = "list-parties"
  BY DEF Client!DeleteNodeCommand, Client!DeleteNodeRawCommand, Client!DeletePartyCommand,
         Client!ListNodesCommand, Client!ListPartiesCommand, Client!Blank
<1>5. c.command \in {"set-node", "set-node-raw", "delete-node", "delete-node-raw", "set-party",
                     "delete-party"}
  BY <1>1, <1>2, <1>3, <1>4 DEF Client!Command, Client!Reads
<1> QED
  BY <1>5 DEF Client!Method, Client!SetNode, Client!SetNodeRaw, Client!DeleteNode,
     Client!DeleteNodeRaw, Client!SetParty, Client!DeleteParty, Client!Transaction, NodeUpdate

\* What a command does itself: it goes on, sends or ends, and writes nothing.
LEMMA CommandsKeepCheck ==
  ASSUME CheckedInv, NEW p \in Client!Process, Client!CommandStep(p)
  PROVE  CheckedInv' /\ UNCHANGED <<nodeOf, uniqueDomains, replays>>
<1> USE DEF CheckedInv
<1>1. UNCHANGED <<nodeOf, uniqueDomains, replays, overtaken>>
  BY DEF Client!CommandStep, Client!Start, Client!CheckForExistingNode, Client!Send, Client!Receipt,
     Client!Lose, Client!ReadArray, Client!ReadEntry, Client!EndOfList, Client!registryVars,
     Client!historyVars
<1>2. CASE Client!Start(p)
  <2>1. PICK c \in Client!Command :
          /\ call' = [call EXCEPT ![p] = c]
          /\ \/ c.command \in Client!Reads /\ Client!Goes(p, "list")
             \/ /\ c.command \notin Client!Reads
                /\ \/ ~Client!VerifyWritable(c) /\ Client!Reported(p, "No signer provided")
                   \/ /\ Client!VerifyWritable(c) /\ ~Client!Method(c).valid
                      /\ Client!Reported(p, "Invalid argument")
                   \/ /\ Client!VerifyWritable(c) /\ Client!Method(c).valid
                      /\ Client!Goes(p, IF Client!Method(c).checks THEN "check" ELSE "send")
    BY <1>2 DEF Client!Start
  <2>2. /\ phase[p] = "idle" /\ UNCHANGED <<tx, overtaken, nodeOf>>
        /\ call' \in [Client!Process -> Client!Command \union {Client!Blank}]
        /\ call'[p] = c /\ \A q \in Client!Process \ {p} : call'[q] = call[q]
    BY <1>2, <2>1 DEF Client!Start, Client!registryVars, Client!historyVars
  <2>3. \/ phase' = [phase EXCEPT ![p] = "list"] \/ phase' = [phase EXCEPT ![p] = "ended"]
        \/ phase' = [phase EXCEPT ![p] = "check"]
        \/ /\ phase' = [phase EXCEPT ![p] = "send"]
           /\ c.command \notin Client!Reads /\ ~Client!Method(c).checks
    BY <2>1 DEF Client!Goes, Client!Reported
  <2>4. phase' \in [Client!Process -> Phase]
        /\ \A q \in Client!Process \ {p} : phase'[q] = phase[q]
    BY <2>3 DEF Phase
  <2>5. phase'[p] = "send" => Client!Sent(p)'.kind \notin NodeUpdate
    <3>1. phase'[p] = "send" => c.command \notin Client!Reads /\ ~Client!Method(c).checks
      BY <2>3
    <3>2. Client!Sent(p)' = Client!Method(c).tx
      BY <2>2 DEF Client!Sent, Client!Method, Client!SetNode, Client!SetNodeRaw, Client!DeleteNode,
         Client!DeleteNodeRaw, Client!SetParty, Client!DeleteParty
    <3> QED BY <3>1, <3>2, NodeUpdatesCheck
  <2>6. CheckHolds(p)'
    BY <2>2, <2>5 DEF CheckHolds
  <2>7. ASSUME NEW q \in Client!Process \ {p} PROVE CheckHolds(q)'
    <3>1. Client!Sent(q)' = Client!Sent(q)
      BY <2>2 DEF Client!Sent
    <3> QED BY <3>1, <2>2, <2>4 DEF CheckHolds
  <2> QED BY <1>1, <2>2, <2>4, <2>6, <2>7
<1>3. CASE Client!CheckForExistingNode(p)
  <2>1. /\ phase[p] = "check" /\ UNCHANGED <<call, tx>>
        /\ \/ phase' = [phase EXCEPT ![p] = "ended"]
           \/ phase' = [phase EXCEPT ![p] = "send"] /\ nodeOf[Client!Sent(p).owner] = NoDomain
    BY <1>3 DEF Client!CheckForExistingNode, Client!GetNode, Client!Registry!GetNode, Client!Goes,
       Client!Reported
  <2>2. phase' \in [Client!Process -> Phase]
        /\ \A q \in Client!Process \ {p} : phase'[q] = phase[q]
    BY <2>1 DEF Phase
  <2>3. ASSUME NEW q \in Client!Process PROVE CheckHolds(q)'
    <3>1. Client!Sent(q)' = Client!Sent(q)
      BY <2>1 DEF Client!Sent
    <3> QED BY <3>1, <1>1, <2>1, <2>2 DEF CheckHolds
  <2> QED BY <1>1, <2>1, <2>2, <2>3
<1>4. CASE Client!Send(p)
  <2>1. /\ phase[p] = "send" /\ UNCHANGED call
        /\ \/ phase' = [phase EXCEPT ![p] = "ended"] /\ UNCHANGED tx
           \/ phase' = [phase EXCEPT ![p] = "wait"] /\ tx' = [tx EXCEPT ![p] = "pending"]
    BY <1>4 DEF Client!Send, Client!Goes, Client!Reported
  <2>2. /\ phase' \in [Client!Process -> Phase] /\ tx' \in [Client!Process -> TxState]
        /\ phase'[p] \in {"wait", "ended"}
        /\ \A q \in Client!Process \ {p} : phase'[q] = phase[q] /\ tx'[q] = tx[q]
    BY <2>1 DEF Phase, TxState
  <2>3. ASSUME NEW q \in Client!Process PROVE CheckHolds(q)'
    <3>1. Client!Sent(q)' = Client!Sent(q)
      BY <2>1 DEF Client!Sent
    <3> QED BY <3>1, <1>1, <2>1, <2>2 DEF CheckHolds
  <2> QED BY <1>1, <2>1, <2>2, <2>3
<1>5. CASE \/ Client!Receipt(p) \/ Client!Lose(p) \/ Client!ReadArray(p) \/ Client!ReadEntry(p)
           \/ Client!EndOfList(p)
  <2>1. /\ UNCHANGED <<call, tx>>
        /\ \/ UNCHANGED phase
           \/ phase' = [phase EXCEPT ![p] = "ended"]
           \/ phase' = [phase EXCEPT ![p] = "entries"]
    BY <1>5 DEF Client!Receipt, Client!Lose, Client!ReadArray, Client!ReadEntry, Client!EndOfList,
       Client!Goes, Client!Reported
  <2>2. phase' \in [Client!Process -> Phase]
        /\ \A q \in Client!Process : phase'[q] = phase[q] \/ phase'[q] \in {"ended", "entries"}
    BY <2>1 DEF Phase
  <2>3. ASSUME NEW q \in Client!Process PROVE CheckHolds(q)'
    <3>1. Client!Sent(q)' = Client!Sent(q)
      BY <2>1 DEF Client!Sent
    <3> QED BY <3>1, <1>1, <2>1, <2>2 DEF CheckHolds
  <2> QED BY <1>1, <2>1, <2>2, <2>3
<1> QED BY <1>1, <1>2, <1>3, <1>4, <1>5 DEF Client!CommandStep

\* A transaction mined moves a node only as the checks have it, and overtakes all
\* that were under way.
LEMMA TransactionsMoveNodes ==
  ASSUME CheckedInv, NEW t, Client!Execute(t)
  PROVE  /\ nodeOf' = [a \in Client!Address |-> nodeOf'[a]]
         /\ \A a \in Client!Address :
              nodeOf[a] # NoDomain /\ nodeOf'[a] # nodeOf[a] /\ nodeOf[a] \in uniqueDomains' =>
                t.kind \in NodeUpdate /\ t.owner = a
<1> USE DEF CheckedInv
<1>1. ASSUME t.kind \in NodeUpdate, Client!Registry!SetNodeFor(t.owner, t.domain) PROVE
         /\ nodeOf' = [a \in Client!Address |-> nodeOf'[a]]
         /\ \A a \in Client!Address : nodeOf'[a] # nodeOf[a] => t.kind \in NodeUpdate /\ t.owner = a
  BY <1>1 DEF Client!Registry!SetNodeFor
<1>2. ASSUME Client!Registry!DeleteNodeOf(t.owner) PROVE
         /\ nodeOf' = [a \in Client!Address |-> nodeOf'[a]]
         /\ \A a \in Client!Address : nodeOf'[a] # nodeOf[a] => nodeOf[a] \notin uniqueDomains'
  BY <1>2 DEF Client!Registry!DeleteNodeOf
<1>3. CASE UNCHANGED nodeOf
  BY <1>3
<1>4. CASE t.kind = "setNode" /\ Client!Registry!SetNode(t.owner, t.domain)
  BY <1>1, <1>4 DEF Client!Registry!SetNode, NodeUpdate
<1>5. CASE t.kind = "setNodeRaw" /\ Client!Registry!SetNodeRaw(t.owner, t.domain)
  BY <1>1, <1>5 DEF Client!Registry!SetNodeRaw, NodeUpdate
<1>6. CASE Client!Registry!DeleteNode(t.owner) \/ Client!Registry!DeleteNodeRaw(t.owner)
  BY <1>2, <1>6 DEF Client!Registry!DeleteNode, Client!Registry!DeleteNodeRaw
<1>7. ASSUME NEW status \in PaymentStatus,
             Client!Registry!SetParty(t.ocpi, t.certificates.roles, t.operator, t.certificates.owner, status)
      PROVE  UNCHANGED nodeOf
  BY <1>7 DEF Client!Registry!SetParty, Client!Registry!nodeVars
<1>8. CASE Client!Registry!DeleteParty(t.owner)
  BY <1>3, <1>8 DEF Client!Registry!DeleteParty, Client!Registry!DeletePartyOf, Client!Registry!nodeVars
<1> QED BY <1>3, <1>4, <1>5, <1>6, <1>7, <1>8 DEF Client!Execute

LEMMA ChainKeepsCheck ==
  ASSUME CheckedInv, NEW p \in Client!Process, Client!ChainStep(p)
  PROVE  CheckedInv' /\ Client!LeaksOnlyWhenOvertaken
<1> USE DEF CheckedInv
<1>1. UNCHANGED <<call, phase>> /\ \A q \in Client!Process : Client!Sent(q)' = Client!Sent(q)
  BY DEF Client!ChainStep, Client!Mine, Client!Revert, Client!Drop, Client!Replay, Client!commandVars,
         Client!Sent
<1>2. CASE Client!Mine(p)
  <2>1. /\ tx[p] = "pending" /\ Client!Execute(Client!Sent(p)) /\ tx' = [tx EXCEPT ![p] = "mined"]
        /\ UNCHANGED replays /\ Client!Observed({p})
    BY <1>2 DEF Client!Mine
  <2>2. /\ tx' \in [Client!Process -> TxState] /\ tx'[p] = "mined"
        /\ \A q \in Client!Process \ {p} : tx'[q] = tx[q]
    BY <2>1 DEF TxState
  <2>3. overtaken \subseteq overtaken'
        /\ \A q \in Client!Process \ {p} : phase[q] = "send" \/ tx[q] = "pending" => q \in overtaken'
    BY <2>1 DEF Client!Observed
  <2>4. \A q \in Client!Process : CheckHolds(q)'
    BY <1>1, <2>1, <2>2, <2>3 DEF CheckHolds
  <2>5. nodeOf' = [a \in Client!Address |-> nodeOf'[a]]
    BY <2>1, TransactionsMoveNodes
  <2>6. Client!LeaksOnlyWhenOvertaken
    <3> SUFFICES ASSUME NEW a \in Client!Address, nodeOf[a] # NoDomain, nodeOf'[a] # nodeOf[a],
                        nodeOf[a] \in uniqueDomains'
                 PROVE  p \in overtaken /\ Client!Sent(p).owner = a
      BY <2>1, <2>2 DEF Client!LeaksOnlyWhenOvertaken
    <3>1. Client!Sent(p).kind \in NodeUpdate /\ Client!Sent(p).owner = a
      BY <2>1, TransactionsMoveNodes
    <3> QED BY <2>1, <3>1 DEF CheckHolds
  <2> QED BY <1>1, <2>1, <2>2, <2>4, <2>5, <2>6
<1>3. CASE Client!Revert(p) \/ Client!Drop(p)
  <2>1. /\ UNCHANGED <<nodeOf, uniqueDomains, replays, overtaken>> /\ tx[p] = "pending"
        /\ tx' = [tx EXCEPT ![p] = "reverted"] \/ tx' = [tx EXCEPT ![p] = "dropped"]
    BY <1>3 DEF Client!Revert, Client!Drop, Client!registryVars, Client!historyVars
  <2>2. /\ tx' \in [Client!Process -> TxState] /\ tx'[p] # "pending"
        /\ \A q \in Client!Process \ {p} : tx'[q] = tx[q]
    BY <2>1 DEF TxState
  <2>3. \A q \in Client!Process : CheckHolds(q)'
    BY <1>1, <2>1, <2>2 DEF CheckHolds
  <2> QED BY <1>1, <2>1, <2>2, <2>3 DEF Client!LeaksOnlyWhenOvertaken
<1>4. CASE Client!Replay(p)
  <2>1. /\ Client!Execute(Client!Sent(p)) /\ replays' = replays + 1 /\ UNCHANGED tx
        /\ Client!Observed({})
    BY <1>4 DEF Client!Replay, Client!commandVars
  <2>2. \A q \in Client!Process : phase[q] = "send" \/ tx[q] = "pending" => q \in overtaken'
    BY <2>1 DEF Client!Observed
  <2>3. \A q \in Client!Process : CheckHolds(q)'
    BY <1>1, <2>1, <2>2 DEF CheckHolds
  <2>4. nodeOf' = [a \in Client!Address |-> nodeOf'[a]]
    BY <2>1, TransactionsMoveNodes
  <2> QED BY <1>1, <2>1, <2>3, <2>4 DEF Client!LeaksOnlyWhenOvertaken
<1> QED BY <1>2, <1>3, <1>4 DEF Client!ChainStep

\* With the library a domain leaks only where two node updates of one operator
\* overlap, or a signed message is repeated.
THEOREM DomainsLeakByOverlapOnly ==
  ASSUME NetworkAssumption PROVE Spec => DomainsLeakOnlyWhenOvertaken
<1> DEFINE Inv == part = "library" => CheckedInv
           Leaks == part = "library" => Client!LeaksOnlyWhenOvertaken
<1>1. Init => Inv
  <2> SUFFICES ASSUME Init, part = "library" PROVE CheckedInv
    OBVIOUS
  <2>1. Client!RegistryInit /\ Client!CommandsInit
    BY DEF Init, Client!Init
  <2>2. call \in [Client!Process -> Client!Command \union {Client!Blank}]
    BY <2>1 DEF Client!CommandsInit
  <2>3. nodeOf = [a \in Client!Address |-> nodeOf[a]]
    BY <2>1 DEF Client!RegistryInit
  <2>4. /\ phase \in [Client!Process -> Phase] /\ tx \in [Client!Process -> TxState]
        /\ replays \in Nat /\ \A p \in Client!Process : phase[p] = "idle" /\ tx[p] = "none"
    BY <2>1 DEF Client!CommandsInit, Phase, TxState
  <2> QED BY <2>2, <2>3, <2>4 DEF CheckedInv, CheckHolds
<1>2. Inv /\ [Next]_vars => Inv' /\ [Leaks]_vars
  <2> SUFFICES ASSUME Inv, [Next]_vars, part = "library" \/ part' = "library"
               PROVE  CheckedInv' /\ [Client!LeaksOnlyWhenOvertaken]_vars
    OBVIOUS
  <2>1. part = "library"
    BY DEF Next, LibraryStep, TransactionStep, HandlerStep, vars
  <2>2. CheckedInv
    BY <2>1
  <2>3. CASE UNCHANGED vars
    BY <2>2, <2>3 DEF vars, registryVars, clientVars, CheckedInv, CheckHolds, Client!Sent
  <2>4. ASSUME NEW p \in Client!Process, Client!CommandStep(p)
        PROVE  CheckedInv' /\ Client!LeaksOnlyWhenOvertaken
    BY <2>2, <2>4, CommandsKeepCheck DEF Client!LeaksOnlyWhenOvertaken
  <2>5. ASSUME NEW p \in Client!Process, Client!ChainStep(p)
        PROVE  CheckedInv' /\ Client!LeaksOnlyWhenOvertaken
    BY <2>2, <2>5, ChainKeepsCheck
  <2> QED
    BY <2>1, <2>3, <2>4, <2>5 DEF Next, LibraryStep, TransactionStep, HandlerStep, Client!Next
<1>3. Spec => [][Leaks]_vars
  BY <1>1, <1>2, PTL DEF Spec
<1> QED BY <1>3 DEF DomainsLeakOnlyWhenOvertaken

-----------------------------------------------------------------------------
(* Commands and transactions *)

Writes == {"set-node", "set-node-raw", "delete-node", "delete-node-raw", "set-party", "delete-party"}

\* What a command is called with.
LEMMA CommandsTyped ==
  ASSUME NetworkAssumption, NEW c \in Client!Command
  PROVE  /\ c.command \in Writes \union Client!Reads
         /\ c.signer \in Client!Address
         /\ c.command = "set-party" =>
              c.id \in TypedId /\ c.operator \in Account /\ c.certificates \in Certificates
<1> DEFINE Typed(x) == /\ x.command \in Writes \union Client!Reads
                       /\ x.signer \in Client!Address
                       /\ x.command = "set-party" =>
                            x.id \in TypedId /\ x.operator \in Account /\ x.certificates \in Certificates
<1>1. \A d : \A s \in Client!Address : Typed(Client!SetNodeOf(s, d)) /\ Typed(Client!SetNodeRawOf(s, d))
  BY DEF Client!SetNodeOf, Client!SetNodeRawOf, Client!Blank, Writes
<1>2. \A id \in TypedId, files \in Certificates, o \in Account : Typed(Client!SetPartyOf(id, files, o))
  <2>1. \A files \in Certificates : files.owner \in Client!Address
    BY DEF NetworkAssumption, Client!ClientAssumption, Client!Registry!RegistryAssumption,
           Client!Address, Client!Registry!Address
  <2> QED BY <2>1 DEF Client!SetPartyOf, Client!Blank, Writes
<1>3. ASSUME c \in Client!DeleteNodeCommand \union Client!DeleteNodeRawCommand
                     \union Client!DeletePartyCommand
      PROVE  Typed(c)
  BY <1>3 DEF Client!DeleteNodeCommand, Client!DeleteNodeRawCommand, Client!DeletePartyCommand,
              Client!Blank, Client!Address, Writes
<1>4. ASSUME c \in Client!ListNodesCommand \union Client!ListPartiesCommand PROVE Typed(c)
  BY <1>4 DEF Client!ListNodesCommand, Client!ListPartiesCommand, Client!Blank, Client!Address,
              Client!Reads
<1> HIDE DEF Typed
<1>5. ASSUME c \in Client!SetNodeCommand \union Client!SetNodeRawCommand \union Client!SetPartyCommand
      PROVE  Typed(c)
  BY <1>1, <1>2, <1>5 DEF Client!SetNodeCommand, Client!SetNodeRawCommand, Client!SetPartyCommand
<1>6. Typed(c)
  BY <1>3, <1>4, <1>5 DEF Client!Command
<1> QED BY <1>6 DEF Typed

\* The transaction a command sends.
LEMMA TransactionsTyped ==
  ASSUME NetworkAssumption, NEW p \in Client!Process, call[p] \in Client!Command,
         call[p].command \notin Client!Reads
  PROVE  /\ Client!Sent(p).kind \in {"setNode", "setNodeRaw", "deleteNode", "deleteNodeRaw",
                                     "setParty", "deleteParty"}
         /\ Client!Sent(p).owner \in Client!Address
         /\ Client!Sent(p).kind = "setParty" =>
              /\ Client!Sent(p).ocpi = Upper[call[p].id]
              /\ Client!Sent(p).operator \in Account
              /\ Client!Sent(p).certificates.owner \in Client!Address
<1> DEFINE c == call[p]
<1>1. /\ c.command \in Writes /\ c.signer \in Client!Address
      /\ c.command = "set-party" => c.operator \in Account /\ c.certificates \in Certificates
  BY CommandsTyped
<1>2. ASSUME NEW files \in Certificates
      PROVE  Client!ReadJsonCertificates(files).owner \in Client!Address
  BY DEF Client!ReadJsonCertificates, NetworkAssumption, Client!ClientAssumption,
         Client!Registry!RegistryAssumption, Client!Address, Client!Registry!Address
<1> HIDE DEF c
<1>3. Client!Sent(p) = Client!Method(c).tx
  BY DEF Client!Sent, c
<1>4. CASE c.command = "set-party"
  <2>1. Client!Sent(p) = Client!SetParty(c).tx
    BY <1>3, <1>4 DEF Client!Method
  <2>2. /\ Client!Sent(p).kind = "setParty" /\ Client!Sent(p).owner = c.signer
        /\ Client!Sent(p).ocpi = Upper[c.id] /\ Client!Sent(p).operator = c.operator
        /\ Client!Sent(p).certificates = Client!ReadJsonCertificates(c.certificates)
    BY <2>1 DEF Client!SetParty, Client!Transaction
  <2> QED BY <1>1, <1>2, <1>4, <2>2 DEF c
<1>5. CASE c.command # "set-party"
  BY <1>1, <1>3, <1>5 DEF Client!Method, Writes, Client!SetNode, Client!SetNodeRaw, Client!DeleteNode,
     Client!DeleteNodeRaw, Client!DeleteParty, Client!Transaction
<1> QED BY <1>4, <1>5

-----------------------------------------------------------------------------
(* The invariant *)

\* Where a command is, and whether it has sent anything.
PhaseTells(p) ==
  /\ phase[p] # "idle" => call[p] \in Client!Command
  /\ phase[p] \in {"list", "entries"} => call[p].command \in Client!Reads
  /\ phase[p] \in {"check", "send", "wait"} \/ tx[p] # "none" =>
       phase[p] # "idle" /\ call[p].command \notin Client!Reads
  /\ phase[p] \in {"idle", "check", "send", "list", "entries"} => tx[p] = "none"

\* A transaction that no other overtook does what its estimate had it do.
TransactionTells(p) ==
  /\ tx[p] = "pending" /\ p \notin overtaken => Client!RevertOf(Client!Sent(p)) = ""
  /\ tx[p] = "mined" /\ p \notin overtaken => Client!ReadsBack(p)
  /\ tx[p] = "reverted" => p \in overtaken

ReportTells(p) ==
  phase[p] = "ended" /\ call[p].command \notin Client!Reads =>
    /\ report[p] = "done" => tx[p] = "mined"
    /\ report[p] \notin {"done", "no revert reason decoded", "Network connection error"} =>
         tx[p] = "none"
    /\ report[p] = "no revert reason decoded" => tx[p] = "reverted"

CommandTells(p) == PhaseTells(p) /\ TransactionTells(p) /\ ReportTells(p)

ReportInv ==
  /\ call = [p \in Client!Process |-> call[p]]
  /\ phase \in [Client!Process -> Phase]
  /\ tx \in [Client!Process -> TxState]
  /\ report = [p \in Client!Process |-> report[p]]
  /\ nodeOf = [a \in Client!Address |-> nodeOf[a]]
  /\ operatorOf = [a \in Client!Address |-> operatorOf[a]]
  /\ partyOf = [a \in Client!Address |-> partyOf[a]]
  /\ uniqueParties = [id \in OcpiId \union {NoOcpiId} |-> uniqueParties[id]]
  /\ \A p \in Client!Process : CommandTells(p)

\* What the estimate and the reads look at.
answers == <<nodeOf, uniqueDomains, uniqueParties, partyOf, operatorOf>>

\* As long as the registry stays as it is, so do the estimate and the reads.
LEMMA AnswersStay ==
  ASSUME NEW p \in Client!Process, UNCHANGED answers, call'[p] = call[p]
  PROVE  /\ Client!Sent(p)' = Client!Sent(p)
         /\ Client!RevertOf(Client!Sent(p))' = Client!RevertOf(Client!Sent(p))
         /\ Client!ReadsBack(p)' = Client!ReadsBack(p)
<1>1. Client!Sent(p)' = Client!Sent(p)
  BY DEF Client!Sent
<1>2. Client!RevertOf(Client!Sent(p))' = Client!RevertOf(Client!Sent(p))
  BY <1>1 DEF answers, Client!RevertOf, Client!Registry!DomainFree, Client!Registry!IdFree,
     Client!Registry!HasNode
<1>3. Client!ReadsBack(p)' = Client!ReadsBack(p)
  BY <1>1 DEF answers, Client!ReadsBack, Client!GetNode, Client!Registry!GetNode,
     Client!GetPartyByOcpi, Client!GetPartyByAddress, Client!Details
<1> QED BY <1>1, <1>2, <1>3

-----------------------------------------------------------------------------
(* What a command does itself *)

LEMMA CommandsReport ==
  ASSUME ReportInv, NEW p \in Client!Process, Client!CommandStep(p)
  PROVE  ReportInv'
<1> USE DEF ReportInv
<1>1. UNCHANGED <<answers, overtaken>>
  BY DEF Client!CommandStep, Client!Start, Client!CheckForExistingNode, Client!Send, Client!Receipt,
     Client!Lose, Client!ReadArray, Client!ReadEntry, Client!EndOfList, Client!registryVars,
     Client!historyVars, answers
<1> DEFINE Only(f) == /\ f' = [q \in Client!Process |-> f'[q]]
                      /\ \A q \in Client!Process \ {p} : f'[q] = f[q]
<1>2. SUFFICES ASSUME Only(call), Only(phase), Only(tx), Only(report)
               PROVE  CommandTells(p)' /\ phase'[p] \in Phase /\ tx'[p] \in TxState
  <2>1. Only(call) /\ Only(phase) /\ Only(tx) /\ Only(report)
    BY DEF Client!CommandStep, Client!Start, Client!CheckForExistingNode, Client!Send,
       Client!Receipt, Client!Lose, Client!ReadArray, Client!ReadEntry, Client!EndOfList,
       Client!Goes, Client!Reported
  <2>2. \A q \in Client!Process \ {p} : CommandTells(q)'
    BY <1>1, <2>1, AnswersStay DEF CommandTells, PhaseTells, TransactionTells, ReportTells
  <2>3. UNCHANGED <<nodeOf, operatorOf, partyOf, uniqueParties>>
    BY <1>1 DEF answers
  <2> HIDE DEF Only
  <2>4. ASSUME CommandTells(p)', phase'[p] \in Phase, tx'[p] \in TxState PROVE ReportInv'
    <3>1. phase' \in [Client!Process -> Phase] /\ tx' \in [Client!Process -> TxState]
      BY <2>1, <2>4 DEF Only
    <3>2. call' = [q \in Client!Process |-> call'[q]] /\ report' = [q \in Client!Process |-> report'[q]]
      BY <2>1 DEF Only
    <3> QED BY <2>2, <2>3, <2>4, <3>1, <3>2
  <2> QED BY <2>1, <2>4
<1> HIDE DEF Only
<1>3. /\ phase \in [Client!Process -> Phase] /\ tx \in [Client!Process -> TxState] /\ CommandTells(p)
      /\ report = [q \in Client!Process |-> report[q]]
  OBVIOUS
<1>4. CASE Client!Start(p)
  <2>1. PICK c \in Client!Command :
          /\ call' = [call EXCEPT ![p] = c]
          /\ \/ c.command \in Client!Reads /\ Client!Goes(p, "list")
             \/ /\ c.command \notin Client!Reads
                /\ \/ ~Client!VerifyWritable(c) /\ Client!Reported(p, "No signer provided")
                   \/ /\ Client!VerifyWritable(c) /\ ~Client!Method(c).valid
                      /\ Client!Reported(p, "Invalid argument")
                   \/ /\ Client!VerifyWritable(c) /\ Client!Method(c).valid
                      /\ Client!Goes(p, IF Client!Method(c).checks THEN "check" ELSE "send")
    BY <1>4 DEF Client!Start
  <2>2. phase[p] = "idle" /\ tx' = tx /\ call'[p] = c
    BY <1>4, <2>1 DEF Client!Start
  <2> HIDE DEF ReportInv
  <2>3. \/ phase'[p] = "list" /\ c.command \in Client!Reads
        \/ phase'[p] \in {"check", "send"} /\ c.command \notin Client!Reads
        \/ /\ phase'[p] = "ended" /\ report'[p] \in {"No signer provided", "Invalid argument"}
           /\ c.command \notin Client!Reads
    <3>1. ASSUME NEW next, phase' = [phase EXCEPT ![p] = next] PROVE phase'[p] = next
      BY <1>3, <3>1
    <3>2. ASSUME NEW text, report' = [report EXCEPT ![p] = text] PROVE report'[p] = text
      BY <1>3, <3>2
    <3> QED BY <2>1, <3>1, <3>2 DEF Client!Goes, Client!Reported
  <2>4. tx'[p] = "none"
    BY <1>3, <2>2 DEF CommandTells, PhaseTells
  <2> QED
    BY <2>2, <2>3, <2>4 DEF CommandTells, PhaseTells, TransactionTells, ReportTells, Phase, TxState
<1>5. ASSUME call'[p] = call[p]
      PROVE  /\ Client!RevertOf(Client!Sent(p))' = Client!RevertOf(Client!Sent(p))
             /\ Client!ReadsBack(p)' = Client!ReadsBack(p)
             /\ (p \in overtaken') <=> (p \in overtaken)
  BY <1>1, <1>5, AnswersStay
<1>6. CASE Client!CheckForExistingNode(p)
  <2>1. /\ phase[p] = "check" /\ tx' = tx /\ call'[p] = call[p]
        /\ \/ phase'[p] = "send"
           \/ phase'[p] = "ended" /\ report'[p] = "Transaction failed"
    BY <1>3, <1>6 DEF Client!CheckForExistingNode, Client!Goes, Client!Reported,
       Client!HandleContractError, Client!GetDecodedRevert, Client!GetReadableErrorMessage,
       Client!Failure
  <2> QED
    BY <1>3, <2>1 DEF CommandTells, PhaseTells, TransactionTells, ReportTells, Phase, TxState
<1>7. CASE Client!Send(p)
  <2>1. phase[p] = "send" /\ call'[p] = call[p]
    BY <1>7 DEF Client!Send
  <2>2. CASE Client!RevertOf(Client!Sent(p)) # ""
    <3>1. /\ tx' = tx /\ phase'[p] = "ended"
          /\ report'[p] \in Client!Decodable \union {"revert selector"}
      BY <1>3, <1>7, <2>2 DEF Client!Send, Client!Reported, Client!HandleContractError,
         Client!GetDecodedRevert, Client!GetReadableErrorMessage, Client!Failure
    <3> QED
      BY <1>3, <2>1, <3>1 DEF CommandTells, PhaseTells, TransactionTells, ReportTells, Phase,
         TxState, Client!Decodable
  <2>3. CASE Client!RevertOf(Client!Sent(p)) = ""
    <3>1. tx'[p] = "pending" /\ phase'[p] = "wait"
      BY <1>3, <1>7, <2>3 DEF Client!Send, Client!Goes
    <3> QED
      BY <1>3, <1>5, <2>1, <2>3, <3>1 DEF CommandTells, PhaseTells, TransactionTells, ReportTells,
         Phase, TxState
  <2> QED BY <2>2, <2>3
<1>8. CASE Client!Receipt(p)
  <2>1. /\ phase[p] = "wait" /\ tx' = tx /\ call'[p] = call[p] /\ phase'[p] = "ended"
        /\ \/ tx[p] = "mined" /\ report'[p] = "done"
           \/ tx[p] = "reverted" /\ report'[p] = "no revert reason decoded"
    BY <1>3, <1>8 DEF Client!Receipt, Client!Reported, Client!HandleContractError,
       Client!GetDecodedRevert, Client!GetReadableErrorMessage, Client!Failure
  <2> QED
    BY <1>3, <1>5, <2>1 DEF CommandTells, PhaseTells, TransactionTells, ReportTells, Phase, TxState
<1>9. CASE Client!Lose(p)
  <2>1. /\ phase[p] \notin {"idle", "ended"} /\ tx' = tx /\ call'[p] = call[p]
        /\ phase'[p] = "ended" /\ report'[p] = "Network connection error"
    BY <1>3, <1>9 DEF Client!Lose, Client!Reported, Client!HandleContractError,
       Client!GetDecodedRevert, Client!GetReadableErrorMessage, Client!Failure
  <2> QED
    BY <1>3, <1>5, <2>1 DEF CommandTells, PhaseTells, TransactionTells, ReportTells, Phase, TxState
<1>10. CASE Client!ReadArray(p) \/ Client!ReadEntry(p) \/ Client!EndOfList(p)
  <2>1. /\ phase[p] \in {"list", "entries"} /\ phase'[p] \in {"entries", "ended"} /\ tx' = tx
        /\ call'[p] = call[p]
    BY <1>3, <1>10 DEF Client!ReadArray, Client!ReadEntry, Client!EndOfList, Client!Goes,
       Client!Reported
  <2> QED
    BY <1>3, <2>1 DEF CommandTells, PhaseTells, TransactionTells, ReportTells, Phase, TxState
<1> QED BY <1>4, <1>6, <1>7, <1>8, <1>9, <1>10 DEF Client!CommandStep

-----------------------------------------------------------------------------
(* What the chain does *)

\* A transaction mined is read back as the command had it.
LEMMA MinedReadsBack ==
  ASSUME NetworkAssumption, ReportInv, NEW p \in Client!Process, call[p] \in Client!Command,
         call[p].command \notin Client!Reads, Client!Execute(Client!Sent(p)), call' = call
  PROVE  /\ Client!ReadsBack(p)'
         /\ nodeOf' = [a \in Client!Address |-> nodeOf'[a]]
         /\ operatorOf' = [a \in Client!Address |-> operatorOf'[a]]
         /\ partyOf' = [a \in Client!Address |-> partyOf'[a]]
         /\ uniqueParties' = [id \in OcpiId \union {NoOcpiId} |-> uniqueParties'[id]]
<1> DEFINE t == Client!Sent(p)
           Kept == /\ nodeOf' = [a \in Client!Address |-> nodeOf'[a]]
                   /\ operatorOf' = [a \in Client!Address |-> operatorOf'[a]]
                   /\ partyOf' = [a \in Client!Address |-> partyOf'[a]]
                   /\ uniqueParties' = [id \in OcpiId \union {NoOcpiId} |-> uniqueParties'[id]]
<1>1. Client!Sent(p)' = t
  BY DEF Client!Sent
<1>2. /\ t.owner \in Client!Address
      /\ t.kind = "setParty" =>
           /\ t.ocpi = Upper[call[p].id] /\ t.operator \in Account
           /\ t.certificates.owner \in Client!Address
      /\ t.kind \in {"setNode", "setNodeRaw", "deleteNode", "deleteNodeRaw", "setParty", "deleteParty"}
  BY TransactionsTyped
<1>3. NoAddress \notin Account
  BY DEF NetworkAssumption, Client!Registry!RegistryAssumption
<1> HIDE DEF t
<1>4. CASE t.kind \in {"setNode", "setNodeRaw"}
  <2>1. Client!Registry!SetNodeFor(t.owner, t.domain)
    BY <1>4 DEF t, Client!Execute, Client!Registry!SetNode, Client!Registry!SetNodeRaw
  <2>2. /\ nodeOf' = [nodeOf EXCEPT ![t.owner] = t.domain]
        /\ UNCHANGED <<operatorOf, partyOf, uniqueParties>>
    BY <2>1 DEF Client!Registry!SetNodeFor, Client!Registry!partyVars
  <2>3. nodeOf'[t.owner] = t.domain /\ Kept
    BY <1>2, <2>2 DEF ReportInv
  <2> QED
    BY <1>1, <1>4, <2>3 DEF Client!ReadsBack, Client!GetNode, Client!Registry!GetNode
<1>5. CASE t.kind \in {"deleteNode", "deleteNodeRaw"}
  <2>1. Client!Registry!DeleteNodeOf(t.owner)
    BY <1>5 DEF t, Client!Execute, Client!Registry!DeleteNode, Client!Registry!DeleteNodeRaw
  <2>2. /\ nodeOf' = [nodeOf EXCEPT ![t.owner] = NoDomain]
        /\ UNCHANGED <<operatorOf, partyOf, uniqueParties>>
    BY <2>1 DEF Client!Registry!DeleteNodeOf, Client!Registry!partyVars
  <2>3. nodeOf'[t.owner] = NoDomain /\ Kept
    BY <1>2, <2>2 DEF ReportInv
  <2> QED
    BY <1>1, <1>5, <2>3 DEF Client!ReadsBack, Client!GetNode, Client!Registry!GetNode
<1>6. CASE t.kind = "setParty"
  <2> DEFINE owner == t.certificates.owner
  <2>1. PICK status : Client!Registry!SetParty(t.ocpi, t.certificates.roles, t.operator, owner, status)
    BY <1>6 DEF t, Client!Execute
  <2> DEFINE details == [ocpi |-> t.ocpi, roles |-> t.certificates.roles, paymentStatus |-> status,
                         active |-> TRUE, partyIndex |-> Client!Registry!PartyIndex(owner)]
  <2>2. partyOf' = [partyOf EXCEPT ![owner] = details] /\ details.ocpi = t.ocpi
    BY <2>1 DEF Client!Registry!SetParty
  <2>3. /\ uniqueParties' = [uniqueParties EXCEPT ![t.ocpi] = owner]
        /\ operatorOf' = [operatorOf EXCEPT ![owner] = t.operator]
        /\ UNCHANGED nodeOf
    BY <2>1 DEF Client!Registry!SetParty, Client!Registry!nodeVars
  <2>4. t.ocpi \in OcpiId \union {NoOcpiId}
    <3>1. call[p].command = "set-party"
      BY <1>6, CommandsTyped DEF t, Client!Sent, Client!Method, Writes, Client!SetNode,
         Client!SetNodeRaw, Client!DeleteNode, Client!DeleteNodeRaw, Client!DeleteParty,
         Client!Transaction
    <3>2. call[p].id \in TypedId
      BY <3>1, CommandsTyped
    <3> QED BY <1>2, <1>6, <3>2 DEF NetworkAssumption, Client!ClientAssumption
  <2> HIDE DEF owner, details
  <2>5. /\ uniqueParties'[t.ocpi] = owner /\ operatorOf'[owner] = t.operator
        /\ partyOf'[owner].ocpi = t.ocpi /\ Kept
    BY <1>2, <1>6, <2>2, <2>3, <2>4 DEF ReportInv, owner
  <2>6. uniqueParties'[Upper[call'[p].id]] = owner /\ operatorOf'[owner] # NoAddress
    BY <1>2, <1>3, <1>6, <2>5
  <2> QED
    BY <1>1, <1>6, <2>5, <2>6 DEF Client!ReadsBack, Client!GetPartyByOcpi,
       Client!GetPartyByAddress, Client!Details, owner
<1>7. CASE t.kind = "deleteParty"
  <2>1. Client!Registry!DeletePartyOf(t.owner)
    BY <1>7 DEF t, Client!Execute, Client!Registry!DeleteParty
  <2>2. /\ operatorOf' = [operatorOf EXCEPT ![t.owner] = NoAddress]
        /\ partyOf' = [partyOf EXCEPT ![t.owner] = Client!Registry!NoDetails]
        /\ uniqueParties' = [uniqueParties EXCEPT ![partyOf[t.owner].ocpi] = NoAddress]
        /\ UNCHANGED nodeOf
    BY <2>1 DEF Client!Registry!DeletePartyOf, Client!Registry!nodeVars
  <2>3. operatorOf'[t.owner] = NoAddress /\ Kept
    BY <1>2, <2>2 DEF ReportInv
  <2> QED
    BY <1>1, <1>7, <2>3 DEF Client!ReadsBack, Client!GetPartyByAddress
<1> QED BY <1>2, <1>4, <1>5, <1>6, <1>7

LEMMA ChainKeepsReports ==
  ASSUME NetworkAssumption, ReportInv, NEW p \in Client!Process, Client!ChainStep(p)
  PROVE  ReportInv'
<1> USE DEF ReportInv
<1>1. UNCHANGED <<call, phase, report>> /\ \A q \in Client!Process : Client!Sent(q)' = Client!Sent(q)
  BY DEF Client!ChainStep, Client!Mine, Client!Revert, Client!Drop, Client!Replay,
     Client!commandVars, Client!readVars, Client!Sent
<1>2. tx[p] # "none" => call[p] \in Client!Command /\ call[p].command \notin Client!Reads
  BY DEF CommandTells, PhaseTells
<1>3. CASE Client!Mine(p)
  <2>1. /\ Client!Execute(Client!Sent(p)) /\ tx[p] = "pending" /\ tx' = [tx EXCEPT ![p] = "mined"]
        /\ overtaken' = overtaken \union
             {q \in Client!Process \ {p} : phase[q] = "send" \/ tx[q] \in {"pending", "mined"}}
    BY <1>3 DEF Client!Mine, Client!Observed
  <2>2. /\ tx' \in [Client!Process -> TxState] /\ tx'[p] = "mined"
        /\ \A q \in Client!Process \ {p} : tx'[q] = tx[q]
    BY <2>1 DEF TxState
  <2>3. /\ Client!ReadsBack(p)'
        /\ nodeOf' = [a \in Client!Address |-> nodeOf'[a]]
        /\ operatorOf' = [a \in Client!Address |-> operatorOf'[a]]
        /\ partyOf' = [a \in Client!Address |-> partyOf'[a]]
        /\ uniqueParties' = [id \in OcpiId \union {NoOcpiId} |-> uniqueParties'[id]]
    BY <1>1, <1>2, <2>1, MinedReadsBack
  <2>4. CommandTells(p)'
    BY <1>1, <2>1, <2>2, <2>3 DEF CommandTells, PhaseTells, TransactionTells, ReportTells
  <2>5. ASSUME NEW q \in Client!Process \ {p} PROVE CommandTells(q)'
    BY <1>1, <2>1, <2>2 DEF CommandTells, PhaseTells, TransactionTells, ReportTells
  <2> QED BY <1>1, <2>2, <2>3, <2>4, <2>5
<1>4. CASE Client!Revert(p) \/ Client!Drop(p)
  <2>1. /\ UNCHANGED <<answers, overtaken>> /\ tx[p] = "pending"
        /\ \/ tx' = [tx EXCEPT ![p] = "reverted"] /\ Client!RevertOf(Client!Sent(p)) # ""
           \/ tx' = [tx EXCEPT ![p] = "dropped"]
    BY <1>4 DEF Client!Revert, Client!Drop, Client!registryVars, Client!historyVars, answers
  <2>2. /\ tx' \in [Client!Process -> TxState]
        /\ \/ tx'[p] = "reverted" /\ Client!RevertOf(Client!Sent(p)) # ""
           \/ tx'[p] = "dropped"
        /\ \A q \in Client!Process \ {p} : tx'[q] = tx[q]
    BY <2>1 DEF TxState
  <2>3. CommandTells(p)'
    BY <1>1, <2>1, <2>2 DEF CommandTells, PhaseTells, TransactionTells, ReportTells
  <2>4. ASSUME NEW q \in Client!Process \ {p} PROVE CommandTells(q)'
    BY <1>1, <2>1, <2>2, AnswersStay DEF CommandTells, PhaseTells, TransactionTells, ReportTells
  <2> QED BY <1>1, <2>1, <2>2, <2>3, <2>4 DEF answers
<1>5. CASE Client!Replay(p)
  <2>1. /\ Client!Execute(Client!Sent(p)) /\ tx' = tx /\ tx[p] # "none"
        /\ overtaken' = overtaken \union
             {q \in Client!Process : phase[q] = "send" \/ tx[q] \in {"pending", "mined"}}
    BY <1>5 DEF Client!Replay, Client!commandVars, Client!Observed
  <2>2. /\ nodeOf' = [a \in Client!Address |-> nodeOf'[a]]
        /\ operatorOf' = [a \in Client!Address |-> operatorOf'[a]]
        /\ partyOf' = [a \in Client!Address |-> partyOf'[a]]
        /\ uniqueParties' = [id \in OcpiId \union {NoOcpiId} |-> uniqueParties'[id]]
    BY <1>1, <1>2, <2>1, MinedReadsBack
  <2>3. ASSUME NEW q \in Client!Process PROVE CommandTells(q)'
    BY <1>1, <2>1 DEF CommandTells, PhaseTells, TransactionTells, ReportTells
  <2> QED BY <1>1, <2>1, <2>2, <2>3
<1> QED BY <1>3, <1>4, <1>5 DEF Client!ChainStep

-----------------------------------------------------------------------------
(* What the library's commands report *)

\* Whatever the commands of others and the chain do in between: "done" is said of a
\* mined transaction that is read back until another one is mined, a named cause
\* only of what was not sent, and no cause only after another transaction.
THEOREM ReportsCanBeReliedOn ==
  ASSUME NetworkAssumption PROVE Spec => []ReportsTell
<1> DEFINE Inv == /\ part = "library" => ReportInv
                  /\ part # "library" => \A p \in Client!Process : phase[p] = "idle"
<1>1. Init => Inv
  <2> SUFFICES ASSUME Init PROVE Inv
    OBVIOUS
  <2>1. Client!CommandsInit
    BY DEF Init, Client!Init
  <2>2. \A p \in Client!Process : phase[p] = "idle" /\ tx[p] = "none" /\ report[p] = ""
    BY <2>1 DEF Client!CommandsInit
  <2>3. /\ call = [p \in Client!Process |-> call[p]]
        /\ report = [p \in Client!Process |-> report[p]]
        /\ phase \in [Client!Process -> Phase] /\ tx \in [Client!Process -> TxState]
    BY <2>1 DEF Client!CommandsInit, Phase, TxState
  <2>4. ASSUME part = "library" PROVE ReportInv
    <3>1. Client!RegistryInit
      BY <2>4 DEF Init, Client!Init
    <3>2. /\ nodeOf = [a \in Client!Address |-> nodeOf[a]]
          /\ operatorOf = [a \in Client!Address |-> operatorOf[a]]
          /\ partyOf = [a \in Client!Address |-> partyOf[a]]
          /\ uniqueParties = [id \in OcpiId \union {NoOcpiId} |-> uniqueParties[id]]
      BY <3>1 DEF Client!RegistryInit
    <3> QED
      BY <2>2, <2>3, <3>2 DEF ReportInv, CommandTells, PhaseTells, TransactionTells, ReportTells
  <2> QED BY <2>2, <2>4
<1>2. Inv /\ [Next]_vars => Inv'
  <2> SUFFICES ASSUME Inv, [Next]_vars PROVE Inv'
    OBVIOUS
  <2>1. CASE UNCHANGED vars
    <3>1. UNCHANGED <<answers, overtaken, call, phase, tx, report, part>>
      BY <2>1 DEF vars, registryVars, clientVars, answers
    <3>2. ReportInv => ReportInv'
      BY <3>1, AnswersStay DEF answers, ReportInv, CommandTells, PhaseTells, TransactionTells,
         ReportTells
    <3> QED BY <3>1, <3>2
  <2>2. CASE LibraryStep
    BY <2>2, CommandsReport, ChainKeepsReports DEF LibraryStep, Client!Next
  <2>3. CASE TransactionStep \/ HandlerStep
    BY <2>3 DEF TransactionStep, HandlerStep, clientVars
  <2> QED BY <2>1, <2>2, <2>3 DEF Next
<1>3. Inv => ReportsTell
  BY DEF ReportInv, CommandTells, PhaseTells, TransactionTells, ReportTells, ReportsTell,
     Client!ReportsTell
<1> QED BY <1>1, <1>2, <1>3, PTL DEF Spec

-----------------------------------------------------------------------------
(* That the lists read entry by entry are complete and hold nothing that never *)
(* was, for any number of commands.  The registry's own invariants are taken   *)
(* from OcnRegistryProofs: every transaction of a command is one of OcnRegistry.*)

Contract == INSTANCE OcnRegistryProofs

\* The registry's invariants the lists rest on.
ContractInv ==
  Contract!TypeOK /\ Contract!OperatorsFlagged /\ Contract!ListingInv /\ Contract!IdHeld

LEMMA ContractStep ==
  ASSUME NetworkAssumption, NoAddress \notin CredentialOwner,
         ContractInv, [Contract!Next]_(Contract!vars)
  PROVE  ContractInv'
<1>1. Contract!RegistryAssumption
  BY DEF NetworkAssumption, Client!Registry!RegistryAssumption, Contract!RegistryAssumption,
     Client!Registry!Address, Contract!Address
<1>2. Contract!TypeOK'
  BY <1>1, Contract!TypeStep DEF ContractInv
<1>3. Contract!OperatorsFlagged'
  BY <1>1, Contract!OperatorsFlaggedStep DEF ContractInv
<1>4. Contract!ListingInv'
  BY <1>1, Contract!ListingInvStep DEF ContractInv
<1>5. Contract!IdHeld'
  BY <1>1, Contract!IdHeldStep DEF ContractInv
<1> QED BY <1>2, <1>3, <1>4, <1>5 DEF ContractInv

LEMMA ContractInit ==
  ASSUME NetworkAssumption, Client!RegistryInit PROVE ContractInv
<1> USE DEF NetworkAssumption, Client!Registry!RegistryAssumption, Client!Registry!Address,
            Client!ClientAssumption
<1>1. Contract!NoDetails \in Contract!PartyDetails
  BY DEF Contract!NoDetails, Contract!PartyDetails
<1>2. Client!Registry!NoDetails = Contract!NoDetails
  BY DEF Contract!NoDetails, Client!Registry!NoDetails
<1>3. /\ Founder.operator \in Account /\ Founder.domain \in Domain
      /\ Client!Address = Account \union {NoAddress} /\ Contract!Address = Account \union {NoAddress}
  BY DEF Client!Address, Contract!Address
<1>4. Contract!TypeOK
  <2>1. /\ operators \in Seq(Contract!Address) /\ parties \in Seq(Contract!Address)
        /\ Len(parties) <= MaxParties
    BY <1>3 DEF Client!RegistryInit
  <2>2. partyOf \in [Contract!Address -> Contract!PartyDetails]
    BY <1>1, <1>2, <1>3 DEF Client!RegistryInit
  <2> QED BY <1>3, <2>1, <2>2 DEF Client!RegistryInit, Contract!TypeOK
<1>5. Contract!OperatorsFlagged
  <2>1. operators = <<Founder.operator>> /\ uniqueOperators = {Founder.operator}
    BY DEF Client!RegistryInit
  <2>2. DOMAIN operators = {1} /\ operators[1] = Founder.operator
    BY <2>1
  <2>3. \A a \in Contract!Address : /\ nodeOf[a] # NoDomain => a = Founder.operator
                                   /\ operatorOf[a] = NoAddress
    BY <1>3 DEF Client!RegistryInit
  <2> QED BY <2>1, <2>2, <2>3 DEF Contract!OperatorsFlagged
<1>6. Contract!ListingInv
  <2>1. Contract!ListedParties = {} /\ parties = << >> /\ uniquePartyAddresses = {}
    BY <1>3 DEF Client!RegistryInit, Contract!ListedParties
  <2>2. \A p \in Contract!Address : partyOf[p] = Contract!NoDetails
    BY <1>2, <1>3 DEF Client!RegistryInit
  <2>3. DOMAIN parties = {}
    BY <2>1
  <2>4. ~Contract!NoDetails.active
    BY DEF Contract!NoDetails
  <2> QED
    BY <2>1, <2>2, <2>3, <2>4 DEF Contract!ListingInv, Contract!PartiesIndexed, Contract!ListingConsistent
<1>7. Contract!IdHeld
  BY <1>3 DEF Client!RegistryInit, Contract!IdHeld, Contract!ListedParties
<1> QED BY <1>4, <1>5, <1>6, <1>7 DEF ContractInv

-----------------------------------------------------------------------------
(* A command's transaction is one of the contract's *)

\* What sends a transaction was found valid.
SentValid(p) ==
  phase[p] \in {"check", "send", "wait"} \/ tx[p] # "none" => Client!Method(call[p]).valid

LEMMA CommandNames ==
  ASSUME NEW c \in Client!Command
  PROVE  /\ c.command = "set-node" => c \in Client!SetNodeCommand
         /\ c.command = "set-node-raw" => c \in Client!SetNodeRawCommand
         /\ c.command = "delete-party" => c \in Client!DeletePartyCommand
<1>1. /\ \A s, d : /\ Client!SetNodeOf(s, d).command = "set-node"
                   /\ Client!SetNodeRawOf(s, d).command = "set-node-raw"
      /\ \A id, files, o : Client!SetPartyOf(id, files, o).command = "set-party"
  BY DEF Client!SetNodeOf, Client!SetNodeRawOf, Client!SetPartyOf, Client!Blank
<1>2. /\ c \in Client!SetNodeCommand => c.command = "set-node"
      /\ c \in Client!SetNodeRawCommand => c.command = "set-node-raw"
      /\ c \in Client!SetPartyCommand => c.command = "set-party"
  BY <1>1 DEF Client!SetNodeCommand, Client!SetNodeRawCommand, Client!SetPartyCommand
<1>3. /\ c \in Client!DeleteNodeCommand => c.command = "delete-node"
      /\ c \in Client!DeleteNodeRawCommand => c.command = "delete-node-raw"
      /\ c \in Client!DeletePartyCommand => c.command = "delete-party"
      /\ c \in Client!ListNodesCommand => c.command = "list-nodes"
      /\ c \in Client!ListPartiesCommand => c.command = "list-parties"
  BY DEF Client!DeleteNodeCommand, Client!DeleteNodeRawCommand, Client!DeletePartyCommand,
         Client!ListNodesCommand, Client!ListPartiesCommand, Client!Blank
<1> QED BY <1>2, <1>3 DEF Client!Command

LEMMA ExecuteIsTransaction ==
  ASSUME NetworkAssumption, NEW p \in Client!Process, call[p] \in Client!Command,
         call[p].command \notin Client!Reads, Client!Method(call[p]).valid,
         Client!Execute(Client!Sent(p))
  PROVE  Contract!Next
<1> DEFINE c == call[p]
           t == Client!Sent(p)
<1>1. t = Client!Method(c).tx
  BY DEF Client!Sent
<1>2. c.command \in Writes /\ c.signer \in Client!Address
  BY CommandsTyped
<1>3. c.command \in {"set-node", "set-node-raw"} => c.domain \in Domain
  <2>1. \A s : \A d \in Domain : /\ Client!SetNodeOf(s, d).domain = d
                                 /\ Client!SetNodeRawOf(s, d).domain = d
    BY DEF Client!SetNodeOf, Client!SetNodeRawOf, Client!Blank
  <2> QED BY <2>1, CommandNames DEF Client!SetNodeCommand, Client!SetNodeRawCommand
<1>4. c.command = "delete-party" => c.signer \in Account
  <2>1. c \in Client!DeletePartyCommand => c.signer \in Account
    BY DEF Client!DeletePartyCommand, Client!Blank
  <2> QED BY <2>1, CommandNames
<1>5. Client!Address = Contract!Address
  BY DEF Client!Address, Contract!Address
<1> HIDE DEF c
<1>6. CASE c.command \in {"set-node", "set-node-raw"}
  <2>1. /\ t.kind \in {"setNode", "setNodeRaw"} /\ t.owner = c.signer
        /\ t.domain \in {c.domain, Origin[c.domain]}
        /\ t.domain = c.domain \/ Origin[c.domain] # NotUrl
    BY <1>1, <1>6 DEF c, Client!Method, Client!SetNode, Client!SetNodeRaw, Client!Transaction
  <2>2. t.domain \in Domain
    BY <1>3, <1>6, <2>1 DEF NetworkAssumption, Client!ClientAssumption
  <2>3. Contract!SetNodeRaw(t.owner, t.domain)
    BY <2>1 DEF Client!Execute, Client!Registry!SetNode, Client!Registry!SetNodeRaw,
       Client!Registry!SetNodeFor, Client!Registry!DomainFree, Client!Registry!OperatorsWith,
       Client!Registry!partyVars, Client!Registry!adminVars,
       Contract!SetNodeRaw, Contract!SetNodeFor, Contract!DomainFree, Contract!OperatorsWith,
       Contract!partyVars, Contract!adminVars
  <2> QED BY <1>2, <1>5, <2>1, <2>2, <2>3 DEF Contract!Next, Contract!NodeStep
<1>7. CASE c.command \in {"delete-node", "delete-node-raw"}
  <2>1. t.kind \in {"deleteNode", "deleteNodeRaw"} /\ t.owner = c.signer
    BY <1>1, <1>7 DEF c, Client!Method, Client!DeleteNode, Client!DeleteNodeRaw, Client!Transaction
  <2>2. Contract!DeleteNodeRaw(t.owner)
    BY <2>1 DEF Client!Execute, Client!Registry!DeleteNode, Client!Registry!DeleteNodeRaw,
       Client!Registry!DeleteNodeOf, Client!Registry!partyVars, Client!Registry!adminVars,
       Contract!DeleteNodeRaw, Contract!DeleteNodeOf, Contract!partyVars, Contract!adminVars
  <2> QED BY <1>2, <1>5, <2>1, <2>2 DEF Contract!Next, Contract!NodeStep
<1>8. CASE c.command = "set-party"
  <2>1. /\ c.certificates \in Certificates /\ c.operator \in Account /\ c.id \in TypedId
    BY <1>8, CommandsTyped DEF c
  <2>2. t = Client!SetParty(c).tx
    BY <1>1, <1>8 DEF c, Client!Method
  <2>3. /\ t.kind = "setParty" /\ t.ocpi = Upper[c.id] /\ t.operator = c.operator
        /\ t.certificates = Client!ReadJsonCertificates(c.certificates)
    BY <2>2 DEF Client!SetParty, Client!Transaction
  <2> HIDE DEF t
  <2>4. t.certificates.roles \in SUBSET Role /\ t.certificates.owner \in CredentialOwner
    BY <2>1, <2>3 DEF Client!ReadJsonCertificates, NetworkAssumption, Client!ClientAssumption
  <2>5. t.ocpi \in OcpiId \union {NoOcpiId} /\ t.operator \in Contract!Address
    BY <2>1, <2>3 DEF NetworkAssumption, Client!ClientAssumption, Contract!Address
  <2>6. PICK status \in PaymentStatus :
          Contract!SetParty(t.ocpi, t.certificates.roles, t.operator, t.certificates.owner, status)
    BY <2>3 DEF t, Client!Execute, Client!Registry!SetParty, Client!Registry!IdFree,
       Client!Registry!HasNode, Client!Registry!Known, Client!Registry!PartyIndex,
       Client!Registry!PartiesWith, Client!Registry!nodeVars, Client!Registry!adminVars,
       Contract!SetParty, Contract!IdFree, Contract!HasNode, Contract!Known, Contract!PartyIndex,
       Contract!PartiesWith, Contract!nodeVars, Contract!adminVars
  <2> QED BY <2>4, <2>5, <2>6 DEF Contract!Next, Contract!PartyStep
<1>9. CASE c.command = "delete-party"
  <2>1. t.kind = "deleteParty" /\ t.owner = c.signer
    BY <1>1, <1>9 DEF c, Client!Method, Client!DeleteParty, Client!Transaction
  <2>2. Contract!DeleteParty(t.owner)
    BY <2>1 DEF Client!Execute, Client!Registry!DeleteParty, Client!Registry!DeletePartyOf,
       Client!Registry!NoDetails, Client!Registry!PartiesWithout, Client!Registry!nodeVars,
       Client!Registry!adminVars, Contract!DeleteParty, Contract!DeletePartyOf,
       Contract!NoDetails, Contract!PartiesWithout, Contract!nodeVars, Contract!adminVars
  <2> QED BY <1>4, <1>9, <2>1, <2>2 DEF Contract!Next, Contract!PartyStep
<1> QED BY <1>2, <1>6, <1>7, <1>8, <1>9 DEF Writes

-----------------------------------------------------------------------------
(* Reading a list *)

\* An address's entry, and whether it has one.
Item(command, a) ==
  IF command = "list-nodes" THEN <<a, nodeOf[a]>> ELSE <<a, partyOf[a].ocpi, operatorOf[a]>>

Listed(command, a) ==
  IF command = "list-nodes" THEN nodeOf[a] # NoDomain ELSE operatorOf[a] # NoAddress

LEMMA EntriesRead ==
  ASSUME NEW command \in Client!Reads
  PROVE  /\ \A a : Client!Entry(command, a) = IF Listed(command, a) THEN <<Item(command, a)>> ELSE << >>
         /\ \A a : Item(command, a)[1] = a
         /\ Client!Entries(command) = {Item(command, a) : a \in {b \in Client!Address : Listed(command, b)}}
<1>1. ASSUME NEW a
      PROVE  Client!Entry(command, a) = IF Listed(command, a) THEN <<Item(command, a)>> ELSE << >>
  <2>1. CASE command = "list-nodes"
    BY <2>1 DEF Client!Entry, Client!NodeEntry, Client!GetNode, Client!Registry!GetNode, Item, Listed
  <2>2. CASE command = "list-parties"
    BY <2>2 DEF Client!Entry, Client!PartyEntry, Client!Details, Item, Listed
  <2> QED BY <2>1, <2>2 DEF Client!Reads
<1>2. ASSUME NEW a PROVE Item(command, a)[1] = a
  <2>1. CASE command = "list-nodes"
    BY <2>1 DEF Item
  <2>2. CASE command # "list-nodes"
    BY <2>2 DEF Item
  <2> QED BY <2>1, <2>2
<1>3. \A a : (Client!Entry(command, a) # << >> <=> Listed(command, a))
             /\ (Listed(command, a) => Client!Entry(command, a)[1] = Item(command, a))
  BY <1>1
<1>4. Client!Entries(command) = {Item(command, a) : a \in {b \in Client!Address : Listed(command, b)}}
  BY <1>3 DEF Client!Entries
<1> QED BY <1>1, <1>2, <1>4

\* A list under way: nothing read that never was, nobody twice, and whoever was
\* there all the time is read or still to come.
Reading(p) ==
  /\ rest[p] \in Seq(Client!Address) /\ found[p] \in Seq(ever[p])
  /\ Client!Entries(call[p].command) \subseteq ever[p]
  /\ always[p] \subseteq Client!Entries(call[p].command)
  /\ \A i, j \in DOMAIN rest[p] : rest[p][i] = rest[p][j] /\ i # j =>
       call[p].command = "list-parties" /\ rest[p][i] = NoAddress
  /\ \A i \in DOMAIN found[p] : \A j \in DOMAIN rest[p] : found[p][i][1] # rest[p][j]
  /\ \A i, j \in DOMAIN found[p] : found[p][i][1] = found[p][j][1] => i = j
  /\ \A e \in always[p] :
       (\E i \in DOMAIN found[p] : found[p][i] = e) \/ (\E j \in DOMAIN rest[p] : rest[p][j] = e[1])

Complete(p) ==
  /\ found[p] \in Seq(ever[p])
  /\ \A i, j \in DOMAIN found[p] : found[p][i][1] = found[p][j][1] => i = j
  /\ \A e \in always[p] : \E i \in DOMAIN found[p] : found[p][i] = e

ReadTells(p) ==
  /\ report[p] = "done" => phase[p] = "ended"
  /\ phase[p] \in {"idle", "list"} => found[p] = << >>
  /\ phase[p] = "entries" => Reading(p)
  /\ phase[p] = "ended" /\ call[p].command \in Client!Reads /\ report[p] = "done" => Complete(p)

\* The two arrays name whoever is listed, and nobody twice.
LEMMA ArraysList ==
  ASSUME ContractInv, NEW command \in Client!Reads, NEW array,
         array = IF command = "list-nodes" THEN operators ELSE parties
  PROVE  /\ array \in Seq(Client!Address)
         /\ \A i, j \in DOMAIN array : array[i] = array[j] /\ i # j =>
              command = "list-parties" /\ array[i] = NoAddress
         /\ \A a \in Client!Address : Listed(command, a) => \E i \in DOMAIN array : array[i] = a
<1>1. Client!Address = Contract!Address
  BY DEF Client!Address, Contract!Address
<1>2. CASE command = "list-nodes"
  BY <1>1, <1>2 DEF ContractInv, Contract!TypeOK, Contract!OperatorsFlagged, Listed
<1>3. CASE command = "list-parties"
  <2>1. array = parties /\ parties \in Seq(Contract!Address)
    BY <1>3 DEF ContractInv, Contract!TypeOK
  <2>2. Contract!PartiesIndexed
    BY DEF ContractInv, Contract!ListingInv
  <2>3. ASSUME NEW i \in DOMAIN parties, NEW j \in DOMAIN parties, parties[i] = parties[j],
               parties[i] # NoAddress
        PROVE  i = j
    BY <2>1, <2>2, <2>3 DEF Contract!PartiesIndexed
  <2>4. ASSUME NEW a \in Contract!Address, operatorOf[a] # NoAddress
        PROVE  \E i \in DOMAIN parties : parties[i] = a
    <3>1. a \in Contract!ListedParties
      BY <2>4 DEF Contract!ListedParties
    <3>2. partyOf[a].partyIndex \in Nat
      BY DEF ContractInv, Contract!TypeOK, Contract!PartyDetails
    <3>3. partyOf[a].partyIndex < Len(parties) /\ parties[partyOf[a].partyIndex + 1] = a
      BY <2>2, <3>1 DEF Contract!PartiesIndexed
    <3>4. partyOf[a].partyIndex + 1 \in DOMAIN parties
      BY <2>1, <3>2, <3>3
    <3> QED BY <3>3, <3>4
  <2> QED BY <1>1, <1>3, <2>1, <2>3, <2>4 DEF Listed
<1> QED BY <1>2, <1>3 DEF Client!Reads

LEMMA EntriesStay ==
  ASSUME NEW p \in Client!Process, UNCHANGED answers, call'[p] = call[p]
  PROVE  Client!Entries(call[p].command)' = Client!Entries(call[p].command)
BY DEF answers, Client!Entries, Client!Entry, Client!NodeEntry, Client!PartyEntry, Client!GetNode,
       Client!Registry!GetNode, Client!Details

LEMMA ArrayRead ==
  ASSUME ContractInv, NEW p \in Client!Process, call[p].command \in Client!Reads, found[p] = << >>,
         UNCHANGED answers, call'[p] = call[p], found'[p] = found[p],
         rest'[p] = IF call[p].command = "list-nodes" THEN operators ELSE parties,
         ever'[p] = Client!Entries(call[p].command), always'[p] = Client!Entries(call[p].command)
  PROVE  Reading(p)'
<1> DEFINE command == call[p].command
<1>1. /\ Client!Entries(call[p].command)' \subseteq ever'[p]
      /\ always'[p] \subseteq Client!Entries(call[p].command)'
  BY EntriesStay
<1>2. found'[p] \in Seq(ever'[p]) /\ DOMAIN found'[p] = {}
  OBVIOUS
<1>3. /\ rest'[p] \in Seq(Client!Address)
      /\ \A i, j \in DOMAIN rest'[p] : rest'[p][i] = rest'[p][j] /\ i # j =>
           command = "list-parties" /\ rest'[p][i] = NoAddress
      /\ \A a \in Client!Address : Listed(command, a) => \E i \in DOMAIN rest'[p] : rest'[p][i] = a
  BY ArraysList
<1>4. \A e \in always'[p] : \E j \in DOMAIN rest'[p] : rest'[p][j] = e[1]
  BY <1>3, EntriesRead
<1> QED BY <1>1, <1>2, <1>3, <1>4 DEF Reading

\* g is f with one more element, x, at its end.
IsAppended(S, f, x, g) ==
  /\ g \in Seq(S) /\ Len(f) \in Nat
  /\ DOMAIN f = 1..Len(f) /\ DOMAIN g = 1..(Len(f) + 1)
  /\ \A i \in DOMAIN f : g[i] = f[i]
  /\ g[Len(f) + 1] = x

LEMMA Appended ==
  ASSUME NEW S, NEW f \in Seq(S), NEW x \in S PROVE IsAppended(S, f, x, f \o <<x>>)
<1>1. f \o <<x>> = Append(f, x)
  BY AppendIsConcat
<1>2. IsAppended(S, f, x, Append(f, x))
  BY DEF IsAppended
<1> QED BY <1>1, <1>2

\* One entry read: its address is behind, and its entry, if it has one, found.
LEMMA OneRead ==
  ASSUME ContractInv, NEW p \in Client!Process, call[p].command \in Client!Reads, Reading(p),
         rest[p] # << >>, UNCHANGED answers, call'[p] = call[p],
         ever'[p] = ever[p], always'[p] = always[p],
         rest'[p] = Tail(rest[p]),
         found'[p] = found[p] \o Client!Entry(call[p].command, Head(rest[p]))
  PROVE  Reading(p)'
<1> DEFINE command == call[p].command
           s == rest[p]
           f == found[p]
           h == Head(s)
           Comes(e) == \E j \in DOMAIN rest'[p] : rest'[p][j] = e[1]
           Is(e) == \E i \in DOMAIN found'[p] : found'[p][i] = e
<1>1. /\ f \in Seq(ever[p])
      /\ \A i \in DOMAIN f : \A j \in DOMAIN s : f[i][1] # s[j]
      /\ \A i, j \in DOMAIN f : f[i][1] = f[j][1] => i = j
      /\ \A i, j \in DOMAIN s : s[i] = s[j] /\ i # j => command = "list-parties" /\ s[i] = NoAddress
      /\ \A e \in always'[p] : (\E i \in DOMAIN f : f[i] = e) \/ (\E j \in DOMAIN s : s[j] = e[1])
      /\ always'[p] \subseteq Client!Entries(command) /\ Client!Entries(command) \subseteq ever[p]
  BY DEF Reading
<1>2. /\ h = s[1] /\ h \in Client!Address /\ 1 \in DOMAIN s
      /\ rest'[p] \in Seq(Client!Address)
      /\ \A j \in DOMAIN rest'[p] : j + 1 \in DOMAIN s /\ j + 1 # 1 /\ rest'[p][j] = s[j + 1]
      /\ \A j \in DOMAIN s : j # 1 => j - 1 \in DOMAIN rest'[p] /\ rest'[p][j - 1] = s[j]
  BY DEF Reading
<1>3. \A e \in always'[p] : e[1] = h => Listed(command, h) /\ e = Item(command, h)
  BY <1>1, EntriesRead
<1>4. /\ found'[p] = f \o IF Listed(command, h) THEN <<Item(command, h)>> ELSE << >>
      /\ Item(command, h)[1] = h
      /\ Listed(command, h) => Item(command, h) \in ever[p]
  <2>1. Listed(command, h) => Item(command, h) \in Client!Entries(command)
    BY <1>2, EntriesRead
  <2> QED BY <1>1, <2>1, EntriesRead
<1>5. /\ Client!Entries(call[p].command)' \subseteq ever'[p]
      /\ always'[p] \subseteq Client!Entries(call[p].command)'
  BY EntriesStay DEF Reading
<1> HIDE DEF s, f, h, command
<1>6. /\ \A i, j \in DOMAIN rest'[p] : rest'[p][i] = rest'[p][j] /\ i # j =>
           command = "list-parties" /\ rest'[p][i] = NoAddress
      /\ \A i \in DOMAIN f : \A j \in DOMAIN rest'[p] : f[i][1] # rest'[p][j]
  BY <1>1, <1>2
<1>7. \A j \in DOMAIN s : s[j] # h => \E k \in DOMAIN rest'[p] : rest'[p][k] = s[j]
  BY <1>2
<1>8. /\ found'[p] \in Seq(ever'[p])
      /\ \A i \in DOMAIN found'[p] : \A j \in DOMAIN rest'[p] : found'[p][i][1] # rest'[p][j]
      /\ \A i, j \in DOMAIN found'[p] : found'[p][i][1] = found'[p][j][1] => i = j
      /\ \A e \in always'[p] : Is(e) \/ Comes(e)
  <2>1. CASE ~Listed(command, h)
    <3>1. found'[p] = f
      BY <1>1, <1>4, <2>1, ConcatEmptySeq
    <3>2. ASSUME NEW e \in always'[p] PROVE Is(e) \/ Comes(e)
      <4>1. e[1] # h
        BY <1>3, <2>1
      <4>2. CASE \E i \in DOMAIN f : f[i] = e
        BY <3>1, <4>2
      <4>3. CASE \E j \in DOMAIN s : s[j] = e[1]
        BY <1>7, <4>1, <4>3
      <4> QED BY <1>1, <4>2, <4>3
    <3> QED BY <1>1, <1>6, <3>1, <3>2
  <2>2. CASE Listed(command, h)
    <3> DEFINE x == Item(command, h)
    <3>1. found'[p] = f \o <<x>> /\ x[1] = h /\ x \in ever[p]
      BY <1>4, <2>2
    <3>2. \A e \in always'[p] : e[1] = h => e = x
      BY <1>3
    <3> HIDE DEF x
    <3>3. /\ found'[p] \in Seq(ever'[p]) /\ Len(f) \in Nat
          /\ DOMAIN f = 1..Len(f) /\ DOMAIN found'[p] = 1..(Len(f) + 1)
          /\ \A i \in DOMAIN f : found'[p][i] = f[i]
          /\ found'[p][Len(f) + 1] = x
      <4>1. IsAppended(ever[p], f, x, f \o <<x>>)
        BY <1>1, <3>1, Appended
      <4> QED BY <3>1, <4>1 DEF IsAppended
    <3>4. DOMAIN found'[p] = DOMAIN f \union {Len(f) + 1}
      <4>1. \A n \in Nat : 1..(n + 1) = (1..n) \union {n + 1}
        OBVIOUS
      <4> QED BY <3>3, <4>1
    <3>5. ~(command = "list-parties" /\ h = NoAddress)
      BY <1>2, <2>2 DEF Listed, ContractInv, Contract!IdHeld, Contract!ListedParties,
         Contract!Address, Client!Address
    <3>6. \A j \in DOMAIN rest'[p] : rest'[p][j] # h
      BY <1>1, <1>2, <3>5
    <3>7. \A i \in DOMAIN f : f[i][1] # h
      BY <1>1, <1>2
    <3>8. \A i \in DOMAIN found'[p] : \A j \in DOMAIN rest'[p] : found'[p][i][1] # rest'[p][j]
      BY <1>6, <3>1, <3>3, <3>4, <3>6
    <3>9. ASSUME NEW i \in DOMAIN found'[p], NEW j \in DOMAIN found'[p],
                 found'[p][i][1] = found'[p][j][1]
          PROVE  i = j
      <4>1. CASE i \in DOMAIN f /\ j \in DOMAIN f
        BY <1>1, <3>3, <3>9, <4>1
      <4>2. CASE i \in DOMAIN f /\ j = Len(f) + 1
        BY <3>1, <3>3, <3>7, <3>9, <4>2
      <4>3. CASE i = Len(f) + 1 /\ j \in DOMAIN f
        BY <3>1, <3>3, <3>7, <3>9, <4>3
      <4> QED BY <3>4, <4>1, <4>2, <4>3
    <3>10. ASSUME NEW e \in always'[p] PROVE Is(e) \/ Comes(e)
      <4>1. CASE e[1] = h
        BY <3>2, <3>3, <3>4, <4>1
      <4>2. CASE \E i \in DOMAIN f : f[i] = e
        BY <3>3, <3>4, <4>2
      <4>3. CASE e[1] # h /\ \E j \in DOMAIN s : s[j] = e[1]
        BY <1>7, <4>3
      <4> QED BY <1>1, <4>1, <4>2, <4>3
    <3> QED BY <3>3, <3>8, <3>9, <3>10
  <2> QED BY <2>1, <2>2
<1>9. call'[p].command = command
  BY DEF command
<1> QED BY <1>2, <1>5, <1>6, <1>8, <1>9 DEF Reading
-----------------------------------------------------------------------------
(* Every step keeps the lists *)

ListInv ==
  /\ ReportInv /\ ContractInv
  /\ rest = [p \in Client!Process |-> rest[p]] /\ found = [p \in Client!Process |-> found[p]]
  /\ ever = [p \in Client!Process |-> ever[p]] /\ always = [p \in Client!Process |-> always[p]]
  /\ \A p \in Client!Process : SentValid(p) /\ ReadTells(p)

\* What the lists, and the commands' validity, look at.
Row(p) == <<call[p], phase[p], tx[p], report[p], rest[p], found[p], ever[p], always[p]>>

LEMMA RowsStay ==
  ASSUME NEW p \in Client!Process, UNCHANGED <<answers, Row(p)>>, SentValid(p), ReadTells(p)
  PROVE  SentValid(p)' /\ ReadTells(p)'
<1>1. /\ UNCHANGED answers /\ call'[p] = call[p] /\ phase'[p] = phase[p] /\ tx'[p] = tx[p]
      /\ report'[p] = report[p] /\ rest'[p] = rest[p] /\ found'[p] = found[p]
      /\ ever'[p] = ever[p] /\ always'[p] = always[p]
  BY DEF Row
<1>2. Client!Entries(call[p].command)' = Client!Entries(call[p].command)
  BY <1>1, EntriesStay
<1>3. Reading(p) => Reading(p)'
  BY <1>1, <1>2 DEF Reading
<1>4. Complete(p) => Complete(p)'
  BY <1>1 DEF Complete
<1>5. ReadTells(p)'
  BY <1>1, <1>3, <1>4 DEF ReadTells
<1>6. SentValid(p)'
  BY <1>1 DEF SentValid
<1> QED BY <1>5, <1>6

LEMMA CommandsKeepLists ==
  ASSUME NetworkAssumption, NoAddress \notin CredentialOwner, ListInv,
         NEW p \in Client!Process, Client!CommandStep(p)
  PROVE  ListInv'
<1>1. ReportInv'
  BY CommandsReport DEF ListInv
<1>2. UNCHANGED registryVars
  BY DEF Client!CommandStep, Client!Start, Client!CheckForExistingNode, Client!Send, Client!Receipt,
     Client!Lose, Client!ReadArray, Client!ReadEntry, Client!EndOfList, Client!registryVars,
     registryVars
<1>3. ContractInv' /\ UNCHANGED answers
  <2>1. UNCHANGED Contract!vars
    BY <1>2 DEF registryVars, Contract!vars, Contract!adminVars, Contract!nodeVars, Contract!partyVars
  <2> QED BY <1>2, <2>1, ContractStep DEF ListInv, registryVars, answers
<1> DEFINE Only(f) == /\ f' = [q \in Client!Process |-> f'[q]]
                      /\ \A q \in Client!Process \ {p} : f'[q] = f[q]
<1>4. /\ Only(call) /\ Only(phase) /\ Only(tx) /\ Only(report)
      /\ Only(rest) /\ Only(found) /\ Only(ever) /\ Only(always)
  <2>1. Only(call) /\ Only(phase) /\ Only(tx) /\ Only(report)
    BY DEF ListInv, ReportInv, Client!CommandStep, Client!Start, Client!CheckForExistingNode,
       Client!Send, Client!Receipt, Client!Lose, Client!ReadArray, Client!ReadEntry,
       Client!EndOfList, Client!Goes, Client!Reported
  <2>2. Only(rest) /\ Only(found) /\ Only(ever) /\ Only(always)
    BY DEF ListInv, Client!CommandStep, Client!Start, Client!CheckForExistingNode,
       Client!Send, Client!Receipt, Client!Lose, Client!ReadArray, Client!ReadEntry,
       Client!EndOfList, Client!readVars, Client!historyVars
  <2> QED BY <2>1, <2>2
<1>5. ASSUME NEW q \in Client!Process \ {p} PROVE SentValid(q)' /\ ReadTells(q)'
  <2>1. UNCHANGED <<answers, Row(q)>>
    BY <1>3, <1>4 DEF Row
  <2> QED BY <2>1, RowsStay DEF ListInv
<1>6. SentValid(p)' /\ ReadTells(p)'
  <2> HIDE DEF Only
  <2>0. /\ call = [q \in Client!Process |-> call[q]] /\ phase = [q \in Client!Process |-> phase[q]]
        /\ tx = [q \in Client!Process |-> tx[q]] /\ report = [q \in Client!Process |-> report[q]]
        /\ rest = [q \in Client!Process |-> rest[q]] /\ found = [q \in Client!Process |-> found[q]]
        /\ ever = [q \in Client!Process |-> ever[q]] /\ always = [q \in Client!Process |-> always[q]]
        /\ SentValid(p) /\ ReadTells(p) /\ CommandTells(p) /\ ContractInv
    BY DEF ListInv, ReportInv
  <2>1. report'[p] = "done" => phase'[p] = "ended"
    <3>1. \/ phase'[p] = "ended"
          \/ report'[p] = report[p] /\ phase[p] # "ended"
      <4>1. CASE phase[p] = "ended"
        BY <4>1 DEF Client!CommandStep, Client!Start, Client!CheckForExistingNode, Client!Send,
           Client!Receipt, Client!Lose, Client!ReadArray, Client!ReadEntry, Client!EndOfList
      <4>2. CASE phase[p] # "ended"
        BY <2>0, <4>2 DEF Client!CommandStep, Client!Start, Client!CheckForExistingNode, Client!Send,
           Client!Receipt, Client!Lose, Client!ReadArray, Client!ReadEntry, Client!EndOfList,
           Client!Goes, Client!Reported
      <4> QED BY <4>1, <4>2
    <3> QED BY <2>0, <3>1 DEF ReadTells
  <2>2. CASE Client!Start(p)
    <3>1. PICK c \in Client!Command :
            /\ call' = [call EXCEPT ![p] = c]
            /\ \/ c.command \in Client!Reads /\ Client!Goes(p, "list")
               \/ /\ c.command \notin Client!Reads
                  /\ \/ ~Client!VerifyWritable(c) /\ Client!Reported(p, "No signer provided")
                     \/ /\ Client!VerifyWritable(c) /\ ~Client!Method(c).valid
                        /\ Client!Reported(p, "Invalid argument")
                     \/ /\ Client!VerifyWritable(c) /\ Client!Method(c).valid
                        /\ Client!Goes(p, IF Client!Method(c).checks THEN "check" ELSE "send")
      BY <2>2 DEF Client!Start
    <3>2. phase[p] = "idle" /\ tx' = tx /\ found' = found /\ call'[p] = c
      BY <2>0, <2>2, <3>1 DEF Client!Start, Client!readVars
    <3>3. \/ phase'[p] = "list"
          \/ phase'[p] \in {"check", "send"} /\ Client!Method(c).valid
          \/ phase'[p] = "ended" /\ c.command \notin Client!Reads
      <4>1. ASSUME NEW next, phase' = [phase EXCEPT ![p] = next] PROVE phase'[p] = next
        BY <2>0, <4>1
      <4> QED BY <3>1, <4>1 DEF Client!Goes, Client!Reported
    <3>4. tx'[p] = "none" /\ found'[p] = << >>
      BY <2>0, <3>2 DEF CommandTells, PhaseTells, ReadTells
    <3> QED BY <2>1, <3>2, <3>3, <3>4 DEF SentValid, ReadTells
  <2>3. CASE Client!CheckForExistingNode(p) \/ Client!Send(p) \/ Client!Receipt(p)
    <3>1. call'[p] = call[p] /\ phase[p] \in {"check", "send", "wait"}
      BY <2>3 DEF Client!CheckForExistingNode, Client!Send, Client!Receipt
    <3>2. phase'[p] \in {"send", "wait", "ended"}
      BY <2>0, <2>3 DEF Client!CheckForExistingNode, Client!Send, Client!Receipt, Client!Goes,
         Client!Reported
    <3>3. call[p].command \notin Client!Reads
      BY <2>0, <3>1 DEF CommandTells, PhaseTells
    <3> QED BY <2>0, <2>1, <3>1, <3>2, <3>3 DEF SentValid, ReadTells
  <2>4. CASE Client!Lose(p)
    <3>1. /\ call' = call /\ tx' = tx /\ phase'[p] = "ended"
          /\ report'[p] = "Network connection error"
      BY <2>0, <2>4 DEF Client!Lose, Client!Reported, Client!HandleContractError,
         Client!GetDecodedRevert, Client!GetReadableErrorMessage, Client!Failure
    <3> QED BY <2>0, <2>1, <3>1 DEF SentValid, ReadTells
  <2>5. CASE Client!ReadArray(p)
    <3>1. /\ phase[p] = "list" /\ phase'[p] = "entries" /\ call' = call /\ tx' = tx /\ found' = found
          /\ rest'[p] = IF call[p].command = "list-nodes" THEN operators ELSE parties
          /\ ever'[p] = Client!Entries(call[p].command)
          /\ always'[p] = Client!Entries(call[p].command)
      BY <2>0, <2>5 DEF Client!ReadArray, Client!Goes, Client!Registry!GetNodeOperators
    <3>2. call[p].command \in Client!Reads /\ found[p] = << >>
      BY <2>0, <3>1 DEF CommandTells, PhaseTells, ReadTells
    <3>3. Reading(p)'
      BY <1>3, <2>0, <3>1, <3>2, ArrayRead
    <3> QED BY <2>0, <2>1, <3>1, <3>3 DEF SentValid, ReadTells
  <2>6. CASE Client!ReadEntry(p)
    <3>1. /\ phase[p] = "entries" /\ phase'[p] = "entries" /\ call' = call /\ tx' = tx
          /\ rest[p] # << >> /\ rest'[p] = Tail(rest[p])
          /\ found'[p] = found[p] \o Client!Entry(call[p].command, Head(rest[p]))
          /\ ever' = ever /\ always' = always
      BY <2>0, <2>6 DEF Client!ReadEntry, Client!RestAfter, Client!historyVars
    <3>2. call[p].command \in Client!Reads /\ Reading(p)
      BY <2>0, <3>1 DEF CommandTells, PhaseTells, ReadTells
    <3>3. Reading(p)'
      BY <1>3, <2>0, <3>1, <3>2, OneRead
    <3> QED BY <2>0, <2>1, <3>1, <3>3 DEF SentValid, ReadTells
  <2>7. CASE Client!EndOfList(p)
    <3>1. /\ phase[p] = "entries" /\ phase'[p] = "ended" /\ call' = call /\ tx' = tx
          /\ rest[p] = << >> /\ found' = found /\ ever' = ever /\ always' = always
      BY <2>0, <2>7 DEF Client!EndOfList, Client!Reported, Client!readVars, Client!historyVars
    <3>2. Reading(p) /\ tx[p] = "none"
      BY <2>0, <3>1 DEF ReadTells, CommandTells, PhaseTells
    <3>3. DOMAIN rest[p] = {}
      BY <3>1
    <3>4. Complete(p)'
      BY <3>1, <3>2, <3>3 DEF Reading, Complete
    <3> QED BY <2>1, <3>1, <3>2, <3>4 DEF SentValid, ReadTells
  <2> QED BY <2>2, <2>3, <2>4, <2>5, <2>6, <2>7 DEF Client!CommandStep
<1>7. \A q \in Client!Process : SentValid(q)' /\ ReadTells(q)'
  BY <1>5, <1>6
<1> QED BY <1>1, <1>3, <1>4, <1>7 DEF ListInv

LEMMA ChainKeepsLists ==
  ASSUME NetworkAssumption, NoAddress \notin CredentialOwner, ListInv,
         NEW p \in Client!Process, Client!ChainStep(p)
  PROVE  ListInv'
<1>1. ReportInv'
  BY ChainKeepsReports DEF ListInv
<1>2. UNCHANGED <<call, phase, report, rest, found>>
  BY DEF Client!ChainStep, Client!Mine, Client!Revert, Client!Drop, Client!Replay,
     Client!commandVars, Client!readVars
<1>3. tx[p] # "none" => /\ call[p] \in Client!Command /\ call[p].command \notin Client!Reads
                        /\ Client!Method(call[p]).valid
  BY DEF ListInv, ReportInv, CommandTells, PhaseTells, SentValid
<1>4. \A q \in Client!Process : (tx'[q] # "none") <=> (tx[q] # "none")
  BY DEF ListInv, ReportInv, Client!ChainStep, Client!Mine, Client!Revert, Client!Drop,
     Client!Replay, Client!commandVars
<1>5. ASSUME NEW q \in Client!Process PROVE SentValid(q)'
  BY <1>2, <1>4 DEF ListInv, SentValid
<1>6. CASE Client!Mine(p) \/ Client!Replay(p)
  <2>1. Client!Execute(Client!Sent(p)) /\ tx[p] # "none"
    BY <1>6 DEF Client!Mine, Client!Replay
  <2>2. ContractInv'
    BY <1>3, <2>1, ExecuteIsTransaction, ContractStep DEF ListInv
  <2>3. /\ ever' = [q \in Client!Process |-> IF q \in {r \in Client!Process : phase[r] = "entries"}
                      THEN ever[q] \union Client!Entries(call[q].command)' ELSE ever[q]]
        /\ always' = [q \in Client!Process |-> IF q \in {r \in Client!Process : phase[r] = "entries"}
                      THEN always[q] \intersect Client!Entries(call[q].command)' ELSE always[q]]
    BY <1>6 DEF Client!Mine, Client!Replay, Client!Observed
  <2>4. ASSUME NEW q \in Client!Process, phase[q] = "entries", Reading(q) PROVE Reading(q)'
    <3> DEFINE now == Client!Entries(call[q].command)'
    <3>1. ever'[q] = ever[q] \union now /\ always'[q] = always[q] \intersect now
      BY <2>3, <2>4
    <3> HIDE DEF now
    <3>2. found[q] \in Seq(ever[q]) /\ ever[q] \subseteq ever'[q]
      BY <2>4, <3>1 DEF Reading
    <3>3. found'[q] \in Seq(ever'[q])
      <4>1. \A S, T : \A f \in Seq(S) : S \subseteq T => f \in Seq(T)
        OBVIOUS
      <4> QED BY <1>2, <3>2, <4>1
    <3>4. now \subseteq ever'[q] /\ always'[q] \subseteq now /\ always'[q] \subseteq always[q]
      BY <3>1
    <3> QED BY <1>2, <2>4, <3>3, <3>4 DEF Reading, now
  <2>5. ASSUME NEW q \in Client!Process PROVE ReadTells(q)'
    <3>1. CASE phase[q] = "entries"
      BY <1>2, <2>4, <3>1 DEF ListInv, ReadTells
    <3>2. CASE phase[q] # "entries"
      <4>1. ever'[q] = ever[q] /\ always'[q] = always[q]
        BY <2>3, <3>2
      <4>2. Complete(q) => Complete(q)'
        BY <1>2, <4>1 DEF Complete
      <4> QED BY <1>2, <3>2, <4>2 DEF ListInv, ReadTells
    <3> QED BY <3>1, <3>2
  <2> QED BY <1>1, <1>2, <1>5, <2>2, <2>3, <2>5 DEF ListInv
<1>7. CASE Client!Revert(p) \/ Client!Drop(p)
  <2>1. UNCHANGED <<registryVars, ever, always>>
    BY <1>7 DEF Client!Revert, Client!Drop, Client!registryVars, Client!historyVars, registryVars
  <2>2. UNCHANGED Contract!vars /\ UNCHANGED answers
    BY <2>1 DEF registryVars, answers, Contract!vars, Contract!adminVars, Contract!nodeVars,
       Contract!partyVars
  <2>3. ContractInv'
    BY <2>2, ContractStep DEF ListInv
  <2>4. ASSUME NEW q \in Client!Process PROVE ReadTells(q)'
    <3>1. Client!Entries(call[q].command)' = Client!Entries(call[q].command)
      BY <1>2, <2>2, EntriesStay
    <3>2. Reading(q) => Reading(q)'
      BY <1>2, <2>1, <3>1 DEF Reading
    <3>3. Complete(q) => Complete(q)'
      BY <1>2, <2>1 DEF Complete
    <3> QED BY <1>2, <3>2, <3>3 DEF ListInv, ReadTells
  <2> QED BY <1>1, <1>2, <1>5, <2>1, <2>3, <2>4 DEF ListInv
<1> QED BY <1>6, <1>7 DEF Client!ChainStep

-----------------------------------------------------------------------------
(* What the lists show *)

\* getAllNodes and getAllParties, whose every read may see another block, still
\* show each entry that was there all the time, once, and none that never was;
\* so the search for the signer is right about whoever was listed throughout.
THEOREM ListsAreFaithful ==
  ASSUME NetworkAssumption, NoAddress \notin CredentialOwner PROVE Spec => []ReadsFaithful
<1> DEFINE Inv == /\ part = "library" => ListInv
                  /\ part # "library" =>
                       \A p \in Client!Process : call[p].command = "none"
<1>1. Init => Inv
  <2> SUFFICES ASSUME Init PROVE Inv
    OBVIOUS
  <2>1. Client!CommandsInit
    BY DEF Init, Client!Init
  <2>2. \A p \in Client!Process :
          /\ phase[p] = "idle" /\ tx[p] = "none" /\ report[p] = "" /\ found[p] = << >>
          /\ call[p].command = "none"
    BY <2>1 DEF Client!CommandsInit, Client!Blank
  <2>3. /\ call = [p \in Client!Process |-> call[p]]
        /\ report = [p \in Client!Process |-> report[p]]
        /\ rest = [p \in Client!Process |-> rest[p]] /\ found = [p \in Client!Process |-> found[p]]
        /\ ever = [p \in Client!Process |-> ever[p]] /\ always = [p \in Client!Process |-> always[p]]
        /\ phase \in [Client!Process -> Phase] /\ tx \in [Client!Process -> TxState]
    BY <2>1 DEF Client!CommandsInit, Phase, TxState
  <2>4. ASSUME part = "library" PROVE ListInv
    <3>1. Client!RegistryInit
      BY <2>4 DEF Init, Client!Init
    <3>2. ReportInv
      BY <2>2, <2>3, <3>1 DEF Client!RegistryInit, ReportInv, CommandTells, PhaseTells,
         TransactionTells, ReportTells
    <3>3. \A p \in Client!Process : SentValid(p) /\ ReadTells(p)
      BY <2>2 DEF SentValid, ReadTells
    <3> QED BY <2>3, <3>1, <3>2, <3>3, ContractInit DEF ListInv
  <2> QED BY <2>2, <2>4
<1>2. Inv /\ [Next]_vars => Inv'
  <2> SUFFICES ASSUME Inv, [Next]_vars PROVE Inv'
    OBVIOUS
  <2>1. CASE UNCHANGED vars
    <3>1. UNCHANGED <<registryVars, clientVars, part>>
      BY <2>1 DEF vars
    <3>2. UNCHANGED answers /\ UNCHANGED Contract!vars /\ UNCHANGED <<call, phase, tx, report, rest,
                                                                     found, overtaken, ever, always>>
      BY <3>1 DEF registryVars, clientVars, answers, Contract!vars, Contract!adminVars,
         Contract!nodeVars, Contract!partyVars
    <3>3. ASSUME ListInv PROVE ListInv'
      <4>1. ReportInv'
        BY <3>2, <3>3, AnswersStay DEF answers, ListInv, ReportInv, CommandTells, PhaseTells,
           TransactionTells, ReportTells
      <4>2. ContractInv'
        BY <3>2, <3>3, ContractStep DEF ListInv
      <4>3. \A p \in Client!Process : SentValid(p)' /\ ReadTells(p)'
        BY <3>2, <3>3, RowsStay DEF ListInv, Row
      <4> QED BY <3>2, <3>3, <4>1, <4>2, <4>3 DEF ListInv
    <3> QED BY <3>1, <3>2, <3>3
  <2>2. CASE LibraryStep
    BY <2>2, CommandsKeepLists, ChainKeepsLists DEF LibraryStep, Client!Next
  <2>3. CASE TransactionStep \/ HandlerStep
    BY <2>3 DEF TransactionStep, HandlerStep, clientVars
  <2> QED BY <2>1, <2>2, <2>3 DEF Next
<1>3. Inv => ReadsFaithful
  <2> SUFFICES ASSUME Inv, NEW p \in Client!Process, call[p].command \in Client!Reads,
                      report[p] = "done"
               PROVE  LET shown == {found[p][i] : i \in DOMAIN found[p]} IN
                      /\ shown \subseteq ever[p]
                      /\ always[p] \subseteq shown
                      /\ \A i, j \in DOMAIN found[p] : found[p][i][1] = found[p][j][1] => i = j
                      /\ \A a \in Client!Address :
                           /\ (\E e \in always[p] : e[1] = a) =>
                                Client!IsSignerRegistered(found[p], a)
                           /\ Client!IsSignerRegistered(found[p], a) => \E e \in ever[p] : e[1] = a
    BY DEF ReadsFaithful, Client!ReadsFaithful
  <2>1. ListInv
    BY DEF Client!Reads
  <2>2. Complete(p)
    BY <2>1 DEF ListInv, ReadTells, ReportInv, CommandTells, PhaseTells
  <2>3. /\ \A i \in DOMAIN found[p] : found[p][i] \in ever[p]
        /\ \A e \in always[p] : \E i \in DOMAIN found[p] : found[p][i] = e
        /\ \A i, j \in DOMAIN found[p] : found[p][i][1] = found[p][j][1] => i = j
    BY <2>2 DEF Complete
  <2> QED BY <2>3 DEF Client!IsSignerRegistered
<1> QED BY <1>1, <1>2, <1>3, PTL DEF Spec

-----------------------------------------------------------------------------
(* Type correctness, of the library and of the subgraph.  That of the subgraph *)
(* rests on the registry's, whose listings and admins its events are made of.  *)

\* What a command is called with, whichever it is.
CallTyped(c) ==
  /\ c.signer \in Client!Address /\ c.spender \in Client!Address
  /\ c.domain \in Domain \union {NoDomain} /\ c.certificates \in Certificates

LEMMA CallsTyped ==
  ASSUME NetworkAssumption, Certificates # {}
  PROVE  CallTyped(Client!Blank) /\ \A c \in Client!Command : CallTyped(c) /\ c.command # "none"
<1>1. CallTyped(Client!Blank)
  BY DEF Client!Blank, CallTyped, Client!Address
<1>2. Deployer \in Client!Address
  BY DEF NetworkAssumption, Client!Registry!RegistryAssumption, Client!Address
<1>3. \A files \in Certificates : files.owner \in Client!Address
  BY DEF NetworkAssumption, Client!ClientAssumption, Client!Registry!RegistryAssumption,
         Client!Address, Client!Registry!Address
<1>4. (CHOOSE f \in Certificates : TRUE) \in Certificates
  OBVIOUS
<1>5. \A s \in Client!Address, d \in Domain :
        CallTyped(Client!SetNodeOf(s, d)) /\ CallTyped(Client!SetNodeRawOf(s, d))
  BY <1>2, <1>4 DEF Client!SetNodeOf, Client!SetNodeRawOf, Client!Blank, CallTyped
<1>6. \A id \in TypedId, files \in Certificates, o \in Account :
        CallTyped(Client!SetPartyOf(id, files, o))
  BY <1>3 DEF Client!SetPartyOf, Client!Blank, CallTyped
<1>7. ASSUME NEW c \in Client!Command PROVE CallTyped(c) /\ c.command # "none"
  <2>1. ASSUME c \in Client!DeleteNodeCommand \union Client!DeleteNodeRawCommand
                       \union Client!DeletePartyCommand
        PROVE  CallTyped(c)
    BY <1>2, <1>4, <2>1 DEF Client!DeleteNodeCommand, Client!DeleteNodeRawCommand,
       Client!DeletePartyCommand, Client!Blank, Client!Address, CallTyped
  <2>2. ASSUME c \in Client!ListNodesCommand \union Client!ListPartiesCommand PROVE CallTyped(c)
    BY <1>4, <2>2 DEF Client!ListNodesCommand, Client!ListPartiesCommand, Client!Blank,
       Client!Address, CallTyped
  <2>3. ASSUME c \in Client!SetNodeCommand \union Client!SetNodeRawCommand
                       \union Client!SetPartyCommand
        PROVE  CallTyped(c)
    BY <1>5, <1>6, <2>3 DEF Client!SetNodeCommand, Client!SetNodeRawCommand, Client!SetPartyCommand
  <2>4. c.command # "none"
    BY CommandsTyped DEF Writes, Client!Reads
  <2> QED BY <2>1, <2>2, <2>3, <2>4 DEF Client!Command
<1> QED BY <1>1, <1>7

\* What the types of the library's variables rest on: whose transactions are
\* mined was found valid, so that the registry's own types stay.
ClientInv ==
  /\ ReportInv /\ Client!TypeOK /\ Contract!TypeOK
  /\ \A p \in Client!Process : SentValid(p)

LEMMA ContractTypeStep ==
  ASSUME NetworkAssumption, Contract!TypeOK, [Contract!Next]_(Contract!vars)
  PROVE  Contract!TypeOK'
<1>1. Contract!RegistryAssumption
  BY DEF NetworkAssumption, Client!Registry!RegistryAssumption, Contract!RegistryAssumption,
     Client!Registry!Address, Contract!Address
<1> QED BY <1>1, Contract!TypeStep

LEMMA RegistryRests ==
  ASSUME UNCHANGED registryVars PROVE UNCHANGED Contract!vars
BY DEF registryVars, Contract!vars, Contract!adminVars, Contract!nodeVars, Contract!partyVars

LEMMA CommandsKeepTypes ==
  ASSUME NetworkAssumption, Certificates # {}, ClientInv, NEW p \in Client!Process,
         Client!CommandStep(p)
  PROVE  ClientInv'
<1>1. ReportInv'
  BY CommandsReport DEF ClientInv
<1>2. UNCHANGED registryVars
  BY DEF Client!CommandStep, Client!Start, Client!CheckForExistingNode, Client!Send, Client!Receipt,
     Client!Lose, Client!ReadArray, Client!ReadEntry, Client!EndOfList, Client!registryVars,
     registryVars
<1>3. Contract!TypeOK'
  BY <1>2, RegistryRests, ContractTypeStep DEF ClientInv
<1>4. UNCHANGED <<replays, overtaken>>
  BY DEF Client!CommandStep, Client!Start, Client!CheckForExistingNode, Client!Send, Client!Receipt,
     Client!Lose, Client!ReadArray, Client!ReadEntry, Client!EndOfList, Client!historyVars
<1>5. rest' \in [Client!Process -> Seq(Client!Address)]
  <2>1. /\ rest \in [Client!Process -> Seq(Client!Address)]
        /\ operators \in Seq(Client!Address) /\ parties \in Seq(Client!Address)
    BY DEF ClientInv, Client!TypeOK, Contract!TypeOK, Client!Address, Contract!Address
  <2>2. CASE Client!ReadArray(p)
    <3>1. PICK array \in Seq(Client!Address) : rest' = [rest EXCEPT ![p] = array]
      BY <2>1, <2>2 DEF Client!ReadArray, Client!Registry!GetNodeOperators
    <3> QED BY <2>1, <3>1
  <2>3. CASE Client!ReadEntry(p)
    <3>1. rest[p] # << >> /\ rest' = [rest EXCEPT ![p] = Tail(rest[p])]
      BY <2>3 DEF Client!ReadEntry, Client!RestAfter
    <3>2. Tail(rest[p]) \in Seq(Client!Address)
      BY <2>1, <3>1
    <3> QED BY <2>1, <3>1, <3>2
  <2>4. CASE ~Client!ReadArray(p) /\ ~Client!ReadEntry(p)
    <3>1. rest' = rest
      BY <2>4 DEF Client!CommandStep, Client!Start, Client!CheckForExistingNode, Client!Send,
         Client!Receipt, Client!Lose, Client!EndOfList, Client!readVars
    <3> QED BY <2>1, <3>1
  <2> QED BY <2>2, <2>3, <2>4
<1> DEFINE Only(f) == \A q \in Client!Process \ {p} : f'[q] = f[q]
<1>6. Only(call) /\ Only(phase) /\ Only(tx)
  BY DEF ClientInv, ReportInv, Client!CommandStep, Client!Start, Client!CheckForExistingNode,
     Client!Send, Client!Receipt, Client!Lose, Client!ReadArray, Client!ReadEntry,
     Client!EndOfList, Client!Goes, Client!Reported
<1> DEFINE Known(q) == CallTyped(call[q]) /\ (phase[q] # "idle" <=> call[q].command # "none")
<1>7. \A q \in Client!Process : Known(q) /\ SentValid(q)
  BY DEF ClientInv, Client!TypeOK, CallTyped
<1>8. ASSUME NEW q \in Client!Process \ {p} PROVE Known(q)' /\ SentValid(q)'
  BY <1>6, <1>7 DEF SentValid, CallTyped
<1>9. Known(p)' /\ SentValid(p)'
  <2>0. /\ call = [q \in Client!Process |-> call[q]] /\ phase = [q \in Client!Process |-> phase[q]]
        /\ tx = [q \in Client!Process |-> tx[q]] /\ CommandTells(p) /\ Known(p) /\ SentValid(p)
    BY <1>7 DEF ClientInv, ReportInv
  <2>1. CASE Client!Start(p)
    <3>1. PICK c \in Client!Command :
            /\ call' = [call EXCEPT ![p] = c]
            /\ \/ c.command \in Client!Reads /\ Client!Goes(p, "list")
               \/ /\ c.command \notin Client!Reads
                  /\ \/ ~Client!VerifyWritable(c) /\ Client!Reported(p, "No signer provided")
                     \/ /\ Client!VerifyWritable(c) /\ ~Client!Method(c).valid
                        /\ Client!Reported(p, "Invalid argument")
                     \/ /\ Client!VerifyWritable(c) /\ Client!Method(c).valid
                        /\ Client!Goes(p, IF Client!Method(c).checks THEN "check" ELSE "send")
      BY <2>1 DEF Client!Start
    <3>2. call'[p] = c /\ CallTyped(c) /\ c.command # "none"
      BY <2>0, <3>1, CallsTyped
    <3>3. \/ phase'[p] \in {"list", "ended"}
          \/ phase'[p] \in {"check", "send"} /\ Client!Method(c).valid
      <4>1. ASSUME NEW next, phase' = [phase EXCEPT ![p] = next] PROVE phase'[p] = next
        BY <2>0, <4>1
      <4> QED BY <3>1, <4>1 DEF Client!Goes, Client!Reported
    <3>4. tx'[p] = "none"
      BY <2>0, <2>1 DEF Client!Start, CommandTells, PhaseTells
    <3> QED BY <3>2, <3>3, <3>4 DEF SentValid
  <2>2. CASE ~Client!Start(p)
    <3>1. call' = call /\ phase[p] # "idle"
      BY <2>2 DEF Client!CommandStep, Client!CheckForExistingNode, Client!Send, Client!Receipt,
         Client!Lose, Client!ReadArray, Client!ReadEntry, Client!EndOfList
    <3>2. /\ phase'[p] # "idle"
          /\ phase'[p] \in {"check", "send", "wait"} \/ tx'[p] # "none" =>
               phase[p] \in {"check", "send", "wait"} \/ tx[p] # "none"
      BY <2>0, <2>2, <3>1 DEF Client!CommandStep, Client!CheckForExistingNode, Client!Send,
         Client!Receipt, Client!Lose, Client!ReadArray, Client!ReadEntry, Client!EndOfList,
         Client!Goes, Client!Reported
    <3> QED BY <2>0, <3>1, <3>2 DEF SentValid
  <2> QED BY <2>1, <2>2
<1>10. \A q \in Client!Process : Known(q)' /\ SentValid(q)'
  BY <1>8, <1>9
<1>11. Client!TypeOK'
  BY <1>1, <1>4, <1>5, <1>10 DEF ClientInv, ReportInv, Client!TypeOK, CallTyped, Phase, TxState
<1> QED BY <1>1, <1>3, <1>10, <1>11 DEF ClientInv

LEMMA ChainKeepsTypes ==
  ASSUME NetworkAssumption, ClientInv, NEW p \in Client!Process, Client!ChainStep(p)
  PROVE  ClientInv'
<1>1. ReportInv'
  BY ChainKeepsReports DEF ClientInv
<1>2. UNCHANGED <<call, phase, rest>>
  BY DEF Client!ChainStep, Client!Mine, Client!Revert, Client!Drop, Client!Replay,
     Client!commandVars, Client!readVars
<1>3. \A q \in Client!Process : (tx'[q] # "none") <=> (tx[q] # "none")
  BY DEF ClientInv, ReportInv, Client!ChainStep, Client!Mine, Client!Revert, Client!Drop,
     Client!Replay, Client!commandVars
<1>4. \A q \in Client!Process : SentValid(q)'
  BY <1>2, <1>3 DEF ClientInv, SentValid
<1>5. Contract!TypeOK'
  <2>1. CASE Client!Mine(p) \/ Client!Replay(p)
    <3>1. Client!Execute(Client!Sent(p)) /\ tx[p] # "none"
      BY <2>1 DEF Client!Mine, Client!Replay
    <3>2. /\ call[p] \in Client!Command /\ call[p].command \notin Client!Reads
          /\ Client!Method(call[p]).valid
      BY <3>1 DEF ClientInv, ReportInv, CommandTells, PhaseTells, SentValid
    <3> QED BY <3>1, <3>2, ExecuteIsTransaction, ContractTypeStep DEF ClientInv
  <2>2. CASE Client!Revert(p) \/ Client!Drop(p)
    <3>1. UNCHANGED registryVars
      BY <2>2 DEF Client!Revert, Client!Drop, Client!registryVars, registryVars
    <3> QED BY <3>1, RegistryRests, ContractTypeStep DEF ClientInv
  <2> QED BY <2>1, <2>2 DEF Client!ChainStep
<1>6. replays' \in 0..MaxReplays
  <2>1. replays \in 0..MaxReplays /\ MaxReplays \in Nat
    BY DEF ClientInv, Client!TypeOK, NetworkAssumption, Client!ClientAssumption
  <2>2. replays' = replays \/ (replays < MaxReplays /\ replays' = replays + 1)
    BY DEF Client!ChainStep, Client!Mine, Client!Revert, Client!Drop, Client!Replay
  <2> QED BY <2>1, <2>2
<1>7. overtaken' \subseteq Client!Process
  <2>1. overtaken \subseteq Client!Process
    BY DEF ClientInv, Client!TypeOK
  <2>2. \/ overtaken' = overtaken
        \/ \E by : Client!Observed(by)
    BY DEF Client!ChainStep, Client!Mine, Client!Revert, Client!Drop, Client!Replay,
       Client!historyVars
  <2> QED BY <2>1, <2>2 DEF Client!Observed
<1>8. Client!TypeOK'
  BY <1>1, <1>2, <1>6, <1>7 DEF ClientInv, ReportInv, Client!TypeOK, Phase, TxState
<1> QED BY <1>1, <1>4, <1>5, <1>8 DEF ClientInv

-----------------------------------------------------------------------------
(* The subgraph's events and entities *)

\* What the registry emits.
Event ==
  UNION {
    [event : {"OperatorUpdate"}, operator : Client!Address, domain : Domain \union {NoDomain}],
    [event : {"PartyUpdate"}, party : Client!Address, ocpi : OcpiId \union {NoOcpiId},
     roles : SUBSET Role, paymentStatus : PaymentStatus, operator : Client!Address],
    [event : {"PartyDelete"}, party : Client!Address, ocpi : OcpiId \union {NoOcpiId}],
    [event : {"OwnershipTransferred"}, newAdmin : Client!Address],
    [event : {"RoleGranted", "RoleRevoked"}, account : Client!Address]}

SubgraphInv == events \in Seq(Event) /\ Subgraph!TypeOK /\ Contract!TypeOK

LEMMA RoleEventsTyped ==
  ASSUME NEW before \in SUBSET Client!Address, NEW after \in SUBSET Client!Address
  PROVE  /\ Subgraph!RoleEvents(before, after) \in Seq(Event)
         /\ Len(Subgraph!RoleEvents(before, after)) <= 2
<1> DEFINE granted == [event |-> "RoleGranted", account |-> CHOOSE a \in after \ before : TRUE]
           revoked == [event |-> "RoleRevoked", account |-> CHOOSE a \in before \ after : TRUE]
           first == IF after \ before = {} THEN << >> ELSE <<granted>>
           second == IF before \ after = {} THEN << >> ELSE <<revoked>>
<1>1. after \ before # {} => granted \in Event
  <2>1. after \ before # {} => (CHOOSE a \in after \ before : TRUE) \in Client!Address
    OBVIOUS
  <2> QED BY <2>1 DEF Event
<1>2. before \ after # {} => revoked \in Event
  <2>1. before \ after # {} => (CHOOSE a \in before \ after : TRUE) \in Client!Address
    OBVIOUS
  <2> QED BY <2>1 DEF Event
<1>3. Subgraph!RoleEvents(before, after) = first \o second
  BY DEF Subgraph!RoleEvents
<1> HIDE DEF granted, revoked
<1>4. /\ first \in Seq(Event) /\ second \in Seq(Event)
      /\ Len(first) <= 1 /\ Len(second) <= 1
  BY <1>1, <1>2
<1> HIDE DEF first, second
<1> QED BY <1>3, <1>4

\* A transaction is one of the contract's, and emits at most three events.
LEMMA TransactionsKeepTypes ==
  ASSUME NetworkAssumption, SubgraphInv, Subgraph!RegistryTransaction
  PROVE  SubgraphInv'
<1> DEFINE Emitted(batch) == Subgraph!Emits(batch) /\ batch \in Seq(Event) /\ Len(batch) <= 3
           Goal == Contract!Next /\ (Contract!TypeOK' => \E batch : Emitted(batch))
<1>1. /\ Contract!TypeOK /\ Client!Address = Contract!Address
      /\ Subgraph!Address = Contract!Address /\ Contract!Address = Account \union {NoAddress}
      /\ Subgraph!Registry!Address = Contract!Address
  BY DEF SubgraphInv, Client!Address, Subgraph!Address, Contract!Address, Subgraph!Registry!Address
<1>2. CredentialOwner \subseteq Contract!Address /\ NoAddress \in Contract!Address
  BY <1>1 DEF NetworkAssumption, Client!Registry!RegistryAssumption, Client!Registry!Address
<1>3. \A e \in Event : <<e>> \in Seq(Event) /\ Len(<<e>>) <= 3
  OBVIOUS
<1>4. \A a \in Contract!Address : \A d \in Domain \union {NoDomain} :
        Subgraph!OperatorUpdate(a, d) \in Event
  BY <1>1 DEF Subgraph!OperatorUpdate, Event
<1>5. \A a \in Contract!Address : Subgraph!PartyDelete(a) \in Event
  <2>1. \A a \in Contract!Address : partyOf[a].ocpi \in OcpiId \union {NoOcpiId}
    BY <1>1 DEF Contract!TypeOK, Contract!PartyDetails
  <2> QED BY <1>1, <2>1 DEF Subgraph!PartyDelete, Event
<1>6. ASSUME NEW a \in Account, Subgraph!AdminTransaction(a) PROVE Goal
  <2>1. ASSUME NEW b \in Contract!Address, Subgraph!Registry!TransferOwnership(a, b),
               Subgraph!Emits(Append(Subgraph!RoleEvents(admins, admins'),
                                     Subgraph!OwnershipTransferred(b)))
        PROVE  Goal
    <3>1. Contract!TransferOwnership(a, b)
      BY <2>1 DEF Subgraph!Registry!TransferOwnership, Subgraph!Registry!Transferred,
         Subgraph!Registry!Granted, Subgraph!Registry!Revoked, Subgraph!Registry!nodeVars,
         Subgraph!Registry!partyVars, Contract!TransferOwnership, Contract!Transferred,
         Contract!Granted, Contract!Revoked, Contract!nodeVars, Contract!partyVars
    <3>2. Contract!Next
      BY <3>1 DEF Contract!Next, Contract!AdminStep
    <3>3. ASSUME Contract!TypeOK' PROVE \E batch : Emitted(batch)
      <4> DEFINE roles == Subgraph!RoleEvents(admins, admins')
                 transfer == Subgraph!OwnershipTransferred(b)
      <4>1. admins \in SUBSET Client!Address /\ admins' \in SUBSET Client!Address
        BY <1>1, <3>3 DEF Contract!TypeOK
      <4>2. roles \in Seq(Event) /\ Len(roles) <= 2
        BY <4>1, RoleEventsTyped
      <4>3. transfer \in Event
        BY <1>1 DEF Subgraph!OwnershipTransferred, Event
      <4> HIDE DEF roles, transfer
      <4>4. Append(roles, transfer) \in Seq(Event) /\ Len(Append(roles, transfer)) <= 3
        BY <4>2, <4>3
      <4>5. Subgraph!Emits(Append(roles, transfer))
        BY <2>1 DEF roles, transfer
      <4> QED BY <4>4, <4>5
    <3> QED BY <3>2, <3>3
  <2>2. ASSUME NEW b \in Contract!Address, Subgraph!Registry!ReassignAdmin(a, b),
               Subgraph!Emits(Subgraph!RoleEvents(admins, admins'))
        PROVE  Goal
    <3>1. Contract!ReassignAdmin(a, b)
      BY <2>2 DEF Subgraph!Registry!ReassignAdmin, Subgraph!Registry!Reassigned,
         Subgraph!Registry!Granted, Subgraph!Registry!Revoked, Subgraph!Registry!nodeVars,
         Subgraph!Registry!partyVars, Contract!ReassignAdmin, Contract!Reassigned,
         Contract!Granted, Contract!Revoked, Contract!nodeVars, Contract!partyVars
    <3>2. Contract!Next
      BY <3>1 DEF Contract!Next, Contract!AdminStep
    <3>3. ASSUME Contract!TypeOK' PROVE \E batch : Emitted(batch)
      <4> DEFINE roles == Subgraph!RoleEvents(admins, admins')
      <4>1. admins \in SUBSET Client!Address /\ admins' \in SUBSET Client!Address
        BY <1>1, <3>3 DEF Contract!TypeOK
      <4>2. roles \in Seq(Event) /\ Len(roles) <= 2
        BY <4>1, RoleEventsTyped
      <4>3. Subgraph!Emits(roles)
        BY <2>2
      <4> HIDE DEF roles
      <4>4. Len(roles) <= 3
        BY <4>2
      <4> QED BY <4>2, <4>3, <4>4
    <3> QED BY <3>2, <3>3
  <2>3. ASSUME NEW b \in Contract!Address, Subgraph!Registry!AdminDeleteOperator(a, b),
               Subgraph!Emits(<<Subgraph!OperatorUpdate(b, NoDomain)>>)
        PROVE  Goal
    <3>1. Contract!AdminDeleteOperator(a, b)
      BY <2>3 DEF Subgraph!Registry!AdminDeleteOperator, Subgraph!Registry!DeleteNodeOf,
         Subgraph!Registry!adminVars, Subgraph!Registry!partyVars, Contract!AdminDeleteOperator,
         Contract!DeleteNodeOf, Contract!adminVars, Contract!partyVars
    <3>2. Contract!Next
      BY <3>1 DEF Contract!Next, Contract!AdminStep
    <3> QED BY <1>3, <1>4, <2>3, <3>2
  <2>4. ASSUME NEW id \in OcpiId \union {NoOcpiId}, Subgraph!Registry!AdminDeleteParty(a, id),
               Subgraph!Emits(<<Subgraph!PartyDelete(uniqueParties[id])>>)
        PROVE  Goal
    <3>1. Contract!AdminDeleteParty(a, id)
      BY <2>4 DEF Subgraph!Registry!AdminDeleteParty, Subgraph!Registry!DeletePartyOf,
         Subgraph!Registry!NoDetails, Subgraph!Registry!PartiesWithout,
         Subgraph!Registry!adminVars, Subgraph!Registry!nodeVars, Contract!AdminDeleteParty,
         Contract!DeletePartyOf, Contract!NoDetails, Contract!PartiesWithout, Contract!adminVars,
         Contract!nodeVars
    <3>2. Contract!Next
      BY <3>1 DEF Contract!Next, Contract!AdminStep
    <3>3. uniqueParties[id] \in Contract!Address
      BY <1>1 DEF Contract!TypeOK
    <3> QED BY <1>3, <1>5, <2>4, <3>2, <3>3
  <2> HIDE DEF Goal
  <2> QED BY <1>1, <1>6, <2>1, <2>2, <2>3, <2>4 DEF Subgraph!AdminTransaction
<1>7. ASSUME NEW a \in Contract!Address, Subgraph!NodeTransaction(a) PROVE Goal
  <2>1. ASSUME NEW d \in Domain, Subgraph!Registry!SetNodeFor(a, d),
               Subgraph!Emits(<<Subgraph!OperatorUpdate(a, d)>>)
        PROVE  Goal
    <3>1. Contract!SetNodeRaw(a, d)
      BY <2>1 DEF Subgraph!Registry!SetNodeFor, Subgraph!Registry!DomainFree,
         Subgraph!Registry!OperatorsWith, Subgraph!Registry!partyVars, Subgraph!Registry!adminVars,
         Contract!SetNodeRaw, Contract!SetNodeFor, Contract!DomainFree, Contract!OperatorsWith,
         Contract!partyVars, Contract!adminVars
    <3>2. Contract!Next
      BY <3>1 DEF Contract!Next, Contract!NodeStep
    <3> QED BY <1>3, <1>4, <2>1, <3>2
  <2>2. ASSUME Subgraph!Registry!DeleteNodeOf(a),
               Subgraph!Emits(<<Subgraph!OperatorUpdate(a, NoDomain)>>)
        PROVE  Goal
    <3>1. Contract!DeleteNodeRaw(a)
      BY <2>2 DEF Subgraph!Registry!DeleteNodeOf, Subgraph!Registry!partyVars,
         Subgraph!Registry!adminVars, Contract!DeleteNodeRaw, Contract!DeleteNodeOf,
         Contract!partyVars, Contract!adminVars
    <3>2. Contract!Next
      BY <3>1 DEF Contract!Next, Contract!NodeStep
    <3> QED BY <1>3, <1>4, <2>2, <3>2
  <2> HIDE DEF Goal
  <2> QED BY <1>7, <2>1, <2>2 DEF Subgraph!NodeTransaction
<1>8. ASSUME NEW a \in Account, Subgraph!PartyTransaction(a) PROVE Goal
  <2>1. ASSUME NEW id \in OcpiId, NEW roles \in SUBSET Role, NEW o \in Account,
               NEW status \in PaymentStatus, a \in CredentialOwner,
               Subgraph!Registry!SetParty(id, roles, o, a, status),
               Subgraph!Emits(<<Subgraph!PartyUpdate(a, id, roles, status, o)>>)
        PROVE  Goal
    <3>1. Contract!SetParty(id, roles, o, a, status)
      BY <2>1 DEF Subgraph!Registry!SetParty, Subgraph!Registry!IdFree, Subgraph!Registry!HasNode,
         Subgraph!Registry!Known, Subgraph!Registry!PartyIndex, Subgraph!Registry!PartiesWith,
         Subgraph!Registry!nodeVars, Subgraph!Registry!adminVars, Contract!SetParty,
         Contract!IdFree, Contract!HasNode, Contract!Known, Contract!PartyIndex,
         Contract!PartiesWith, Contract!nodeVars, Contract!adminVars
    <3>2. Contract!Next
      BY <1>1, <2>1, <3>1 DEF Contract!Next, Contract!PartyStep
    <3>3. Subgraph!PartyUpdate(a, id, roles, status, o) \in Event
      BY <1>1 DEF Subgraph!PartyUpdate, Event
    <3> QED BY <1>3, <2>1, <3>2, <3>3
  <2>2. ASSUME Subgraph!Registry!DeleteParty(a), Subgraph!Emits(<<Subgraph!PartyDelete(a)>>)
        PROVE  Goal
    <3>1. Contract!DeleteParty(a)
      BY <2>2 DEF Subgraph!Registry!DeleteParty, Subgraph!Registry!DeletePartyOf,
         Subgraph!Registry!NoDetails, Subgraph!Registry!PartiesWithout,
         Subgraph!Registry!adminVars, Subgraph!Registry!nodeVars, Contract!DeleteParty,
         Contract!DeletePartyOf, Contract!NoDetails, Contract!PartiesWithout, Contract!adminVars,
         Contract!nodeVars
    <3>2. Contract!Next
      BY <3>1 DEF Contract!Next, Contract!PartyStep
    <3> QED BY <1>1, <1>3, <1>5, <2>2, <3>2
  <2> HIDE DEF Goal
  <2> QED BY <1>8, <2>1, <2>2 DEF Subgraph!PartyTransaction
<1>9. Goal
  <2> HIDE DEF Goal
  <2> QED BY <1>1, <1>6, <1>7, <1>8 DEF Subgraph!RegistryTransaction
<1>10. Contract!TypeOK'
  BY <1>1, <1>9, ContractTypeStep
<1>11. PICK batch : Emitted(batch)
  BY <1>9, <1>10
<1>12. /\ events' = events \o batch /\ Len(events) < MaxLag
       /\ UNCHANGED <<operatorEntity, partyEntity, adminsCopied>>
       /\ batch \in Seq(Event) /\ Len(batch) <= 3
  BY <1>11 DEF Subgraph!Emits, Subgraph!entityVars
<1>13. events' \in Seq(Event) /\ Len(events') <= MaxLag + 2
  <2>1. MaxLag \in Nat
    BY DEF NetworkAssumption, Subgraph!SubgraphAssumption
  <2> QED BY <1>12, <2>1 DEF SubgraphInv
<1> QED BY <1>10, <1>12, <1>13 DEF SubgraphInv, Subgraph!TypeOK

LEMMA HandlersKeepTypes ==
  ASSUME NetworkAssumption, SubgraphInv, Subgraph!HandleNext
  PROVE  SubgraphInv'
<1> DEFINE e == Head(events)
<1>1. /\ events # << >> /\ events' = Tail(events) /\ events \in Seq(Event)
      /\ UNCHANGED registryVars
  BY DEF Subgraph!HandleNext, SubgraphInv, Subgraph!registryVars, registryVars
<1>2. e \in Event
  BY <1>1
<1>3. events' \in Seq(Event) /\ Len(events') <= MaxLag + 2
  <2>1. MaxLag \in Nat /\ Len(events) <= MaxLag + 2
    BY DEF NetworkAssumption, Subgraph!SubgraphAssumption, SubgraphInv, Subgraph!TypeOK
  <2>2. events' \in Seq(Event) /\ Len(events') = Len(events) - 1
    BY <1>1
  <2>3. Len(events) \in Nat
    BY <1>1
  <2> QED BY <2>1, <2>2, <2>3
<1>4. Contract!TypeOK'
  BY <1>1, RegistryRests, ContractTypeStep DEF SubgraphInv
<1> HIDE DEF e
<1>5. /\ operatorEntity \in [Subgraph!Address -> Domain \union {NoDomain, "unknown", NoEntity}]
      /\ partyEntity \in [Subgraph!PartyKey -> Subgraph!PartyEntity \union {NoEntity}]
      /\ adminsCopied \subseteq Subgraph!Address
      /\ Client!Address = Subgraph!Address
  BY DEF SubgraphInv, Subgraph!TypeOK, Client!Address, Subgraph!Address
<1> DEFINE Entities == /\ operatorEntity' \in [Subgraph!Address ->
                                                 Domain \union {NoDomain, "unknown", NoEntity}]
                       /\ partyEntity' \in [Subgraph!PartyKey -> Subgraph!PartyEntity \union {NoEntity}]
                       /\ adminsCopied' \subseteq Subgraph!Address
<1>6. ASSUME e.event = "OperatorUpdate", Subgraph!HandleOperatorUpdate(e) PROVE Entities
  <2>1. e.domain \in Domain \union {NoDomain}
    BY <1>2, <1>6 DEF Event
  <2> QED BY <1>5, <1>6, <2>1 DEF Subgraph!HandleOperatorUpdate, Subgraph!OperatorDomain
<1>7. ASSUME e.event = "PartyUpdate", Subgraph!HandlePartyUpdate(e) PROVE Entities
  <2> DEFINE key == Subgraph!Slashed(e.ocpi)
             entity == [party |-> e.party, roles |-> Subgraph!GetRoles(e.roles),
                        operator |-> e.operator,
                        paymentStatus |-> Subgraph!GetPaymentStatus(e.paymentStatus),
                        deleted |-> IF partyEntity[key] = NoEntity THEN FALSE
                                    ELSE partyEntity[key].deleted]
  <2>1. /\ e.party \in Subgraph!Address /\ e.operator \in Subgraph!Address
        /\ e.roles \in SUBSET Role /\ e.ocpi \in OcpiId \union {NoOcpiId}
    BY <1>2, <1>5, <1>7 DEF Event
  <2>2. key \in Subgraph!PartyKey
    BY <2>1 DEF Subgraph!Slashed, Subgraph!PartyKey
  <2>3. (IF partyEntity[key] = NoEntity THEN FALSE ELSE partyEntity[key].deleted) \in BOOLEAN
    <3>1. partyEntity[key] = NoEntity \/ partyEntity[key] \in Subgraph!PartyEntity
      BY <1>5, <2>2
    <3>2. partyEntity[key] \in Subgraph!PartyEntity => partyEntity[key].deleted \in BOOLEAN
      BY DEF Subgraph!PartyEntity
    <3> QED BY <3>1, <3>2
  <2>4. \A status : Subgraph!GetPaymentStatus(status) \in {"NOT_PAID", "PAID", "PENDING", "UNKNOWN"}
    BY DEF Subgraph!GetPaymentStatus
  <2>5. entity \in Subgraph!PartyEntity
    BY <2>1, <2>3, <2>4 DEF Subgraph!PartyEntity, Subgraph!GetRoles
  <2>6. partyEntity' = [partyEntity EXCEPT ![key] = entity]
    BY <1>7 DEF Subgraph!HandlePartyUpdate
  <2> HIDE DEF entity, key
  <2>7. partyEntity' \in [Subgraph!PartyKey -> Subgraph!PartyEntity \union {NoEntity}]
    BY <1>5, <2>5, <2>6
  <2>8. Subgraph!OperatorSeen(e.operator) \in Domain \union {NoDomain, "unknown", NoEntity}
    BY <1>5, <2>1 DEF Subgraph!OperatorSeen
  <2>9. operatorEntity' = [operatorEntity EXCEPT ![e.operator] = Subgraph!OperatorSeen(e.operator)]
        /\ adminsCopied' = adminsCopied
    BY <1>7 DEF Subgraph!HandlePartyUpdate
  <2> QED BY <1>5, <2>7, <2>8, <2>9
<1>8. ASSUME e.event = "PartyDelete", Subgraph!HandlePartyDelete(e) PROVE Entities
  <2> DEFINE key == Subgraph!KeyOfDelete(e.ocpi)
  <2>1. UNCHANGED <<operatorEntity, adminsCopied>>
    BY <1>8 DEF Subgraph!HandlePartyDelete
  <2>2. CASE partyEntity' = partyEntity
    BY <1>5, <2>1, <2>2
  <2>3. CASE partyEntity' # partyEntity
    <3>1. key \in Subgraph!PartyKey
      <4>1. e.ocpi \in OcpiId \union {NoOcpiId}
        BY <1>2, <1>8 DEF Event
      <4> QED BY <4>1 DEF Subgraph!KeyOfDelete, Subgraph!Plain, Subgraph!PartyKey
    <3>2. partyEntity[key] # NoEntity /\ partyEntity' = [partyEntity EXCEPT ![key].deleted = TRUE]
      BY <1>8, <2>3 DEF Subgraph!HandlePartyDelete
    <3> HIDE DEF key
    <3>3. partyEntity[key] \in Subgraph!PartyEntity
      BY <1>5, <3>1, <3>2
    <3>4. [partyEntity[key] EXCEPT !.deleted = TRUE] \in Subgraph!PartyEntity
      BY <3>3 DEF Subgraph!PartyEntity
    <3>5. partyEntity' = [partyEntity EXCEPT ![key] = [partyEntity[key] EXCEPT !.deleted = TRUE]]
      BY <1>5, <3>1, <3>2
    <3>6. partyEntity' \in [Subgraph!PartyKey -> Subgraph!PartyEntity \union {NoEntity}]
      BY <1>5, <3>4, <3>5
    <3> QED BY <1>5, <2>1, <3>6
  <2> QED BY <2>2, <2>3
<1>9. ASSUME e.event = "OwnershipTransferred", Subgraph!HandleOwnershipTransferred(e) PROVE Entities
  BY <1>5, <1>9 DEF Subgraph!HandleOwnershipTransferred, Subgraph!entityVars
<1>10. ASSUME e.event = "RoleGranted", Subgraph!HandleRoleGranted(e) PROVE Entities
  <2>1. e.account \in Subgraph!Address
    BY <1>2, <1>5, <1>10 DEF Event
  <2> QED BY <1>5, <1>10, <2>1 DEF Subgraph!HandleRoleGranted
<1>11. ASSUME e.event = "RoleRevoked", Subgraph!HandleRoleRevoked(e) PROVE Entities
  BY <1>5, <1>11 DEF Subgraph!HandleRoleRevoked
<1>12. Entities
  <2> HIDE DEF Entities
  <2> QED BY <1>6, <1>7, <1>8, <1>9, <1>10, <1>11 DEF Subgraph!HandleNext, e
<1> QED BY <1>3, <1>4, <1>12 DEF SubgraphInv, Subgraph!TypeOK

LEMMA EntitiesStart ==
  ASSUME NetworkAssumption, Subgraph!EntitiesInit
  PROVE  events \in Seq(Event) /\ Subgraph!TypeOK
<1>1. Deployer \in Client!Address /\ MaxLag \in Nat
  BY DEF NetworkAssumption, Client!Registry!RegistryAssumption, Subgraph!SubgraphAssumption,
         Client!Address
<1>2. events \in Seq(Event) /\ Len(events) <= 2
  BY <1>1, RoleEventsTyped DEF Subgraph!EntitiesInit
<1>3. Len(events) <= MaxLag + 2
  BY <1>1, <1>2
<1> QED BY <1>2, <1>3 DEF Subgraph!EntitiesInit, Subgraph!TypeOK

\* Every variable keeps its type, whatever commands run and whatever the registry
\* emits: a command holds the arguments it was called with, the events waiting
\* stay within their bound, and the entities name operators and parties there are.
THEOREM NetworkTypeCorrect ==
  ASSUME NetworkAssumption, Certificates # {} PROVE Spec => []TypeOK
<1> DEFINE Inv == /\ part \in {"library", "subgraph"}
                  /\ Client!TypeOK /\ Subgraph!TypeOK
                  /\ part = "library" => ClientInv
                  /\ part = "subgraph" => SubgraphInv
<1>1. Init => Inv
  <2> SUFFICES ASSUME Init PROVE Inv
    OBVIOUS
  <2>1. Client!CommandsInit /\ Subgraph!EntitiesInit /\ part \in {"library", "subgraph"}
    BY DEF Init, Client!Init, Subgraph!Init
  <2>2. events \in Seq(Event) /\ Subgraph!TypeOK
    BY <2>1, EntitiesStart
  <2>3. \A p \in Client!Process : /\ phase[p] = "idle" /\ tx[p] = "none" /\ report[p] = ""
                                  /\ call[p] = Client!Blank
    BY <2>1 DEF Client!CommandsInit
  <2>4. Client!Blank.command = "none"
    BY DEF Client!Blank
  <2>5. /\ phase \in [Client!Process -> Phase] /\ tx \in [Client!Process -> TxState]
        /\ call = [p \in Client!Process |-> call[p]]
        /\ report = [p \in Client!Process |-> report[p]]
    BY <2>1 DEF Client!CommandsInit, Phase, TxState
  <2>6. Client!TypeOK
    <3>1. \A p \in Client!Process : CallTyped(call[p])
      BY <2>3, CallsTyped
    <3>2. MaxReplays \in Nat
      BY DEF NetworkAssumption, Client!ClientAssumption
    <3>3. rest = [p \in Client!Process |-> << >>] /\ replays = 0 /\ overtaken = {}
      BY <2>1 DEF Client!CommandsInit
    <3>4. rest \in [Client!Process -> Seq(Client!Address)]
      <4>1. << >> \in Seq(Client!Address)
        OBVIOUS
      <4> QED BY <3>3, <4>1
    <3>5. replays \in 0..MaxReplays /\ overtaken \subseteq Client!Process
      BY <3>2, <3>3
    <3>6. \A p \in Client!Process :
            CallTyped(call[p]) /\ (phase[p] # "idle" <=> call[p].command # "none")
      BY <2>3, <2>4, <3>1
    <3> QED BY <2>5, <3>4, <3>5, <3>6 DEF CallTyped, Client!TypeOK, Phase, TxState
  <2>7. ASSUME part = "library" PROVE ClientInv
    <3>1. Client!RegistryInit
      BY <2>7 DEF Init, Client!Init
    <3>2. ReportInv
      BY <2>3, <2>5, <3>1 DEF Client!RegistryInit, ReportInv, CommandTells, PhaseTells,
         TransactionTells, ReportTells
    <3>3. \A p \in Client!Process : SentValid(p)
      BY <2>3 DEF SentValid
    <3> QED BY <2>6, <3>1, <3>2, <3>3, ContractInit DEF ClientInv, ContractInv
  <2>8. ASSUME part = "subgraph" PROVE SubgraphInv
    <3>1. Subgraph!Registry!Init
      BY <2>8 DEF Init, Subgraph!Init
    <3>2. Contract!RegistryAssumption
      BY DEF NetworkAssumption, Client!Registry!RegistryAssumption, Contract!RegistryAssumption,
         Client!Registry!Address, Contract!Address
    <3>3. Contract!NoDetails \in Contract!PartyDetails
      BY <3>2 DEF Contract!NoDetails, Contract!PartyDetails, Contract!RegistryAssumption
    <3>4. Subgraph!Registry!NoDetails = Contract!NoDetails
      BY DEF Contract!NoDetails, Subgraph!Registry!NoDetails
    <3>5. Subgraph!Registry!Address = Contract!Address /\ NoAddress \in Contract!Address
      BY DEF Contract!Address, Subgraph!Registry!Address
    <3>6. Contract!TypeOK
      <4>1. partyOf \in [Contract!Address -> Contract!PartyDetails]
        BY <3>1, <3>3, <3>4, <3>5 DEF Subgraph!Registry!Init
      <4>2. admins \subseteq Contract!Address
        BY <3>1, <3>2 DEF Subgraph!Registry!Init, Contract!RegistryAssumption, Contract!Address
      <4>3. operators = << >> /\ parties = << >> /\ MaxParties \in Nat
        BY <3>1, <3>2 DEF Subgraph!Registry!Init, Contract!RegistryAssumption
      <4> QED BY <3>1, <3>5, <4>1, <4>2, <4>3 DEF Subgraph!Registry!Init, Contract!TypeOK
    <3> QED BY <2>2, <3>6 DEF SubgraphInv
  <2> QED BY <2>1, <2>2, <2>6, <2>7, <2>8
<1>2. Inv /\ [Next]_vars => Inv'
  <2> SUFFICES ASSUME Inv, [Next]_vars PROVE Inv'
    OBVIOUS
  <2>1. UNCHANGED clientVars => (Client!TypeOK <=> Client!TypeOK')
    BY DEF clientVars, Client!TypeOK
  <2>2. UNCHANGED subgraphVars => (Subgraph!TypeOK <=> Subgraph!TypeOK')
    BY DEF subgraphVars, Subgraph!TypeOK
  <2>3. CASE UNCHANGED vars
    <3>1. /\ UNCHANGED <<registryVars, clientVars, subgraphVars, part>>
          /\ UNCHANGED <<call, phase, tx, report, overtaken, events>>
      BY <2>3 DEF vars, clientVars, subgraphVars
    <3>2. Contract!TypeOK => Contract!TypeOK'
      BY <3>1, RegistryRests, ContractTypeStep
    <3>3. UNCHANGED answers
      BY <3>1 DEF registryVars, answers
    <3>4. ReportInv => ReportInv'
      BY <3>1, <3>3, AnswersStay DEF answers, ReportInv, CommandTells, PhaseTells, TransactionTells,
         ReportTells
    <3>5. \A p \in Client!Process : SentValid(p) => SentValid(p)'
      BY <3>1 DEF SentValid
    <3> QED BY <2>1, <2>2, <3>1, <3>2, <3>4, <3>5 DEF ClientInv, SubgraphInv
  <2>4. CASE LibraryStep
    <3>1. PICK p \in Client!Process : Client!CommandStep(p) \/ Client!ChainStep(p)
      BY <2>4 DEF LibraryStep, Client!Next
    <3>2. ClientInv'
      BY <2>4, <3>1, CommandsKeepTypes, ChainKeepsTypes DEF LibraryStep
    <3> QED BY <2>2, <2>4, <3>2 DEF LibraryStep, ClientInv
  <2>5. CASE TransactionStep
    <3>1. SubgraphInv'
      BY <2>5, TransactionsKeepTypes DEF TransactionStep
    <3> QED BY <2>1, <2>5, <3>1 DEF TransactionStep, SubgraphInv
  <2>6. CASE HandlerStep
    <3>1. SubgraphInv'
      BY <2>6, HandlersKeepTypes DEF HandlerStep
    <3> QED BY <2>1, <2>6, <3>1 DEF HandlerStep, SubgraphInv
  <2> QED BY <2>3, <2>4, <2>5, <2>6 DEF Next
<1>3. Inv => TypeOK
  BY DEF TypeOK
<1> QED BY <1>1, <1>2, <1>3, PTL DEF Spec
=============================================================================
