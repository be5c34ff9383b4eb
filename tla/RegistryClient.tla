--------------------------- MODULE RegistryClient ---------------------------
(***************************************************************************)
(* The client library and its command line over the OcnRegistry contract.  *)
(* A process runs one command: the library validates the arguments, may    *)
(* read the registry, has the transaction estimated, sends it, waits for   *)
(* the receipt and reports; or it reads a list, entry by entry.  Between   *)
(* any two steps the transactions of the other processes are mined, and a  *)
(* transaction can be dropped, a connection lost, and a signed message     *)
(* sent again.                                                             *)
(***************************************************************************)
EXTENDS Naturals, Sequences

CONSTANTS
  Account, NoAddress, Domain, NoDomain, OcpiId, NoOcpiId, Role, PaymentStatus,
  Validator, CredentialOwner, Deployer, NotListed, MaxParties,   \* OcnRegistry
  Origin,           \* what `url.origin` makes of a string typed as a domain
  NotUrl,           \* ... which is not a URL
  TypedId,          \* country_code and party_id as typed
  Upper,            \* the id toBytes makes of them; NoOcpiId: of wrong length
  Certificates,     \* what the files of `set-party --certificates` can be
  Founder,          \* an operator that has a node when the commands start
  MaxCalls,         \* bound on the commands
  MaxReplays        \* bound on signed messages sent again

Address == Account \union {NoAddress}
Process == 1..MaxCalls

\* A set of certificates is what its files are to the library (readable or not)
\* and to the registration validator (whose, for which roles, or why refused).
ClientAssumption ==
  /\ Origin \in [Domain -> Domain \union {NotUrl}]
  /\ Upper \in [TypedId -> OcpiId \union {NoOcpiId}]
  /\ Certificates \subseteq
       [readable : BOOLEAN, owner : CredentialOwner, roles : SUBSET Role, refusal : STRING]
  /\ Founder \in [operator : Account, domain : Domain]
  /\ MaxCalls \in Nat /\ MaxReplays \in Nat /\ MaxCalls + MaxReplays <= MaxParties

VARIABLES
  admins, partyRegistrationValidator, nodeOf, uniqueDomains, uniqueOperators, operators,
  uniqueParties, uniquePartyAddresses, partyOf, operatorOf, parties

VARIABLES
  call,        \* process -> the command it runs
  phase,       \* process -> where the command is
  tx,          \* process -> what became of its transaction
  report,      \* process -> what the command ended with
  rest,        \* process -> the addresses a list still has to read
  found,       \* process -> the entries read so far
  replays,     \* messages sent again so far
  overtaken,   \* history: commands with another's transaction mined meanwhile
  ever, always \* history: process -> the entries there at some time, all the time, of its read

registryVars == <<admins, partyRegistrationValidator, nodeOf, uniqueDomains, uniqueOperators,
                  operators, uniqueParties, uniquePartyAddresses, partyOf, operatorOf, parties>>
readVars == <<rest, found>>
commandVars == <<call, phase, tx, report, readVars>>
historyVars == <<overtaken, ever, always>>
clientVars == <<commandVars, replays, historyVars>>
vars == <<registryVars, clientVars>>

Registry == INSTANCE OcnRegistry

-----------------------------------------------------------------------------
(* The commands, as the command line passes them to the library *)

Blank ==
  [command |-> "none", signer |-> NoAddress, spender |-> NoAddress, domain |-> NoDomain,
   id |-> CHOOSE id \in TypedId : TRUE, operator |-> NoAddress,
   certificates |-> CHOOSE c \in Certificates : TRUE]

\* Without --signer, or without --spender, the address is NoAddress.
SetNodeOf(s, d) == [Blank EXCEPT !.command = "set-node", !.signer = s, !.spender = s, !.domain = d]

SetNodeCommand == {SetNodeOf(s, d) : s \in Address, d \in Domain}

SetNodeRawOf(s, d) ==
  [Blank EXCEPT !.command = "set-node-raw", !.signer = s, !.spender = Deployer, !.domain = d]

SetNodeRawCommand == {SetNodeRawOf(s, d) : s \in Address, d \in Domain}

DeleteNodeCommand ==
  {[Blank EXCEPT !.command = "delete-node", !.signer = s, !.spender = s] : s \in Account}

DeleteNodeRawCommand ==
  {[Blank EXCEPT !.command = "delete-node-raw", !.signer = s, !.spender = Deployer] :
     s \in Address}

SetPartyOf(id, c, o) ==
  [Blank EXCEPT !.command = "set-party", !.signer = c.owner, !.spender = c.owner,
                !.id = id, !.certificates = c, !.operator = o]

SetPartyCommand ==
  {SetPartyOf(id, c, o) : id \in TypedId, c \in Certificates, o \in Account}

DeletePartyCommand ==
  {[Blank EXCEPT !.command = "delete-party", !.signer = s, !.spender = s] : s \in Account}

ListNodesCommand == {[Blank EXCEPT !.command = "list-nodes"]}

ListPartiesCommand == {[Blank EXCEPT !.command = "list-parties"]}

Command ==
  UNION {SetNodeCommand, SetNodeRawCommand, DeleteNodeCommand, DeleteNodeRawCommand,
         SetPartyCommand, DeletePartyCommand, ListNodesCommand, ListPartiesCommand}

Reads == {"list-nodes", "list-parties"}

-----------------------------------------------------------------------------
(* The library's methods: what each validates, whether it looks for a node of *)
(* the signer first, and the transaction it sends.                            *)

Transaction(kind, owner) ==
  [kind |-> kind, owner |-> owner, domain |-> NoDomain, ocpi |-> NoOcpiId,
   certificates |-> Blank.certificates, operator |-> NoAddress]

SetNode(c) ==
  [valid |-> Origin[c.domain] # NotUrl, checks |-> TRUE,
   tx |-> [Transaction("setNode", c.signer) EXCEPT !.domain = Origin[c.domain]]]

\* The domain is signed and listed as typed.
SetNodeRaw(c) ==
  [valid |-> c.signer # NoAddress, checks |-> TRUE,
   tx |-> [Transaction("setNodeRaw", c.signer) EXCEPT !.domain = c.domain]]

DeleteNode(c) ==
  [valid |-> TRUE, checks |-> FALSE, tx |-> Transaction("deleteNode", c.signer)]

DeleteNodeRaw(c) ==
  [valid |-> c.signer # NoAddress, checks |-> FALSE, tx |-> Transaction("deleteNodeRaw", c.signer)]

\* A file that cannot be read or parsed leaves an empty list of certificates.
ReadJsonCertificates(c) ==
  IF c.readable THEN c ELSE [c EXCEPT !.roles = {}, !.refusal = ""]

SetParty(c) ==
  [valid |-> Upper[c.id] # NoOcpiId, checks |-> FALSE,
   tx |-> [Transaction("setParty", c.signer) EXCEPT
             !.ocpi = Upper[c.id], !.operator = c.operator,
             !.certificates = ReadJsonCertificates(c.certificates)]]

DeleteParty(c) ==
  [valid |-> TRUE, checks |-> FALSE, tx |-> Transaction("deleteParty", c.signer)]

Method(c) ==
  CASE c.command = "set-node"        -> SetNode(c)
    [] c.command = "set-node-raw"    -> SetNodeRaw(c)
    [] c.command = "delete-node"     -> DeleteNode(c)
    [] c.command = "delete-node-raw" -> DeleteNodeRaw(c)
    [] c.command = "set-party"       -> SetParty(c)
    [] c.command = "delete-party"    -> DeleteParty(c)

Sent(p) == Method(call[p]).tx

\* A wrapper made without a private key is read-only.
VerifyWritable(c) == c.spender # NoAddress

-----------------------------------------------------------------------------
(* The transactions *)

\* The error the registry reverts with, "" for none.
RevertOf(t) ==
  CASE t.kind \in {"setNode", "setNodeRaw"} ->
         IF Registry!DomainFree(t.domain) THEN "" ELSE "DomainNameAlreadyRegistered"
    [] t.kind \in {"deleteNode", "deleteNodeRaw"} ->
         IF nodeOf[t.owner] # NoDomain THEN "" ELSE "EmptyDomainName"
    [] t.kind = "setParty" ->
         IF t.certificates.roles = {} THEN "NoRolesProvided"
         ELSE IF t.certificates.refusal # "" THEN t.certificates.refusal
         ELSE IF ~Registry!IdFree(t.ocpi, t.certificates.owner) THEN "PartyAlreadyRegistered"
         ELSE IF ~Registry!HasNode(t.operator) THEN "PartyNotRegistered" ELSE ""
    [] t.kind = "deleteParty" ->
         IF operatorOf[t.owner] # NoAddress THEN "" ELSE "PartyNotRegistered"

Execute(t) ==
  \/ t.kind = "setNode" /\ Registry!SetNode(t.owner, t.domain)
  \/ t.kind = "setNodeRaw" /\ Registry!SetNodeRaw(t.owner, t.domain)
  \/ t.kind = "deleteNode" /\ Registry!DeleteNode(t.owner)
  \/ t.kind = "deleteNodeRaw" /\ Registry!DeleteNodeRaw(t.owner)
  \/ /\ t.kind = "setParty"
     /\ \E status \in PaymentStatus :
          Registry!SetParty(t.ocpi, t.certificates.roles, t.operator, t.certificates.owner, status)
  \/ t.kind = "deleteParty" /\ Registry!DeleteParty(t.owner)

-----------------------------------------------------------------------------
(* What a failure is reported as *)

\* `kind`: "raised" by the library itself, a "revert" found by the estimate, with
\* its data, a "receipt" of a reverted transaction, without, or a lost "connection".
Failure(kind, cause) == [kind |-> kind, cause |-> cause]

\* Errors the registry declares, and the oracle's that the library adds.
Decodable ==
  {"DomainNameAlreadyRegistered", "EmptyDomainName", "NoRolesProvided", "EmptyOperator",
   "PartyAlreadyRegistered", "PartyNotRegistered", "InvalidCertificate",
   "CerificateOwnerMismatch", "ProviderNotFound"}

GetDecodedRevert(error) ==
  IF error.kind = "revert" /\ error.cause \in Decodable THEN error.cause ELSE ""

\* Of a revert it cannot decode the message has the selector, of a receipt nothing.
GetReadableErrorMessage(error) ==
  CASE error.kind = "receipt"    -> "no revert reason decoded"
    [] error.kind = "revert"     -> "revert selector"
    [] error.kind = "connection" -> "Network connection error"
    [] OTHER                     -> "Transaction failed"

HandleContractError(error) ==
  LET decoded == GetDecodedRevert(error) IN
  IF decoded # "" THEN decoded ELSE GetReadableErrorMessage(error)

-----------------------------------------------------------------------------
(* The library's reads *)

GetNode(operator) == Registry!GetNode(operator)

Details(party) == <<party, partyOf[party].ocpi, operatorOf[party]>>

\* Not listed is the empty answer.
GetPartyByAddress(party) == IF operatorOf[party] # NoAddress THEN {Details(party)} ELSE {}

GetPartyByOcpi(id) == GetPartyByAddress(uniqueParties[Upper[id]])

NodeEntry(operator) ==
  IF GetNode(operator) # NoDomain THEN << <<operator, GetNode(operator)>> >> ELSE << >>

PartyEntry(party) == IF operatorOf[party] # NoAddress THEN <<Details(party)>> ELSE << >>

Entry(command, address) ==
  IF command = "list-nodes" THEN NodeEntry(address) ELSE PartyEntry(address)

\* Everything a list would show if it were read at once.
Entries(command) ==
  {Entry(command, a)[1] : a \in {b \in Address : Entry(command, b) # << >>}}

\* The two commands that look for the signer among the entries.
IsSignerRegistered(entries, signer) == \E i \in DOMAIN entries : entries[i][1] = signer

-----------------------------------------------------------------------------
(* A command, step by step *)

\* The registry after its first transaction, the founder's setNode.
RegistryInit ==
  /\ admins = {Deployer}
  /\ partyRegistrationValidator \in Validator
  /\ nodeOf = [a \in Address |-> IF a = Founder.operator THEN Founder.domain ELSE NoDomain]
  /\ uniqueDomains = {Founder.domain}
  /\ uniqueOperators = {Founder.operator}
  /\ operators = <<Founder.operator>>
  /\ uniqueParties = [id \in OcpiId \union {NoOcpiId} |-> NoAddress]
  /\ uniquePartyAddresses = {}
  /\ partyOf = [a \in Address |-> Registry!NoDetails]
  /\ operatorOf = [a \in Address |-> NoAddress]
  /\ parties = << >>

CommandsInit ==
  /\ call = [p \in Process |-> Blank]
  /\ phase = [p \in Process |-> "idle"]
  /\ tx = [p \in Process |-> "none"]
  /\ report = [p \in Process |-> ""]
  /\ rest = [p \in Process |-> << >>]
  /\ found = [p \in Process |-> << >>]
  /\ replays = 0
  /\ overtaken = {}
  /\ ever = [p \in Process |-> {}]
  /\ always = [p \in Process |-> {}]

Init == RegistryInit /\ CommandsInit

Reported(p, text) ==
  /\ report' = [report EXCEPT ![p] = text]
  /\ phase' = [phase EXCEPT ![p] = "ended"]

Goes(p, next) ==
  /\ phase' = [phase EXCEPT ![p] = next]
  /\ UNCHANGED report

\* Commands are started in the order of their numbers.
Start(p) ==
  /\ phase[p] = "idle"
  /\ \A q \in Process : q < p => phase[q] # "idle"
  /\ \E c \in Command :
       /\ call' = [call EXCEPT ![p] = c]
       /\ \/ c.command \in Reads /\ Goes(p, "list")
          \/ /\ c.command \notin Reads
             /\ \/ ~VerifyWritable(c) /\ Reported(p, "No signer provided")
                \/ VerifyWritable(c) /\ ~Method(c).valid /\ Reported(p, "Invalid argument")
                \/ /\ VerifyWritable(c) /\ Method(c).valid
                   /\ Goes(p, IF Method(c).checks THEN "check" ELSE "send")
  /\ UNCHANGED <<registryVars, tx, readVars, replays, historyVars>>

\* Mutant: an operator that has a node goes on.
CheckNothing(p) ==
  /\ phase[p] = "check"
  /\ Goes(p, "send")
  /\ UNCHANGED <<registryVars, call, tx, readVars, replays, historyVars>>

CheckForExistingNode(p) ==
  /\ phase[p] = "check"
  /\ IF GetNode(Sent(p).owner) # NoDomain
     THEN Reported(p, HandleContractError(Failure("raised", "existing node")))
     ELSE Goes(p, "send")
  /\ UNCHANGED <<registryVars, call, tx, readVars, replays, historyVars>>

\* The gas estimate runs the transaction on the registry as it is: one that
\* reverts is not sent.
Send(p) ==
  LET cause == RevertOf(Sent(p)) IN
  /\ phase[p] = "send"
  /\ IF cause # ""
     THEN /\ Reported(p, HandleContractError(Failure("revert", cause)))
          /\ UNCHANGED tx
     ELSE /\ Goes(p, "wait")
          /\ tx' = [tx EXCEPT ![p] = "pending"]
  /\ UNCHANGED <<registryVars, call, readVars, replays, historyVars>>

\* Mutant: reports the transaction it sent without waiting for the receipt.
ReportSent(p) ==
  /\ phase[p] = "wait"
  /\ tx[p] \in {"pending", "mined", "reverted"}
  /\ Reported(p, "done")
  /\ UNCHANGED <<registryVars, call, tx, readVars, replays, historyVars>>

Receipt(p) ==
  /\ phase[p] = "wait"
  /\ \/ tx[p] = "mined" /\ Reported(p, "done")
     \/ tx[p] = "reverted" /\ Reported(p, HandleContractError(Failure("receipt", "")))
  /\ UNCHANGED <<registryVars, call, tx, readVars, replays, historyVars>>

\* The connection fails, or the process is killed: what was sent stays sent.
Lose(p) ==
  /\ phase[p] \notin {"idle", "ended"}
  /\ Reported(p, HandleContractError(Failure("connection", "")))
  /\ UNCHANGED <<registryVars, call, tx, readVars, replays, historyVars>>

ReadArray(p) ==
  /\ phase[p] = "list"
  /\ Goes(p, "entries")
  /\ rest' = [rest EXCEPT ![p] =
       IF call[p].command = "list-nodes" THEN Registry!GetNodeOperators ELSE parties]
  /\ ever' = [ever EXCEPT ![p] = Entries(call[p].command)]
  /\ always' = [always EXCEPT ![p] = Entries(call[p].command)]
  /\ UNCHANGED <<registryVars, call, tx, found, replays, overtaken>>

\* Mutant: an address with nothing listed ends the list.
RestAfterListed(p) ==
  IF Entry(call[p].command, Head(rest[p])) = << >> THEN << >> ELSE Tail(rest[p])

RestAfter(p) == Tail(rest[p])

ReadEntry(p) ==
  /\ phase[p] = "entries"
  /\ rest[p] # << >>
  /\ found' = [found EXCEPT ![p] = @ \o Entry(call[p].command, Head(rest[p]))]
  /\ rest' = [rest EXCEPT ![p] = RestAfter(p)]
  /\ UNCHANGED <<registryVars, call, phase, tx, report, replays, historyVars>>

EndOfList(p) ==
  /\ phase[p] = "entries"
  /\ rest[p] = << >>
  /\ Reported(p, "done")
  /\ UNCHANGED <<registryVars, call, tx, readVars, replays, historyVars>>

-----------------------------------------------------------------------------
(* The chain *)

\* Whose list is being read sees the entries before and after.
Observed(by) ==
  LET reading == {p \in Process : phase[p] = "entries"} IN
  /\ ever' = [p \in Process |->
       IF p \in reading THEN ever[p] \union Entries(call[p].command)' ELSE ever[p]]
  /\ always' = [p \in Process |->
       IF p \in reading THEN always[p] \intersect Entries(call[p].command)' ELSE always[p]]
  /\ overtaken' = overtaken \union
       {p \in Process \ by : phase[p] = "send" \/ tx[p] \in {"pending", "mined"}}

Mine(p) ==
  /\ tx[p] = "pending"
  /\ RevertOf(Sent(p)) = ""
  /\ Execute(Sent(p))
  /\ tx' = [tx EXCEPT ![p] = "mined"]
  /\ UNCHANGED <<call, phase, report, readVars, replays>>
  /\ Observed({p})

Revert(p) ==
  /\ tx[p] = "pending"
  /\ RevertOf(Sent(p)) # ""
  /\ tx' = [tx EXCEPT ![p] = "reverted"]
  /\ UNCHANGED <<registryVars, call, phase, report, readVars, replays, historyVars>>

Drop(p) ==
  /\ tx[p] = "pending"
  /\ tx' = [tx EXCEPT ![p] = "dropped"]
  /\ UNCHANGED <<registryVars, call, phase, report, readVars, replays, historyVars>>

\* A signed message carries nothing that ties it to one transaction.
Replay(p) ==
  /\ tx[p] # "none"
  /\ Sent(p).kind \in {"setNodeRaw", "deleteNodeRaw"}
  /\ replays < MaxReplays
  /\ RevertOf(Sent(p)) = ""
  /\ Execute(Sent(p))
  /\ replays' = replays + 1
  /\ UNCHANGED commandVars
  /\ Observed({})

CommandStep(p) ==
  \/ Start(p) \/ CheckForExistingNode(p) \/ Send(p) \/ Receipt(p) \/ Lose(p)
  \/ ReadArray(p) \/ ReadEntry(p) \/ EndOfList(p)

ChainStep(p) == Mine(p) \/ Revert(p) \/ Drop(p) \/ Replay(p)

Next == \E p \in Process : CommandStep(p) \/ ChainStep(p)

Spec == Init /\ [][Next]_vars

-----------------------------------------------------------------------------
(* Properties *)

TypeOK ==
  /\ \A p \in Process :
       /\ call[p].signer \in Address /\ call[p].spender \in Address
       /\ call[p].domain \in Domain \union {NoDomain} /\ call[p].certificates \in Certificates
       /\ phase[p] # "idle" <=> call[p].command # "none"
  /\ phase \in [Process -> {"idle", "check", "send", "wait", "list", "entries", "ended"}]
  /\ tx \in [Process -> {"none", "pending", "mined", "reverted", "dropped"}]
  /\ rest \in [Process -> Seq(Address)]
  /\ replays \in 0..MaxReplays
  /\ overtaken \subseteq Process

\* What the registry answers once the command of p is through.
ReadsBack(p) ==
  LET t == Sent(p) IN
  CASE t.kind \in {"setNode", "setNodeRaw"} -> GetNode(t.owner) = t.domain
    [] t.kind \in {"deleteNode", "deleteNodeRaw"} -> GetNode(t.owner) = NoDomain
    [] t.kind = "setParty" ->
         LET owner == t.certificates.owner IN
         /\ GetPartyByOcpi(call[p].id) = GetPartyByAddress(owner)
         /\ GetPartyByAddress(owner) = {<<owner, t.ocpi, t.operator>>}
    [] t.kind = "deleteParty" -> GetPartyByAddress(t.owner) = {}

\* What setNode, setParty and the deletions report can be relied on: "done" means
\* mined, and read back until somebody else's transaction; a named cause means
\* that nothing was sent; and an error without a cause is only given when another
\* transaction was mined between the estimate and this one.
ReportsTell ==
  \A p \in Process : phase[p] = "ended" /\ call[p].command \notin Reads =>
    /\ report[p] = "done" => tx[p] = "mined" /\ (p \notin overtaken => ReadsBack(p))
    /\ report[p] \notin {"done", "no revert reason decoded", "Network connection error"} =>
         tx[p] = "none"
    /\ report[p] = "no revert reason decoded" => tx[p] = "reverted" /\ p \in overtaken

\* getAllNodes and getAllParties read at different blocks and still return each
\* entry that was there all the time, once, and none that never was; so the
\* search for the signer is right about whoever was listed, or not, throughout.
ReadsFaithful ==
  \A p \in Process : call[p].command \in Reads /\ report[p] = "done" =>
    LET shown == {found[p][i] : i \in DOMAIN found[p]} IN
    /\ shown \subseteq ever[p]
    /\ always[p] \subseteq shown
    /\ \A i, j \in DOMAIN found[p] : found[p][i][1] = found[p][j][1] => i = j
    /\ \A a \in Address :
         /\ (\E e \in always[p] : e[1] = a) => IsSignerRegistered(found[p], a)
         /\ IsSignerRegistered(found[p], a) => \E e \in ever[p] : e[1] = a

\* The check for an existing node and the transaction are two steps: an operator
\* moves to another domain, and so leaves the old one reserved, only by a command
\* that another transaction overtook since its check, or by a repeated message.
LeaksOnlyWhenOvertaken ==
  \A a \in Address :
    nodeOf[a] # NoDomain /\ nodeOf'[a] # nodeOf[a] /\ nodeOf[a] \in uniqueDomains' =>
      \/ \E p \in overtaken : tx[p] = "pending" /\ tx'[p] = "mined" /\ Sent(p).owner = a
      \/ replays' # replays

DomainsLeakOnlyWhenOvertaken == [][LeaksOnlyWhenOvertaken]_vars
=============================================================================
