----------------------------- MODULE OcnNetwork -----------------------------
(***************************************************************************)
(* The registry with its two kinds of users: the commands that write and   *)
(* read it, and the subgraph that indexes it.  Neither sees the other, and *)
(* each depends on the registry alone, so a behaviour in which one of them *)
(* moves is all there is to see of that one.  `part` says which.           *)
(***************************************************************************)
EXTENDS Naturals, Sequences

CONSTANTS
  Account, NoAddress, Domain, NoDomain, OcpiId, NoOcpiId, Role, PaymentStatus,
  Validator, CredentialOwner, Deployer, NotListed, MaxParties,           \* OcnRegistry
  Origin, NotUrl, TypedId, Upper, Certificates, Founder, MaxCalls, MaxReplays, \* library
  NoEntity, MaxLag                                                       \* subgraph

VARIABLES
  admins, partyRegistrationValidator, nodeOf, uniqueDomains, uniqueOperators, operators,
  uniqueParties, uniquePartyAddresses, partyOf, operatorOf, parties

VARIABLES
  call, phase, tx, report, rest, found, replays, overtaken, ever, always

VARIABLES
  events, operatorEntity, partyEntity, adminsCopied

VARIABLE part

Client == INSTANCE RegistryClient
Subgraph == INSTANCE RegistrySubgraph

ASSUME NetworkAssumption ==
  /\ Client!Registry!RegistryAssumption
  /\ Client!ClientAssumption
  /\ Subgraph!SubgraphAssumption

clientVars == <<call, phase, tx, report, rest, found, replays, overtaken, ever, always>>
subgraphVars == <<events, operatorEntity, partyEntity, adminsCopied>>
registryVars == <<admins, partyRegistrationValidator, nodeOf, uniqueDomains, uniqueOperators,
                  operators, uniqueParties, uniquePartyAddresses, partyOf, operatorOf, parties>>
vars == <<registryVars, clientVars, subgraphVars, part>>

Init ==
  \/ part = "library" /\ Client!Init /\ Subgraph!EntitiesInit
  \/ part = "subgraph" /\ Subgraph!Init /\ Client!CommandsInit

LibraryStep == part = "library" /\ Client!Next /\ UNCHANGED <<subgraphVars, part>>

TransactionStep ==
  part = "subgraph" /\ Subgraph!RegistryTransaction /\ UNCHANGED <<clientVars, part>>

HandlerStep == part = "subgraph" /\ Subgraph!HandleNext /\ UNCHANGED <<clientVars, part>>

Next == LibraryStep \/ TransactionStep \/ HandlerStep

\* graph-node goes on as long as there are events; nobody has to send transactions
\* or to run commands.
Fairness == WF_vars(HandlerStep)

Spec == Init /\ [][Next]_vars /\ Fairness

-----------------------------------------------------------------------------
(* Properties *)

\* The variables of the library and of the subgraph are well typed.
TypeOK == Client!TypeOK /\ Subgraph!TypeOK /\ part \in {"library", "subgraph"}

\* What the library reports of a command that writes can be relied on: see
\* RegistryClient.
ReportsTell == Client!ReportsTell

\* Lists read entry by entry are complete and hold nothing that never was: see
\* RegistryClient.
ReadsFaithful == Client!ReadsFaithful

\* With the library, a domain stays reserved behind an operator only where two
\* node updates of that operator overlap, or a signed one is repeated.
DomainsLeakOnlyWhenOvertaken == [][part = "library" => Client!LeaksOnlyWhenOvertaken]_vars

\* Once the registry rests, the subgraph comes to show it as it is.
EventuallyInSync == part = "subgraph" /\ <>[][HandlerStep]_vars => <>[]Subgraph!InSync

\* The nodes the subgraph shows are a directory at all times.
ShowsADirectory == Subgraph!ShowsADirectory

\* An entity of a party changes by a listing under its id only, and is never
\* marked as deleted.
EntityChangesByListingOnly == Subgraph!EntityChangesByListingOnly
=============================================================================
