# OCN Registry: a TLA+ model

A formal model of the OCN Registry, version 2: the contracts that keep the
directory of OCN nodes and OCPI parties, decide who may be listed and take the
parties' yearly stakes; the library, the command line and the subgraph that use
them; the scripts that deploy them and the tasks that govern them. With it come
the model-checking runs and the proofs that show what they guarantee. Source lines are those of the repository; `contracts/X.sol`
is `src/contracts/X.sol` in `PROJECT.json`, whose `map` names the lines of every
definition.

## 1. The system

| Part | State | Operations | Talks to |
|---|---|---|---|
| **OcnRegistry** | `nodeOf`, flags of used domains and known operators, the `operators` array; `uniqueParties` (country_code/party_id → address), `partyOf`, `operatorOf`, flags, the `parties` array with the index of each party in it | set and delete a node, by the operator or by a signature somebody relays; set and delete a party; an admin's deletions; lookups | asks the validator and the payment manager inside `setParty` |
| **PartyRegistrationValidator** | allowed signers, an oracle for each role, the certificate verifier | `validateRegistration`; an admin's changes of the three | certificate verifier, provider oracles |
| **OcnPaymentManager** (UUPS proxy) | stake and staking block of each party, yearly amount, stablecoin, operator to pay out to, two roles | `pay`, `withdrawToRegistryOperator`, settings, upgrade | the ERC20 stablecoin |
| **Governance**: OcnGovernor, Timelock, OcnVoteToken | proposals, votes, queue | OpenZeppelin's; the timelock owns the three contracts after deployment | the three contracts |
| **Governance tasks** (`tasks/`, `helper/storeProposals.ts`) | `proposals.json`, and the copy of it each task loaded | propose, vote, queue, execute | governor, the file |
| **Deployment** (`scripts/`, `deploy/01..09`) | which contracts exist and who owns them; records of their addresses, copies of these for the library, the manifest of the subgraph | shell scripts of up to twelve commands, each several transactions and files | all contracts, the files |
| **Client library and CLI** (`src/lib`, `src/cli.ts`) | none between commands; within one, where it is | validate, check, estimate, sign, send and wait; lists read entry by entry | the contracts, over a connection that may fail |
| **Subgraph indexer** (`thegraph-indexer/`) | Operator and Party entities, copies of the events | one handler for each event | events of the contracts, in order and late |
| Tooling, Java wrapper, ABI and deployment files | – | build and release | – |

The contracts run one transaction at a time and a transaction that reverts
changes nothing, so inside a contract there is no interleaving. What is hard is
between transactions: several mappings and two arrays that say the same thing in
different ways and are updated by nine entry points; entries that are never
removed; cached values (the party's index, its payment status); settings that
change under stakes and listings already there; roles handed over in two steps;
and, outside the chain, clients that read and write in several calls, relays
that may deliver late or twice, tasks that crash between the chain and a file.

What makes each part correct:

- *Registry*: no domain and no id is listed twice; every listing is found by
  every lookup, once, under its own id; deletions remove what they should and
  nothing of anybody else; positions that clients page through are stable.
- *Validator*: a list of roles is accepted exactly if its certificates prove it;
  revoking only refuses.
- *Payments*: a stake stays until it is mature, is paid out once, whole, in the
  coin and to the operator of that moment, and is covered by tokens; a payment
  status tells what happened.
- *Together*: listings rest on certificates valid when they were made, and what
  one contract remembers of another only lags.
- *Library*: what a command reports is what happened; a list read over a changing
  registry misses nothing that stayed and shows nothing that never was; a domain
  leaks only where the check and the transaction cannot be one.
- *Subgraph*: at all times it shows nodes that are a directory, and once the
  registry rests it shows the registry.
- *Deployment*: however often it is stopped and repeated, a script that comes to
  its end has handed everything over, and those who read its files find it.
- *Governance tasks*: the file tells of proposals that exist, and loses none but by
  a crash or by runs that overlap; what is typed as 0 goes nowhere.

`PROJECT.json` lists the hazards, each at the line where it bites.

## 2. Modules

| Module | Models |
|---|---|
| `AccessControl` | OpenZeppelin's role as the set of its members; `transferOwnership`, which the three contracts write alike |
| `Directory` | abstract specification: what the registry promises, with no bookkeeping |
| `OcnRegistry` | `contracts/OcnRegistry.sol`; `OcnRegistryMC` its instances, `OcnRegistryProofs` its theorems |
| `OcnPaymentManager` | `contracts/OcnPaymentManager.sol` and the tokens it moves; `...MC`, `...Proofs` |
| `PartyRegistrationValidator` | `contracts/PartyRegistrationValidator.sol`; `...MC`, `...Proofs` |
| `OcnSystem` | the three contracts composed by INSTANCE; `OcnSystemMC`, `OcnSystemProofs` |
| `RegistryClient` | the commands of `src/cli.ts` on nodes and parties and the methods of `src/lib/registry.ts`, step by step, over the actions of `OcnRegistry` |
| `RegistrySubgraph` | the events of `OcnRegistry`'s transactions and the handlers of `ocn-registry-oli.ts` |
| `OcnNetwork` | the registry with these two users; `OcnNetworkMC`, `OcnNetworkProofs` (reports, domains left behind, entities of parties, lists, types), `OcnSubgraphProofs` (nodes the subgraph shows) |
| `Deployment` | the scripts of `scripts/`, `deploy/01` to `deploy/09` and what they write; `DeploymentProofs` |
| `GovernanceTasks` | `tasks/propose.ts`, `vote.ts`, `queue.ts`, `execute.ts` and `helper/storeProposals.ts` |
| `OcnOperations` | a deployment and the tasks run after it; `OcnOperationsMC`, `OcnOperationsProofs` (governance tasks, and the theorems of `DeploymentProofs` for the operations) |

**On the chain, one action is one transaction.** A `require`, a `revert`, `onlyRole` and a
panic of the EVM are guards; assignments are primed variables; private functions
(`setNode`, `deleteNode`, `deleteParty`) are operators that the public entry
points share, as in the code. Mappings are functions over `Address`, the
accounts and address 0, which is an address like any other where the code lets
it be: a signature that recovers nothing lists a node for it
(`contracts/OcnRegistry.sol:134`). Flags (`mapping(... => bool)`) are sets. A
country_code/party_id pair is one value, with `NoOcpiId` for a pair with a part
left 0. `delete parties[i]` leaves address 0 at its place, as in Solidity.

**A command of the library is a process** of up to four steps: it is validated and
started, it looks for a node of the signer (`setNode`, `setNodeRaw`), it is
estimated and sent, and its receipt is awaited; or it reads an array and then the
entries one by one. Between any two steps the transactions of other processes are
mined. A pending transaction is mined, reverts or is dropped; the connection can
fail at any step, and what was sent stays sent; a signed message can be sent
again. The library's own text of an error is kept as far as its users can tell
causes apart: a declared error of the registry by name, a selector, a bare
receipt, a connection.

**The subgraph** gets the events a transaction emits as one batch at the end of a
queue and handles them one at a time. An operator's entity is its domain, with
`NoEntity` where there is none; a party's is kept by the id the handler computes,
which is not the same in `handlePartyUpdate` and `handlePartyDelete`. Each handler
also appends a copy of its event that nothing reads; of these only the role events
are kept, as the set of administrators they add up to.

The two users never meet: neither writes what the other reads, and each depends
on the registry alone. `part` chooses which of them a behaviour of `OcnNetwork`
follows, which gives every behaviour of either over the registry without the
product of their states.

**A deployment is a list of commands, a command a list of steps**, one per
transaction or file. `Results` gives what a step makes of the chain and the files,
or the empty set where it fails. A step that fails, or a fault before or after it,
stops the script (`set -e`); somebody then runs the command again and goes on, or
starts a script over on the same network. An address, and the number of the block
a contract was created in, are its position on the chain: transactions of one
account in a row give just this order. hardhat-deploy's creation and its record are
one step, since it recovers pending deployments by itself; the proxy of the payment
manager and its record are two, as in `deploy/06`.

**A governance task is a process** that loads `proposals.json` when it starts.
`propose` sends, then stores what it loaded with one record more; `vote` looks the
state up, then sends. A process can end between any two steps. Governor and
timelock are OpenZeppelin's and external: a proposal is pending, active, and so
on; the deployer, whose account all tasks use, holds all votes.

Left out: a listing's `name` and `url`, which nothing tests; `cvStatus`, which is
constant; gas. A certificate is the record
of what the validator reads of it (signer, contract it is signed for, kind,
identifier, owner). The ERC20 is standard: no fee on transfer, no callback, and
approvals smaller than the unlimited one. The registry's operator account is
taken to be another than the contract itself.

Operators marked `Mutant:` are not part of the model. Each is a definition as a
plausible bug would make it (a check left out, a wrong index, a value not
reset); put in the place of the one that follows it, it breaks the property
`PROJECT.json` pairs it with, which shows that the property depends on the code.

## 3. What the runs show

| Run | Instance | Shows |
|---|---|---|
| `registry` | 2 accounts and address 0, 2 domains, 2 ids, 2 roles, 2 validators, 3 array entries; symmetric | the eleven properties below |
| `registry_reserved_domain`, `registry_held_id` | the same | two statements of the documentation the code breaks |
| `payments` | 2 accounts and address 0, 1 coin, yearly amounts 1 and 2, 4 base units each, 4 blocks, staking period 2; roles as deployed | stakes and tokens |
| `payments_two_coins` | 1 account and address 0, 2 coins, amounts 0 and 1, every role change and an upgrade | the same across coins and administrations |
| `payments_coin_change`, `payments_hand_over` | as needed | two comments the code breaks |
| `validator` | 2 signers, 2 verifier contracts, 2 identifiers, 1 oracle, 5 certificates (one for a stale contract, one with owner 0), every list of 1 to 3 of the 10 role details | the loop against a definition without loop |
| `validator_owners` | the same | one error text the code breaks |
| `system` | 1 party, 1 operator, 2 certificates, 1 or 2 roles, 1 coin, 2 blocks | the properties that relate two contracts |
| `network` | 2 accounts, 3 typed domains, 2 typed ids, 4 sets of certificate files, 3 commands, 1 repeated message; for the subgraph 1 operator of parties, 1 party that pays, 1 domain, 2 ids, 2 places for parties, and a transaction only while at most 1 event waits | reports, lists, domains that leak; what the subgraph shows and when |
| `operations` | 4 scripts in 10 environments, 2 faults, 2 repetitions; 2 processes of tasks, amounts 0, 100 and none, votes 0, 2 and none, 3 proposals | what a deployment leaves; what the file tells |

**Registry.** `DomainsReserved`, `OperatorsListedOnce`, `PartiesIndexed`,
`ListingConsistent`, `FoundUnderOwnId`, `ListedOncePerQuery`: the mappings and
arrays agree. `IdReleasedByDelistingOnly`, `OneListingPerTransaction`,
`PositionsStable`: what a transaction may never do. `ImplementsDirectory`: seen
through `Listings`, the contract is `Directory`. Two accounts and two ids are
enough for every conflict the code tests (an id held by another, a domain held by
another, a deletion through an old id), three array entries for an entry blanked
before and after one in use, and for a party deleted and listed again.
`MaxParties` bounds the array, which never shrinks.

**Payments.** The first run: `StakesBackedByStablecoin` (with one coin the contract
covers all stakes, in any order of withdrawal), `StakeUntouchedUntilMature`,
`TokensLeaveAsMatureStakes`, `StakesDated`, `PaidIsNeverPending`. The staking period
of 2 in 4 blocks lets a stake be paid, be young, mature, be withdrawn and be paid
again; two amounts make a stake differ from the amount of the day. It keeps the
roles as deployed (`RolesAsDeployed`). The second, with two coins and every change
of roles: `StakesBackedInTotal`, `OrphanIsFrozen`.

**Validator.** `AcceptedMeansCertified` compares the loop with `Certified`, in every
reachable setting of verifiers, oracles and providers, for lists whose certificates
name real owners. `MaxUint8` is 2 here, so that lists of three overflow the index.
`RevocationOnlyRefuses`, `OrphanIsFrozen`: the settings.

**System.** `ListingNeedsCertificates`: a listing that appears, or changes its roles
or operator, is backed by certificates valid in that state. `StoredStatusOnlyLags`,
`LookupsDivergeByPaymentOnly`: the payment status by address is the stored one, by
OCPI credentials the live one; they differ only after payments or withdrawals, and
a stored payment was one. A payment of a yearly amount of 0 stakes nothing and still
changes the live status, by its staking block: the property looks at both. `ImplementsRegistry`: composed, the registry is still
`OcnRegistry`, so its theorems hold here. Administrators and the operator stay as
deployed in this run (`AsDeployed`); their changes are checked with each contract.

**Network.** *Library*, with two commands running at a time and a third after them:

- `ReportsTell`: "done" is said of a transaction that was mined, and what it set is
  read back until somebody else's transaction; a named cause is given only when
  nothing was sent; and an error without a cause only when another transaction was
  mined between the estimate and this one. A lost connection tells nothing, and the
  transaction may still be mined. `setNode` lists the origin of the URL typed and
  `setNodeRaw` the text as typed: `ReadsBack` follows each.
- `ReadsFaithful`: the lists, read entry by entry at different blocks, hold every
  entry that was there all the time, once, and none that never was. They are no
  snapshot: an entry that was moved or came meanwhile may be there or not. It rests
  on `PositionsStable`.
- `DomainsLeakOnlyWhenOvertaken`: the check of `setNode` and its transaction are two
  steps. Finding 2 comes about through the library only if another node update of
  the same operator falls between them, or a signed message is sent again.

Three commands are enough for one that overlaps each of two others, one repeated
message for one that comes after a later one. `Usage` keeps out what tells nothing
new: it lets a connection fail only after something was sent, lets one account sign
raw messages, and has refused arguments and bad certificates come first.

*Subgraph*:

- `EventuallyInSync`: once the registry rests, the subgraph comes to show every
  operator's node, every listed party as it is listed and who administers the
  registry, whatever ids and operators the parties went through. It assumes weak
  fairness of `HandlerStep` and of nothing else: graph-node hands on events as long
  as there are any and has no other condition. Nobody is obliged to send a
  transaction, so the property speaks of behaviours in which the registry comes to
  rest.
- `ShowsADirectory`: at all times, however late, the nodes shown implement
  `Directory`: no domain is shown for two operators when it passes from one to the
  other, and no listing makes its operator one of "unknown" domain.
- `EntityChangesByListingOnly`: a party's entity changes by a listing under its id
  only. What it records of the code is that `handlePartyDelete` looks a party up by
  an id without the '/' that `handlePartyUpdate` puts in, so no entity is ever marked
  as deleted, and a party that changed its id has two. `InSync` therefore asks of
  listed parties only.

A batch of events may be up to three long; with `MaxLag` 2 the next one is emitted
when one event at most is waiting, which mixes the events of two transactions. How
many may wait does not matter to `ShowsADirectory`, as the proof shows.

**Operations.** *Deployment*: `HandedOver`, `FoundByItsUsers` and `StartsOverClean`
in every script, valid and not, with two faults and two repetitions anywhere: a
fault while a repetition makes up for an earlier one, and one more repetition.

- `HandedOver`: a script that came to its end has the contracts it recorded
  administered by the recorded timelock, to which the recorded governor alone
  proposes. The deployer keeps the role to upgrade the payment manager (finding 4);
  the property says so.
- `FoundByItsUsers`: the copies the library is built with are the records, although
  `--reset` removes only the latter, and the subgraph starts no later than the
  contracts it indexes, although the payment manager's record has no block.
- `StartsOverClean`: a script started over comes to its end unless a fault stops it,
  but for what its preflight finds and for a verifier given twice. It leaves out the
  short scripts of `scripts/basic`: they do not run the tag
  `partyregistrationvalidator`, and the registry's script then fails for want of it.

Running a stopped command again, instead of the script, may well fail for ever:
`setVerifier` refuses a verifier it has, and `transferOwnership` a deployer who has
handed over. The model does that too; `HandedOver` speaks of scripts that end.

*Governance tasks*, after one deployment that went well: `FileTellsProposals` (every
record is of a proposal the governor has, once; a proposal stays on file unless runs
of `propose` overlapped or one crashed between chain and file) and `ZerosAreReplaced`
(a 0 typed is taken for no choice: a vote against is cast as a vote for, and no
proposal sets the amount to 0). Two processes are enough for runs that overlap, three
proposals for one that is lost and one that replaces it.

No run checks deadlock: the chain may stand still at a bound, nobody is obliged to
send a transaction, and commands and scripts end. The only fairness is that of the
subgraph's handlers, above. `network` has about 1.0 million states and takes two
minutes, `operations` about 0.9 million.

**Findings** (each with a run whose trace is two to four steps):

1. A party that registers again under another country_code/party_id keeps the old
   one: it is refused to others as registered, and deleting it as an admin deletes
   the party's current listing (`HeldIdIsListed`).
2. A node that is updated leaves its old domain reserved for ever
   (`ReservedDomainIsListed`).
3. Changing the stablecoin strands the stakes paid in the old one
   (`StakesBackedByStablecoin`).
4. `transferOwnership` of the payment manager leaves the deployer the right to
   upgrade it (`OwnershipLeavesNothingBehind`).
5. A certificate with owner 0 followed by one with an owner is accepted, although
   the owners differ (`OwnersAgree`).

## 4. What is proved

Eight modules of proofs show for all sets of accounts, domains, ids, roles, tokens,
amounts, commands, verifiers and tasks, and all bounds, what the runs check on instances. The
assumptions are those each module names: the sets are disjoint from their "none"
values, the deployer is an account, numbers are naturals; accounts and coins are
finitely many, so that stakes have a sum. The theorems of
`OcnRegistry` about ids (`PartiesFoundUnderOwnId`, `IdsReleasedByDelistingOnly`,
`TransactionsTouchOneListing`, `RegistryImplementsDirectory`), those of `OcnSystem`
about parties, and the one about the library's lists, also assume that no certificate names address 0 as owner; without
that they fail, since 0 also means that an id is free, or an entry deleted.

*Registry.* `NextKinds` sorts the transactions into five kinds, as the entry points
share private functions; each invariant is shown to survive each kind. Three
properties are not inductive alone:

- `OperatorsListedOnce` needs `OperatorsFlagged`: an operator is in the array
  exactly if its flag is set. Flags are never cleared, which is why an operator
  that deletes its node and sets another is not appended again.
- `PartiesIndexed` and `ListingConsistent` are inductive only together
  (`ListingInv`): that a deletion blanks the right entry needs the index, and that
  a re-listing does not append needs the flags.
- `FoundUnderOwnId` needs `IdHeld`: a listed party is not address 0, its listing has
  an id with both parts, and that id's slot names it. The slot may also be named by
  ids of the past (finding 1); the invariant says nothing of those.

`PartiesListedOncePerQuery`: the two queries fold over the array. The least position
at which a fold could go wrong is one too many: what it has found up to there is, in
order, the chosen entries before, so it holds an address as often as the array does,
which is `PartiesIndexed`.

`RegistryImplementsDirectory` maps a registration to `List`, a deletion to `Delist`,
node transactions to `PublishNode` and `RetireNode`, and administration to
stuttering, under `DomainsReserved` and `IdHeld`.

*Payments.* Type correctness carries the arithmetic: an allowance or a balance is
never taken below 0, because the guards are those of the ERC20. `StakesDated` is
inductive given types and a block number above 0. The three action properties follow
by cases; `Elsewhere` collects the steps that touch neither stakes nor what the
contract holds.

The sums of stakes and of tokens are sizes of sets: a stake of n units is the n pairs of
its party with 1 to n, and likewise a balance (`StakesAndTokens` says that the sums of
the properties are these sizes). A payment adds as many units to one set as to the
other, a withdrawal takes as many away, and disjoint unions do the arithmetic. In total
(`StakesStayBackedInTotal`) no assumption is needed on what is changed meanwhile; in
the stablecoin of the moment (`StakesStayBackedByTheirStablecoin`) the coin must stay,
which is what finding 3 says.

*Validator.* `AcceptedIsAlwaysCertified`: `LoopReadsAll` gives the loop in closed form,
for lists of any length: it has accepted the roles so far exactly if each is certified
and the owners read agree with the last one that is not 0, which it returns. With
owners that are real, this is `Certified`; finding 5 is the case that is left. That part
does not depend on the state, so `RevocationsOnlyRefuse` compares the certificates one
by one.

*System.* `ContractsInSystem`: every step of the system is a step or a stutter of each
contract as its own module has it, so that the contracts' theorems hold here; from it
`SystemImplementsRegistry`. `ListingsNeedCertificates` needs that nobody enters the
directory but by `SetParty` (`NobodyEnters`) and what the validator's loop accepts.
`StoredStatusesOnlyLag` is inductive because payments are not forgotten
(`PaidIsNeverPending`), and speaks of the lookup by OCPI credentials through
`FoundUnderOwnId`. `LookupsDivergeOnlyByPayment` had to be corrected by its proof: see
the payment of 0 in section 3.

*Library: reports* (`ReportsCanBeReliedOn`). `ReportInv` says of each command where
it is and whether it has sent anything (`PhaseTells`), and of its transaction
(`TransactionTells`): one that is pending and that no other overtook still passes its
estimate, one that is mined is read back until it is overtaken, and one that reverted
was overtaken. A step of one command leaves the others' answers as they are
(`AnswersStay`); a transaction that is mined changes them, and makes every other
command under way an overtaken one. `MinedReadsBack` looks at each of the six kinds.

*Library: lists* (`ListsAreFaithful`). `Reading` relates a list half read to the
registry it is read from: nothing found that never was, nobody twice, nobody found
who is still to come, and whoever was listed throughout found or still to come. It
starts out true because the two arrays name whoever is listed (`ArraysList`), which is
`OperatorsFlagged` and `PartiesIndexed`: `OcnRegistryProofs` is instantiated, every
transaction of a command is shown to be one of `OcnRegistry`
(`ExecuteIsTransaction`), and its step lemmas are cited. That address 0 is skipped
among the parties, where deletions leave it, needs `IdHeld`: hence the assumption that
no certificate names address 0 as owner.

*Library: domains* (`DomainsLeakByOverlapOnly`). `CheckedInv`: a node update that was checked
or is pending, and that no other transaction overtook, is of an operator without
node. `NodeUpdatesCheck` shows that no node update gets to the chain without the
check, `TransactionsMoveNodes` that only node updates leave a domain behind, and of
their own operator.

*Subgraph* (`SubgraphShowsADirectory`). `EventsTell`: between the nodes shown and the
nodes of the registry there is a state of the nodes for each event that waits, each
a directory and each taken to the next by its event (`Told`). A transaction adds a
state at one end, a handler takes one away at the other, which is a step of
`Directory`. The invariant quantifies over the states between, so it holds for any
number of events. It needs `Reserved`, that the registry's own nodes are distinct,
and, for parties, that a listing's operator has a node in the state before its event:
its entity is then there and `handlePartyUpdate` does not write "unknown".
`EntitiesChangeByListingOnly` rests on `NeverDeleted`: nothing is ever stored under
the ids `handlePartyDelete` looks for.

*Deployment* (`DeployInvHolds`, and from it `DoneIsHandedOver`, `DoneIsFound` and
`CleanStartsSucceed`). The properties speak of scripts that have ended; the invariant
must speak of every step on the way. `Taken(tag, k)` says that the k-th step of a
command was taken in this pass through the script, and `Followed` what each such step
has left: the contract is recorded and was made with the right arguments (`Made`,
`AllRecorded`), its copy is up to date (`Copied`), its roles are those granted so far
and no others. It claims something only after `--reset` (`Fresh`): what an earlier
attempt left is unknown, and nothing before that step depends on it. A command that is
run again takes its first step anew, so what its steps left is no longer claimed, and
the roles it finds may be those of before or of after; what earlier commands left stays
(`Settled`, `Early`). `ProxyLast` carries the proxy between its creation and the step
that records it. `Clean` is what makes a script started over succeed: the deployer has
not yet given away a right that a step to come needs. `StepEffects` sorts what a step
may do into a dozen kinds, `Touches` shows that each contract is changed by its own
steps only, and there is one lemma for each part of the invariant and each kind of
step. The deployer's account is assumed to be no contract's address, and the shape of
the environment is `PlanShape`; the list of verifiers is any list.

`OcnOperationsProofs` shows that a deployment with the tasks after it is one of
`Deployment` (`DeploysAsSpecified`), and so states the theorems for the operations.
`OperationsTypeCorrect` adds that the yearly amount was the default or proposed, which
rests on what proposals.json tells.

*Governance tasks* (`FileKeepsTelling`). `FileInv` adds to the property what a task
under way has loaded (`LoadedTells`): no record of the call it proposes, and every
proposal stored alone; and that of two runs of `propose` under way both know of the
overlap. `ZerosStayReplaced` adds that a vote under way, or cast, is never 0.

What a fold or a loop computes is proved without induction, which the provers cannot
instantiate: the naturals are well-founded, so a claim that fails has a least place
where it does (`LeastNumber`), and one step of the loop before it refutes that.

*Types of library and subgraph* (`NetworkTypeCorrect`). A command keeps the arguments it
was called with, and its list is cut from the registry's arrays, so the registry must
keep its own types: `ExecuteIsTransaction` again, for commands found valid
(`SentValid`). The subgraph's entities are made of events, so the invariant types these
(`Event`): each transaction of the subgraph's chain is shown to be one of `OcnRegistry`
and to emit at most three, which bounds those waiting. The theorem assumes that there
are certificates at all, as commands without any still have a value for them.

*Model-checked only*: liveness (`EventuallyInSync`), which is out of the provers' reach.
Every invariant and action property the passing runs check is proved.

## 5. Not modelled

- **Governance's contracts** are OpenZeppelin's with settings. They are external: the
  roles they are given, and the states of a proposal as the tasks meet them. Several
  voters, delegation, quorums and cancelling are OpenZeppelin's own matter.
- **Other handlers of the subgraph** (`ocn-governor.ts`, the stablecoin's, the
  certificate verifier's) copy one event into one record that nothing reads.
  `createCertificateEntitiesFromPartyUpdate` is never called.
- **Commands of payments and oracles** (`src/lib/ocnPaymentManager.ts`,
  `src/lib/oracle.ts`) are one call each; what they change is in
  `OcnPaymentManager` and in the validator's providers.
- **Printing and parsing**: `src/cli/builders.ts`, the formatting of replies, and
  EIP-712 hashing, which is taken to be injective.
- **`proposeSetVerifier`** throws before it sends anything: `OcnRegistry` has no
  `setVerifier`. `checkBalance`, `fastForward` and the like look things up or serve a
  local chain.
- **Tooling**: `pre-commit-check.ts`, `hardhat.config.ts`, `verifyAll.ts`, the
  generated Java wrapper, ABI and deployment files.
- **That a mature stake is withdrawn**: nobody is obliged to ask for it.

Still worth doing: a snapshot property for lists read at one block, should the library
come to read them so.
