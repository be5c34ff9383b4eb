----------------------------- MODULE Deployment -----------------------------
(***************************************************************************)
(* The deployment of the contracts: the shell scripts, the hardhat-deploy  *)
(* scripts each of their commands runs (deploy/01 to deploy/09), and what  *)
(* they leave for others to read: the records of the addresses, the copies *)
(* of them the library is built with and the manifest of the subgraph.     *)
(*                                                                         *)
(* A command is a sequence of steps, one per transaction or file.  A step  *)
(* may fail by itself, or a fault may stop the script before or after it;  *)
(* the next command is not run then (set -e).  Somebody runs the stopped   *)
(* command again and goes on, or starts a script over.                     *)
(*                                                                         *)
(* The chain is the sequence of the contracts there are.  A contract's     *)
(* address and the number of the block it was created in are its position. *)
(***************************************************************************)
EXTENDS Naturals, Sequences, SequencesExt, FiniteSetsExt, AccessControl

CONSTANTS
  Deployer,        \* the account the scripts send from
  Anyone,          \* ADDRESS_ZERO, as an executor
  NotAnAddress,    \* an entry of ALLOWED_VERIFIERS that is none
  Plan,            \* the scripts to run, each with its environment
  NoManifest,      \* before the manifest is written
  MaxFaults, MaxReruns

\* ALLOWED_VERIFIERS is a list of accounts; on a development chain one is there
\* at least, as the scripts take those of the test certificates instead.  `bad`
\* is what else of the environment is not valid.
PlanShape ==
  \A p \in Plan :
    /\ p.script \in {"dev", "prod-mock", "prod-external", "basic"}
    /\ p.devChain \in BOOLEAN /\ p.graphKey \in BOOLEAN
    /\ p.bad \in {"", "DEPLOYER_PRIVATE_KEY", "DEFAULT_OPERATOR", "STABLECOIN_ADDRESS"}
    /\ p.verifiers \in Seq(Range(p.verifiers))
    /\ p.devChain => p.verifiers # <<>>

\* The deployer's account is none of the contracts, whose addresses are numbers.
DeploymentAssumption ==
  /\ PlanShape
  /\ Deployer \notin Nat
  /\ MaxFaults \in Nat /\ MaxReruns \in Nat

VARIABLES
  plan,            \* the script that runs, and its environment
  run,             \* running, stopped or done
  command, step,   \* where it is: in commands, and in the steps of that command
  disturbed,       \* a fault stopped it since it was last started from its beginning
  faults, reruns   \* counted for the bounds

VARIABLES
  chain,           \* the contracts
  records,         \* deployments/<network>: name -> address, 0 where there is none
  copies,          \* src/deployments/<network>, likewise
  manifest         \* subgraph.yaml: data source -> address and start block

scriptVars == <<plan, run, command, step, disturbed, faults, reruns>>
placeVars == <<chain, records, copies, manifest>>
vars == <<scriptVars, placeVars>>

Name ==
  {"OcnVoteToken", "Timelock", "OcnGovernor", "MockERC20", "EuroStableCoin",
   "OcnPaymentManager", "CertificateVerifier", "EMSPOracle", "CPOOracle",
   "PartyRegistrationValidator", "OcnRegistry"}

-----------------------------------------------------------------------------
(* The commands of the scripts and their steps *)

Governance == <<"votetoken", "timelock", "governor", "setup">>

\* The scripts of scripts/deployment, and the shorter one of scripts/basic.
Commands ==
  LET Prod == <<"payment", "certificateverifier", "oracles", "partyregistrationvalidator", "registry">>
      Subgraph == IF plan.graphKey THEN <<"subgraph">> ELSE <<>>
  IN  CASE plan.script = "dev" ->
             <<"preflight">> \o Governance \o <<"mockstablecoin", "payment", "certificateverifier",
               "partyregistrationvalidator", "registry">> \o Subgraph
        [] plan.script = "prod-mock" ->
             <<"preflight">> \o Governance \o <<"mockstablecoin">> \o Prod \o Subgraph
        [] plan.script = "prod-external" -> <<"preflight">> \o Governance \o Prod \o Subgraph
        [] plan.script = "basic" ->
             Governance \o <<"stablecoin", "payment", "certificateverifier", "registry">>

\* The transactions and files of each script of deploy/, in their order.
Deploys(contract) == << <<"deploy", contract>>, <<"copy", "src">> >>

VoteTokenSteps ==
  << <<"reset", "records">>, <<"deploy", "OcnVoteToken">>, <<"grant", "delegate">>, <<"copy", "src">> >>
TimelockSteps == Deploys("Timelock")
GovernorSteps == Deploys("OcnGovernor")
SetupSteps == << <<"grant", "proposer">>, <<"grant", "executor">>, <<"revoke", "admin">> >>
EuroStableCoinSteps == Deploys("EuroStableCoin")
MockERC20Steps == Deploys("MockERC20")
PaymentSteps ==
  << <<"proxy", "OcnPaymentManager">>, <<"save", "OcnPaymentManager">>, <<"copy", "src">>,
     <<"transfer", "OcnPaymentManager">> >>
CertificateVerifierSteps == Deploys("CertificateVerifier")
OraclesSteps == << <<"deploy", "EMSPOracle">> >> \o Deploys("CPOOracle")
ValidatorSteps == Deploys("PartyRegistrationValidator")
RegistrySteps ==
  Deploys("OcnRegistry")
  \o [i \in DOMAIN plan.verifiers |-> <<"allow", plan.verifiers[i]>>]
  \o << <<"oracle", "CPO">>, <<"oracle", "EMSP">>,
        <<"transfer", "PartyRegistrationValidator">>, <<"transfer", "OcnRegistry">> >>

\* By the tags of the scripts.
Steps(tag) ==
  CASE tag = "preflight" -> << <<"check", "environment">> >>
    [] tag = "votetoken" -> VoteTokenSteps
    [] tag = "timelock" -> TimelockSteps
    [] tag = "governor" -> GovernorSteps
    [] tag = "setup" -> SetupSteps
    [] tag = "stablecoin" -> EuroStableCoinSteps
    [] tag = "mockstablecoin" -> MockERC20Steps
    [] tag = "payment" -> PaymentSteps
    [] tag = "certificateverifier" -> CertificateVerifierSteps
    [] tag = "oracles" -> OraclesSteps
    [] tag = "partyregistrationvalidator" -> ValidatorSteps
    [] tag = "registry" -> RegistrySteps
    [] tag = "subgraph" -> << <<"write", "manifest">> >>

Command == Commands[command]
CurrentStep == Steps(Command)[step]

-----------------------------------------------------------------------------
(* What a step does: the set of what it makes of the chain and the files, *)
(* empty where it fails.                                                  *)

Unchanged == [chain |-> chain, records |-> records, copies |-> copies, manifest |-> manifest]

Recorded(name) == records[name] # 0
Contract(name) == chain[records[name]]
Admins(contract) == {r[2] : r \in {x \in contract.roles : x[1] = "admin"}}
Administered(name) == Recorded(name) /\ Deployer \in Admins(Contract(name))

\* preflight.ts
Preflight ==
  IF plan.bad = "" /\ \A i \in DOMAIN plan.verifiers : plan.verifiers[i] # NotAnAddress
  THEN {Unchanged}
  ELSE {}

\* Mutant: a script is run without --reset.
NoReset == {Unchanged}

\* --reset removes the records of the network, and not their copies.
Reset == {[Unchanged EXCEPT !.records = [n \in Name |-> 0]]}

\* The addresses a contract's constructor is called with.
Args(name) ==
  CASE name = "OcnGovernor" -> <<records["OcnVoteToken"], records["Timelock"]>>
    [] name = "PartyRegistrationValidator" -> <<records["CertificateVerifier"]>>
    [] name = "OcnRegistry" -> <<records["OcnPaymentManager"], records["PartyRegistrationValidator"]>>
    [] OTHER -> <<>>

\* What its constructor grants.
InitialRoles(name) ==
  CASE name = "Timelock" -> {<<"admin", Len(chain) + 1>>, <<"admin", Deployer>>}
    [] name \in {"PartyRegistrationValidator", "OcnRegistry"} -> {<<"admin", Deployer>>}
    [] name = "OcnPaymentManager" -> {<<"admin", Deployer>>, <<"upgrader", Deployer>>}
    [] OTHER -> {}

Created(name, args) ==
  Append(chain, [name |-> name, args |-> args, roles |-> InitialRoles(name)])

\* deploy() of hardhat-deploy leaves alone what is recorded with the same
\* arguments, and records what it creates.
Deploy(name) ==
  IF 0 \in Range(Args(name))
  THEN {}
  ELSE IF Recorded(name) /\ Contract(name).args = Args(name)
  THEN {Unchanged}
  ELSE {[Unchanged EXCEPT !.chain = Created(name, Args(name)), !.records[name] = Len(chain) + 1]}

\* 06_deployOcnPaymentManager: the stablecoin of the environment, or the one
\* recorded under the name the script gives.  Address 1 is the stablecoin that
\* was there before.
Stablecoin ==
  CASE plan.script = "prod-external" -> 1
    [] plan.script = "basic" -> records["EuroStableCoin"]
    [] OTHER -> records["MockERC20"]

\* deployProxy creates a proxy whenever it is called.
Proxy(name) ==
  IF Stablecoin = 0 \/ plan.bad \in {"DEFAULT_OPERATOR", "STABLECOIN_ADDRESS"}
  THEN {}
  ELSE {[Unchanged EXCEPT !.chain = Created(name, <<Stablecoin>>)]}

\* Recorded without a receipt.  The proxy is the contract created last.
Save(name) == {[Unchanged EXCEPT !.records[name] = Len(chain)]}

\* Files of the copy that have no original stay.
Copy ==
  {[Unchanged EXCEPT !.copies = [n \in Name |-> IF Recorded(n) THEN records[n] ELSE copies[n]]]}

WithRoles(name, roles) == [Unchanged EXCEPT !.chain[records[name]].roles = roles]

\* 01_deployOcnVoteToken and 04_setupGovernor
Grant(role) ==
  LET Add(name, holder) ==
        {WithRoles(name, Granted(Contract(name).roles, <<role, holder>>))}
  IN  CASE role = "delegate" -> Add("OcnVoteToken", Deployer)
        [] role = "proposer" /\ Administered("Timelock") -> Add("Timelock", records["OcnGovernor"])
        [] role = "executor" /\ Administered("Timelock") -> Add("Timelock", Anyone)
        [] OTHER -> {}

Revoke(role) ==
  IF Administered("Timelock")
  THEN {WithRoles("Timelock", Revoked(Contract("Timelock").roles, <<role, Deployer>>))}
  ELSE {}

\* 09_deployOcnRegistry: setVerifier, which refuses who is allowed already
Allow(verifier) ==
  LET roles == Contract("PartyRegistrationValidator").roles
  IN  IF Administered("PartyRegistrationValidator") /\ verifier # NotAnAddress
         /\ <<"verifier", verifier>> \notin roles
      THEN {WithRoles("PartyRegistrationValidator", Granted(roles, <<"verifier", verifier>>))}
      ELSE {}

\* setProviderOracle, not on development chains, and where there is an oracle
SetOracle(role) ==
  LET oracle == records[IF role = "CPO" THEN "CPOOracle" ELSE "EMSPOracle"]
      others == {r \in Contract("PartyRegistrationValidator").roles : r[1] # role}
  IN  IF plan.devChain \/ oracle = 0
      THEN {Unchanged}
      ELSE IF Administered("PartyRegistrationValidator")
      THEN {WithRoles("PartyRegistrationValidator", Granted(others, <<role, oracle>>))}
      ELSE {}

\* transferOwnership to the timelock
Transfer(name) ==
  LET roles == Contract(name).roles
  IN  IF Administered(name) /\ Recorded("Timelock")
      THEN {WithRoles(name, Transferred(roles, <<"admin", Deployer>>, <<"admin", records["Timelock"]>>))}
      ELSE {}

-----------------------------------------------------------------------------
(* update-subgraph-yaml.ts *)

\* readDeployment: records of OcnPaymentManager have no receipt.
BlockNumber(name) == IF name = "OcnPaymentManager" THEN 0 ELSE records[name]

\* Mutant: the numbers are sorted the other way round.
LatestStartBlock ==
  Max({BlockNumber(n) : n \in {"OcnRegistry", "OcnPaymentManager", "OcnGovernor"}} \ {0})

FallbackStartBlock ==
  Min({BlockNumber(n) : n \in {"OcnRegistry", "OcnPaymentManager", "OcnGovernor"}} \ {0})

FirstOf(numbers) == numbers[Min({i \in DOMAIN numbers : numbers[i] # 0})]

Indexed == {"OcnRegistry", "OcnPaymentManager", "OcnGovernor", "CertificateVerifier"}

\* The stablecoin is the one given to the script, or else one that is recorded.
StablecoinSources ==
  <<IF plan.script = "prod-external" THEN 1 ELSE 0, records["MockERC20"], records["EuroStableCoin"]>>

Manifest ==
  [n \in Indexed \union {"Stablecoin"} |->
     IF n = "Stablecoin"
     THEN [address |-> FirstOf(StablecoinSources),
           startBlock |-> FirstOf(<<records["MockERC20"], records["EuroStableCoin"],
                                    BlockNumber("OcnPaymentManager"), FallbackStartBlock>>)]
     ELSE [address |-> records[n],
           startBlock |-> FirstOf(<<BlockNumber(n), FallbackStartBlock>>)]]

WriteManifest ==
  IF (\A n \in Indexed : Recorded(n)) /\ Range(StablecoinSources) # {0}
  THEN {[Unchanged EXCEPT !.manifest = Manifest]}
  ELSE {}

Results(s) ==
  CASE s[1] = "check" -> Preflight
    [] s[1] = "reset" -> Reset
    [] s[1] = "deploy" -> Deploy(s[2])
    [] s[1] = "proxy" -> Proxy(s[2])
    [] s[1] = "save" -> Save(s[2])
    [] s[1] = "copy" -> Copy
    [] s[1] = "grant" -> Grant(s[2])
    [] s[1] = "revoke" -> Revoke(s[2])
    [] s[1] = "allow" -> Allow(s[2])
    [] s[1] = "oracle" -> SetOracle(s[2])
    [] s[1] = "transfer" -> Transfer(s[2])
    [] s[1] = "write" -> WriteManifest

\* Without the key of the deployer nothing is sent.
Outcomes ==
  IF plan.bad = "DEPLOYER_PRIVATE_KEY" /\ Command # "preflight" THEN {} ELSE Results(CurrentStep)
-----------------------------------------------------------------------------
(* The scripts *)

Init ==
  /\ plan \in Plan
  /\ run = "running" /\ command = 1 /\ step = 1
  /\ disturbed = FALSE /\ faults = 0 /\ reruns = 0
  /\ chain = << [name |-> "external stablecoin", args |-> <<>>, roles |-> {}] >>
  /\ records = [n \in Name |-> 0]
  /\ copies = records
  /\ manifest = NoManifest

\* The next step, of the next command after the last one of a command.
GoOn ==
  /\ UNCHANGED <<disturbed, faults>>
  /\ \/ step < Len(Steps(Command)) /\ step' = step + 1 /\ UNCHANGED <<run, command>>
     \/ step = Len(Steps(Command)) /\ command < Len(Commands)
        /\ step' = 1 /\ command' = command + 1 /\ UNCHANGED run
     \/ step = Len(Steps(Command)) /\ command = Len(Commands)
        /\ run' = "done" /\ UNCHANGED <<command, step>>

\* The process ends, or a connection is lost: the exit status is not 0.
Stop ==
  /\ faults < MaxFaults /\ faults' = faults + 1
  /\ disturbed' = TRUE
  /\ run' = "stopped"
  /\ UNCHANGED <<command, step>>

TakeStep ==
  /\ run = "running"
  /\ \E outcome \in Outcomes :
       /\ chain' = outcome.chain /\ records' = outcome.records
       /\ copies' = outcome.copies /\ manifest' = outcome.manifest
  /\ GoOn \/ Stop
  /\ UNCHANGED <<plan, reruns>>

StopBefore == run = "running" /\ Stop /\ UNCHANGED <<placeVars, plan, reruns>>

\* Mutant: without set -e, the script goes on.
FailUnnoticed ==
  /\ run = "running" /\ Outcomes = {}
  /\ GoOn
  /\ UNCHANGED <<placeVars, plan, reruns>>

\* The step fails: a contract is not recorded, a transaction reverts, or the
\* environment is not valid.
Fail ==
  /\ run = "running" /\ Outcomes = {}
  /\ run' = "stopped"
  /\ UNCHANGED <<placeVars, plan, command, step, disturbed, faults, reruns>>

\* The command is run again, and the rest of the script with it.
RunAgain ==
  /\ run = "stopped" /\ reruns < MaxReruns
  /\ run' = "running" /\ step' = 1 /\ reruns' = reruns + 1
  /\ UNCHANGED <<placeVars, plan, command, disturbed, faults>>

\* A script is run from its beginning, on the same network.
StartOver ==
  /\ run = "stopped" /\ reruns < MaxReruns
  /\ plan' \in {p \in Plan : p.devChain = plan.devChain}
  /\ run' = "running" /\ command' = 1 /\ step' = 1 /\ reruns' = reruns + 1
  /\ disturbed' = FALSE
  /\ UNCHANGED <<placeVars, faults>>

Next == TakeStep \/ StopBefore \/ Fail \/ RunAgain \/ StartOver

Spec == Init /\ [][Next]_vars

-----------------------------------------------------------------------------
(* Properties *)

\* The variables are well typed: records and copies name contracts of their name.
TypeOK ==
  /\ plan \in Plan /\ run \in {"running", "stopped", "done"}
  /\ command \in 1..Len(Commands) /\ step \in 1..Len(Steps(Command))
  /\ disturbed \in BOOLEAN /\ faults \in 0..MaxFaults /\ reruns \in 0..MaxReruns
  /\ \A files \in {records, copies}, n \in Name :
       files[n] # 0 => files[n] \in DOMAIN chain /\ chain[files[n]].name = n

Essential ==
  {"OcnVoteToken", "Timelock", "OcnGovernor", "OcnPaymentManager", "CertificateVerifier",
   "PartyRegistrationValidator", "OcnRegistry"}

\* A script that has come to its end, whatever was repeated on the way, has
\* handed the contracts it recorded over to the recorded timelock, which only
\* the recorded governor proposes to; they refer to each other; and the deployer
\* is left with the votes, and with the role to upgrade the payment manager.
HandedOver ==
  run = "done" =>
    LET timelock == records["Timelock"]
        oracles == IF plan.devChain THEN {} ELSE
                     {<<"CPO", records["CPOOracle"]>>, <<"EMSP", records["EMSPOracle"]>>}
        verifiers == {<<"verifier", v>> : v \in Range(plan.verifiers)}
    IN  /\ \A n \in Essential : Recorded(n)
        /\ Contract("Timelock").roles =
             {<<"admin", timelock>>, <<"proposer", records["OcnGovernor"]>>, <<"executor", Anyone>>}
        /\ Contract("OcnVoteToken").roles = {<<"delegate", Deployer>>}
        /\ Contract("OcnPaymentManager").roles = {<<"admin", timelock>>, <<"upgrader", Deployer>>}
        /\ Contract("OcnRegistry").roles = {<<"admin", timelock>>}
        /\ Contract("PartyRegistrationValidator").roles =
             {<<"admin", timelock>>} \union verifiers
             \union {r \in oracles : r[2] # 0}
        /\ \A n \in {"OcnGovernor", "PartyRegistrationValidator", "OcnRegistry"} :
             Contract(n).args = Args(n)

\* A script that has come to its end is found by those who read what it leaves:
\* the library, built with the copies, has the addresses recorded; the subgraph
\* indexes them from the block of their creation at the latest, and the coin the
\* payment manager is paid in from the payment manager's.
FoundByItsUsers ==
  run = "done" =>
    /\ \A n \in Name : Recorded(n) => copies[n] = records[n]
    /\ "subgraph" \in Range(Commands) =>
         /\ \A n \in Indexed :
              manifest[n].address = records[n] /\ manifest[n].startBlock \in 1..records[n]
         /\ manifest["Stablecoin"].address = Contract("OcnPaymentManager").args[1]
         /\ manifest["Stablecoin"].startBlock \in 1..records["OcnPaymentManager"]

\* Started from its beginning, a script of scripts/deployment that passes its
\* preflight comes to its end unless a fault stops it, whatever earlier attempts
\* left behind; only a verifier given twice stops it.
StartsOverClean ==
  run = "stopped" /\ ~disturbed /\ plan.script # "basic" =>
    \/ Command = "preflight"
    \/ CurrentStep[1] = "allow" /\ ~IsInjective(plan.verifiers)
=============================================================================
