-------------------------- MODULE DeploymentProofs --------------------------
(* What TLAPS proves of the deployment, for every list of verifiers and every *)
(* number of faults and repetitions.                                         *)
EXTENDS Deployment, TLAPS

-----------------------------------------------------------------------------
(* Where a script is *)

Tag == {"preflight", "votetoken", "timelock", "governor", "setup", "stablecoin", "mockstablecoin",
        "payment", "certificateverifier", "oracles", "partyregistrationvalidator", "registry", "subgraph"}

\* The order every script has its commands in.
Rank ==
  [preflight |-> 0, votetoken |-> 1, timelock |-> 2, governor |-> 3, setup |-> 4,
   stablecoin |-> 5, mockstablecoin |-> 5, payment |-> 6, certificateverifier |-> 7,
   oracles |-> 8, partyregistrationvalidator |-> 9, registry |-> 10, subgraph |-> 11]

Tags == {Commands[i] : i \in 1..Len(Commands)}

\* The step the script is at, or starts again at.
Place == IF run = "running" THEN step ELSE IF run = "stopped" THEN 1 ELSE step + 1

\* The k-th step of a command was taken, and the command not repeated since.
Taken(tag, k) ==
  tag \in Tags /\ (Rank[tag] < Rank[Command] \/ (tag = Command /\ k < Place))

At(tag, k) == Command = tag /\ step = k

\* The records are those of this run of the script.
Fresh == Taken("votetoken", 1)

\* The command that records a contract, and the step of it that does.
TagOf(n) ==
  CASE n = "OcnVoteToken" -> "votetoken"
    [] n = "Timelock" -> "timelock"
    [] n = "OcnGovernor" -> "governor"
    [] n = "EuroStableCoin" -> "stablecoin"
    [] n = "MockERC20" -> "mockstablecoin"
    [] n = "OcnPaymentManager" -> "payment"
    [] n = "CertificateVerifier" -> "certificateverifier"
    [] n \in {"EMSPOracle", "CPOOracle"} -> "oracles"
    [] n = "PartyRegistrationValidator" -> "partyregistrationvalidator"
    [] n = "OcnRegistry" -> "registry"

RecordedAt(n) == IF n \in {"OcnVoteToken", "OcnPaymentManager", "CPOOracle"} THEN 2 ELSE 1

\* The step of a command that copies the records.
CopiedAt(tag) ==
  CASE tag = "votetoken" -> 4
    [] tag \in {"payment", "oracles"} -> 3
    [] OTHER -> 2

-----------------------------------------------------------------------------
(* What the steps taken leave *)

\* What is recorded was made by this script, with the arguments its constructor
\* is to be called with.
Made ==
  \A n \in Name : Recorded(n) =>
    /\ TagOf(n) \in Tags /\ Rank[TagOf(n)] <= Rank[Command]
    /\ 0 \notin Range(Args(n))
    /\ n # "OcnPaymentManager" => Contract(n).args = Args(n)

AllRecorded == \A n \in Name : Taken(TagOf(n), RecordedAt(n)) => Recorded(n)

Copied == \A n \in Name : Taken(TagOf(n), CopiedAt(TagOf(n))) => copies[n] = records[n]

VoteTokenRoles ==
  LET roles == Contract("OcnVoteToken").roles
  IN  Recorded("OcnVoteToken") =>
        /\ roles \subseteq {<<"delegate", Deployer>>}
        /\ Taken("votetoken", 3) => <<"delegate", Deployer>> \in roles

TimelockRoles ==
  LET roles == Contract("Timelock").roles
      base == {<<"admin", records["Timelock"]>>, <<"admin", Deployer>>}
      proposer == <<"proposer", records["OcnGovernor"]>>
      executor == <<"executor", Anyone>>
  IN  Recorded("Timelock") =>
        /\ <<"admin", records["Timelock"]>> \in roles
        /\ roles \subseteq base \union {proposer, executor}
        /\ Rank[Command] < Rank["setup"] => roles = base
        /\ Taken("setup", 1) => proposer \in roles
        /\ Taken("setup", 2) => executor \in roles
        /\ Taken("setup", 3) => <<"admin", Deployer>> \notin roles

PaymentRoles == {<<"admin", Deployer>>, <<"upgrader", Deployer>>}
PaymentRolesMoved == {<<"admin", records["Timelock"]>>, <<"upgrader", Deployer>>}

\* The proxy that is created and not recorded yet.
ProxyLast ==
  At("payment", 2) /\ run = "running" =>
    /\ chain[Len(chain)] = [name |-> "OcnPaymentManager", args |-> <<Stablecoin>>, roles |-> PaymentRoles]
    /\ Len(chain) # 0 /\ Stablecoin # 0

PaymentManagerMade ==
  Taken("payment", 2) =>
    /\ Contract("OcnPaymentManager").args = <<Stablecoin>> /\ Stablecoin # 0
    /\ Contract("OcnPaymentManager").roles \in {PaymentRoles, PaymentRolesMoved}
    /\ Taken("payment", 4) => Contract("OcnPaymentManager").roles = PaymentRolesMoved
    /\ \A n \in {"OcnGovernor", "MockERC20", "EuroStableCoin"} : records[n] < records["OcnPaymentManager"]

Verifiers == Len(plan.verifiers)
Allowed == {<<"verifier", plan.verifiers[i]>> : i \in 1..Verifiers}
OracleOf(role) == IF role = "CPO" THEN "CPOOracle" ELSE "EMSPOracle"
Oracles ==
  {<<role, records[OracleOf(role)]>> :
     role \in {r \in {"CPO", "EMSP"} : ~plan.devChain /\ Recorded(OracleOf(r))}}

ValidatorRoles ==
  LET roles == Contract("PartyRegistrationValidator").roles
  IN  Recorded("PartyRegistrationValidator") =>
        /\ roles \subseteq
             {<<"admin", Deployer>>, <<"admin", records["Timelock"]>>} \union Allowed \union Oracles
        /\ \A i \in 1..Verifiers : Taken("registry", i + 2) => <<"verifier", plan.verifiers[i]>> \in roles
        /\ Taken("registry", Verifiers + 3) =>
             (<<"CPO", records["CPOOracle"]>> \in Oracles => <<"CPO", records["CPOOracle"]>> \in roles)
        /\ Taken("registry", Verifiers + 4) =>
             (<<"EMSP", records["EMSPOracle"]>> \in Oracles => <<"EMSP", records["EMSPOracle"]>> \in roles)
        /\ Taken("registry", Verifiers + 5) =>
             <<"admin", Deployer>> \notin roles /\ <<"admin", records["Timelock"]>> \in roles

RegistryRoles ==
  LET roles == Contract("OcnRegistry").roles
  IN  Recorded("OcnRegistry") =>
        /\ roles \in {{<<"admin", Deployer>>}, {<<"admin", records["Timelock"]>>}}
        /\ Taken("registry", Verifiers + 6) => roles = {<<"admin", records["Timelock"]>>}

ManifestWritten == Taken("subgraph", 1) => manifest = Manifest

PreflightPassed ==
  Taken("preflight", 1) =>
    plan.bad = "" /\ \A i \in 1..Verifiers : plan.verifiers[i] # NotAnAddress

Ended == run = "done" => command = Len(Commands) /\ step = Len(Steps(Command))

\* A script that no fault stopped has not yet given away what it still needs.
Clean ==
  ~disturbed /\ plan.script # "basic" =>
    /\ Recorded("Timelock") /\ ~Taken("setup", 3) => <<"admin", Deployer>> \in Contract("Timelock").roles
    /\ Taken("payment", 2) /\ ~Taken("payment", 4) =>
         <<"admin", Deployer>> \in Contract("OcnPaymentManager").roles
    /\ Recorded("PartyRegistrationValidator") /\ ~Taken("registry", Verifiers + 5) =>
         <<"admin", Deployer>> \in Contract("PartyRegistrationValidator").roles
    /\ Recorded("PartyRegistrationValidator") /\ IsInjective(plan.verifiers) =>
         \A i \in 1..Verifiers : ~Taken("registry", i + 2) =>
           <<"verifier", plan.verifiers[i]>> \notin Contract("PartyRegistrationValidator").roles
    /\ Recorded("OcnRegistry") /\ ~Taken("registry", Verifiers + 6) =>
         <<"admin", Deployer>> \in Contract("OcnRegistry").roles

\* What the commands have left so far.
Followed ==
  /\ Made /\ AllRecorded /\ Copied /\ VoteTokenRoles /\ TimelockRoles /\ ProxyLast
  /\ PaymentManagerMade /\ ValidatorRoles /\ RegistryRoles /\ ManifestWritten /\ Clean

-----------------------------------------------------------------------------
(* The scripts *)

\* The commands of each script in full.
DevCommands ==
  <<"preflight", "votetoken", "timelock", "governor", "setup", "mockstablecoin", "payment",
    "certificateverifier", "partyregistrationvalidator", "registry", "subgraph">>
ProdMockCommands ==
  <<"preflight", "votetoken", "timelock", "governor", "setup", "mockstablecoin", "payment",
    "certificateverifier", "oracles", "partyregistrationvalidator", "registry", "subgraph">>
ProdExternalCommands ==
  <<"preflight", "votetoken", "timelock", "governor", "setup", "payment",
    "certificateverifier", "oracles", "partyregistrationvalidator", "registry", "subgraph">>
BasicCommands ==
  <<"votetoken", "timelock", "governor", "setup", "stablecoin", "payment",
    "certificateverifier", "registry">>

\* A script is its list, without the subgraph where there is no key for it.
CommandsOf(list) ==
  /\ Len(Commands) \in {Len(list) - 1, Len(list)}
  /\ \A i \in 1..Len(Commands) : Commands[i] = list[i]

\* The concatenations spelled out.
LEMMA CommandsInFull ==
  ASSUME PlanShape, plan \in Plan
  PROVE  \/ plan.script = "dev" /\ CommandsOf(DevCommands)
         \/ plan.script = "prod-mock" /\ CommandsOf(ProdMockCommands)
         \/ plan.script = "prod-external" /\ CommandsOf(ProdExternalCommands)
         \/ plan.script = "basic" /\ Len(Commands) = 8 /\ CommandsOf(BasicCommands)
<1>1. CASE plan.script = "dev"
  <2>1. CASE plan.graphKey
    BY <1>1, <2>1 DEF Commands, Governance, CommandsOf, DevCommands
  <2>2. CASE ~plan.graphKey
    BY <1>1, <2>2 DEF Commands, Governance, CommandsOf, DevCommands
  <2> QED BY <1>1, <2>1, <2>2
<1>2. CASE plan.script = "prod-mock"
  <2>1. CASE plan.graphKey
    BY <1>2, <2>1 DEF Commands, Governance, CommandsOf, ProdMockCommands
  <2>2. CASE ~plan.graphKey
    BY <1>2, <2>2 DEF Commands, Governance, CommandsOf, ProdMockCommands
  <2> QED BY <1>2, <2>1, <2>2
<1>3. CASE plan.script = "prod-external"
  <2>1. CASE plan.graphKey
    BY <1>3, <2>1 DEF Commands, Governance, CommandsOf, ProdExternalCommands
  <2>2. CASE ~plan.graphKey
    BY <1>3, <2>2 DEF Commands, Governance, CommandsOf, ProdExternalCommands
  <2> QED BY <1>3, <2>1, <2>2
<1>4. CASE plan.script = "basic"
  BY <1>4 DEF Commands, Governance, CommandsOf, BasicCommands
<1> QED BY <1>1, <1>2, <1>3, <1>4 DEF PlanShape

\* A script is a list that is not empty.
LEMMA CommandsDomain ==
  ASSUME PlanShape, plan \in Plan
  PROVE  DOMAIN Commands = 1..Len(Commands)
<1>1. CASE plan.script = "dev"
  BY <1>1 DEF Commands, Governance
<1>2. CASE plan.script = "prod-mock"
  BY <1>2 DEF Commands, Governance
<1>3. CASE plan.script = "prod-external"
  BY <1>3 DEF Commands, Governance
<1>4. CASE plan.script = "basic"
  BY <1>4 DEF Commands, Governance
<1> QED BY <1>1, <1>2, <1>3, <1>4 DEF PlanShape

\* Every script has its commands in the same order.
Ordered ==
  /\ Len(Commands) \in Nat \ {0}
  /\ \A i \in 1..Len(Commands) : Commands[i] \in Tag
  /\ \A i, j \in 1..Len(Commands) : i < j => Rank[Commands[i]] < Rank[Commands[j]]

\* A prefix of a list in order is in order.
LEMMA ListOrders ==
  ASSUME NEW list, NEW n \in {8, 11, 12}, Len(list) = n, CommandsOf(list),
         \A i \in 1..n : list[i] \in Tag,
         \A i, j \in 1..n : i < j => Rank[list[i]] < Rank[list[j]]
  PROVE  Ordered
<1>1. Len(Commands) \in {n - 1, n} /\ \A i \in 1..Len(Commands) : Commands[i] = list[i]
  BY DEF CommandsOf
<1>2. Len(Commands) \in Nat \ {0} /\ \A i \in 1..Len(Commands) : i \in 1..n
  BY <1>1
<1> QED BY <1>1, <1>2 DEF Ordered

\* All four scripts are in order.
LEMMA CommandsOrdered == ASSUME PlanShape, plan \in Plan PROVE Ordered
<1>1. /\ Len(DevCommands) = 11 /\ \A i \in 1..11 : DevCommands[i] \in Tag
      /\ \A i, j \in 1..11 : i < j => Rank[DevCommands[i]] < Rank[DevCommands[j]]
  BY DEF DevCommands, Tag, Rank
<1>2. /\ Len(ProdMockCommands) = 12 /\ \A i \in 1..12 : ProdMockCommands[i] \in Tag
      /\ \A i, j \in 1..12 : i < j => Rank[ProdMockCommands[i]] < Rank[ProdMockCommands[j]]
  BY DEF ProdMockCommands, Tag, Rank
<1>3. /\ Len(ProdExternalCommands) = 11 /\ \A i \in 1..11 : ProdExternalCommands[i] \in Tag
      /\ \A i, j \in 1..11 :
           i < j => Rank[ProdExternalCommands[i]] < Rank[ProdExternalCommands[j]]
  BY DEF ProdExternalCommands, Tag, Rank
<1>4. /\ Len(BasicCommands) = 8 /\ \A i \in 1..8 : BasicCommands[i] \in Tag
      /\ \A i, j \in 1..8 : i < j => Rank[BasicCommands[i]] < Rank[BasicCommands[j]]
  BY DEF BasicCommands, Tag, Rank
<1> QED BY <1>1, <1>2, <1>3, <1>4, CommandsInFull, ListOrders

\* The commands that are in every script, and those that are in some.
Included ==
  /\ {"votetoken", "timelock", "governor", "setup", "payment", "certificateverifier", "registry"}
       \subseteq Tags
  /\ plan.script # "basic" => {"preflight", "partyregistrationvalidator"} \subseteq Tags
  /\ plan.script \in {"dev", "prod-mock"} => "mockstablecoin" \in Tags
  /\ plan.script = "basic" => "subgraph" \notin Tags

\* What each script contains.
LEMMA CommandsIncluded == ASSUME PlanShape, plan \in Plan PROVE Included
<1>1. ASSUME CommandsOf(DevCommands), plan.script = "dev" PROVE Included
  <2>1. Len(Commands) \in {10, 11} /\ \A i \in 1..10 : Commands[i] = DevCommands[i]
    BY <1>1 DEF CommandsOf, DevCommands
  <2>2. \A i \in 1..10 : DevCommands[i] \in Tags
    <3>1. Len(Commands) \in Nat /\ Len(Commands) >= 10
      BY <2>1
    <3>2. \A i \in 1..10 : i \in 1..Len(Commands)
      BY <3>1
    <3> QED BY <2>1, <3>2 DEF Tags
  <2> QED BY <1>1, <2>2 DEF Included, DevCommands
<1>2. ASSUME CommandsOf(ProdMockCommands), plan.script = "prod-mock" PROVE Included
  <2>0. Len(ProdMockCommands) = 12
    BY DEF ProdMockCommands
  <2>1. Len(Commands) \in {11, 12} /\ \A i \in 1..11 : Commands[i] = ProdMockCommands[i]
    BY <1>2, <2>0 DEF CommandsOf
  <2>2. \A i \in 1..11 : ProdMockCommands[i] \in Tags
    <3>1. Len(Commands) \in Nat /\ Len(Commands) >= 11
      BY <2>1
    <3>2. \A i \in 1..11 : i \in 1..Len(Commands)
      BY <3>1
    <3> QED BY <2>1, <3>2 DEF Tags
  <2> QED BY <1>2, <2>2 DEF Included, ProdMockCommands
<1>3. ASSUME CommandsOf(ProdExternalCommands), plan.script = "prod-external" PROVE Included
  <2>1. Len(Commands) \in {10, 11} /\ \A i \in 1..10 : Commands[i] = ProdExternalCommands[i]
    BY <1>3 DEF CommandsOf, ProdExternalCommands
  <2>2. \A i \in 1..10 : ProdExternalCommands[i] \in Tags
    <3>1. Len(Commands) \in Nat /\ Len(Commands) >= 10
      BY <2>1
    <3>2. \A i \in 1..10 : i \in 1..Len(Commands)
      BY <3>1
    <3> QED BY <2>1, <3>2 DEF Tags
  <2> QED BY <1>3, <2>2 DEF Included, ProdExternalCommands
<1>4. ASSUME CommandsOf(BasicCommands), plan.script = "basic", Len(Commands) = 8 PROVE Included
  <2>1. \A i \in 1..8 : Commands[i] = BasicCommands[i]
    BY <1>4 DEF CommandsOf
  <2>2. \A i \in 1..8 : BasicCommands[i] \in Tags /\ BasicCommands[i] # "subgraph"
    BY <1>4, <2>1 DEF Tags, BasicCommands
  <2>3. "subgraph" \notin Tags
    BY <1>4, <2>1, <2>2 DEF Tags
  <2> QED BY <1>4, <2>2, <2>3 DEF Included, BasicCommands
<1> QED BY <1>1, <1>2, <1>3, <1>4, CommandsInFull

-----------------------------------------------------------------------------
(* The steps of the commands *)

\* The elements of two sequences joined.
LEMMA Joined ==
  ASSUME NEW S, NEW s \in Seq(S), NEW t \in Seq(S)
  PROVE  /\ s \o t \in Seq(S) /\ Len(s \o t) = Len(s) + Len(t)
         /\ \A i \in 1..(Len(s) + Len(t)) :
              (s \o t)[i] = IF i <= Len(s) THEN s[i] ELSE t[i - Len(s)]
OBVIOUS

\* 09_deployOcnRegistry, whose steps depend on the list of verifiers.
LEMMA RegistryStepsInFull ==
  ASSUME PlanShape, plan \in Plan
  PROVE  /\ Verifiers \in Nat /\ DOMAIN plan.verifiers = 1..Verifiers
         /\ Len(RegistrySteps) = Verifiers + 6
         /\ RegistrySteps[1] = <<"deploy", "OcnRegistry">> /\ RegistrySteps[2] = <<"copy", "src">>
         /\ \A i \in 1..Verifiers : RegistrySteps[i + 2] = <<"allow", plan.verifiers[i]>>
         /\ RegistrySteps[Verifiers + 3] = <<"oracle", "CPO">>
         /\ RegistrySteps[Verifiers + 4] = <<"oracle", "EMSP">>
         /\ RegistrySteps[Verifiers + 5] = <<"transfer", "PartyRegistrationValidator">>
         /\ RegistrySteps[Verifiers + 6] = <<"transfer", "OcnRegistry">>
<1> DEFINE V == Range(plan.verifiers)
           S == {"deploy", "copy", "allow", "oracle", "transfer"}
                  \X ({"OcnRegistry", "src", "CPO", "EMSP", "PartyRegistrationValidator"} \union V)
           first == <<<<"deploy", "OcnRegistry">>, <<"copy", "src">>>>
           middle == [i \in DOMAIN plan.verifiers |-> <<"allow", plan.verifiers[i]>>]
           last == << <<"oracle", "CPO">>, <<"oracle", "EMSP">>,
                      <<"transfer", "PartyRegistrationValidator">>, <<"transfer", "OcnRegistry">> >>
<1>1. plan.verifiers \in Seq(V)
  BY DEF PlanShape
<1>2. Verifiers \in Nat /\ DOMAIN plan.verifiers = 1..Verifiers
      /\ \A i \in 1..Verifiers : plan.verifiers[i] \in V
  <2> HIDE DEF V
  <2> QED BY <1>1 DEF Verifiers
<1>3. first \in Seq(S) /\ last \in Seq(S)
  OBVIOUS
<1>4. middle \in Seq(S) /\ Len(middle) = Verifiers
      /\ \A i \in 1..Verifiers : middle[i] = <<"allow", plan.verifiers[i]>>
  <2> HIDE DEF V
  <2> QED BY <1>2
<1>5. RegistrySteps = first \o middle \o last
  BY DEF RegistrySteps, Deploys
<1>6. Len(first) = 2 /\ first[1] = <<"deploy", "OcnRegistry">> /\ first[2] = <<"copy", "src">>
  OBVIOUS
<1>7. /\ Len(last) = 4
      /\ last[1] = <<"oracle", "CPO">> /\ last[2] = <<"oracle", "EMSP">>
      /\ last[3] = <<"transfer", "PartyRegistrationValidator">> /\ last[4] = <<"transfer", "OcnRegistry">>
  OBVIOUS
<1> HIDE DEF first, middle, last, S, V
<1>8. /\ first \o middle \in Seq(S) /\ Len(first \o middle) = Verifiers + 2
      /\ \A i \in 1..2 : (first \o middle)[i] = first[i]
      /\ \A i \in 1..Verifiers : (first \o middle)[i + 2] = middle[i]
  <2>1. Len(first \o middle) = Len(first) + Len(middle) /\ first \o middle \in Seq(S)
    BY <1>3, <1>4, Joined
  <2>2. \A i \in 1..(Len(first) + Len(middle)) :
          (first \o middle)[i] = IF i <= Len(first) THEN first[i] ELSE middle[i - Len(first)]
    BY <1>3, <1>4, Joined
  <2> QED BY <1>2, <1>4, <1>6, <2>1, <2>2
<1> DEFINE front == first \o middle
<1>9. front \in Seq(S) /\ Len(front) = Verifiers + 2 /\ RegistrySteps = front \o last
  BY <1>5, <1>8
<1> HIDE DEF front
<1>10. /\ Len(front \o last) = Verifiers + 6
       /\ \A i \in 1..(Verifiers + 2) : (front \o last)[i] = front[i]
       /\ \A i \in 1..4 : (front \o last)[Verifiers + 2 + i] = last[i]
  <2>1. Len(front \o last) = Len(front) + Len(last)
    BY <1>3, <1>9, Joined
  <2>2. \A i \in 1..(Len(front) + Len(last)) :
          (front \o last)[i] = IF i <= Len(front) THEN front[i] ELSE last[i - Len(front)]
    BY <1>3, <1>9, Joined
  <2> QED BY <1>2, <1>7, <1>9, <2>1, <2>2
<1>11. \A i \in 1..Verifiers : i + 2 \in 1..(Verifiers + 2)
  BY <1>2
<1>12. RegistrySteps[1] = first[1] /\ RegistrySteps[2] = first[2]
  BY <1>2, <1>8, <1>9, <1>10 DEF front
<1>13. \A i \in 1..Verifiers : RegistrySteps[i + 2] = middle[i]
  BY <1>8, <1>9, <1>10, <1>11 DEF front
<1>14. /\ RegistrySteps[Verifiers + 3] = last[1] /\ RegistrySteps[Verifiers + 4] = last[2]
       /\ RegistrySteps[Verifiers + 5] = last[3] /\ RegistrySteps[Verifiers + 6] = last[4]
  BY <1>2, <1>9, <1>10
<1> QED BY <1>2, <1>4, <1>6, <1>7, <1>9, <1>10, <1>12, <1>13, <1>14

\* The steps of every other command.
LEMMA StepsInFull ==
  /\ Len(Steps("preflight")) = 1 /\ Steps("preflight")[1] = <<"check", "environment">>
  /\ Len(Steps("votetoken")) = 4
  /\ Steps("votetoken")[1] = <<"reset", "records">> /\ Steps("votetoken")[2] = <<"deploy", "OcnVoteToken">>
  /\ Steps("votetoken")[3] = <<"grant", "delegate">> /\ Steps("votetoken")[4] = <<"copy", "src">>
  /\ Len(Steps("timelock")) = 2
  /\ Steps("timelock")[1] = <<"deploy", "Timelock">> /\ Steps("timelock")[2] = <<"copy", "src">>
  /\ Len(Steps("governor")) = 2
  /\ Steps("governor")[1] = <<"deploy", "OcnGovernor">> /\ Steps("governor")[2] = <<"copy", "src">>
  /\ Len(Steps("setup")) = 3
  /\ Steps("setup")[1] = <<"grant", "proposer">> /\ Steps("setup")[2] = <<"grant", "executor">>
  /\ Steps("setup")[3] = <<"revoke", "admin">>
  /\ Len(Steps("stablecoin")) = 2
  /\ Steps("stablecoin")[1] = <<"deploy", "EuroStableCoin">> /\ Steps("stablecoin")[2] = <<"copy", "src">>
  /\ Len(Steps("mockstablecoin")) = 2
  /\ Steps("mockstablecoin")[1] = <<"deploy", "MockERC20">> /\ Steps("mockstablecoin")[2] = <<"copy", "src">>
  /\ Len(Steps("payment")) = 4
  /\ Steps("payment")[1] = <<"proxy", "OcnPaymentManager">>
  /\ Steps("payment")[2] = <<"save", "OcnPaymentManager">>
  /\ Steps("payment")[3] = <<"copy", "src">> /\ Steps("payment")[4] = <<"transfer", "OcnPaymentManager">>
  /\ Len(Steps("certificateverifier")) = 2
  /\ Steps("certificateverifier")[1] = <<"deploy", "CertificateVerifier">>
  /\ Steps("certificateverifier")[2] = <<"copy", "src">>
  /\ Len(Steps("oracles")) = 3
  /\ Steps("oracles")[1] = <<"deploy", "EMSPOracle">> /\ Steps("oracles")[2] = <<"deploy", "CPOOracle">>
  /\ Steps("oracles")[3] = <<"copy", "src">>
  /\ Len(Steps("partyregistrationvalidator")) = 2
  /\ Steps("partyregistrationvalidator")[1] = <<"deploy", "PartyRegistrationValidator">>
  /\ Steps("partyregistrationvalidator")[2] = <<"copy", "src">>
  /\ Len(Steps("subgraph")) = 1 /\ Steps("subgraph")[1] = <<"write", "manifest">>
<1> USE DEF Deploys
<1>1. Steps("preflight") = << <<"check", "environment">> >> /\ Steps("subgraph") = << <<"write", "manifest">> >>
  BY DEF Steps
<1>2. Steps("votetoken") = VoteTokenSteps /\ Steps("setup") = SetupSteps /\ Steps("payment") = PaymentSteps
  BY DEF Steps
<1>3. /\ Steps("timelock") = Deploys("Timelock") /\ Steps("governor") = Deploys("OcnGovernor")
      /\ Steps("stablecoin") = Deploys("EuroStableCoin") /\ Steps("mockstablecoin") = Deploys("MockERC20")
      /\ Steps("certificateverifier") = Deploys("CertificateVerifier")
      /\ Steps("partyregistrationvalidator") = Deploys("PartyRegistrationValidator")
  BY DEF Steps, TimelockSteps, GovernorSteps, EuroStableCoinSteps, MockERC20Steps,
         CertificateVerifierSteps, ValidatorSteps
<1>4. /\ Len(Steps("oracles")) = 3
      /\ Steps("oracles")[1] = <<"deploy", "EMSPOracle">> /\ Steps("oracles")[2] = <<"deploy", "CPOOracle">>
      /\ Steps("oracles")[3] = <<"copy", "src">>
  BY DEF Steps, OraclesSteps
<1> QED BY <1>1, <1>2, <1>3, <1>4 DEF VoteTokenSteps, SetupSteps, PaymentSteps

\* A script is at a step of one of its commands.
LEMMA CommandIsTag ==
  ASSUME PlanShape, TypeOK
  PROVE  Command \in Tag /\ Command \in Tags /\ step \in Nat \ {0}
<1>1. plan \in Plan /\ command \in 1..Len(Commands) /\ step \in 1..Len(Steps(Command))
  BY DEF TypeOK
<1>2. Command \in Tag /\ Command \in Tags
  BY <1>1, CommandsOrdered DEF Ordered, Command, Tags
<1>3. Len(Steps(Command)) \in Nat
  BY <1>1, <1>2, StepsInFull, RegistryStepsInFull DEF Tag, Steps
<1> QED BY <1>1, <1>2, <1>3

Copying == CurrentStep = <<"copy", "src">> /\ step = CopiedAt(Command)
Deploying(n) == At(TagOf(n), RecordedAt(n)) /\ CurrentStep = <<"deploy", n>>
Allowing(i) == At("registry", i + 2) /\ CurrentStep = <<"allow", plan.verifiers[i]>>

\* Where a script can be, and what is to be done there.
LEMMA StepCases ==
  ASSUME PlanShape, TypeOK
  PROVE  \/ At("preflight", 1) /\ CurrentStep = <<"check", "environment">>
         \/ At("votetoken", 1) /\ CurrentStep = <<"reset", "records">>
         \/ \E n \in Name \ {"OcnPaymentManager"} : Deploying(n)
         \/ At("payment", 1) /\ CurrentStep = <<"proxy", "OcnPaymentManager">>
         \/ At("payment", 2) /\ CurrentStep = <<"save", "OcnPaymentManager">>
         \/ Copying
         \/ At("votetoken", 3) /\ CurrentStep = <<"grant", "delegate">>
         \/ At("setup", 1) /\ CurrentStep = <<"grant", "proposer">>
         \/ At("setup", 2) /\ CurrentStep = <<"grant", "executor">>
         \/ At("setup", 3) /\ CurrentStep = <<"revoke", "admin">>
         \/ \E i \in 1..Verifiers : Allowing(i)
         \/ At("registry", Verifiers + 3) /\ CurrentStep = <<"oracle", "CPO">>
         \/ At("registry", Verifiers + 4) /\ CurrentStep = <<"oracle", "EMSP">>
         \/ At("payment", 4) /\ CurrentStep = <<"transfer", "OcnPaymentManager">>
         \/ At("registry", Verifiers + 5) /\ CurrentStep = <<"transfer", "PartyRegistrationValidator">>
         \/ At("registry", Verifiers + 6) /\ CurrentStep = <<"transfer", "OcnRegistry">>
         \/ At("subgraph", 1) /\ CurrentStep = <<"write", "manifest">>
<1>1. plan \in Plan /\ step \in 1..Len(Steps(Command)) /\ Command \in Tag
  BY CommandIsTag DEF TypeOK
<1> USE DEF At, CurrentStep, Copying, CopiedAt
<1>2. CASE Command = "preflight"
  BY <1>1, <1>2, StepsInFull
<1>3. CASE Command = "votetoken"
  <2>0. Len(Steps(Command)) = 4
    BY <1>3, StepsInFull
  <2>1. step = 1 \/ step = 2 \/ step = 3 \/ step = 4
    BY <1>1, <2>0
  <2>2. ASSUME step = 2 PROVE Deploying("OcnVoteToken")
    BY <1>3, <2>2, StepsInFull DEF Deploying, TagOf, RecordedAt
  <2> QED BY <1>3, <2>1, <2>2, StepsInFull DEF Name
<1>4. ASSUME NEW n \in {"Timelock", "OcnGovernor", "EuroStableCoin", "MockERC20", "CertificateVerifier",
                        "PartyRegistrationValidator"}, Command = TagOf(n)
      PROVE  Deploying(n) \/ Copying
  <2>0. Len(Steps(Command)) = 2
    BY <1>4, StepsInFull DEF TagOf
  <2>1. step = 1 \/ step = 2
    BY <1>1, <2>0
  <2>2. ASSUME step = 1 PROVE Deploying(n)
    BY <1>4, <2>2, StepsInFull DEF Deploying, TagOf, RecordedAt
  <2>3. ASSUME step = 2 PROVE Copying
    BY <1>4, <2>3, StepsInFull DEF TagOf
  <2> QED BY <2>1, <2>2, <2>3
<1>5. CASE Command = "setup"
  BY <1>1, <1>5, StepsInFull
<1>6. CASE Command = "payment"
  BY <1>1, <1>6, StepsInFull
<1>7. CASE Command = "oracles"
  <2>0. Len(Steps(Command)) = 3
    BY <1>7, StepsInFull
  <2>1. step = 1 \/ step = 2 \/ step = 3
    BY <1>1, <2>0
  <2>2. ASSUME step = 1 PROVE Deploying("EMSPOracle")
    BY <1>7, <2>2, StepsInFull DEF Deploying, TagOf, RecordedAt
  <2>3. ASSUME step = 2 PROVE Deploying("CPOOracle")
    BY <1>7, <2>3, StepsInFull DEF Deploying, TagOf, RecordedAt
  <2> QED BY <1>7, <2>1, <2>2, <2>3, StepsInFull DEF Name
<1>8. CASE Command = "registry"
  <2>1. Steps("registry") = RegistrySteps
    BY DEF Steps
  <2>2. Verifiers \in Nat /\ step \in 1..(Verifiers + 6)
    BY <1>1, <1>8, <2>1, RegistryStepsInFull
  <2>3. \/ step = 1 \/ step = 2 \/ (step - 2 \in 1..Verifiers /\ step = (step - 2) + 2) \/ step = Verifiers + 3
        \/ step = Verifiers + 4 \/ step = Verifiers + 5 \/ step = Verifiers + 6
    BY <2>2
  <2>4. ASSUME step = 1 PROVE Deploying("OcnRegistry")
    BY <1>1, <1>8, <2>1, <2>4, RegistryStepsInFull DEF Deploying, TagOf, RecordedAt
  <2>5. ASSUME step = 2 PROVE Copying
    BY <1>1, <1>8, <2>1, <2>5, RegistryStepsInFull
  <2>6. ASSUME step - 2 \in 1..Verifiers, step = (step - 2) + 2 PROVE Allowing(step - 2)
    BY <1>1, <1>8, <2>1, <2>6, RegistryStepsInFull DEF Allowing
  <2>7. /\ step = Verifiers + 3 => CurrentStep = <<"oracle", "CPO">>
        /\ step = Verifiers + 4 => CurrentStep = <<"oracle", "EMSP">>
        /\ step = Verifiers + 5 => CurrentStep = <<"transfer", "PartyRegistrationValidator">>
        /\ step = Verifiers + 6 => CurrentStep = <<"transfer", "OcnRegistry">>
    BY <1>1, <1>8, <2>1, RegistryStepsInFull
  <2> QED BY <1>8, <2>3, <2>4, <2>5, <2>6, <2>7 DEF Name
<1>9. CASE Command = "subgraph"
  BY <1>1, <1>9, StepsInFull
<1> QED BY <1>1, <1>2, <1>3, <1>4, <1>5, <1>6, <1>7, <1>8, <1>9 DEF Tag, TagOf, Name

\* Ranks are numbers.
LEMMA RanksNat == \A tag \in Tag : Rank[tag] \in Nat
BY DEF Tag, Rank

\* No command is without a step.
LEMMA StepCounts ==
  ASSUME PlanShape, plan \in Plan
  PROVE  \A tag \in Tag : Len(Steps(tag)) \in Nat \ {0}
BY StepsInFull, RegistryStepsInFull DEF Tag, Steps

\* A script starts with nothing taken.
LEMMA AtTheStart ==
  ASSUME PlanShape
  PROVE  plan \in Plan /\ command = 1 /\ step = 1 /\ run = "running" =>
           /\ command \in 1..Len(Commands) /\ step \in 1..Len(Steps(Command))
           /\ \A tag : \A k \in Nat \ {0} : ~Taken(tag, k)
<1> SUFFICES ASSUME plan \in Plan, command = 1, step = 1, run = "running"
             PROVE  /\ command \in 1..Len(Commands) /\ step \in 1..Len(Steps(Command))
                    /\ \A tag : \A k \in Nat \ {0} : ~Taken(tag, k)
  OBVIOUS
<1>1. Ordered
  BY CommandsOrdered
<1>2. 1 \in 1..Len(Commands)
  BY <1>1 DEF Ordered
<1>3. Command = Commands[1] /\ Command \in Tag
  BY <1>1, <1>2 DEF Ordered, Command
<1>4. 1 \in 1..Len(Steps(Command))
  <2>1. Len(Steps(Command)) \in Nat \ {0}
    BY <1>3, StepCounts
  <2> QED BY <2>1
<1>5. ASSUME NEW tag \in Tags PROVE ~(Rank[tag] < Rank[Command])
  <2>1. PICK j \in 1..Len(Commands) : tag = Commands[j]
    BY DEF Tags
  <2>2. Rank[tag] \in Nat /\ Rank[Command] \in Nat
    BY <1>1, <1>3, <2>1 DEF Ordered, Tag, Rank
  <2>3. j = 1 \/ 1 < j
    BY <1>1, <2>1 DEF Ordered
  <2>4. CASE 1 < j
    <3>1. Rank[Command] < Rank[tag]
      BY <1>1, <1>2, <1>3, <2>1, <2>4 DEF Ordered
    <3> QED BY <2>2, <3>1
  <2> QED BY <1>3, <2>1, <2>2, <2>3, <2>4
<1>6. \A tag : \A k \in Nat \ {0} : ~Taken(tag, k)
  BY <1>5 DEF Taken, Place
<1> QED BY <1>2, <1>4, <1>6

\* The commands and the steps depend on nothing but the plan.
LEMMA SamePlan ==
  ASSUME plan' = plan
  PROVE  /\ Commands' = Commands /\ Tags' = Tags /\ Verifiers' = Verifiers
         /\ \A tag : Steps(tag)' = Steps(tag)
<1>1. Commands' = Commands
  BY DEF Commands, Governance
<1>2. Verifiers' = Verifiers
  BY DEF Verifiers
<1>3. RegistrySteps' = RegistrySteps
  BY DEF RegistrySteps, Deploys
<1>4. \A tag : Steps(tag)' = Steps(tag)
  BY <1>3 DEF Steps, VoteTokenSteps, TimelockSteps, GovernorSteps, SetupSteps, EuroStableCoinSteps,
         MockERC20Steps, PaymentSteps, CertificateVerifierSteps, OraclesSteps, ValidatorSteps, Deploys
<1> QED BY <1>1, <1>2, <1>4 DEF Tags

\* Going on after a step adds that step to those taken, and nothing else.
GoneOn ==
  /\ command' \in 1..Len(Commands)' /\ step' \in 1..Len(Steps(Command))'
  /\ run' \in {"running", "done"} /\ Ended'
  /\ Rank[Command] <= Rank[Command]'
  /\ \A tag \in Tags : \A k \in 1..Len(Steps(tag)) : Taken(tag, k)' <=> (Taken(tag, k) \/ At(tag, k))
  /\ At("payment", 2)' /\ run' = "running" => At("payment", 1)

\* GoOn moves to the next step, command by command.
LEMMA GoOnTakes ==
  ASSUME PlanShape, TypeOK, run = "running", plan' = plan, GoOn
  PROVE  GoneOn
<1>1. plan \in Plan /\ command \in 1..Len(Commands) /\ step \in 1..Len(Steps(Command)) /\ step \in Nat \ {0}
  BY CommandIsTag DEF TypeOK
<1>2. Ordered /\ Command = Commands[command] /\ Command \in Tag /\ Command \in Tags
  BY <1>1, CommandIsTag, CommandsOrdered DEF Command
<1>3. Commands' = Commands /\ Tags' = Tags /\ \A tag : Steps(tag)' = Steps(tag)
  BY SamePlan
<1>4. Command' = Commands[command']
  BY <1>3 DEF Command
<1>5. \A tag \in Tag : Len(Steps(tag)) \in Nat \ {0} /\ Rank[tag] \in Nat
  BY <1>1, StepCounts, RanksNat
<1>6. \A tag \in Tags : tag \in Tag
  BY <1>2 DEF Tags, Ordered
<1>7. CASE step < Len(Steps(Command)) /\ step' = step + 1 /\ UNCHANGED <<run, command>>
  <2>1. Command' = Command /\ Place' = step + 1 /\ Place = step
    BY <1>2, <1>4, <1>7 DEF Place
  <2>2. command' \in 1..Len(Commands)' /\ step' \in 1..Len(Steps(Command'))
    BY <1>1, <1>2, <1>3, <1>5, <1>7, <2>1
  <2>3. step' \in 1..Len(Steps(Command))'
    BY <1>3, <2>1, <2>2
  <2>4. \A tag \in Tags : \A k \in 1..Len(Steps(tag)) : Taken(tag, k)' <=> (Taken(tag, k) \/ At(tag, k))
    <3> SUFFICES ASSUME NEW tag \in Tags, NEW k \in 1..Len(Steps(tag))
                 PROVE  Taken(tag, k)' <=> (Taken(tag, k) \/ At(tag, k))
      OBVIOUS
    <3>1. k \in Nat /\ step \in Nat
      BY <1>1, <1>5, <1>6
    <3>2. Taken(tag, k)' <=> Rank[tag] < Rank[Command] \/ (tag = Command /\ k < step + 1)
      BY <1>3, <2>1 DEF Taken
    <3> QED BY <2>1, <3>1, <3>2 DEF Taken, At
  <2>5. Rank[Command] <= Rank[Command]'
    BY <1>2, <1>5, <2>1
  <2>6. At("payment", 2)' => At("payment", 1)
    BY <1>1, <1>7, <2>1 DEF At
  <2>7. Ended' /\ run' \in {"running", "done"}
    BY <1>7 DEF Ended
  <2> QED BY <2>2, <2>3, <2>4, <2>5, <2>6, <2>7 DEF GoneOn
<1>8. CASE /\ step = Len(Steps(Command)) /\ command = Len(Commands)
           /\ run' = "done" /\ UNCHANGED <<command, step>>
  <2>1. Command' = Command /\ Place' = step + 1 /\ Place = step
    BY <1>2, <1>4, <1>8 DEF Place
  <2>2. command' \in 1..Len(Commands)' /\ step' \in 1..Len(Steps(Command'))
    BY <1>1, <1>2, <1>3, <1>8, <2>1
  <2>3. step' \in 1..Len(Steps(Command))'
    BY <1>3, <2>1, <2>2
  <2>4. \A tag \in Tags : \A k \in 1..Len(Steps(tag)) : Taken(tag, k)' <=> (Taken(tag, k) \/ At(tag, k))
    <3> SUFFICES ASSUME NEW tag \in Tags, NEW k \in 1..Len(Steps(tag))
                 PROVE  Taken(tag, k)' <=> (Taken(tag, k) \/ At(tag, k))
      OBVIOUS
    <3>1. k \in Nat /\ step \in Nat
      BY <1>1, <1>5, <1>6
    <3>2. Taken(tag, k)' <=> Rank[tag] < Rank[Command] \/ (tag = Command /\ k < step + 1)
      BY <1>3, <2>1 DEF Taken
    <3> QED BY <2>1, <3>1, <3>2 DEF Taken, At
  <2>5. Rank[Command] <= Rank[Command]'
    BY <1>2, <1>5, <2>1
  <2>6. Ended' /\ run' \in {"running", "done"} /\ run' # "running"
    <3>1. Len(Commands)' = Len(Commands) /\ Len(Steps(Command))' = Len(Steps(Command))
      BY <1>3, <2>1
    <3> QED BY <1>8, <3>1 DEF Ended
  <2> QED BY <2>2, <2>3, <2>4, <2>5, <2>6 DEF GoneOn
<1>9. CASE /\ step = Len(Steps(Command)) /\ command < Len(Commands)
           /\ step' = 1 /\ command' = command + 1 /\ UNCHANGED run
  <2>1. Place' = 1 /\ Place = step
    BY <1>9 DEF Place
  <2>2. command' \in 1..Len(Commands) /\ Len(Commands) \in Nat
    BY <1>1, <1>2, <1>9 DEF Ordered
  <2>3. Command' \in Tag
    BY <1>2, <1>4, <2>2 DEF Ordered
  <2>4. step' \in 1..Len(Steps(Command'))
    <3>1. Len(Steps(Command')) \in Nat \ {0}
      BY <1>5, <2>3
    <3> QED BY <1>9, <3>1
  <2>5. step' \in 1..Len(Steps(Command))' /\ command' \in 1..Len(Commands)'
    BY <1>3, <2>2, <2>4
  <2>6. \A tag \in Tags : \A k \in 1..Len(Steps(tag)) : Taken(tag, k)' <=> (Taken(tag, k) \/ At(tag, k))
    <3> SUFFICES ASSUME NEW tag \in Tags, NEW k \in 1..Len(Steps(tag))
                 PROVE  Taken(tag, k)' <=> (Taken(tag, k) \/ At(tag, k))
      OBVIOUS
    <3>1. k \in Nat \ {0} /\ step \in Nat
      BY <1>1, <1>5, <1>6
    <3>2. PICK j \in 1..Len(Commands) : tag = Commands[j]
      BY DEF Tags
    <3>3. Taken(tag, k)' <=> Rank[tag] < Rank[Command']
      BY <1>3, <2>1, <3>1 DEF Taken
    <3>4. j < command \/ j = command \/ command + 1 = j \/ command + 1 < j
      BY <1>1, <1>2, <3>2 DEF Ordered
    <3>5. Rank[tag] \in Nat /\ Rank[Command] \in Nat /\ Rank[Command'] \in Nat
      BY <1>2, <1>5, <1>6, <2>3
    <3>6. Rank[Command] < Rank[Command']
      BY <1>1, <1>2, <1>4, <1>9, <2>2 DEF Ordered
    <3>7. CASE j < command
      <4>1. Rank[tag] < Rank[Command]
        BY <1>1, <1>2, <3>2, <3>7 DEF Ordered
      <4> QED BY <3>3, <3>5, <3>6, <4>1 DEF Taken
    <3>8. CASE j = command
      <4>1. tag = Command
        BY <1>2, <3>2, <3>8
      <4>2. k < step \/ k = step
        BY <1>5, <1>9, <3>1, <4>1
      <4> QED BY <2>1, <3>3, <3>6, <4>1, <4>2 DEF Taken, At
    <3>9. CASE command + 1 = j \/ command + 1 < j
      <4>1. Rank[Command'] <= Rank[tag]
        BY <1>2, <1>4, <1>9, <2>2, <3>2, <3>5, <3>9 DEF Ordered
      <4> QED BY <3>3, <3>5, <3>6, <4>1 DEF Taken, At
    <3> QED BY <3>4, <3>7, <3>8, <3>9
  <2>7. Rank[Command] <= Rank[Command]'
    <3>1. Rank[Command] < Rank[Command']
      BY <1>1, <1>2, <1>4, <1>9, <2>2 DEF Ordered
    <3>2. Rank[Command] \in Nat /\ Rank[Command'] \in Nat
      BY <1>2, <1>5, <2>3
    <3>3. Rank' = Rank
      BY DEF Rank
    <3> QED BY <3>1, <3>2, <3>3
  <2>8. ~At("payment", 2)' /\ Ended' /\ run' \in {"running", "done"}
    BY <1>9 DEF At, Ended
  <2> QED BY <2>5, <2>6, <2>7, <2>8 DEF GoneOn
<1> QED BY <1>7, <1>8, <1>9 DEF GoOn

\* A command that starts again has taken nothing; what comes before it stays.
LEMMA FallsBack ==
  ASSUME PlanShape, TypeOK, plan' = plan, command' = command, step' \in 1..Len(Steps(Command)),
         run' = "stopped" \/ (run = "stopped" /\ run' = "running" /\ step' = 1)
  PROVE  /\ Command' = Command /\ command' \in 1..Len(Commands)' /\ step' \in 1..Len(Steps(Command))'
         /\ \A tag \in Tags : \A k \in 1..Len(Steps(tag)) :
              Taken(tag, k)' <=> (Taken(tag, k) /\ tag # Command)
         /\ Ended' /\ ~(At("payment", 2)' /\ run' = "running")
<1>1. Commands' = Commands /\ Tags' = Tags /\ \A tag : Steps(tag)' = Steps(tag)
  BY SamePlan
<1>2. Command' = Command /\ Place' = 1
  BY <1>1 DEF Command, Place
<1>3. \A tag \in Tags : \A k \in 1..Len(Steps(tag)) : Taken(tag, k)' <=> (Taken(tag, k) /\ tag # Command)
  <2> SUFFICES ASSUME NEW tag \in Tags, NEW k \in 1..Len(Steps(tag))
               PROVE  Taken(tag, k)' <=> (Taken(tag, k) /\ tag # Command)
    OBVIOUS
  <2>1. Ordered /\ plan \in Plan /\ Command \in Tag
    BY CommandsOrdered, CommandIsTag DEF TypeOK
  <2>2. tag \in Tag
    BY <2>1 DEF Ordered, Tags
  <2>3. k \in Nat \ {0} /\ Rank[Command] \in Nat
    BY <2>1, <2>2, StepCounts, RanksNat
  <2>4. Taken(tag, k)' <=> Rank[tag] < Rank[Command]
    BY <1>1, <1>2, <2>3 DEF Taken
  <2> QED BY <2>3, <2>4 DEF Taken
<1> QED BY <1>1, <1>2, <1>3 DEF Ended, At, TypeOK

-----------------------------------------------------------------------------
(* What a step makes of the chain and the files *)

Holder == Nat \union {Deployer, Anyone} \union UNION {Range(p.verifiers) : p \in Plan}
Role == {"admin", "upgrader", "delegate", "proposer", "executor", "verifier", "CPO", "EMSP"} \X Holder
Contracts ==
  [name : Name \union {"external stablecoin"}, args : Seq(Nat), roles : SUBSET Role]

Shape ==
  /\ chain \in Seq(Contracts) /\ records \in [Name -> Nat] /\ copies \in [Name -> Nat]
  /\ \A files \in {records, copies}, n \in Name :
       files[n] # 0 => files[n] \in 1..Len(chain) /\ chain[files[n]].name = n

\* The contracts recorded, but for one, are left alone.
Others(n) ==
  \A m \in Name \ {n} : records'[m] = records[m] /\ (Recorded(m) => Contract(m)' = Contract(m))

NewContract(n, args) == [name |-> n, args |-> args, roles |-> InitialRoles(n)]

\* The effects of steps.
Keeps == UNCHANGED <<chain, records>>
Makes(n) ==
  /\ Others(n) /\ records'[n] = Len(chain) + 1
  /\ Contract(n)' = NewContract(n, Args(n))
Gives(n, roles) ==
  /\ Others(n) /\ records' = records /\ Recorded(n)
  /\ Contract(n)'.args = Contract(n).args /\ Contract(n)'.roles = roles

\* A record names a contract of its name.
LEMMA ContractIs ==
  ASSUME Shape, NEW n \in Name, Recorded(n)
  PROVE  records[n] \in 1..Len(chain) /\ Contract(n) \in Contracts /\ Contract(n).name = n
BY DEF Shape, Recorded, Contract

\* Constructors are called with addresses.
LEMMA ArgsTyped == ASSUME Shape, NEW n \in Name PROVE Args(n) \in Seq(Nat)
BY DEF Args, Shape, Name

\* A contract created leaves the others where they are.
LEMMA CreationGrows ==
  ASSUME Shape, NEW c \in Contracts, chain' = Append(chain, c)
  PROVE  /\ chain' \in Seq(Contracts) /\ Len(chain') = Len(chain) + 1 /\ Len(chain) \in Nat
         /\ chain'[Len(chain) + 1] = c /\ \A i \in 1..Len(chain) : chain'[i] = chain[i]
BY DEF Shape

\* What is created is a contract.
LEMMA NewContractTyped ==
  ASSUME Shape, NEW n \in Name, NEW args \in Seq(Nat)
  PROVE  NewContract(n, args) \in Contracts
<1>1. InitialRoles(n) \in SUBSET Role
  <2>1. Len(chain) + 1 \in Holder /\ Deployer \in Holder
    BY DEF Holder, Shape
  <2>2. <<"admin", Len(chain) + 1>> \in Role /\ <<"admin", Deployer>> \in Role
        /\ <<"upgrader", Deployer>> \in Role
    BY <2>1 DEF Role
  <2> QED BY <2>2 DEF InitialRoles
<1> QED BY <1>1 DEF Contracts, NewContract

\* Created and recorded at once, as deploy() does.
LEMMA CreationMakes ==
  ASSUME Shape, NEW n \in Name, chain' = Created(n, Args(n)),
         records' = [records EXCEPT ![n] = Len(chain) + 1], copies' = copies
  PROVE  Shape' /\ Makes(n)
<1>1. NewContract(n, Args(n)) \in Contracts /\ chain' = Append(chain, NewContract(n, Args(n)))
  BY NewContractTyped, ArgsTyped DEF Created, NewContract
<1>2. /\ chain' \in Seq(Contracts) /\ Len(chain') = Len(chain) + 1 /\ Len(chain) \in Nat
      /\ chain'[Len(chain) + 1] = NewContract(n, Args(n))
      /\ \A i \in 1..Len(chain) : chain'[i] = chain[i]
  BY <1>1, CreationGrows
<1>3. /\ records' \in [Name -> Nat] /\ records'[n] = Len(chain) + 1
      /\ \A m \in Name \ {n} : records'[m] = records[m]
  BY <1>2 DEF Shape
<1>4. NewContract(n, Args(n)).name = n
  BY DEF NewContract
<1>5. \A m \in Name : copies[m] # 0 => copies[m] \in 1..Len(chain') /\ chain'[copies[m]].name = m
  BY <1>2 DEF Shape
<1>6. \A m \in Name : records'[m] # 0 => records'[m] \in 1..Len(chain') /\ chain'[records'[m]].name = m
  BY <1>2, <1>3, <1>4 DEF Shape
<1>7. Shape'
  BY <1>2, <1>3, <1>5, <1>6 DEF Shape
<1>8. Others(n)
  BY <1>2, <1>3, ContractIs DEF Others, Contract
<1> QED BY <1>2, <1>3, <1>7, <1>8 DEF Makes, Contract

\* Created and not recorded, as deployProxy does.
LEMMA ProxyKeeps ==
  ASSUME Shape, chain' = Created("OcnPaymentManager", <<Stablecoin>>), records' = records, copies' = copies
  PROVE  /\ Shape' /\ \A n \in Name : Others(n) /\ (Recorded(n) => Contract(n)' = Contract(n))
         /\ chain'[Len(chain')] = NewContract("OcnPaymentManager", <<Stablecoin>>) /\ Len(chain') # 0
<1>1. "OcnPaymentManager" \in Name /\ <<Stablecoin>> \in Seq(Nat)
  BY DEF Stablecoin, Name, Shape
<1> DEFINE c == NewContract("OcnPaymentManager", <<Stablecoin>>)
<1>2. c \in Contracts /\ chain' = Append(chain, c)
  BY <1>1, NewContractTyped DEF Created, NewContract
<1> HIDE DEF c
<1>3. /\ chain' \in Seq(Contracts) /\ Len(chain') = Len(chain) + 1 /\ Len(chain) \in Nat
      /\ chain'[Len(chain) + 1] = c
      /\ \A i \in 1..Len(chain) : chain'[i] = chain[i]
  BY <1>2, CreationGrows
<1>4. Shape'
  BY <1>3 DEF Shape
<1>5. \A n \in Name : Recorded(n) => Contract(n)' = Contract(n)
  BY <1>3, ContractIs DEF Contract
<1> QED BY <1>3, <1>4, <1>5 DEF Others, c

\* A change of roles leaves the other contracts alone.
LEMMA RolesGiven ==
  ASSUME Shape, NEW n \in Name, Recorded(n), NEW roles \in SUBSET Role,
         chain' = [chain EXCEPT ![records[n]].roles = roles], records' = records, copies' = copies
  PROVE  Shape' /\ Gives(n, roles)
<1>1. records[n] \in 1..Len(chain) /\ Contract(n) \in Contracts /\ Contract(n).name = n
  BY ContractIs
<1> DEFINE c == [Contract(n) EXCEPT !.roles = roles]
<1>2. c \in Contracts /\ c.name = n /\ c.args = Contract(n).args /\ c.roles = roles
  BY <1>1 DEF Contracts
<1>3. chain' = [chain EXCEPT ![records[n]] = c]
  BY DEF Contract
<1> HIDE DEF c
<1>4. /\ chain' \in Seq(Contracts) /\ Len(chain') = Len(chain) /\ chain'[records[n]] = c
      /\ \A i \in 1..Len(chain) : i # records[n] => chain'[i] = chain[i]
  <2>1. chain \in Seq(Contracts)
    BY DEF Shape
  <2> QED BY <1>1, <1>2, <1>3, <2>1
<1>5. \A i \in 1..Len(chain) : chain'[i].name = chain[i].name
  BY <1>1, <1>2, <1>4 DEF Contract
<1>6. Shape'
  BY <1>4, <1>5 DEF Shape
<1>7. ASSUME NEW m \in Name \ {n}, Recorded(m) PROVE Contract(m)' = Contract(m)
  <2>1. records[m] \in 1..Len(chain) /\ Contract(m).name = m
    BY <1>7, ContractIs
  <2>2. records[m] # records[n]
    BY <1>1, <2>1 DEF Contract
  <2> QED BY <1>4, <2>1, <2>2 DEF Contract
<1> QED BY <1>2, <1>4, <1>6, <1>7 DEF Gives, Others, Contract

\* The inductive invariant.
DeployInv ==
  /\ TypeOK /\ Shape /\ Ended /\ StartsOverClean /\ PreflightPassed
  /\ Fresh => Followed

Took(o) ==
  chain' = o.chain /\ records' = o.records /\ copies' = o.copies /\ manifest' = o.manifest

CopiesAll == [n \in Name |-> IF Recorded(n) THEN records[n] ELSE copies[n]]

\* The steps of each kind with their effects.
Checked ==
  /\ At("preflight", 1) /\ UNCHANGED placeVars
  /\ plan.bad = "" /\ \A i \in 1..Verifiers : plan.verifiers[i] # NotAnAddress
Cleared ==
  /\ At("votetoken", 1) /\ \A n \in Name : records'[n] = 0
  /\ chain' = chain /\ copies' = copies /\ manifest' = manifest
Creates(n) ==
  /\ Deploying(n) /\ 0 \notin Range(Args(n)) /\ copies' = copies /\ manifest' = manifest
  /\ (Recorded(n) /\ Keeps) \/ Makes(n)
Proxied ==
  /\ At("payment", 1) /\ records' = records /\ copies' = copies /\ manifest' = manifest
  /\ \A n \in Name : Others(n) /\ (Recorded(n) => Contract(n)' = Contract(n))
  /\ chain'[Len(chain')] = NewContract("OcnPaymentManager", <<Stablecoin>>) /\ Len(chain') # 0
  /\ Stablecoin # 0
Saved ==
  /\ At("payment", 2) /\ chain' = chain /\ copies' = copies /\ manifest' = manifest
  /\ Others("OcnPaymentManager") /\ records'["OcnPaymentManager"] = Len(chain)
CopiedNow == Copying /\ Keeps /\ copies' = CopiesAll /\ manifest' = manifest
Same(n, roles) == Gives(n, roles) /\ copies' = copies /\ manifest' = manifest
Delegated ==
  /\ At("votetoken", 3)
  /\ Same("OcnVoteToken", Contract("OcnVoteToken").roles \union {<<"delegate", Deployer>>})
ProposerGranted ==
  /\ At("setup", 1) /\ <<"admin", Deployer>> \in Contract("Timelock").roles
  /\ Same("Timelock", Contract("Timelock").roles \union {<<"proposer", records["OcnGovernor"]>>})
ExecutorGranted ==
  /\ At("setup", 2) /\ <<"admin", Deployer>> \in Contract("Timelock").roles
  /\ Same("Timelock", Contract("Timelock").roles \union {<<"executor", Anyone>>})
AdminRevoked ==
  /\ At("setup", 3) /\ <<"admin", Deployer>> \in Contract("Timelock").roles
  /\ Same("Timelock", Contract("Timelock").roles \ {<<"admin", Deployer>>})
VerifierAllowed(i) ==
  /\ Allowing(i) /\ <<"admin", Deployer>> \in Contract("PartyRegistrationValidator").roles
  /\ Same("PartyRegistrationValidator",
          Contract("PartyRegistrationValidator").roles \union {<<"verifier", plan.verifiers[i]>>})
OracleGiven(role, k) ==
  /\ At("registry", Verifiers + k)
  /\ \/ /\ plan.devChain \/ ~Recorded(OracleOf(role))
        /\ Keeps /\ copies' = copies /\ manifest' = manifest
     \/ /\ ~plan.devChain /\ Recorded(OracleOf(role))
        /\ <<"admin", Deployer>> \in Contract("PartyRegistrationValidator").roles
        /\ Same("PartyRegistrationValidator",
                {r \in Contract("PartyRegistrationValidator").roles : r[1] # role}
                  \union {<<role, records[OracleOf(role)]>>})
HandsOver(n, tag, k) ==
  /\ At(tag, k) /\ <<"admin", Deployer>> \in Contract(n).roles /\ Recorded("Timelock")
  /\ Same(n, (Contract(n).roles \union {<<"admin", records["Timelock"]>>}) \ {<<"admin", Deployer>>})
Written == At("subgraph", 1) /\ Keeps /\ copies' = copies /\ manifest' = Manifest

\* The deployer administers a contract that it is an admin of.
LEMMA AdministeredMeans ==
  ASSUME Shape, NEW n \in Name
  PROVE  Administered(n) <=> (Recorded(n) /\ <<"admin", Deployer>> \in Contract(n).roles)
<1>1. ASSUME Recorded(n), Deployer \in Admins(Contract(n)) PROVE <<"admin", Deployer>> \in Contract(n).roles
  <2>1. PICK r \in Contract(n).roles : r[1] = "admin" /\ r[2] = Deployer
    BY <1>1 DEF Admins
  <2>2. r \in Role
    BY <1>1, ContractIs DEF Contracts
  <2>3. r = <<"admin", Deployer>>
    BY <2>1, <2>2 DEF Role
  <2> QED BY <2>1, <2>3
<1>2. ASSUME Recorded(n), <<"admin", Deployer>> \in Contract(n).roles PROVE Deployer \in Admins(Contract(n))
  <2>1. <<"admin", Deployer>>[1] = "admin" /\ <<"admin", Deployer>>[2] = Deployer
    OBVIOUS
  <2> QED BY <1>2, <2>1 DEF Admins
<1> QED BY <1>1, <1>2 DEF Administered

\* The roles of a contract are all that a transaction on it changes.
LEMMA RolesSet ==
  ASSUME Shape, NEW n \in Name, Recorded(n), NEW roles \in SUBSET Role, Took(WithRoles(n, roles))
  PROVE  Shape' /\ Same(n, roles)
<1>1. /\ chain' = [chain EXCEPT ![records[n]].roles = roles] /\ records' = records
      /\ copies' = copies /\ manifest' = manifest
  BY DEF Took, WithRoles, Unchanged
<1> QED BY <1>1, RolesGiven DEF Same

\* preflight.ts writes nothing.
LEMMA CheckEffect ==
  ASSUME Shape, PlanShape, plan \in Plan, At("preflight", 1), NEW o \in Preflight, Took(o)
  PROVE  Shape' /\ Checked
<1>1. o = Unchanged /\ plan.bad = "" /\ \A i \in DOMAIN plan.verifiers : plan.verifiers[i] # NotAnAddress
  BY DEF Preflight
<1>2. UNCHANGED placeVars
  BY <1>1 DEF Took, Unchanged, placeVars
<1>3. Shape'
  BY <1>2 DEF Shape, placeVars
<1> QED BY <1>1, <1>2, <1>3, RegistryStepsInFull DEF Checked

\* --reset leaves no record.
LEMMA ResetEffect ==
  ASSUME Shape, At("votetoken", 1), NEW o \in Reset, Took(o)
  PROVE  Shape' /\ Cleared
<1>1. /\ chain' = chain /\ records' = [n \in Name |-> 0] /\ copies' = copies /\ manifest' = manifest
  BY DEF Reset, Took, Unchanged
<1>2. Shape'
  BY <1>1 DEF Shape
<1> QED BY <1>1, <1>2 DEF Cleared

\* deploy() creates a contract, or keeps the one that is recorded.
LEMMA DeployEffect ==
  ASSUME Shape, NEW n \in Name, Deploying(n), NEW o \in Deploy(n), Took(o)
  PROVE  Shape' /\ Creates(n)
<1>1. 0 \notin Range(Args(n))
  BY DEF Deploy
<1>2. CASE o = Unchanged /\ Recorded(n)
  <2>1. UNCHANGED placeVars
    BY <1>2 DEF Took, Unchanged, placeVars
  <2>2. Shape'
    BY <2>1 DEF Shape, placeVars
  <2> QED BY <1>1, <1>2, <2>1, <2>2 DEF Creates, Keeps, placeVars
<1>3. CASE o = [Unchanged EXCEPT !.chain = Created(n, Args(n)), !.records[n] = Len(chain) + 1]
  <2>1. /\ o.chain = Created(n, Args(n)) /\ o.records = [records EXCEPT ![n] = Len(chain) + 1]
        /\ o.copies = copies /\ o.manifest = manifest
    BY <1>3 DEF Unchanged
  <2>2. Shape' /\ Makes(n)
    BY <2>1, CreationMakes DEF Took
  <2> QED BY <1>1, <2>1, <2>2 DEF Creates, Took
<1> QED BY <1>1, <1>2, <1>3 DEF Deploy

\* deployProxy creates a payment manager.
LEMMA ProxyEffect ==
  ASSUME Shape, At("payment", 1), NEW o \in Proxy("OcnPaymentManager"), Took(o)
  PROVE  Shape' /\ Proxied
<1>1. Stablecoin # 0 /\ o = [Unchanged EXCEPT !.chain = Created("OcnPaymentManager", <<Stablecoin>>)]
  BY DEF Proxy
<1>2. /\ chain' = Created("OcnPaymentManager", <<Stablecoin>>) /\ records' = records
      /\ copies' = copies /\ manifest' = manifest
  BY <1>1 DEF Took, Unchanged
<1> QED BY <1>1, <1>2, ProxyKeeps DEF Proxied

\* The contract created last is recorded.
LEMMA SaveEffect ==
  ASSUME Shape, At("payment", 2), NEW o \in Save("OcnPaymentManager"), Took(o),
         Len(chain) # 0 => chain[Len(chain)].name = "OcnPaymentManager"
  PROVE  Shape' /\ Saved
<1>1. o = [Unchanged EXCEPT !.records["OcnPaymentManager"] = Len(chain)]
  BY DEF Save
<1>2. /\ chain' = chain /\ records' = [records EXCEPT !["OcnPaymentManager"] = Len(chain)]
      /\ copies' = copies /\ manifest' = manifest
  BY <1>1 DEF Took, Unchanged
<1>3. "OcnPaymentManager" \in Name /\ Len(chain) \in Nat
  BY DEF Name, Shape
<1>4. /\ records' \in [Name -> Nat] /\ records'["OcnPaymentManager"] = Len(chain)
      /\ \A m \in Name \ {"OcnPaymentManager"} : records'[m] = records[m]
  BY <1>2, <1>3 DEF Shape
<1>5. Shape'
  BY <1>2, <1>3, <1>4 DEF Shape
<1> QED BY <1>2, <1>4, <1>5 DEF Saved, Others, Contract

\* The copies are brought up to date.
LEMMA CopyEffect ==
  ASSUME Shape, Copying, NEW o \in Copy, Took(o)
  PROVE  Shape' /\ CopiedNow
<1>1. /\ chain' = chain /\ records' = records /\ copies' = CopiesAll /\ manifest' = manifest
  BY DEF Copy, Took, Unchanged, CopiesAll
<1>2. CopiesAll \in [Name -> Nat]
  BY DEF CopiesAll, Shape
<1>3. \A n \in Name : CopiesAll[n] \in {records[n], copies[n]}
  BY DEF CopiesAll
<1>4. Shape'
  BY <1>1, <1>2, <1>3 DEF Shape
<1> QED BY <1>1, <1>4 DEF CopiedNow, Keeps

\* The manifest is written.
LEMMA WriteEffect ==
  ASSUME Shape, At("subgraph", 1), NEW o \in WriteManifest, Took(o)
  PROVE  Shape' /\ Written
<1>1. /\ chain' = chain /\ records' = records /\ copies' = copies /\ manifest' = Manifest
  BY DEF WriteManifest, Took, Unchanged
<1>2. Shape'
  BY <1>1 DEF Shape
<1> QED BY <1>1, <1>2 DEF Written, Keeps

\* The accounts that roles are given to.
LEMMA HoldersAre ==
  ASSUME Shape, plan \in Plan, PlanShape
  PROVE  /\ Deployer \in Holder /\ Anyone \in Holder
         /\ \A n \in Name : records[n] \in Holder
         /\ \A i \in 1..Verifiers : plan.verifiers[i] \in Holder
<1>1. \A n \in Name : records[n] \in Holder
  BY DEF Shape, Holder
<1>2. \A i \in 1..Verifiers : plan.verifiers[i] \in Range(plan.verifiers)
  BY RegistryStepsInFull DEF Range
<1> QED BY <1>1, <1>2 DEF Holder

\* 04_setupGovernor lets the governor propose and anyone execute.
LEMMA GrantEffect ==
  ASSUME Shape, plan \in Plan, PlanShape, NEW role \in {"proposer", "executor"},
         NEW o \in Grant(role), Took(o),
         At("setup", IF role = "proposer" THEN 1 ELSE 2)
  PROVE  Shape' /\ (IF role = "proposer" THEN ProposerGranted ELSE ExecutorGranted)
<1> DEFINE holder == IF role = "proposer" THEN records["OcnGovernor"] ELSE Anyone
           roles == Granted(Contract("Timelock").roles, <<role, holder>>)
<1>1. Administered("Timelock") /\ o = WithRoles("Timelock", roles)
  BY DEF Grant
<1>2. "Timelock" \in Name /\ "OcnGovernor" \in Name
  BY DEF Name
<1>3. Recorded("Timelock") /\ <<"admin", Deployer>> \in Contract("Timelock").roles
  BY <1>1, <1>2, AdministeredMeans
<1>4. Contract("Timelock").roles \in SUBSET Role
  BY <1>2, <1>3, ContractIs DEF Contracts
<1>5. <<role, holder>> \in Role
  BY <1>2, HoldersAre DEF Role
<1>6. roles \in SUBSET Role
  BY <1>4, <1>5 DEF Granted
<1>7. Shape' /\ Same("Timelock", roles)
  BY <1>1, <1>2, <1>3, <1>6, RolesSet
<1> QED BY <1>3, <1>7 DEF ProposerGranted, ExecutorGranted, Granted

\* The deployer delegates its votes to itself.
LEMMA DelegateEffect ==
  ASSUME Shape, plan \in Plan, PlanShape, NEW o \in Grant("delegate"), Took(o),
         At("votetoken", 3), Recorded("OcnVoteToken")
  PROVE  Shape' /\ Delegated
<1> DEFINE roles == Granted(Contract("OcnVoteToken").roles, <<"delegate", Deployer>>)
<1>1. o = WithRoles("OcnVoteToken", roles)
  BY DEF Grant
<1>2. "OcnVoteToken" \in Name
  BY DEF Name
<1>3. Contract("OcnVoteToken").roles \in SUBSET Role
  BY <1>2, ContractIs DEF Contracts
<1>4. <<"delegate", Deployer>> \in Role
  BY HoldersAre DEF Role
<1>5. roles \in SUBSET Role
  BY <1>3, <1>4 DEF Granted
<1>6. Shape' /\ Same("OcnVoteToken", roles)
  BY <1>1, <1>2, <1>5, RolesSet
<1> QED BY <1>6 DEF Delegated, Granted

\* It takes the timelock from the deployer.
LEMMA RevokeEffect ==
  ASSUME Shape, NEW o \in Revoke("admin"), Took(o), At("setup", 3)
  PROVE  Shape' /\ AdminRevoked
<1> DEFINE roles == Revoked(Contract("Timelock").roles, <<"admin", Deployer>>)
<1>1. Administered("Timelock") /\ o = WithRoles("Timelock", roles)
  BY DEF Revoke
<1>2. "Timelock" \in Name
  BY DEF Name
<1>3. Recorded("Timelock") /\ <<"admin", Deployer>> \in Contract("Timelock").roles
  BY <1>1, <1>2, AdministeredMeans
<1>4. roles \in SUBSET Role
  BY <1>2, <1>3, ContractIs DEF Contracts, Revoked
<1>5. Shape' /\ Same("Timelock", roles)
  BY <1>1, <1>2, <1>3, <1>4, RolesSet
<1> QED BY <1>3, <1>5 DEF AdminRevoked, Revoked

\* One verifier is allowed.
LEMMA AllowEffect ==
  ASSUME Shape, plan \in Plan, PlanShape, NEW i \in 1..Verifiers, Allowing(i),
         NEW o \in Allow(plan.verifiers[i]), Took(o)
  PROVE  Shape' /\ VerifierAllowed(i)
<1> DEFINE name == "PartyRegistrationValidator"
           roles == Granted(Contract(name).roles, <<"verifier", plan.verifiers[i]>>)
<1>1. Administered(name) /\ o = WithRoles(name, roles)
  BY DEF Allow
<1>2. name \in Name
  BY DEF Name
<1>3. Recorded(name) /\ <<"admin", Deployer>> \in Contract(name).roles
  BY <1>1, <1>2, AdministeredMeans
<1>4. Contract(name).roles \in SUBSET Role
  BY <1>2, <1>3, ContractIs DEF Contracts
<1>5. <<"verifier", plan.verifiers[i]>> \in Role
  BY HoldersAre DEF Role
<1>6. roles \in SUBSET Role
  BY <1>4, <1>5 DEF Granted
<1>7. Shape' /\ Same(name, roles)
  BY <1>1, <1>2, <1>3, <1>6, RolesSet
<1> QED BY <1>3, <1>7 DEF VerifierAllowed, Granted

\* An oracle is set, where there is one.
LEMMA OracleEffect ==
  ASSUME Shape, plan \in Plan, PlanShape, NEW role \in {"CPO", "EMSP"}, NEW k,
         At("registry", Verifiers + k), NEW o \in SetOracle(role), Took(o)
  PROVE  Shape' /\ OracleGiven(role, k)
<1> DEFINE name == "PartyRegistrationValidator"
           oracle == records[OracleOf(role)]
           roles == {r \in Contract(name).roles : r[1] # role} \union {<<role, oracle>>}
<1>1. name \in Name /\ OracleOf(role) \in Name
  BY DEF Name, OracleOf
<1>2. CASE plan.devChain \/ oracle = 0
  <2>1. o = Unchanged
    BY <1>2 DEF SetOracle, OracleOf
  <2>2. UNCHANGED placeVars
    BY <2>1 DEF Took, Unchanged, placeVars
  <2>3. Shape'
    BY <2>2 DEF Shape, placeVars
  <2> QED BY <1>2, <2>2, <2>3 DEF OracleGiven, Keeps, placeVars, Recorded
<1>3. CASE ~(plan.devChain \/ oracle = 0)
  <2>1. Administered(name) /\ o = WithRoles(name, roles)
    BY <1>3 DEF SetOracle, Granted, OracleOf
  <2>2. Recorded(name) /\ <<"admin", Deployer>> \in Contract(name).roles
    BY <1>1, <2>1, AdministeredMeans
  <2>3. Contract(name).roles \in SUBSET Role
    BY <1>1, <2>2, ContractIs DEF Contracts
  <2>4. <<role, oracle>> \in Role
    BY <1>1, HoldersAre DEF Role
  <2>5. roles \in SUBSET Role
    BY <2>3, <2>4
  <2>6. Shape' /\ Same(name, roles)
    <3> HIDE DEF roles
    <3> QED BY <1>1, <2>1, <2>2, <2>5, RolesSet
  <2> QED BY <1>3, <2>2, <2>6 DEF OracleGiven, Recorded
<1> QED BY <1>2, <1>3

\* A contract is handed over to the timelock.
LEMMA TransferEffect ==
  ASSUME Shape, plan \in Plan, PlanShape, NEW n \in Name, NEW tag, NEW k, At(tag, k),
         NEW o \in Transfer(n), Took(o)
  PROVE  Shape' /\ HandsOver(n, tag, k)
<1> DEFINE roles == Transferred(Contract(n).roles, <<"admin", Deployer>>, <<"admin", records["Timelock"]>>)
<1>1. Administered(n) /\ Recorded("Timelock") /\ o = WithRoles(n, roles)
  BY DEF Transfer
<1>2. Recorded(n) /\ <<"admin", Deployer>> \in Contract(n).roles
  BY <1>1, AdministeredMeans
<1>3. Contract(n).roles \in SUBSET Role
  BY <1>2, ContractIs DEF Contracts
<1>4. <<"admin", records["Timelock"]>> \in Role
  BY HoldersAre DEF Role, Name
<1>5. roles \in SUBSET Role
  BY <1>3, <1>4 DEF Transferred, Granted, Revoked
<1>6. Shape' /\ Same(n, roles)
  <2> HIDE DEF roles
  <2> QED BY <1>1, <1>2, <1>5, RolesSet
<1> QED BY <1>1, <1>2, <1>6 DEF HandsOver, Transferred, Granted, Revoked

StepDone ==
  \/ Checked \/ Cleared \/ Proxied \/ Saved \/ CopiedNow \/ Written
  \/ \E n \in Name \ {"OcnPaymentManager"} : Creates(n)
  \/ Delegated \/ ProposerGranted \/ ExecutorGranted \/ AdminRevoked
  \/ \E i \in 1..Verifiers : VerifierAllowed(i)
  \/ OracleGiven("CPO", 3) \/ OracleGiven("EMSP", 4)
  \/ HandsOver("OcnPaymentManager", "payment", 4)
  \/ HandsOver("PartyRegistrationValidator", "registry", Verifiers + 5)
  \/ HandsOver("OcnRegistry", "registry", Verifiers + 6)

\* Every step that succeeds is one of these.
LEMMA StepEffects ==
  ASSUME PlanShape, TypeOK, Shape, NEW o \in Outcomes, Took(o),
         At("votetoken", 3) => Recorded("OcnVoteToken"),
         At("payment", 2) => chain[Len(chain)].name = "OcnPaymentManager"
  PROVE  Shape' /\ StepDone
<1>1. o \in Results(CurrentStep) /\ plan \in Plan
  BY DEF Outcomes, TypeOK
<1> USE <1>1 DEF StepDone
<1>2. CASE At("preflight", 1) /\ CurrentStep = <<"check", "environment">>
  <2>1. Results(CurrentStep) = Preflight
    BY <1>2 DEF Results
  <2> QED BY <1>2, <2>1, CheckEffect
<1>3. CASE At("votetoken", 1) /\ CurrentStep = <<"reset", "records">>
  <2>1. Results(CurrentStep) = Reset
    BY <1>3 DEF Results
  <2> QED BY <1>3, <2>1, ResetEffect
<1>4. ASSUME NEW n \in Name \ {"OcnPaymentManager"}, Deploying(n) PROVE Shape' /\ StepDone
  <2>1. Results(CurrentStep) = Deploy(n)
    BY <1>4 DEF Results, Deploying
  <2> QED BY <1>4, <2>1, DeployEffect
<1>5. CASE At("payment", 1) /\ CurrentStep = <<"proxy", "OcnPaymentManager">>
  <2>1. Results(CurrentStep) = Proxy("OcnPaymentManager")
    BY <1>5 DEF Results
  <2> QED BY <1>5, <2>1, ProxyEffect
<1>6. CASE At("payment", 2) /\ CurrentStep = <<"save", "OcnPaymentManager">>
  <2>1. Results(CurrentStep) = Save("OcnPaymentManager")
    BY <1>6 DEF Results
  <2> QED BY <1>6, <2>1, SaveEffect
<1>7. CASE Copying
  <2>1. Results(CurrentStep) = Copy
    BY <1>7 DEF Results, Copying
  <2> QED BY <1>7, <2>1, CopyEffect
<1>8. CASE At("votetoken", 3) /\ CurrentStep = <<"grant", "delegate">>
  <2>1. Results(CurrentStep) = Grant("delegate")
    BY <1>8 DEF Results
  <2> QED BY <1>8, <2>1, DelegateEffect
<1>9. CASE At("setup", 1) /\ CurrentStep = <<"grant", "proposer">>
  <2>1. Results(CurrentStep) = Grant("proposer")
    BY <1>9 DEF Results
  <2>2. Shape' /\ (IF "proposer" = "proposer" THEN ProposerGranted ELSE ExecutorGranted)
    BY <1>9, <2>1, GrantEffect
  <2> QED BY <2>2
<1>10. CASE At("setup", 2) /\ CurrentStep = <<"grant", "executor">>
  <2>1. Results(CurrentStep) = Grant("executor")
    BY <1>10 DEF Results
  <2>2. Shape' /\ (IF "executor" = "proposer" THEN ProposerGranted ELSE ExecutorGranted)
    BY <1>10, <2>1, GrantEffect
  <2> QED BY <2>2
<1>11. CASE At("setup", 3) /\ CurrentStep = <<"revoke", "admin">>
  <2>1. Results(CurrentStep) = Revoke("admin")
    BY <1>11 DEF Results
  <2> QED BY <1>11, <2>1, RevokeEffect
<1>12. ASSUME NEW i \in 1..Verifiers, Allowing(i) PROVE Shape' /\ StepDone
  <2>1. Results(CurrentStep) = Allow(plan.verifiers[i])
    BY <1>12 DEF Results, Allowing
  <2> QED BY <1>12, <2>1, AllowEffect
<1>13. CASE At("registry", Verifiers + 3) /\ CurrentStep = <<"oracle", "CPO">>
  <2>1. Results(CurrentStep) = SetOracle("CPO")
    BY <1>13 DEF Results
  <2> QED BY <1>13, <2>1, OracleEffect
<1>14. CASE At("registry", Verifiers + 4) /\ CurrentStep = <<"oracle", "EMSP">>
  <2>1. Results(CurrentStep) = SetOracle("EMSP")
    BY <1>14 DEF Results
  <2> QED BY <1>14, <2>1, OracleEffect
<1>15. CASE At("payment", 4) /\ CurrentStep = <<"transfer", "OcnPaymentManager">>
  <2>1. Results(CurrentStep) = Transfer("OcnPaymentManager")
    BY <1>15 DEF Results
  <2> QED BY <1>15, <2>1, TransferEffect DEF Name
<1>16. CASE At("registry", Verifiers + 5) /\ CurrentStep = <<"transfer", "PartyRegistrationValidator">>
  <2>1. Results(CurrentStep) = Transfer("PartyRegistrationValidator")
    BY <1>16 DEF Results
  <2> QED BY <1>16, <2>1, TransferEffect DEF Name
<1>17. CASE At("registry", Verifiers + 6) /\ CurrentStep = <<"transfer", "OcnRegistry">>
  <2>1. Results(CurrentStep) = Transfer("OcnRegistry")
    BY <1>17 DEF Results
  <2> QED BY <1>17, <2>1, TransferEffect DEF Name
<1>18. CASE At("subgraph", 1) /\ CurrentStep = <<"write", "manifest">>
  <2>1. Results(CurrentStep) = WriteManifest
    BY <1>18 DEF Results
  <2> QED BY <1>18, <2>1, WriteEffect
<1> QED
  BY <1>2, <1>3, <1>4, <1>5, <1>6, <1>7, <1>8, <1>9, <1>10, <1>11, <1>12, <1>13, <1>14, <1>15, <1>16,
     <1>17, <1>18, StepCases

-----------------------------------------------------------------------------
(* What a step leaves alone *)

Untouched(n) == records'[n] = records[n] /\ (Recorded(n) => Contract(n)' = Contract(n))

\* Each contract is touched by its own steps only.
Touched ==
  /\ \A n \in Name \ {"OcnPaymentManager"} :
       Untouched(n) \/ Creates(n) \/ \E roles : Gives(n, roles)
  /\ Untouched("OcnVoteToken") \/ Creates("OcnVoteToken") \/ Delegated
  /\ \/ Untouched("Timelock") \/ Creates("Timelock")
     \/ ProposerGranted \/ ExecutorGranted \/ AdminRevoked
  /\ Untouched("OcnPaymentManager") \/ Saved \/ HandsOver("OcnPaymentManager", "payment", 4)
  /\ \/ Untouched("PartyRegistrationValidator") \/ Creates("PartyRegistrationValidator")
     \/ (\E i \in 1..Verifiers : VerifierAllowed(i)) \/ OracleGiven("CPO", 3) \/ OracleGiven("EMSP", 4)
     \/ HandsOver("PartyRegistrationValidator", "registry", Verifiers + 5)
  /\ \/ Untouched("OcnRegistry") \/ Creates("OcnRegistry")
     \/ HandsOver("OcnRegistry", "registry", Verifiers + 6)

\* No step of one contract touches another.
LEMMA Touches == ASSUME StepDone, ~Cleared PROVE Touched
<1> USE DEF Touched
<1>1. ASSUME Keeps PROVE \A n : Untouched(n)
  BY <1>1 DEF Keeps, Untouched, Contract
<1>2. ASSUME NEW n \in Name, Others(n) PROVE \A m \in Name \ {n} : Untouched(m)
  BY <1>2 DEF Others, Untouched
<1>3. ASSUME NEW n, NEW roles, Gives(n, roles) PROVE Others(n)
  BY <1>3 DEF Gives
<1>4. CASE Checked \/ CopiedNow \/ Written
  BY <1>1, <1>4 DEF Checked, CopiedNow, Written, Keeps, placeVars
<1>5. CASE Proxied
  <2>1. \A n \in Name : Untouched(n)
    BY <1>5 DEF Proxied, Untouched
  <2> QED BY <2>1 DEF Name
<1>6. CASE Saved
  <2>1. \A m \in Name \ {"OcnPaymentManager"} : Untouched(m)
    BY <1>2, <1>6 DEF Saved, Name
  <2> QED BY <1>6, <2>1 DEF Name
<1>7. ASSUME NEW n \in Name \ {"OcnPaymentManager"}, Creates(n) PROVE Touched
  <2>1. \A m \in Name \ {n} : Untouched(m)
    BY <1>1, <1>2, <1>7 DEF Creates, Makes
  <2> QED BY <1>7, <2>1 DEF Name
<1> DEFINE Own(n) ==
         /\ \E roles : Gives(n, roles)
         /\ \/ n = "OcnVoteToken" /\ Delegated
            \/ n = "Timelock" /\ (ProposerGranted \/ ExecutorGranted \/ AdminRevoked)
            \/ n = "OcnPaymentManager" /\ HandsOver("OcnPaymentManager", "payment", 4)
            \/ /\ n = "PartyRegistrationValidator"
               /\ \/ (\E i \in 1..Verifiers : VerifierAllowed(i)) \/ OracleGiven("CPO", 3)
                  \/ OracleGiven("EMSP", 4)
                  \/ HandsOver("PartyRegistrationValidator", "registry", Verifiers + 5)
            \/ n = "OcnRegistry" /\ HandsOver("OcnRegistry", "registry", Verifiers + 6)
<1>8. ASSUME NEW n \in Name, Own(n) PROVE Touched
  <2>1. \A m \in Name \ {n} : Untouched(m)
    BY <1>2, <1>3, <1>8
  <2> QED BY <1>8, <2>1 DEF Name
<1> HIDE DEF Touched, Own
<1>9. CASE Delegated
  <2>1. "OcnVoteToken" \in Name /\ Own("OcnVoteToken")
    BY <1>9 DEF Delegated, Same, Name, Own
  <2> QED BY <1>8, <1>9, <2>1
<1>10. CASE ProposerGranted
  <2>1. "Timelock" \in Name /\ Own("Timelock")
    BY <1>10 DEF ProposerGranted, Same, Name, Own
  <2> QED BY <1>8, <1>10, <2>1
<1>11. CASE ExecutorGranted
  <2>1. "Timelock" \in Name /\ Own("Timelock")
    BY <1>11 DEF ExecutorGranted, Same, Name, Own
  <2> QED BY <1>8, <1>11, <2>1
<1>12. CASE AdminRevoked
  <2>1. "Timelock" \in Name /\ Own("Timelock")
    BY <1>12 DEF AdminRevoked, Same, Name, Own
  <2> QED BY <1>8, <1>12, <2>1
<1>13. ASSUME NEW i \in 1..Verifiers, VerifierAllowed(i) PROVE Touched
  <2>1. "PartyRegistrationValidator" \in Name /\ Own("PartyRegistrationValidator")
    BY <1>13 DEF VerifierAllowed, Same, Name, Own
  <2> QED BY <1>8, <1>13, <2>1
<1>14. ASSUME NEW role, NEW k, OracleGiven(role, k), OracleGiven("CPO", 3) \/ OracleGiven("EMSP", 4) PROVE Touched
  <2>1. CASE Keeps
    BY <1>1, <2>1 DEF Touched
  <2>2. CASE ~Keeps
    <3>1. "PartyRegistrationValidator" \in Name /\ Own("PartyRegistrationValidator")
      BY <1>14, <2>2 DEF OracleGiven, Same, Name, Own
    <3> QED BY <1>8, <1>14, <3>1
  <2> QED BY <2>1, <2>2
<1>15. CASE HandsOver("OcnPaymentManager", "payment", 4)
  <2>1. "OcnPaymentManager" \in Name /\ Own("OcnPaymentManager")
    BY <1>15 DEF HandsOver, Same, Name, Own
  <2> QED BY <1>8, <1>15, <2>1
<1>16. CASE HandsOver("PartyRegistrationValidator", "registry", Verifiers + 5)
  <2>1. "PartyRegistrationValidator" \in Name /\ Own("PartyRegistrationValidator")
    BY <1>16 DEF HandsOver, Same, Name, Own
  <2> QED BY <1>8, <1>16, <2>1
<1>17. CASE HandsOver("OcnRegistry", "registry", Verifiers + 6)
  <2>1. "OcnRegistry" \in Name /\ Own("OcnRegistry")
    BY <1>17 DEF HandsOver, Same, Name, Own
  <2> QED BY <1>8, <1>17, <2>1
<1> QED
  BY <1>4, <1>5, <1>6, <1>7, <1>9, <1>10, <1>11, <1>12, <1>13, <1>14, <1>15, <1>16, <1>17
     DEF StepDone, Touched

-----------------------------------------------------------------------------
(* How a script moves on *)

\* The step that the script is at is taken; a step that clears the records is
\* none of those that follow.
Acts == run = "running" /\ StepDone /\ ~Cleared

\* What is taken then is no more than what was and this step.
Onward ==
  /\ plan' = plan /\ Tags' = Tags /\ Verifiers' = Verifiers
  /\ Command' \in Tag /\ Rank[Command] <= Rank[Command']
  /\ \A tag \in Tags : \A k \in 1..Len(Steps(tag)) : Taken(tag, k)' => Taken(tag, k) \/ At(tag, k)
  /\ At("payment", 2)' /\ run' = "running" => At("payment", 1)

\* The steps that the contracts are recorded in, and copied.
OwnStep(n) ==
  \/ /\ n = "OcnVoteToken" /\ TagOf(n) = "votetoken"
     /\ RecordedAt(n) = 2 /\ CopiedAt(TagOf(n)) = 4
  \/ /\ n = "Timelock" /\ TagOf(n) = "timelock"
     /\ RecordedAt(n) = 1 /\ CopiedAt(TagOf(n)) = 2
  \/ /\ n = "OcnGovernor" /\ TagOf(n) = "governor"
     /\ RecordedAt(n) = 1 /\ CopiedAt(TagOf(n)) = 2
  \/ /\ n = "EuroStableCoin" /\ TagOf(n) = "stablecoin"
     /\ RecordedAt(n) = 1 /\ CopiedAt(TagOf(n)) = 2
  \/ /\ n = "MockERC20" /\ TagOf(n) = "mockstablecoin"
     /\ RecordedAt(n) = 1 /\ CopiedAt(TagOf(n)) = 2
  \/ /\ n = "OcnPaymentManager" /\ TagOf(n) = "payment"
     /\ RecordedAt(n) = 2 /\ CopiedAt(TagOf(n)) = 3
  \/ /\ n = "CertificateVerifier" /\ TagOf(n) = "certificateverifier"
     /\ RecordedAt(n) = 1 /\ CopiedAt(TagOf(n)) = 2
  \/ /\ n = "EMSPOracle" /\ TagOf(n) = "oracles"
     /\ RecordedAt(n) = 1 /\ CopiedAt(TagOf(n)) = 3
  \/ /\ n = "CPOOracle" /\ TagOf(n) = "oracles"
     /\ RecordedAt(n) = 2 /\ CopiedAt(TagOf(n)) = 3
  \/ /\ n = "PartyRegistrationValidator" /\ TagOf(n) = "partyregistrationvalidator"
     /\ RecordedAt(n) = 1 /\ CopiedAt(TagOf(n)) = 2
  \/ /\ n = "OcnRegistry" /\ TagOf(n) = "registry"
     /\ RecordedAt(n) = 1 /\ CopiedAt(TagOf(n)) = 2

\* Every contract has one.
LEMMA OwnStepOf == ASSUME NEW n \in Name PROVE OwnStep(n)
<1>1. CASE n = "OcnVoteToken"
  <2>1. TagOf(n) = "votetoken"
    BY <1>1 DEF TagOf
  <2> QED BY <1>1, <2>1 DEF RecordedAt, CopiedAt, OwnStep
<1>2. CASE n = "Timelock"
  <2>1. TagOf(n) = "timelock"
    BY <1>2 DEF TagOf
  <2> QED BY <1>2, <2>1 DEF RecordedAt, CopiedAt, OwnStep
<1>3. CASE n = "OcnGovernor"
  <2>1. TagOf(n) = "governor"
    BY <1>3 DEF TagOf
  <2> QED BY <1>3, <2>1 DEF RecordedAt, CopiedAt, OwnStep
<1>4. CASE n = "EuroStableCoin"
  <2>1. TagOf(n) = "stablecoin"
    BY <1>4 DEF TagOf
  <2> QED BY <1>4, <2>1 DEF RecordedAt, CopiedAt, OwnStep
<1>5. CASE n = "MockERC20"
  <2>1. TagOf(n) = "mockstablecoin"
    BY <1>5 DEF TagOf
  <2> QED BY <1>5, <2>1 DEF RecordedAt, CopiedAt, OwnStep
<1>6. CASE n = "OcnPaymentManager"
  <2>1. TagOf(n) = "payment"
    BY <1>6 DEF TagOf
  <2> QED BY <1>6, <2>1 DEF RecordedAt, CopiedAt, OwnStep
<1>7. CASE n = "CertificateVerifier"
  <2>1. TagOf(n) = "certificateverifier"
    BY <1>7 DEF TagOf
  <2> QED BY <1>7, <2>1 DEF RecordedAt, CopiedAt, OwnStep
<1>8. CASE n = "EMSPOracle"
  <2>1. TagOf(n) = "oracles"
    BY <1>8 DEF TagOf
  <2> QED BY <1>8, <2>1 DEF RecordedAt, CopiedAt, OwnStep
<1>9. CASE n = "CPOOracle"
  <2>1. TagOf(n) = "oracles"
    BY <1>9 DEF TagOf
  <2> QED BY <1>9, <2>1 DEF RecordedAt, CopiedAt, OwnStep
<1>10. CASE n = "PartyRegistrationValidator"
  <2>1. TagOf(n) = "partyregistrationvalidator"
    BY <1>10 DEF TagOf
  <2> QED BY <1>10, <2>1 DEF RecordedAt, CopiedAt, OwnStep
<1>11. CASE n = "OcnRegistry"
  <2>1. TagOf(n) = "registry"
    BY <1>11 DEF TagOf
  <2> QED BY <1>11, <2>1 DEF RecordedAt, CopiedAt, OwnStep
<1> QED BY <1>1, <1>2, <1>3, <1>4, <1>5, <1>6, <1>7, <1>8, <1>9, <1>10, <1>11 DEF Name

\* It is recorded before it is copied.
LEMMA OwnSteps ==
  ASSUME PlanShape, plan \in Plan, NEW n \in Name
  PROVE  /\ TagOf(n) \in Tag /\ RecordedAt(n) \in Nat \ {0} /\ RecordedAt(n) < CopiedAt(TagOf(n))
         /\ CopiedAt(TagOf(n)) \in 1..Len(Steps(TagOf(n))) /\ RecordedAt(n) \in 1..Len(Steps(TagOf(n)))
<1>1. /\ TagOf(n) \in Tag /\ RecordedAt(n) \in Nat \ {0} /\ RecordedAt(n) < CopiedAt(TagOf(n))
      /\ CopiedAt(TagOf(n)) \in Nat
  BY OwnStepOf DEF OwnStep, Tag
<1>2. Len(Steps("registry")) >= 2
  BY RegistryStepsInFull DEF Steps
<1>3. Len(Steps(TagOf(n))) \in Nat /\ CopiedAt(TagOf(n)) <= Len(Steps(TagOf(n)))
  BY <1>1, <1>2, StepsInFull, StepCounts, OwnStepOf DEF OwnStep
<1> QED BY <1>1, <1>3

NewlyTaken(tag, k) == Taken(tag, k)' => Taken(tag, k) \/ At(tag, k)

\* The steps the invariant speaks of, each newly taken only at that step.
LEMMA StepsTaken ==
  ASSUME PlanShape, plan \in Plan, Onward
  PROVE  /\ NewlyTaken("preflight", 1) /\ NewlyTaken("votetoken", 1) /\ NewlyTaken("votetoken", 3)
         /\ NewlyTaken("setup", 1) /\ NewlyTaken("setup", 2) /\ NewlyTaken("setup", 3)
         /\ NewlyTaken("payment", 2) /\ NewlyTaken("payment", 4) /\ NewlyTaken("subgraph", 1)
         /\ \A i \in 1..Verifiers : NewlyTaken("registry", i + 2)
         /\ NewlyTaken("registry", Verifiers + 3) /\ NewlyTaken("registry", Verifiers + 4)
         /\ NewlyTaken("registry", Verifiers + 5) /\ NewlyTaken("registry", Verifiers + 6)
         /\ \A n \in Name : NewlyTaken(TagOf(n), RecordedAt(n)) /\ NewlyTaken(TagOf(n), CopiedAt(TagOf(n)))
<1>1. ASSUME NEW tag, NEW k \in 1..Len(Steps(tag)) PROVE NewlyTaken(tag, k)
  <2>1. CASE tag \in Tags
    BY <2>1 DEF Onward, NewlyTaken
  <2>2. CASE tag \notin Tags
    BY <2>2 DEF Onward, NewlyTaken, Taken
  <2> QED BY <2>1, <2>2
<1>2. Len(Steps("registry")) = Verifiers + 6 /\ Verifiers \in Nat
  BY RegistryStepsInFull DEF Steps
<1>3. /\ 1 \in 1..Len(Steps("preflight")) /\ {1, 3} \subseteq 1..Len(Steps("votetoken"))
      /\ {1, 2, 3} \subseteq 1..Len(Steps("setup")) /\ {2, 4} \subseteq 1..Len(Steps("payment"))
      /\ 1 \in 1..Len(Steps("subgraph"))
  BY StepsInFull
<1>4. /\ \A i \in 1..Verifiers : i + 2 \in 1..Len(Steps("registry"))
      /\ {Verifiers + 3, Verifiers + 4, Verifiers + 5, Verifiers + 6} \subseteq 1..Len(Steps("registry"))
  BY <1>2
<1> QED BY <1>1, <1>3, <1>4, OwnSteps

\* What is done where.
LEMMA DoneAt ==
  ASSUME PlanShape, TypeOK, Acts
  PROVE  /\ At("preflight", 1) => Checked
         /\ ~At("votetoken", 1)
         /\ At("votetoken", 3) => Delegated
         /\ At("setup", 1) => ProposerGranted
         /\ At("setup", 2) => ExecutorGranted
         /\ At("setup", 3) => AdminRevoked
         /\ At("payment", 1) => Proxied
         /\ At("payment", 2) => Saved
         /\ At("payment", 4) => HandsOver("OcnPaymentManager", "payment", 4)
         /\ \A i \in 1..Verifiers : At("registry", i + 2) => VerifierAllowed(i)
         /\ At("registry", Verifiers + 3) => OracleGiven("CPO", 3)
         /\ At("registry", Verifiers + 4) => OracleGiven("EMSP", 4)
         /\ At("registry", Verifiers + 5) => HandsOver("PartyRegistrationValidator", "registry", Verifiers + 5)
         /\ At("registry", Verifiers + 6) => HandsOver("OcnRegistry", "registry", Verifiers + 6)
         /\ At("subgraph", 1) => Written
         /\ \A n \in Name \ {"OcnPaymentManager"} : At(TagOf(n), RecordedAt(n)) => Creates(n)
         /\ \A n \in Name : At(TagOf(n), CopiedAt(TagOf(n))) => CopiedNow
<1>0. Verifiers \in Nat
  BY RegistryStepsInFull DEF TypeOK
<1>1. StepDone /\ ~Cleared
  BY DEF Acts
<1>2. \A n \in Name : OwnStep(n)
  BY OwnStepOf
<1>3. /\ Checked => At("preflight", 1)
      /\ Proxied => At("payment", 1)
      /\ Saved => At("payment", 2)
      /\ Written => At("subgraph", 1)
      /\ Delegated => At("votetoken", 3)
      /\ ProposerGranted => At("setup", 1)
      /\ ExecutorGranted => At("setup", 2)
      /\ AdminRevoked => At("setup", 3)
      /\ \A i \in 1..Verifiers : VerifierAllowed(i) => At("registry", i + 2)
      /\ OracleGiven("CPO", 3) => At("registry", Verifiers + 3)
      /\ OracleGiven("EMSP", 4) => At("registry", Verifiers + 4)
      /\ \A n, tag, k : HandsOver(n, tag, k) => At(tag, k)
  BY DEF Checked, Proxied, Saved, Written, Delegated, ProposerGranted, ExecutorGranted, AdminRevoked,
         VerifierAllowed, Allowing, OracleGiven, HandsOver
<1>4. \A n \in Name : Creates(n) => At(TagOf(n), RecordedAt(n))
  BY DEF Creates, Deploying
<1>5. ASSUME CopiedNow PROVE Command # "setup" /\ step = CopiedAt(Command)
  <2>1. CurrentStep = <<"copy", "src">> /\ step = CopiedAt(Command)
    BY <1>5 DEF CopiedNow, Copying
  <2>2. ASSUME Command = "setup" PROVE FALSE
    <3>1. step = 2
      BY <2>1, <2>2 DEF CopiedAt
    <3> QED BY <2>1, <2>2, <3>1, StepsInFull DEF CurrentStep
  <2> QED BY <2>1, <2>2
<1>6. /\ CopiedAt("votetoken") = 4 /\ CopiedAt("payment") = 3 /\ CopiedAt("oracles") = 3
      /\ \A tag : tag \notin {"votetoken", "payment", "oracles"} => CopiedAt(tag) = 2
  BY DEF CopiedAt
<1>7. \A n \in Name : CopiedNow /\ At(TagOf(n), RecordedAt(n)) => FALSE
  BY <1>2, <1>5, <1>6 DEF OwnStep, At
<1>8. CASE \E n \in Name \ {"OcnPaymentManager"} : Creates(n)
  <2>1. PICK n \in Name \ {"OcnPaymentManager"} : Creates(n)
    BY <1>8
  <2>2. At(TagOf(n), RecordedAt(n)) /\ OwnStep(n)
    BY <1>2, <1>4, <2>1
  <2>3. ASSUME NEW m \in Name, At(TagOf(m), RecordedAt(m)) PROVE m = n
    BY <1>2, <2>2, <2>3 DEF OwnStep, At
  <2>4. \A m \in Name : ~At(TagOf(m), CopiedAt(TagOf(m)))
    BY <1>2, <2>2 DEF OwnStep, At
  <2> QED BY <1>0, <2>1, <2>2, <2>3, <2>4 DEF OwnStep, At
<1>9. CASE CopiedNow
  BY <1>0, <1>5, <1>6, <1>7, <1>9 DEF At
<1>10. ASSUME ~CopiedNow, ~\E n \in Name \ {"OcnPaymentManager"} : Creates(n)
       PROVE  /\ \A n \in Name : ~At(TagOf(n), CopiedAt(TagOf(n)))
              /\ \A n \in Name \ {"OcnPaymentManager"} : ~At(TagOf(n), RecordedAt(n))
  BY <1>0, <1>1, <1>2, <1>3, <1>10 DEF StepDone, OwnStep, At
<1> QED BY <1>0, <1>1, <1>3, <1>8, <1>9, <1>10 DEF StepDone, At

-----------------------------------------------------------------------------
(* Steps that are done keep what the steps before them left *)

\* Names, ranks and places are the same in every state.
LEMMA Fixed ==
  /\ Name' = Name /\ Rank' = Rank
  /\ \A n : TagOf(n)' = TagOf(n) /\ RecordedAt(n)' = RecordedAt(n) /\ CopiedAt(n)' = CopiedAt(n)
BY DEF Name, Rank, TagOf, RecordedAt, CopiedAt

\* Only its own step records a contract anew.
LEMMA Settled ==
  ASSUME PlanShape, TypeOK, Onward, Acts, NEW n \in Name
  PROVE  records'[n] = records[n] \/ At(TagOf(n), RecordedAt(n))
<1>1. Touched
  BY Touches DEF Acts
<1>2. CASE n = "OcnPaymentManager"
  <2>1. OwnStep(n)
    BY OwnStepOf
  <2> QED BY <1>1, <1>2, <2>1 DEF Touched, Untouched, Saved, HandsOver, Same, Gives, OwnStep, At
<1>3. CASE n # "OcnPaymentManager"
  BY <1>1, <1>3 DEF Touched, Untouched, Creates, Deploying, Gives
<1> QED BY <1>2, <1>3

\* What a command needs is not recorded anew once it is at work.
LEMMA Early ==
  ASSUME PlanShape, TypeOK, Onward, Acts, NEW n \in Name, NEW m \in Name,
         Rank[TagOf(n)] <= Rank[Command], Rank[TagOf(m)] < Rank[TagOf(n)]
  PROVE  records'[m] = records[m]
<1>1. TagOf(m) \in Tag /\ TagOf(n) \in Tag /\ Command \in Tag
  BY OwnSteps, CommandIsTag DEF TypeOK
<1>2. Rank[TagOf(m)] \in Nat /\ Rank[TagOf(n)] \in Nat /\ Rank[Command] \in Nat
  BY <1>1, RanksNat
<1>3. ~At(TagOf(m), RecordedAt(m))
  BY <1>2 DEF At
<1> QED BY <1>3, Settled

\* The ranks of the commands that record the contracts.
LEMMA Ranking ==
  /\ Rank[TagOf("OcnVoteToken")] = 1 /\ Rank[TagOf("Timelock")] = 2 /\ Rank[TagOf("OcnGovernor")] = 3
  /\ Rank[TagOf("EuroStableCoin")] = 5 /\ Rank[TagOf("MockERC20")] = 5
  /\ Rank[TagOf("OcnPaymentManager")] = 6 /\ Rank[TagOf("CertificateVerifier")] = 7
  /\ Rank[TagOf("EMSPOracle")] = 8 /\ Rank[TagOf("CPOOracle")] = 8
  /\ Rank[TagOf("PartyRegistrationValidator")] = 9 /\ Rank[TagOf("OcnRegistry")] = 10
BY OwnStepOf DEF OwnStep, Name, Rank

\* So the arguments of its constructor stay what they are.
LEMMA ArgsKept ==
  ASSUME PlanShape, TypeOK, Onward, Acts, NEW n \in Name, Rank[TagOf(n)] <= Rank[Command]
  PROVE  Args(n)' = Args(n)
<1>1. \A m \in Name : Rank[TagOf(m)] < Rank[TagOf(n)] => records'[m] = records[m]
  BY Early
<1> QED BY <1>1, Ranking DEF Args, Name

\* Each part of Followed is kept by a step: what is recorded has the right arguments,
LEMMA MadeKept ==
  ASSUME PlanShape, TypeOK, Shape, Onward, Acts, Made
  PROVE  Made'
<1> SUFFICES ASSUME NEW n \in Name, records'[n] # 0
             PROVE  /\ TagOf(n) \in Tags /\ Rank[TagOf(n)] <= Rank[Command']
                    /\ 0 \notin Range(Args(n)')
                    /\ n # "OcnPaymentManager" => Contract(n)'.args = Args(n)'
  BY Fixed DEF Made, Recorded, Onward
<1>1. TagOf(n) \in Tag /\ Command \in Tag /\ Command' \in Tag /\ OwnStep(n)
  BY OwnSteps, CommandIsTag, OwnStepOf DEF TypeOK, Onward
<1>2. Rank[TagOf(n)] \in Nat /\ Rank[Command] \in Nat /\ Rank[Command'] \in Nat
  BY <1>1, RanksNat
<1>3. /\ TagOf(n) \in Tags /\ Rank[TagOf(n)] <= Rank[Command] /\ 0 \notin Range(Args(n))
      /\ n # "OcnPaymentManager" => Contract(n)'.args = Args(n)
  <2>1. CASE n = "OcnPaymentManager"
    <3>1. 0 \notin Range(Args(n))
      BY <2>1 DEF Args, Range
    <3>2. CASE Recorded(n)
      BY <2>1, <3>1, <3>2 DEF Made
    <3>3. CASE ~Recorded(n)
      <4>1. Command = TagOf(n)
        BY <3>3, Settled DEF Recorded, At
      <4> QED BY <1>2, <2>1, <3>1, <4>1, CommandIsTag
    <3> QED BY <3>2, <3>3
  <2>2. CASE n # "OcnPaymentManager"
    <3>1. Untouched(n) \/ Creates(n) \/ \E roles : Gives(n, roles)
      BY <2>2, Touches DEF Acts, Touched
    <3>2. CASE Recorded(n) /\ Contract(n)'.args = Contract(n).args
      BY <2>2, <3>2 DEF Made
    <3>3. CASE Makes(n) /\ Creates(n)
      <4>1. Command = TagOf(n) /\ 0 \notin Range(Args(n))
        BY <3>3 DEF Creates, Deploying, At
      <4>2. Contract(n)'.args = Args(n)
        BY <3>3 DEF Makes, NewContract
      <4> QED BY <1>2, <4>1, <4>2, CommandIsTag
    <3>4. Untouched(n) => Recorded(n) /\ Contract(n)'.args = Contract(n).args
      BY DEF Untouched, Recorded
    <3>5. Creates(n) => Makes(n) \/ (Recorded(n) /\ Contract(n)'.args = Contract(n).args)
      BY DEF Creates, Keeps, Contract
    <3> QED BY <3>1, <3>2, <3>3, <3>4, <3>5 DEF Gives
  <2> QED BY <2>1, <2>2
<1>4. Args(n)' = Args(n)
  BY <1>3, ArgsKept
<1> QED BY <1>2, <1>3, <1>4 DEF Onward

\* While a script runs, what it has taken lies before where it is.
LEMMA TakenBefore ==
  ASSUME PlanShape, TypeOK, run = "running"
  PROVE  /\ \A tag : \A k : Taken(tag, k) => (tag = Command /\ k < step) \/ Rank[tag] < Rank[Command]
         /\ \A tag : \A k : Taken(tag, k) => tag \in Tag
         /\ \A k : k < step => Taken(Command, k)
<1>1. plan \in Plan /\ Place = step /\ Command \in Tags
  BY CommandIsTag DEF TypeOK, Place
<1>2. \A tag \in Tags : tag \in Tag
  BY <1>1, CommandsOrdered DEF Ordered, Tags
<1> QED BY <1>1, <1>2 DEF Taken

\* is recorded by the step that is to record it,
LEMMA DeployedKept ==
  ASSUME PlanShape, TypeOK, Shape, Onward, Acts, ProxyLast, AllRecorded
  PROVE  AllRecorded'
<1> SUFFICES ASSUME NEW n \in Name, Taken(TagOf(n), RecordedAt(n))'
             PROVE  records'[n] # 0
  BY Fixed DEF AllRecorded, Recorded
<1>1. plan \in Plan /\ run = "running" /\ Len(chain) \in Nat /\ OwnStep(n)
  BY OwnStepOf DEF TypeOK, Acts, Shape
<1>2. Taken(TagOf(n), RecordedAt(n)) \/ At(TagOf(n), RecordedAt(n))
  BY <1>1, StepsTaken, Fixed DEF NewlyTaken
<1>3. CASE At(TagOf(n), RecordedAt(n)) /\ n # "OcnPaymentManager"
  BY <1>1, <1>3, DoneAt DEF Creates, Makes, Keeps, Recorded
<1>4. CASE At(TagOf(n), RecordedAt(n)) /\ n = "OcnPaymentManager"
  BY <1>1, <1>4, DoneAt DEF Saved, ProxyLast, OwnStep
<1>5. CASE ~At(TagOf(n), RecordedAt(n))
  BY <1>2, <1>5, Settled DEF AllRecorded, Recorded
<1> QED BY <1>3, <1>4, <1>5

\* and copied by the step that is to copy it;
LEMMA CopiedKept ==
  ASSUME PlanShape, TypeOK, Shape, Onward, Acts, AllRecorded, Copied
  PROVE  Copied'
<1> SUFFICES ASSUME NEW n \in Name, Taken(TagOf(n), CopiedAt(TagOf(n)))'
             PROVE  copies'[n] = records'[n]
  BY Fixed DEF Copied
<1> DEFINE tag == TagOf(n)
<1>1. plan \in Plan /\ run = "running" /\ OwnStep(n)
  BY OwnStepOf DEF TypeOK, Acts
<1>2. Taken(tag, CopiedAt(tag)) \/ At(tag, CopiedAt(tag))
  BY <1>1, StepsTaken, Fixed DEF NewlyTaken
<1>3. RecordedAt(n) < CopiedAt(tag) /\ RecordedAt(n) \in Nat /\ CopiedAt(tag) \in Nat /\ tag \in Tag
  BY <1>1, OwnSteps
<1>4. CASE At(tag, CopiedAt(tag))
  <2>1. CopiedNow
    BY <1>4, DoneAt
  <2>2. Taken(tag, RecordedAt(n))
    BY <1>1, <1>3, <1>4, TakenBefore DEF At
  <2>3. Recorded(n)
    BY <2>2 DEF AllRecorded
  <2> QED BY <2>1, <2>3 DEF CopiedNow, CopiesAll, Keeps
<1>5. CASE Taken(tag, CopiedAt(tag))
  <2>1. copies[n] = records[n]
    BY <1>5 DEF Copied
  <2>2. ~At(tag, RecordedAt(n))
    <3>1. (tag = Command /\ CopiedAt(tag) < step) \/ Rank[tag] < Rank[Command]
      BY <1>1, <1>5, TakenBefore
    <3>2. Rank[tag] \in Nat
      BY <1>3, RanksNat
    <3> QED BY <1>3, <3>1, <3>2 DEF At
  <2>3. records'[n] = records[n]
    BY <2>2, Settled
  <2>4. copies'[n] = copies[n] \/ copies'[n] = records[n]
    BY DEF Acts, StepDone, Checked, Cleared, Proxied, Saved, CopiedNow, CopiesAll, Written, Creates, Delegated,
           ProposerGranted, ExecutorGranted, AdminRevoked, VerifierAllowed, OracleGiven, HandsOver, Same,
           placeVars
  <2> QED BY <2>1, <2>3, <2>4
<1> QED BY <1>2, <1>4, <1>5

\* the vote token,
LEMMA VoteTokenKept ==
  ASSUME PlanShape, TypeOK, Shape, Onward, Acts, VoteTokenRoles
  PROVE  VoteTokenRoles'
<1> DEFINE n == "OcnVoteToken"
           roles == Contract(n).roles
<1> SUFFICES ASSUME records'[n] # 0
             PROVE  /\ roles' \subseteq {<<"delegate", Deployer>>}
                    /\ Taken("votetoken", 3)' => <<"delegate", Deployer>> \in roles'
  BY DEF VoteTokenRoles, Recorded
<1>1. plan \in Plan /\ run = "running" /\ n \in Name
  BY DEF TypeOK, Acts, Name
<1>2. Taken("votetoken", 3)' => Taken("votetoken", 3) \/ At("votetoken", 3)
  BY <1>1, StepsTaken DEF NewlyTaken
<1>3. At("votetoken", 3) => Delegated
  BY DoneAt
<1>4. Untouched(n) \/ Creates(n) \/ Delegated
  BY Touches DEF Acts, Touched
<1>5. CASE Delegated
  BY <1>5 DEF Delegated, Same, Gives, VoteTokenRoles
<1>6. CASE Untouched(n) /\ ~Delegated
  BY <1>2, <1>3, <1>6 DEF Untouched, VoteTokenRoles, Recorded
<1>7. CASE Creates(n) /\ ~Delegated
  <2>1. At("votetoken", 2)
    BY <1>7 DEF Creates, Deploying, TagOf, RecordedAt
  <2>2. ~Taken("votetoken", 3)
    BY <1>1, <2>1, TakenBefore, RanksNat DEF At, Tag
  <2>3. CASE Recorded(n) /\ Keeps
    BY <1>2, <1>3, <1>7, <2>2, <2>3 DEF Keeps, Contract, VoteTokenRoles
  <2>4. CASE Makes(n)
    BY <1>2, <1>3, <1>7, <2>2, <2>4 DEF Makes, NewContract, InitialRoles
  <2> QED BY <1>7, <2>3, <2>4 DEF Creates
<1> QED BY <1>4, <1>5, <1>6, <1>7

\* the timelock,
LEMMA TimelockKept ==
  ASSUME DeploymentAssumption, TypeOK, Shape, Onward, Acts, TimelockRoles
  PROVE  TimelockRoles'
<1> DEFINE roles == Contract("Timelock").roles
           timelock == records["Timelock"]
           governor == records["OcnGovernor"]
           base(t) == {<<"admin", t>>, <<"admin", Deployer>>}
           given(g) == {<<"proposer", g>>, <<"executor", Anyone>>}
<1> SUFFICES ASSUME timelock' # 0
             PROVE  /\ <<"admin", timelock'>> \in roles' /\ roles' \subseteq base(timelock') \union given(governor')
                    /\ Rank[Command'] < 4 => roles' = base(timelock')
                    /\ Taken("setup", 1)' => <<"proposer", governor'>> \in roles'
                    /\ Taken("setup", 2)' => <<"executor", Anyone>> \in roles'
                    /\ Taken("setup", 3)' => <<"admin", Deployer>> \notin roles'
  <2>1. Rank["setup"] = 4
    BY DEF Rank
  <2> QED BY <2>1, Fixed DEF TimelockRoles, Recorded
<1>1. /\ PlanShape /\ plan \in Plan /\ run = "running" /\ {"Timelock", "OcnGovernor"} \subseteq Name
      /\ Command \in Tag /\ Command' \in Tag /\ Rank[Command] <= Rank[Command']
  BY CommandIsTag DEF DeploymentAssumption, TypeOK, Acts, Name, Onward
<1>2. Rank[Command] \in Nat /\ Rank[Command'] \in Nat /\ Rank["setup"] = 4
  BY <1>1, RanksNat DEF Rank
<1>3. /\ Taken("setup", 1)' => Taken("setup", 1) \/ At("setup", 1)
      /\ Taken("setup", 2)' => Taken("setup", 2) \/ At("setup", 2)
      /\ Taken("setup", 3)' => Taken("setup", 3) \/ At("setup", 3)
  BY <1>1, StepsTaken DEF NewlyTaken
<1>4. \A k : Taken("setup", k) => 4 <= Rank[Command]
  BY <1>1, <1>2, TakenBefore
<1>5. \A k : At("setup", k) => Rank[Command] = 4
  BY <1>2 DEF At
<1>6. /\ At("setup", 1) => ProposerGranted
      /\ At("setup", 2) => ExecutorGranted
      /\ At("setup", 3) => AdminRevoked
  BY <1>1, DoneAt
<1>7. timelock \in Nat /\ timelock # Deployer
  BY <1>1 DEF Shape, DeploymentAssumption
<1>8. Recorded("Timelock") =>
        /\ <<"admin", timelock>> \in roles /\ roles \subseteq base(timelock) \union given(governor)
        /\ Rank[Command] < 4 => roles = base(timelock)
        /\ Taken("setup", 1) => <<"proposer", governor>> \in roles
        /\ Taken("setup", 2) => <<"executor", Anyone>> \in roles
        /\ Taken("setup", 3) => <<"admin", Deployer>> \notin roles
  BY <1>2 DEF TimelockRoles
<1>9. CASE ProposerGranted
  <2>1. At("setup", 1) /\ records' = records /\ Recorded("Timelock")
        /\ roles' = roles \union {<<"proposer", governor>>}
    BY <1>9 DEF ProposerGranted, Same, Gives
  <2>2. ~At("setup", 2) /\ ~At("setup", 3)
    BY <2>1 DEF At
  <2> QED BY <1>1, <1>2, <1>3, <1>5, <1>8, <2>1, <2>2
<1>10. CASE ExecutorGranted
  <2>1. At("setup", 2) /\ records' = records /\ Recorded("Timelock")
        /\ roles' = roles \union {<<"executor", Anyone>>}
    BY <1>10 DEF ExecutorGranted, Same, Gives
  <2>2. ~At("setup", 1) /\ ~At("setup", 3)
    BY <2>1 DEF At
  <2> QED BY <1>1, <1>2, <1>3, <1>5, <1>8, <2>1, <2>2
<1>11. CASE AdminRevoked
  <2>1. At("setup", 3) /\ records' = records /\ Recorded("Timelock")
        /\ roles' = roles \ {<<"admin", Deployer>>}
    BY <1>11 DEF AdminRevoked, Same, Gives
  <2>2. ~At("setup", 1) /\ ~At("setup", 2)
    BY <2>1 DEF At
  <2> QED BY <1>1, <1>2, <1>3, <1>5, <1>7, <1>8, <2>1, <2>2
<1>12. ASSUME Recorded("Timelock"), timelock' = timelock, roles' = roles,
              ~ProposerGranted, ~ExecutorGranted, ~AdminRevoked
       PROVE  /\ <<"admin", timelock'>> \in roles' /\ roles' \subseteq base(timelock') \union given(governor')
              /\ Rank[Command'] < 4 => roles' = base(timelock')
              /\ Taken("setup", 1)' => <<"proposer", governor'>> \in roles'
              /\ Taken("setup", 2)' => <<"executor", Anyone>> \in roles'
              /\ Taken("setup", 3)' => <<"admin", Deployer>> \notin roles'
  <2>1. governor' = governor \/ At("governor", 1)
    <3>1. TagOf("OcnGovernor") = "governor" /\ RecordedAt("OcnGovernor") = 1
      BY DEF TagOf, RecordedAt
    <3> QED BY <1>1, <3>1, Settled
  <2>2. \A k \in {1, 2, 3} : Taken("setup", k)' => Taken("setup", k)
    BY <1>3, <1>6, <1>12
  <2>3. CASE governor' = governor
    BY <1>1, <1>2, <1>8, <1>12, <2>2, <2>3
  <2>4. CASE At("governor", 1)
    <3>1. Rank[Command] = 3
      BY <2>4 DEF At, Rank
    <3> QED BY <1>2, <1>4, <1>8, <1>12, <2>2, <3>1
  <2> QED BY <2>1, <2>3, <2>4
<1>13. CASE Untouched("Timelock") /\ ~ProposerGranted /\ ~ExecutorGranted /\ ~AdminRevoked
  <2>1. Recorded("Timelock") /\ timelock' = timelock /\ roles' = roles
    BY <1>13 DEF Untouched, Recorded
  <2> QED BY <1>12, <1>13, <2>1
<1>14. CASE Creates("Timelock") /\ ~ProposerGranted /\ ~ExecutorGranted /\ ~AdminRevoked
  <2>1. CASE Recorded("Timelock") /\ Keeps
    <3>1. timelock' = timelock /\ roles' = roles
      BY <2>1 DEF Keeps, Contract
    <3> QED BY <1>12, <1>14, <2>1, <3>1
  <2>2. CASE Makes("Timelock")
    <3>1. timelock' = Len(chain) + 1 /\ roles' = base(timelock')
      BY <2>2 DEF Makes, NewContract, InitialRoles
    <3>2. Command = "timelock"
      BY <1>14 DEF Creates, Deploying, At, TagOf
    <3>3. Rank[Command] = 2
      BY <3>2 DEF Rank
    <3> QED BY <1>2, <1>3, <1>4, <1>5, <3>1, <3>3
  <2> QED BY <1>14, <2>1, <2>2 DEF Creates
<1>15. Touched
  BY Touches DEF Acts
<1> QED BY <1>9, <1>10, <1>11, <1>13, <1>14, <1>15 DEF Touched

\* the proxy not recorded yet,
LEMMA ProxyLastKept ==
  ASSUME PlanShape, TypeOK, Onward, Acts
  PROVE  ProxyLast'
<1> SUFFICES ASSUME At("payment", 2)', run' = "running"
             PROVE  ProxyLast'
  BY DEF ProxyLast
<1>1. At("payment", 1) /\ plan' = plan
  BY DEF Onward
<1>2. Proxied
  BY <1>1, DoneAt
<1>3. Stablecoin' = Stablecoin
  BY <1>1, <1>2 DEF Proxied, Stablecoin
<1>4. /\ chain'[Len(chain')] = NewContract("OcnPaymentManager", <<Stablecoin>>) /\ Len(chain') # 0
      /\ Stablecoin # 0
  BY <1>2 DEF Proxied
<1>5. InitialRoles("OcnPaymentManager") = PaymentRoles /\ PaymentRoles' = PaymentRoles
  BY DEF InitialRoles, PaymentRoles
<1> QED BY <1>3, <1>4, <1>5 DEF ProxyLast, NewContract

\* the payment manager,
LEMMA PaymentManagerKept ==
  ASSUME DeploymentAssumption, TypeOK, Shape, Onward, Acts, ProxyLast, PaymentManagerMade
  PROVE  PaymentManagerMade'
<1> DEFINE pm == "OcnPaymentManager"
           before == {"OcnGovernor", "MockERC20", "EuroStableCoin"}
           moved(t) == {<<"admin", t>>, <<"upgrader", Deployer>>}
           T == records["Timelock"]
<1> SUFFICES ASSUME Taken("payment", 2)'
             PROVE  /\ Contract(pm)'.args = <<Stablecoin'>> /\ Stablecoin' # 0
                    /\ Contract(pm)'.roles \in {PaymentRoles, moved(T')}
                    /\ Taken("payment", 4)' => Contract(pm)'.roles = moved(T')
                    /\ \A n \in before : records'[n] < records'[pm]
  BY DEF PaymentManagerMade, PaymentRoles, PaymentRolesMoved
<1>1. /\ PlanShape /\ plan \in Plan /\ run = "running" /\ plan' = plan
      /\ before \union {pm, "Timelock"} \subseteq Name
      /\ Command \in Tag /\ Rank[Command] \in Nat
  BY CommandIsTag, RanksNat DEF DeploymentAssumption, TypeOK, Acts, Name, Onward
<1>2. Taken("payment", 2) \/ At("payment", 2)
  BY <1>1, StepsTaken DEF NewlyTaken
<1>3. Taken("payment", 4)' => Taken("payment", 4) \/ At("payment", 4)
  BY <1>1, StepsTaken DEF NewlyTaken
<1>4. TagOf(pm) = "payment" /\ Rank["payment"] = 6
  BY DEF TagOf, Rank
<1>5. 6 <= Rank[Command]
  BY <1>1, <1>2, <1>4, TakenBefore DEF At
<1>6. \A n \in before \union {"Timelock"} : records'[n] = records[n]
  <2>1. \A n \in before \union {"Timelock"} : Rank[TagOf(n)] < Rank[TagOf(pm)] /\ Rank[TagOf(pm)] <= Rank[Command]
    BY <1>4, <1>5, Ranking
  <2> QED BY <1>1, <2>1, Early
<1>7. Stablecoin' = Stablecoin
  BY <1>1, <1>6 DEF Stablecoin
<1>8. T \in Nat /\ T # Deployer
  BY <1>1 DEF Shape, DeploymentAssumption
<1>9. At("payment", 4) => HandsOver(pm, "payment", 4)
  BY <1>1, DoneAt
<1>10. CASE At("payment", 2)
  <2>1. Saved /\ ~At("payment", 4) /\ ~Taken("payment", 4)
    BY <1>1, <1>10, DoneAt, TakenBefore DEF At
  <2>2. chain' = chain /\ records'[pm] = Len(chain)
    BY <2>1 DEF Saved
  <2>3. /\ chain[Len(chain)] = [name |-> pm, args |-> <<Stablecoin>>, roles |-> PaymentRoles]
        /\ Stablecoin # 0 /\ Len(chain) # 0 /\ Len(chain) \in Nat
    BY <1>1, <1>10 DEF ProxyLast, Shape
  <2>4. \A n \in before : records[n] < Len(chain)
    <3> SUFFICES ASSUME NEW n \in before PROVE records[n] < Len(chain)
      OBVIOUS
    <3>1. CASE Recorded(n)
      <4>1. records[n] \in 1..Len(chain) /\ chain[records[n]].name = n
        BY <1>1, <3>1, ContractIs DEF Contract
      <4> QED BY <2>3, <4>1
    <3>2. CASE ~Recorded(n)
      BY <2>3, <3>2 DEF Recorded
    <3> QED BY <3>1, <3>2
  <2> QED BY <1>3, <1>6, <1>7, <2>1, <2>2, <2>3, <2>4 DEF Contract
<1>11. CASE Taken("payment", 2) /\ ~At("payment", 2)
  <2>1. /\ Contract(pm).args = <<Stablecoin>> /\ Stablecoin # 0
        /\ Contract(pm).roles \in {PaymentRoles, moved(T)}
        /\ Taken("payment", 4) => Contract(pm).roles = moved(T)
        /\ \A n \in before : records[n] < records[pm]
    BY <1>11 DEF PaymentManagerMade, PaymentRolesMoved
  <2>2. Recorded(pm)
    BY <1>1, <2>1 DEF Recorded, Shape
  <2>3. Untouched(pm) \/ HandsOver(pm, "payment", 4)
    BY <1>11, Touches DEF Acts, Touched, Saved
  <2>4. CASE HandsOver(pm, "payment", 4)
    <3>1. /\ records' = records /\ Contract(pm)'.args = Contract(pm).args
          /\ <<"admin", Deployer>> \in Contract(pm).roles
          /\ Contract(pm)'.roles = (Contract(pm).roles \union {<<"admin", T>>}) \ {<<"admin", Deployer>>}
      BY <2>4 DEF HandsOver, Same, Gives
    <3>2. Contract(pm)'.roles = moved(T)
      BY <1>8, <2>1, <3>1 DEF PaymentRoles
    <3> QED BY <1>6, <1>7, <2>1, <3>1, <3>2
  <2>5. CASE Untouched(pm) /\ ~HandsOver(pm, "payment", 4)
    <3>1. records'[pm] = records[pm] /\ Contract(pm)' = Contract(pm) /\ (Taken("payment", 4)' => Taken("payment", 4))
      BY <1>3, <1>9, <2>2, <2>5 DEF Untouched
    <3> QED BY <1>6, <1>7, <2>1, <3>1
  <2> QED BY <2>3, <2>4, <2>5
<1> QED BY <1>2, <1>10, <1>11

\* the registry,
LEMMA RegistryKept ==
  ASSUME DeploymentAssumption, TypeOK, Shape, Onward, Acts, Made, RegistryRoles
  PROVE  RegistryRoles'
<1> DEFINE reg == "OcnRegistry"
           T == records["Timelock"]
           k == Verifiers + 6
<1> SUFFICES ASSUME records'[reg] # 0
             PROVE  /\ Contract(reg)'.roles \in {{<<"admin", Deployer>>}, {<<"admin", T'>>}}
                    /\ Taken("registry", k)' => Contract(reg)'.roles = {<<"admin", T'>>}
  BY DEF RegistryRoles, Recorded, Onward
<1>1. /\ PlanShape /\ plan \in Plan /\ run = "running" /\ {reg, "Timelock"} \subseteq Name /\ Verifiers \in Nat
      /\ Verifiers' = Verifiers
  BY RegistryStepsInFull DEF DeploymentAssumption, TypeOK, Acts, Name, Onward
<1>2. Taken("registry", k)' => Taken("registry", k) \/ At("registry", k)
  BY <1>1, StepsTaken DEF NewlyTaken, Onward
<1>3. At("registry", k) => HandsOver(reg, "registry", k)
  BY <1>1, DoneAt
<1>4. T \in Nat /\ T # Deployer
  BY <1>1 DEF Shape, DeploymentAssumption
<1>5. CASE Recorded(reg) /\ records'[reg] = records[reg] /\ Contract(reg)' = Contract(reg)
           /\ ~HandsOver(reg, "registry", k)
  <2>1. T' = T
    BY <1>1, <1>5, Early, Ranking DEF Made
  <2> QED BY <1>2, <1>3, <1>5, <2>1 DEF RegistryRoles
<1>6. CASE HandsOver(reg, "registry", k)
  <2>1. /\ records' = records /\ Recorded(reg) /\ <<"admin", Deployer>> \in Contract(reg).roles
        /\ Contract(reg)'.roles = (Contract(reg).roles \union {<<"admin", T>>}) \ {<<"admin", Deployer>>}
    BY <1>6 DEF HandsOver, Same, Gives
  <2>2. Contract(reg)'.roles = {<<"admin", T>>}
    BY <1>4, <2>1 DEF RegistryRoles
  <2> QED BY <2>1, <2>2
<1>7. CASE Creates(reg) /\ Makes(reg)
  <2>1. Contract(reg)'.roles = {<<"admin", Deployer>>}
    BY <1>7 DEF Makes, NewContract, InitialRoles
  <2>2. At("registry", 1)
    BY <1>7 DEF Creates, Deploying, TagOf, RecordedAt
  <2>3. ~Taken("registry", k) /\ ~At("registry", k)
    BY <1>1, <2>2, TakenBefore, RanksNat DEF At, Tag
  <2> QED BY <1>2, <2>1, <2>3
<1>8. Untouched(reg) \/ Creates(reg) \/ HandsOver(reg, "registry", k)
  BY Touches DEF Acts, Touched
<1>9. Untouched(reg) => Recorded(reg) /\ records'[reg] = records[reg] /\ Contract(reg)' = Contract(reg)
  BY DEF Untouched, Recorded
<1>10. Creates(reg) /\ ~Makes(reg) => Recorded(reg) /\ records'[reg] = records[reg] /\ Contract(reg)' = Contract(reg)
  BY DEF Creates, Keeps, Contract
<1> QED BY <1>5, <1>6, <1>7, <1>8, <1>9, <1>10

\* the manifest,
LEMMA ManifestKept ==
  ASSUME PlanShape, TypeOK, Onward, Acts
  PROVE  ManifestWritten'
<1> SUFFICES ASSUME Taken("subgraph", 1)' PROVE manifest' = Manifest'
  BY DEF ManifestWritten
<1>1. plan \in Plan /\ run = "running" /\ Command \in Tag /\ step \in 1..Len(Steps(Command)) /\ plan' = plan
  BY CommandIsTag DEF TypeOK, Acts, Onward
<1>2. Taken("subgraph", 1) \/ At("subgraph", 1)
  BY <1>1, StepsTaken DEF NewlyTaken
<1>3. ~Taken("subgraph", 1)
  <2>1. ~(Rank["subgraph"] < Rank[Command])
    BY <1>1 DEF Tag, Rank
  <2>2. Len(Steps("subgraph")) = 1
    BY StepsInFull
  <2>3. ASSUME Taken("subgraph", 1) PROVE FALSE
    <3>1. "subgraph" = Command /\ 1 < step
      BY <1>1, <2>1, <2>3, TakenBefore
    <3>2. step \in 1..1
      BY <1>1, <2>2, <3>1
    <3> QED BY <3>1, <3>2
  <2> QED BY <2>3
<1>4. manifest' = Manifest /\ records' = records
  BY <1>2, <1>3, DoneAt DEF Written, Keeps
<1>5. Manifest' = Manifest
  BY <1>1, <1>4 DEF Manifest, FirstOf, StablecoinSources, BlockNumber, FallbackStartBlock, Indexed
<1> QED BY <1>4, <1>5

\* the oracles recorded,
LEMMA OraclesAre ==
  /\ Oracles \subseteq {<<"CPO", records["CPOOracle"]>>, <<"EMSP", records["EMSPOracle"]>>}
  /\ <<"CPO", records["CPOOracle"]>> \in Oracles <=> ~plan.devChain /\ Recorded("CPOOracle")
  /\ <<"EMSP", records["EMSPOracle"]>> \in Oracles <=> ~plan.devChain /\ Recorded("EMSPOracle")
<1>1. OracleOf("CPO") = "CPOOracle" /\ OracleOf("EMSP") = "EMSPOracle"
  BY DEF OracleOf
<1> QED BY <1>1 DEF Oracles

\* the validator with its verifiers and its oracles,
LEMMA ValidatorKept ==
  ASSUME DeploymentAssumption, TypeOK, Shape, Onward, Acts, Made, ValidatorRoles
  PROVE  ValidatorRoles'
<1> DEFINE prv == "PartyRegistrationValidator"
           roles == Contract(prv).roles
           T == records["Timelock"]
           V == Verifiers
           C == <<"CPO", records["CPOOracle"]>>
           E == <<"EMSP", records["EMSPOracle"]>>
           v(i) == <<"verifier", plan.verifiers[i]>>
           admin(a) == <<"admin", a>>
           Kept ==
             /\ roles' \subseteq {admin(Deployer), admin(T')} \union Allowed' \union Oracles'
             /\ \A i \in 1..V : Taken("registry", i + 2)' => v(i) \in roles'
             /\ Taken("registry", V + 3)' => (C' \in Oracles' => C' \in roles')
             /\ Taken("registry", V + 4)' => (E' \in Oracles' => E' \in roles')
             /\ Taken("registry", V + 5)' => admin(Deployer) \notin roles' /\ admin(T') \in roles'
<1>0. /\ PlanShape /\ plan \in Plan /\ run = "running" /\ plan' = plan
      /\ {prv, "Timelock", "CPOOracle", "EMSPOracle"} \subseteq Name /\ V \in Nat
      /\ Verifiers' = V
  BY RegistryStepsInFull DEF DeploymentAssumption, TypeOK, Acts, Name, Onward
<1> SUFFICES ASSUME records'[prv] # 0 PROVE Kept
  BY <1>0 DEF ValidatorRoles, Recorded
<1>1. /\ \A i \in 1..V : Taken("registry", i + 2)' => Taken("registry", i + 2) \/ At("registry", i + 2)
      /\ Taken("registry", V + 3)' => Taken("registry", V + 3) \/ At("registry", V + 3)
      /\ Taken("registry", V + 4)' => Taken("registry", V + 4) \/ At("registry", V + 4)
      /\ Taken("registry", V + 5)' => Taken("registry", V + 5) \/ At("registry", V + 5)
  BY <1>0, StepsTaken DEF NewlyTaken, Onward
<1>2. T \in Nat /\ T # Deployer
  BY <1>0 DEF Shape, DeploymentAssumption
<1>3. Allowed' = Allowed
  BY <1>0 DEF Allowed
<1>4. ASSUME Recorded(prv) PROVE T' = T /\ C' = C /\ E' = E /\ Oracles' = Oracles
  <2>1. T' = T /\ C' = C /\ E' = E /\ records'["CPOOracle"] = records["CPOOracle"]
        /\ records'["EMSPOracle"] = records["EMSPOracle"]
    BY <1>0, <1>4, Early, Ranking DEF Made
  <2>2. Oracles' = Oracles
    BY <1>0, <2>1 DEF Oracles, OracleOf, Recorded
  <2> QED BY <2>1, <2>2
<1>5. ASSUME Recorded(prv)
      PROVE  /\ roles \subseteq {admin(Deployer), admin(T)} \union Allowed \union Oracles
             /\ \A i \in 1..V : Taken("registry", i + 2) => v(i) \in roles
             /\ Taken("registry", V + 3) => (C \in Oracles => C \in roles)
             /\ Taken("registry", V + 4) => (E \in Oracles => E \in roles)
             /\ Taken("registry", V + 5) => admin(Deployer) \notin roles /\ admin(T) \in roles
  BY <1>5 DEF ValidatorRoles
<1>6. \A i \in 1..V : v(i) \in Allowed
  BY DEF Allowed
<1>7. ASSUME NEW i \in 1..V, VerifierAllowed(i) PROVE Kept
  <2>1. /\ At("registry", i + 2) /\ Recorded(prv) /\ roles' = roles \union {v(i)}
    BY <1>7 DEF VerifierAllowed, Allowing, Same, Gives
  <2>2. \A k : At("registry", k) => k = i + 2
    BY <2>1 DEF At
  <2>3. \A j \in 1..V : Taken("registry", j + 2)' => v(j) \in roles'
    BY <1>1, <1>5, <2>1, <2>2
  <2> QED BY <1>0, <1>1, <1>3, <1>4, <1>5, <1>6, <2>1, <2>2, <2>3
<1>8. ASSUME OracleGiven("CPO", 3), ~Keeps PROVE Kept
  <2>1. /\ At("registry", V + 3) /\ Recorded(prv) /\ Recorded("CPOOracle") /\ ~plan.devChain
        /\ roles' = {r \in roles : r[1] # "CPO"} \union {C}
    BY <1>8 DEF OracleGiven, Same, Gives, OracleOf
  <2>2. \A k : At("registry", k) => k = V + 3
    BY <2>1 DEF At
  <2>3. \A i \in 1..V : v(i)[1] = "verifier"
    OBVIOUS
  <2>4. C \in Oracles /\ E[1] = "EMSP" /\ \A a : admin(a)[1] = "admin"
    BY <2>1, OraclesAre
  <2>5. \A i \in 1..V : Taken("registry", i + 2)' => v(i) \in roles'
    BY <1>0, <1>1, <1>5, <2>1, <2>2, <2>3
  <2> QED BY <1>0, <1>1, <1>3, <1>4, <1>5, <2>1, <2>2, <2>4, <2>5
<1>9. ASSUME OracleGiven("EMSP", 4), ~Keeps PROVE Kept
  <2>1. /\ At("registry", V + 4) /\ Recorded(prv) /\ Recorded("EMSPOracle") /\ ~plan.devChain
        /\ roles' = {r \in roles : r[1] # "EMSP"} \union {E}
    BY <1>9 DEF OracleGiven, Same, Gives, OracleOf
  <2>2. \A k : At("registry", k) => k = V + 4
    BY <2>1 DEF At
  <2>3. \A i \in 1..V : v(i)[1] = "verifier"
    OBVIOUS
  <2>4. E \in Oracles /\ C[1] = "CPO" /\ \A a : admin(a)[1] = "admin"
    BY <2>1, OraclesAre
  <2>5. \A i \in 1..V : Taken("registry", i + 2)' => v(i) \in roles'
    BY <1>0, <1>1, <1>5, <2>1, <2>2, <2>3
  <2> QED BY <1>0, <1>1, <1>3, <1>4, <1>5, <2>1, <2>2, <2>4, <2>5
<1>10. CASE HandsOver(prv, "registry", V + 5)
  <2>1. /\ At("registry", V + 5) /\ Recorded(prv)
        /\ roles' = (roles \union {admin(T)}) \ {admin(Deployer)}
    BY <1>10 DEF HandsOver, Same, Gives
  <2>2. \A k : At("registry", k) => k = V + 5
    BY <2>1 DEF At
  <2>3. \A i \in 1..V : Taken("registry", i + 2)' => v(i) \in roles'
    BY <1>0, <1>1, <1>5, <2>1, <2>2
  <2> QED BY <1>0, <1>1, <1>2, <1>3, <1>4, <1>5, <2>1, <2>2, <2>3
<1>11. ASSUME Recorded(prv), roles' = roles,
              ~\E i \in 1..V : VerifierAllowed(i),
              OracleGiven("CPO", 3) \/ OracleGiven("EMSP", 4) => Keeps, ~HandsOver(prv, "registry", V + 5)
       PROVE  Kept
  <2>1. /\ \A i \in 1..V : ~At("registry", i + 2)
        /\ At("registry", V + 3) => OracleGiven("CPO", 3)
        /\ At("registry", V + 4) => OracleGiven("EMSP", 4)
        /\ ~At("registry", V + 5)
    BY <1>0, <1>11, DoneAt
  <2>2. /\ At("registry", V + 3) => ~(C \in Oracles) \/ C \in roles
        /\ At("registry", V + 4) => ~(E \in Oracles) \/ E \in roles
    <3>1. ASSUME At("registry", V + 3), C \in Oracles PROVE C \in roles
      <4>1. OracleGiven("CPO", 3) /\ ~plan.devChain /\ Recorded(OracleOf("CPO"))
        BY <2>1, <3>1, OraclesAre DEF OracleOf
      <4>2. roles' = {r \in roles : r[1] # "CPO"} \union {C}
        BY <4>1 DEF OracleGiven, Same, Gives, OracleOf
      <4> QED BY <1>11, <4>2
    <3>2. ASSUME At("registry", V + 4), E \in Oracles PROVE E \in roles
      <4>1. OracleGiven("EMSP", 4) /\ ~plan.devChain /\ Recorded(OracleOf("EMSP"))
        BY <2>1, <3>2, OraclesAre DEF OracleOf
      <4>2. roles' = {r \in roles : r[1] # "EMSP"} \union {E}
        BY <4>1 DEF OracleGiven, Same, Gives, OracleOf
      <4> QED BY <1>11, <4>2
    <3> QED BY <3>1, <3>2
  <2>3. \A i \in 1..V : Taken("registry", i + 2)' => v(i) \in roles'
    BY <1>1, <1>5, <1>11, <2>1
  <2> QED BY <1>1, <1>3, <1>4, <1>5, <1>11, <2>1, <2>2, <2>3
<1>12. CASE Creates(prv) /\ Makes(prv)
  <2>1. roles' = {admin(Deployer)}
    BY <1>12 DEF Makes, NewContract, InitialRoles
  <2>2. Command = "partyregistrationvalidator"
    BY <1>12 DEF Creates, Deploying, At, TagOf
  <2>3. \A k : ~Taken("registry", k) /\ ~At("registry", k)
    BY <1>0, <2>2, TakenBefore DEF At, Rank
  <2> QED BY <1>1, <2>1, <2>3
<1>13. Touched
  BY Touches DEF Acts
<1>14. Untouched(prv) \/ (Creates(prv) /\ ~Makes(prv)) => Recorded(prv) /\ roles' = roles
  BY DEF Untouched, Recorded, Creates, Keeps, Contract
<1>15. Keeps => Untouched(prv)
  BY DEF Keeps, Untouched, Contract
<1> HIDE DEF Kept
<1> QED BY <1>7, <1>8, <1>9, <1>10, <1>11, <1>12, <1>13, <1>14, <1>15 DEF Touched

\* Without a fault after it, a step that is done is taken.
Undisturbed ==
  /\ disturbed' = disturbed
  /\ \A tag : \A k \in 1..Len(Steps(tag)) : ~Taken(tag, k)' => ~Taken(tag, k) /\ ~At(tag, k)

\* and the rights that the deployer still needs.
LEMMA CleanKept ==
  ASSUME DeploymentAssumption, TypeOK, Shape, Onward, Acts, Undisturbed, ProxyLast, AllRecorded, Clean
  PROVE  Clean'
<1> DEFINE D == <<"admin", Deployer>>
           tl == "Timelock"
           pm == "OcnPaymentManager"
           prv == "PartyRegistrationValidator"
           reg == "OcnRegistry"
           V == Verifiers
           v(i) == <<"verifier", plan.verifiers[i]>>
<1>0. /\ PlanShape /\ plan \in Plan /\ run = "running" /\ plan' = plan /\ V \in Nat /\ Verifiers' = V
      /\ {tl, pm, prv, reg} \subseteq Name
  BY RegistryStepsInFull DEF DeploymentAssumption, TypeOK, Acts, Name, Onward
<1> SUFFICES ASSUME ~disturbed, plan.script # "basic"
             PROVE  /\ records'[tl] # 0 /\ ~Taken("setup", 3)' => D \in Contract(tl)'.roles
                    /\ Taken("payment", 2)' /\ ~Taken("payment", 4)' => D \in Contract(pm)'.roles
                    /\ records'[prv] # 0 /\ ~Taken("registry", V + 5)' => D \in Contract(prv)'.roles
                    /\ records'[prv] # 0 /\ IsInjective(plan.verifiers) =>
                         \A i \in 1..V : ~Taken("registry", i + 2)' => v(i) \notin Contract(prv)'.roles
                    /\ records'[reg] # 0 /\ ~Taken("registry", V + 6)' => D \in Contract(reg)'.roles
  BY <1>0 DEF Clean, Recorded, Undisturbed
<1>1. /\ Len(Steps("registry")) = V + 6 /\ Len(Steps("setup")) = 3 /\ Len(Steps("payment")) = 4
  BY <1>0, RegistryStepsInFull, StepsInFull DEF Steps
<1>2. /\ ~Taken("setup", 3)' => ~Taken("setup", 3) /\ ~At("setup", 3)
      /\ ~Taken("payment", 4)' => ~Taken("payment", 4) /\ ~At("payment", 4)
      /\ ~Taken("registry", V + 5)' => ~Taken("registry", V + 5) /\ ~At("registry", V + 5)
      /\ ~Taken("registry", V + 6)' => ~Taken("registry", V + 6) /\ ~At("registry", V + 6)
      /\ \A i \in 1..V : ~Taken("registry", i + 2)' => ~Taken("registry", i + 2) /\ ~At("registry", i + 2)
  <2>1. 3 \in 1..Len(Steps("setup")) /\ 4 \in 1..Len(Steps("payment"))
    BY StepsInFull
  <2>2. /\ V + 5 \in 1..Len(Steps("registry")) /\ V + 6 \in 1..Len(Steps("registry"))
        /\ \A i \in 1..V : i + 2 \in 1..Len(Steps("registry"))
    BY <1>0, <1>1
  <2> QED BY <1>0, <2>1, <2>2 DEF Undisturbed
<1>3. Taken("payment", 2)' => Taken("payment", 2) \/ At("payment", 2)
  BY <1>0, StepsTaken DEF NewlyTaken
<1>4. /\ Recorded(tl) /\ ~Taken("setup", 3) => D \in Contract(tl).roles
      /\ Taken("payment", 2) /\ ~Taken("payment", 4) => D \in Contract(pm).roles
      /\ Recorded(prv) /\ ~Taken("registry", V + 5) => D \in Contract(prv).roles
      /\ Recorded(prv) /\ IsInjective(plan.verifiers) =>
           \A i \in 1..V : ~Taken("registry", i + 2) => v(i) \notin Contract(prv).roles
      /\ Recorded(reg) /\ ~Taken("registry", V + 6) => D \in Contract(reg).roles
  BY DEF Clean
<1>5. Touched
  BY Touches DEF Acts
<1>6. ASSUME NEW n \in Name \ {pm}
      PROVE  Untouched(n) \/ (Creates(n) /\ ~Makes(n)) =>
               (records'[n] # 0 => Recorded(n) /\ Contract(n)'.roles = Contract(n).roles)
  BY <1>6 DEF Untouched, Recorded, Creates, Keeps, Contract
<1>7. ASSUME records'[tl] # 0, ~Taken("setup", 3)' PROVE D \in Contract(tl)'.roles
  <2>1. CASE Makes(tl)
    BY <2>1 DEF Makes, NewContract, InitialRoles
  <2>2. CASE AdminRevoked
    BY <1>2, <1>7, <2>2 DEF AdminRevoked
  <2>3. CASE ProposerGranted \/ ExecutorGranted
    <3>1. Recorded(tl) /\ Contract(tl).roles \subseteq Contract(tl)'.roles
      BY <2>3 DEF ProposerGranted, ExecutorGranted, Same, Gives
    <3> QED BY <1>2, <1>4, <1>7, <3>1
  <2>4. CASE Recorded(tl) /\ Contract(tl)'.roles = Contract(tl).roles
    BY <1>2, <1>4, <1>7, <2>4
  <2> QED BY <1>0, <1>5, <1>6, <1>7, <2>1, <2>2, <2>3, <2>4 DEF Touched
<1>8. ASSUME Taken("payment", 2)', ~Taken("payment", 4)' PROVE D \in Contract(pm)'.roles
  <2>1. CASE At("payment", 2)
    <3>1. Saved
      BY <1>0, <2>1, DoneAt
    <3>2. chain' = chain /\ records'[pm] = Len(chain)
      BY <3>1 DEF Saved
    <3>3. chain[Len(chain)].roles = PaymentRoles
      BY <1>0, <2>1 DEF ProxyLast
    <3> QED BY <3>2, <3>3 DEF Contract, PaymentRoles
  <2>2. CASE Taken("payment", 2) /\ ~At("payment", 2)
    <3>1. D \in Contract(pm).roles
      BY <1>2, <1>4, <1>8, <2>2
    <3>2. Untouched(pm)
      BY <1>2, <1>5, <1>8, <2>2 DEF Touched, Saved, HandsOver
    <3>3. CASE Recorded(pm)
      BY <3>1, <3>2, <3>3 DEF Untouched
    <3>4. TagOf(pm) = "payment" /\ RecordedAt(pm) = 2
      BY DEF TagOf, RecordedAt
    <3> QED BY <1>0, <2>2, <3>3, <3>4 DEF AllRecorded
  <2> QED BY <1>3, <1>8, <2>1, <2>2
<1>9. ASSUME records'[prv] # 0
      PROVE  /\ ~Taken("registry", V + 5)' => D \in Contract(prv)'.roles
             /\ IsInjective(plan.verifiers) =>
                  \A i \in 1..V : ~Taken("registry", i + 2)' => v(i) \notin Contract(prv)'.roles
  <2> DEFINE roles == Contract(prv).roles
  <2>1. CASE Makes(prv)
    <3>1. roles' = {D}
      BY <2>1 DEF Makes, NewContract, InitialRoles
    <3> QED BY <3>1
  <2>2. ASSUME NEW j \in 1..V, VerifierAllowed(j)
        PROVE  /\ ~Taken("registry", V + 5)' => D \in Contract(prv)'.roles
               /\ IsInjective(plan.verifiers) =>
                    \A i \in 1..V : ~Taken("registry", i + 2)' => v(i) \notin Contract(prv)'.roles
    <3>1. At("registry", j + 2) /\ Recorded(prv) /\ roles' = roles \union {v(j)}
      BY <2>2 DEF VerifierAllowed, Allowing, Same, Gives
    <3>2. ASSUME IsInjective(plan.verifiers), NEW i \in 1..V, i # j PROVE v(i) # v(j)
      BY <1>0, <3>2, RegistryStepsInFull DEF IsInjective
    <3> QED BY <1>2, <1>4, <3>1, <3>2
  <2>3. ASSUME NEW role \in {"CPO", "EMSP"}, NEW oracle,
               Recorded(prv), roles' = {r \in roles : r[1] # role} \union {<<role, oracle>>}
        PROVE  /\ ~Taken("registry", V + 5)' => D \in Contract(prv)'.roles
               /\ IsInjective(plan.verifiers) =>
                    \A i \in 1..V : ~Taken("registry", i + 2)' => v(i) \notin Contract(prv)'.roles
    <3>1. D \in roles => D \in roles'
      BY <2>3
    <3>2. \A i \in 1..V : v(i) \notin roles => v(i) \notin roles'
      BY <2>3
    <3> QED BY <1>2, <1>4, <2>3, <3>1, <3>2
  <2>4. CASE HandsOver(prv, "registry", V + 5)
    <3>1. At("registry", V + 5) /\ Recorded(prv)
          /\ roles' = (roles \union {<<"admin", records[tl]>>}) \ {D}
      BY <2>4 DEF HandsOver, Same, Gives
    <3>2. \A i \in 1..V : v(i) \notin roles => v(i) \notin roles'
      BY <3>1
    <3> QED BY <1>2, <1>4, <3>1, <3>2
  <2>5. CASE Recorded(prv) /\ roles' = roles
    BY <1>2, <1>4, <2>5
  <2>6. ASSUME NEW role \in {"CPO", "EMSP"}, NEW k, OracleGiven(role, k)
        PROVE  (Recorded(prv) /\ roles' = roles) \/ Untouched(prv)
               \/ (Recorded(prv) /\ roles' = {r \in roles : r[1] # role} \union {<<role, records[OracleOf(role)]>>})
    BY <2>6 DEF OracleGiven, Same, Gives, Keeps, Untouched, Contract
  <2> QED BY <1>0, <1>5, <1>6, <1>9, <2>1, <2>2, <2>3, <2>4, <2>5, <2>6 DEF Touched
<1>10. ASSUME records'[reg] # 0, ~Taken("registry", V + 6)' PROVE D \in Contract(reg)'.roles
  <2>1. CASE Makes(reg)
    BY <2>1 DEF Makes, NewContract, InitialRoles
  <2>2. CASE HandsOver(reg, "registry", V + 6)
    BY <1>2, <1>10, <2>2 DEF HandsOver
  <2>3. CASE Recorded(reg) /\ Contract(reg)'.roles = Contract(reg).roles
    BY <1>2, <1>4, <1>10, <2>3
  <2> QED BY <1>0, <1>5, <1>6, <1>10, <2>1, <2>2, <2>3 DEF Touched
<1> QED BY <1>7, <1>8, <1>9, <1>10

-----------------------------------------------------------------------------
(* A script that nothing disturbs does not fail *)

\* Where nothing was given away too early a step of a checked script succeeds.
LEMMA Succeeds ==
  ASSUME DeploymentAssumption, TypeOK, Shape, PreflightPassed, Fresh => Followed,
         run = "running", ~disturbed, plan.script # "basic", Command # "preflight",
         ~(CurrentStep[1] = "allow" /\ ~IsInjective(plan.verifiers))
  PROVE  Outcomes # {}
<1> DEFINE D == <<"admin", Deployer>>
           prv == "PartyRegistrationValidator"
<1>1. /\ PlanShape /\ plan \in Plan /\ Command \in Tag /\ Place = step /\ Included /\ Verifiers \in Nat
      /\ step \in Nat \ {0} /\ Command \in Tags /\ Rank[Command] \in Nat
  BY CommandIsTag, CommandsIncluded, RegistryStepsInFull, RanksNat DEF DeploymentAssumption, TypeOK, Place
<1>2. \A tag \in Tags : Rank[tag] < Rank[Command] => \A k : Taken(tag, k)
  BY DEF Taken
<1>3. plan.bad = "" /\ \A i \in 1..Verifiers : plan.verifiers[i] # NotAnAddress
  <2>1. Rank["preflight"] < Rank[Command]
    BY <1>1 DEF Tag, Rank
  <2> QED BY <1>1, <1>2, <2>1 DEF Included, PreflightPassed
<1>4. Outcomes = Results(CurrentStep)
  BY <1>3 DEF Outcomes
<1>5. Command # "votetoken" => Followed
  <2>1. Command # "votetoken" => Rank["votetoken"] < Rank[Command]
    BY <1>1 DEF Tag, Rank
  <2> QED BY <1>1, <1>2, <2>1 DEF Included, Fresh
<1>6. ASSUME NEW n \in Name, TagOf(n) \in Tags, Rank[TagOf(n)] < Rank[Command], Command # "votetoken"
      PROVE  Recorded(n)
  BY <1>2, <1>5, <1>6 DEF Followed, AllRecorded
<1>7. /\ Rank["setup"] = 4 /\ Rank["governor"] = 3 /\ Rank["payment"] = 6 /\ Rank["registry"] = 10
      /\ Rank["partyregistrationvalidator"] = 9 /\ Rank["subgraph"] = 11
  BY DEF Rank
<1>8. /\ TagOf("OcnVoteToken") \in Tags /\ TagOf("Timelock") \in Tags /\ TagOf("OcnGovernor") \in Tags
      /\ TagOf("OcnPaymentManager") \in Tags /\ TagOf("CertificateVerifier") \in Tags
      /\ TagOf(prv) \in Tags /\ TagOf("OcnRegistry") \in Tags
      /\ plan.script \in {"dev", "prod-mock"} => TagOf("MockERC20") \in Tags
  BY <1>1 DEF Included, TagOf
<1>9. {"OcnVoteToken", "Timelock", "OcnGovernor", "OcnPaymentManager", "CertificateVerifier", prv,
       "OcnRegistry", "MockERC20"} \subseteq Name
  BY DEF Name
<1>10. plan.script \in {"dev", "prod-mock", "prod-external"}
  BY <1>1 DEF PlanShape
<1>11. \A n \in Name : Administered(n) <=> Recorded(n) /\ D \in Contract(n).roles
  BY AdministeredMeans
<1>12. ASSUME Command \in {"setup", "payment", "registry"} PROVE Recorded("Timelock")
  BY <1>6, <1>7, <1>8, <1>9, <1>12, Ranking
<1>13. CASE At("votetoken", 1) /\ CurrentStep = <<"reset", "records">>
  BY <1>4, <1>13 DEF Results, Reset
<1>14. ASSUME NEW n \in Name \ {"OcnPaymentManager"}, Deploying(n) PROVE Outcomes # {}
  <2>1. Results(CurrentStep) = Deploy(n)
    BY <1>14 DEF Results, Deploying
  <2>2. Command = TagOf(n)
    BY <1>14 DEF Deploying, At
  <2>3. 0 \notin Range(Args(n))
    <3>1. CASE n = "OcnGovernor"
      <4>1. Command = "governor"
        BY <2>2, <3>1 DEF TagOf
      <4>2. Recorded("OcnVoteToken") /\ Recorded("Timelock")
        BY <1>6, <1>7, <1>8, <1>9, <4>1, Ranking
      <4> QED BY <3>1, <4>2 DEF Args, Range, Recorded
    <3>2. CASE n = prv
      <4>1. Command = "partyregistrationvalidator"
        BY <2>2, <3>2 DEF TagOf
      <4>2. Recorded("CertificateVerifier")
        BY <1>6, <1>7, <1>8, <1>9, <4>1, Ranking
      <4> QED BY <3>2, <4>2 DEF Args, Range, Recorded
    <3>3. CASE n = "OcnRegistry"
      <4>1. Command = "registry"
        BY <2>2, <3>3 DEF TagOf
      <4>2. Recorded("OcnPaymentManager") /\ Recorded(prv)
        BY <1>6, <1>7, <1>8, <1>9, <4>1, Ranking
      <4> QED BY <3>3, <4>2 DEF Args, Range, Recorded
    <3>4. CASE n \notin {"OcnGovernor", prv, "OcnRegistry"}
      BY <3>4 DEF Args, Range
    <3> QED BY <3>1, <3>2, <3>3, <3>4
  <2> QED BY <1>4, <2>1, <2>3 DEF Deploy
<1>15. CASE At("payment", 1) /\ CurrentStep = <<"proxy", "OcnPaymentManager">>
  <2>1. Results(CurrentStep) = Proxy("OcnPaymentManager")
    BY <1>15 DEF Results
  <2>2. plan.script # "prod-external" => Recorded("MockERC20")
    BY <1>6, <1>7, <1>8, <1>9, <1>10, <1>15, Ranking DEF At
  <2>3. Stablecoin # 0
    BY <1>10, <2>2 DEF Stablecoin, Recorded
  <2> QED BY <1>3, <1>4, <2>1, <2>3 DEF Proxy
<1>16. CASE At("payment", 2) /\ CurrentStep = <<"save", "OcnPaymentManager">>
  BY <1>4, <1>16 DEF Results, Save
<1>17. CASE Copying
  BY <1>4, <1>17 DEF Copying, Results, Copy
<1>18. CASE At("votetoken", 3) /\ CurrentStep = <<"grant", "delegate">>
  <2>1. Results(CurrentStep) = Grant("delegate")
    BY <1>18 DEF Results
  <2> QED BY <1>4, <2>1 DEF Grant
<1>19. CASE At("setup", 1) \/ At("setup", 2) \/ At("setup", 3)
  <2>1. Command = "setup" /\ step <= 3
    BY <1>19 DEF At
  <2>2. ~Taken("setup", 3)
    BY <1>1, <2>1 DEF Taken
  <2>3. Administered("Timelock")
    BY <1>5, <1>9, <1>11, <1>12, <2>1, <2>2 DEF Followed, Clean
  <2>4. \/ CurrentStep = <<"grant", "proposer">> \/ CurrentStep = <<"grant", "executor">>
        \/ CurrentStep = <<"revoke", "admin">>
    BY <1>19, <2>1, StepsInFull DEF At, CurrentStep
  <2>5. Grant("proposer") # {} /\ Grant("executor") # {} /\ Revoke("admin") # {}
    BY <2>3 DEF Grant, Revoke
  <2>6. Results(CurrentStep) \in {Grant("proposer"), Grant("executor"), Revoke("admin")}
    BY <2>4 DEF Results
  <2> QED BY <1>4, <2>5, <2>6
<1>20. ASSUME Command = "registry", step <= Verifiers + 5 PROVE Administered(prv)
  <2>1. ~Taken("registry", Verifiers + 5)
    BY <1>1, <1>20 DEF Taken
  <2>2. Recorded(prv)
    BY <1>6, <1>7, <1>8, <1>9, <1>20, Ranking
  <2> QED BY <1>5, <1>9, <1>11, <1>20, <2>1, <2>2 DEF Followed, Clean
<1>21. ASSUME NEW i \in 1..Verifiers, Allowing(i) PROVE Outcomes # {}
  <2>1. Results(CurrentStep) = Allow(plan.verifiers[i]) /\ CurrentStep[1] = "allow"
    BY <1>21 DEF Results, Allowing
  <2>2. Command = "registry" /\ step = i + 2
    BY <1>21 DEF Allowing, At
  <2>3. Administered(prv) /\ plan.verifiers[i] # NotAnAddress
    <3>1. step <= Verifiers + 5
      BY <1>1, <2>2
    <3> QED BY <1>3, <1>20, <2>2, <3>1
  <2>4. ~Taken("registry", i + 2)
    BY <1>1, <2>2 DEF Taken
  <2>5. Recorded(prv) /\ IsInjective(plan.verifiers)
    BY <1>9, <1>11, <2>1, <2>3
  <2>6. <<"verifier", plan.verifiers[i]>> \notin Contract(prv).roles
    BY <1>5, <2>2, <2>4, <2>5 DEF Followed, Clean
  <2> QED BY <1>4, <2>1, <2>3, <2>6 DEF Allow
<1>22. ASSUME NEW role \in {"CPO", "EMSP"}, CurrentStep = <<"oracle", role>>, Command = "registry",
              step <= Verifiers + 5
       PROVE  Outcomes # {}
  <2>1. Results(CurrentStep) = SetOracle(role) /\ Administered(prv)
    BY <1>20, <1>22 DEF Results
  <2> QED BY <1>4, <2>1 DEF SetOracle
<1>23. ASSUME NEW n \in {"OcnPaymentManager", prv, "OcnRegistry"}, CurrentStep = <<"transfer", n>>,
              Administered(n), Recorded("Timelock")
       PROVE  Outcomes # {}
  <2>1. Results(CurrentStep) = Transfer(n)
    BY <1>23 DEF Results
  <2> QED BY <1>4, <1>23, <2>1 DEF Transfer
<1>24. CASE At("payment", 4) /\ CurrentStep = <<"transfer", "OcnPaymentManager">>
  <2>1. Command = "payment" /\ Taken("payment", 2) /\ ~Taken("payment", 4)
    BY <1>1, <1>24 DEF Taken, At
  <2>2. TagOf("OcnPaymentManager") = "payment" /\ RecordedAt("OcnPaymentManager") = 2
    BY DEF TagOf, RecordedAt
  <2>3. Recorded("OcnPaymentManager") /\ D \in Contract("OcnPaymentManager").roles
    BY <1>5, <1>9, <2>1, <2>2 DEF Followed, Clean, AllRecorded
  <2> QED BY <1>9, <1>11, <1>12, <1>23, <1>24, <2>1, <2>3
<1>25. CASE At("registry", Verifiers + 5) /\ CurrentStep = <<"transfer", prv>>
  BY <1>1, <1>12, <1>20, <1>23, <1>25 DEF At
<1>26. CASE At("registry", Verifiers + 6) /\ CurrentStep = <<"transfer", "OcnRegistry">>
  <2>1. Command = "registry" /\ Taken("registry", 1) /\ ~Taken("registry", Verifiers + 6)
    BY <1>1, <1>26 DEF Taken, At
  <2>2. TagOf("OcnRegistry") = "registry" /\ RecordedAt("OcnRegistry") = 1
    BY DEF TagOf, RecordedAt
  <2>3. Recorded("OcnRegistry") /\ D \in Contract("OcnRegistry").roles
    BY <1>5, <1>9, <2>1, <2>2 DEF Followed, Clean, AllRecorded
  <2> QED BY <1>9, <1>11, <1>12, <1>23, <1>26, <2>1, <2>3
<1>27. CASE At("subgraph", 1) /\ CurrentStep = <<"write", "manifest">>
  <2>1. Results(CurrentStep) = WriteManifest /\ Command = "subgraph"
    BY <1>27 DEF Results, At
  <2>2. \A n \in Indexed : Recorded(n)
    BY <1>6, <1>7, <1>8, <1>9, <2>1, Ranking DEF Indexed
  <2>3. plan.script # "prod-external" => Recorded("MockERC20")
    BY <1>6, <1>7, <1>8, <1>9, <1>10, <2>1, Ranking
  <2>4. StablecoinSources[1] # 0 \/ StablecoinSources[2] # 0
    BY <2>3 DEF StablecoinSources, Recorded
  <2>5. StablecoinSources[1] \in Range(StablecoinSources) /\ StablecoinSources[2] \in Range(StablecoinSources)
    BY DEF StablecoinSources, Range
  <2> QED BY <1>4, <2>1, <2>2, <2>4, <2>5 DEF WriteManifest
<1>28. /\ At("registry", Verifiers + 3) => Command = "registry" /\ step <= Verifiers + 5
       /\ At("registry", Verifiers + 4) => Command = "registry" /\ step <= Verifiers + 5
  BY <1>1 DEF At
<1>29. ~At("preflight", 1)
  BY DEF At
<1> QED
  BY <1>1, <1>13, <1>14, <1>15, <1>16, <1>17, <1>18, <1>19, <1>21, <1>22, <1>24, <1>25, <1>26, <1>27, <1>28,
     <1>29, StepCases

-----------------------------------------------------------------------------
(* Steps that leave the chain and the files alone, and the reset *)

\* A fault before a step, a step that fails, a command started again, or nothing.
Rested ==
  /\ plan' = plan /\ Tags' = Tags /\ Verifiers' = Verifiers /\ Command' = Command
  /\ UNCHANGED placeVars
  /\ \A tag \in Tags : \A k \in 1..Len(Steps(tag)) : Taken(tag, k)' => Taken(tag, k)
  /\ At("payment", 2)' /\ run' = "running" => At("payment", 2) /\ run = "running"

\* Contracts and records that no step changed read the same.
LEMMA SamePlaces ==
  ASSUME UNCHANGED placeVars, plan' = plan
  PROVE  /\ records' = records /\ copies' = copies /\ chain' = chain /\ manifest' = manifest
         /\ \A n : Contract(n)' = Contract(n) /\ Recorded(n)' = Recorded(n) /\ Args(n)' = Args(n)
         /\ Stablecoin' = Stablecoin /\ Oracles' = Oracles /\ Allowed' = Allowed /\ Manifest' = Manifest
         /\ PaymentRolesMoved' = PaymentRolesMoved /\ PaymentRoles' = PaymentRoles
<1>1. records' = records /\ copies' = copies /\ chain' = chain /\ manifest' = manifest
  BY DEF placeVars
<1>2. \A n : Contract(n)' = Contract(n) /\ Recorded(n)' = Recorded(n)
  BY <1>1 DEF Contract, Recorded
<1>3. \A n : Args(n)' = Args(n)
  BY <1>1 DEF Args
<1>4. Stablecoin' = Stablecoin
  BY <1>1 DEF Stablecoin
<1>5. Oracles' = Oracles /\ Allowed' = Allowed
  BY <1>1 DEF Oracles, OracleOf, Recorded, Allowed, Verifiers
<1>6. Manifest' = Manifest
  BY <1>1 DEF Manifest, FirstOf, StablecoinSources, BlockNumber, FallbackStartBlock, Indexed
<1>7. PaymentRolesMoved' = PaymentRolesMoved /\ PaymentRoles' = PaymentRoles
  BY <1>1 DEF PaymentRolesMoved, PaymentRoles
<1> QED BY <1>1, <1>2, <1>3, <1>4, <1>5, <1>6, <1>7

StepsKept ==
  /\ Taken("preflight", 1)' => Taken("preflight", 1)
  /\ Taken("votetoken", 1)' => Taken("votetoken", 1)
  /\ Taken("votetoken", 3)' => Taken("votetoken", 3)
  /\ \A k \in {1, 2, 3} : Taken("setup", k)' => Taken("setup", k)
  /\ \A k \in {2, 4} : Taken("payment", k)' => Taken("payment", k)
  /\ \A k \in 1..(Verifiers + 6) : Taken("registry", k)' => Taken("registry", k)
  /\ Taken("subgraph", 1)' => Taken("subgraph", 1)
  /\ \A n \in Name : Taken(TagOf(n), RecordedAt(n))' => Taken(TagOf(n), RecordedAt(n))
  /\ \A n \in Name :
       Taken(TagOf(n), CopiedAt(TagOf(n)))' => Taken(TagOf(n), CopiedAt(TagOf(n)))

\* A script that only stops, or takes up an earlier command, takes nothing,
LEMMA RestedKeeps ==
  ASSUME PlanShape, plan \in Plan, Rested
  PROVE  StepsKept
<1>1. ASSUME NEW tag, NEW k \in 1..Len(Steps(tag)) PROVE Taken(tag, k)' => Taken(tag, k)
  <2>1. CASE tag \in Tags
    BY <2>1 DEF Rested
  <2>2. CASE tag \notin Tags
    BY <2>2 DEF Rested, Taken
  <2> QED BY <2>1, <2>2
<1>2. Len(Steps("registry")) = Verifiers + 6
  BY RegistryStepsInFull DEF Steps
<1>3. /\ 1 \in 1..Len(Steps("preflight")) /\ {1, 3} \subseteq 1..Len(Steps("votetoken"))
      /\ {1, 2, 3} \subseteq 1..Len(Steps("setup")) /\ {2, 4} \subseteq 1..Len(Steps("payment"))
      /\ 1 \in 1..Len(Steps("subgraph"))
  BY StepsInFull
<1>4. \A n \in Name :
        /\ Taken(TagOf(n), RecordedAt(n))' => Taken(TagOf(n), RecordedAt(n))
        /\ Taken(TagOf(n), CopiedAt(TagOf(n)))' => Taken(TagOf(n), CopiedAt(TagOf(n)))
  BY <1>1, OwnSteps, Fixed
<1>5. \A k \in 1..(Verifiers + 6) : Taken("registry", k)' => Taken("registry", k)
  BY <1>1, <1>2
<1> QED BY <1>1, <1>3, <1>4, <1>5 DEF StepsKept

\* and what it left holds on.
LEMMA FollowedRests ==
  ASSUME PlanShape, plan \in Plan, Rested, Followed, Clean'
  PROVE  Followed'
<1>1. StepsKept /\ Verifiers \in Nat /\ Verifiers' = Verifiers /\ plan' = plan /\ Command' = Command /\ Tags' = Tags
  BY RestedKeeps, RegistryStepsInFull DEF Rested
<1>2. /\ records' = records /\ copies' = copies /\ chain' = chain /\ manifest' = manifest
      /\ \A n : Contract(n)' = Contract(n) /\ Recorded(n)' = Recorded(n) /\ Args(n)' = Args(n)
      /\ Stablecoin' = Stablecoin /\ Oracles' = Oracles /\ Allowed' = Allowed /\ Manifest' = Manifest
      /\ PaymentRolesMoved' = PaymentRolesMoved /\ PaymentRoles' = PaymentRoles
  BY SamePlaces DEF Rested
<1>3. Made'
  BY <1>1, <1>2, Fixed DEF Followed, Made
<1>4. AllRecorded'
  BY <1>1, <1>2, Fixed DEF Followed, AllRecorded, StepsKept
<1>5. Copied'
  BY <1>1, <1>2, Fixed DEF Followed, Copied, StepsKept
<1>6. VoteTokenRoles'
  BY <1>1, <1>2 DEF Followed, VoteTokenRoles, StepsKept
<1>7. TimelockRoles'
  BY <1>1, <1>2, Fixed DEF Followed, TimelockRoles, StepsKept
<1>8. ProxyLast'
  BY <1>1, <1>2 DEF Followed, ProxyLast, Rested
<1>9. PaymentManagerMade'
  BY <1>1, <1>2 DEF Followed, PaymentManagerMade, StepsKept
<1>10. \A i \in 1..Verifiers : i + 2 \in 1..(Verifiers + 6)
  BY <1>1
<1>11. {Verifiers + 3, Verifiers + 4, Verifiers + 5, Verifiers + 6} \subseteq 1..(Verifiers + 6)
  BY <1>1
<1>12. ValidatorRoles'
  BY <1>1, <1>2, <1>10, <1>11 DEF Followed, ValidatorRoles, StepsKept
<1>13. RegistryRoles'
  BY <1>1, <1>2, <1>11 DEF Followed, RegistryRoles, StepsKept
<1>14. ManifestWritten'
  BY <1>1, <1>2 DEF Followed, ManifestWritten, StepsKept
<1> QED BY <1>3, <1>4, <1>5, <1>6, <1>7, <1>8, <1>9, <1>12, <1>13, <1>14 DEF Followed

\* What the deployer has not given away yet is not asked for again.
LEMMA CleanRests ==
  ASSUME PlanShape, plan \in Plan, Rested, Clean, disturbed' = disturbed,
         ~disturbed /\ plan.script # "basic" =>
           /\ Taken("setup", 3) => Taken("setup", 3)'
           /\ Taken("payment", 4) => Taken("payment", 4)'
           /\ Taken("registry", Verifiers + 5) => Taken("registry", Verifiers + 5)'
           /\ Taken("registry", Verifiers + 6) => Taken("registry", Verifiers + 6)'
           /\ IsInjective(plan.verifiers) =>
                \A i \in 1..Verifiers : Taken("registry", i + 2) => Taken("registry", i + 2)'
  PROVE  Clean'
<1>1. StepsKept /\ Verifiers' = Verifiers /\ plan' = plan
  BY RestedKeeps DEF Rested
<1>2. \A n : Contract(n)' = Contract(n) /\ Recorded(n)' = Recorded(n)
  BY SamePlaces DEF Rested
<1> QED BY <1>1, <1>2 DEF Clean, StepsKept

\* After --reset next to nothing is claimed.
LEMMA FollowedReset ==
  ASSUME PlanShape, TypeOK, run = "running", Onward, Cleared
  PROVE  Followed'
<1>1. /\ plan \in Plan /\ Command = "votetoken" /\ step = 1 /\ \A n \in Name : records'[n] = 0 /\ ~Recorded(n)'
  BY DEF TypeOK, Cleared, At, Recorded
<1>2. Rank[Command] = 1
  BY <1>1 DEF Rank
<1>3. \A tag, k : At(tag, k) => tag = "votetoken" /\ k = 1
  BY <1>1 DEF At
<1>4. \A tag : \A k \in Nat \ {0} : Taken(tag, k) => tag = "preflight"
  <2> SUFFICES ASSUME NEW tag, NEW k \in Nat \ {0}, Taken(tag, k) PROVE tag = "preflight"
    OBVIOUS
  <2>1. tag \in Tag /\ ((tag = Command /\ k < 1) \/ Rank[tag] < 1)
    BY <1>1, <1>2, TakenBefore
  <2> QED BY <2>1 DEF Tag, Rank
<1>5. ASSUME NEW tag, NEW k \in Nat \ {0}, NewlyTaken(tag, k), tag # "preflight", ~(tag = "votetoken" /\ k = 1)
      PROVE  ~Taken(tag, k)'
  BY <1>3, <1>4, <1>5 DEF NewlyTaken
<1>6. ~Taken("votetoken", 3)' /\ ~Taken("payment", 2)' /\ ~Taken("subgraph", 1)'
  BY <1>1, <1>5, StepsTaken
<1>7. ASSUME NEW n \in Name
      PROVE  ~Taken(TagOf(n), RecordedAt(n))' /\ ~Taken(TagOf(n), CopiedAt(TagOf(n)))'
  <2>1. OwnStep(n)
    BY OwnStepOf
  <2>2. /\ RecordedAt(n) \in Nat \ {0} /\ CopiedAt(TagOf(n)) \in Nat \ {0} /\ TagOf(n) # "preflight"
        /\ ~(TagOf(n) = "votetoken" /\ RecordedAt(n) = 1)
        /\ ~(TagOf(n) = "votetoken" /\ CopiedAt(TagOf(n)) = 1)
    BY <2>1 DEF OwnStep
  <2>3. NewlyTaken(TagOf(n), RecordedAt(n)) /\ NewlyTaken(TagOf(n), CopiedAt(TagOf(n)))
    BY <1>1, StepsTaken
  <2>4. ~Taken(TagOf(n), RecordedAt(n)) /\ ~Taken(TagOf(n), CopiedAt(TagOf(n)))
    BY <1>4, <2>2
  <2>5. ~At(TagOf(n), RecordedAt(n)) /\ ~At(TagOf(n), CopiedAt(TagOf(n)))
    BY <1>3, <2>2
  <2> QED BY <2>3, <2>4, <2>5, Fixed DEF NewlyTaken
<1>8. Made' /\ AllRecorded' /\ Copied'
  BY <1>1, <1>7, Fixed DEF Made, AllRecorded, Copied
<1>9. {"OcnVoteToken", "Timelock", "OcnRegistry", "PartyRegistrationValidator"} \subseteq Name
  BY DEF Name
<1>10. VoteTokenRoles' /\ TimelockRoles' /\ ValidatorRoles' /\ RegistryRoles'
  BY <1>1, <1>9 DEF VoteTokenRoles, TimelockRoles, ValidatorRoles, RegistryRoles
<1>11. ProxyLast'
  BY <1>3 DEF ProxyLast, Onward
<1>12. PaymentManagerMade' /\ ManifestWritten'
  BY <1>6 DEF PaymentManagerMade, ManifestWritten
<1>13. Clean'
  BY <1>1, <1>6, <1>9 DEF Clean
<1> QED BY <1>8, <1>10, <1>11, <1>12, <1>13 DEF Followed

-----------------------------------------------------------------------------
(* The invariant *)

\* All parts of Followed together.
LEMMA FollowedKept ==
  ASSUME DeploymentAssumption, TypeOK, Shape, Onward, Acts, Followed, disturbed' \/ Undisturbed
  PROVE  Followed'
<1>1. PlanShape
  BY DEF DeploymentAssumption
<1>2. Clean'
  <2>1. CASE disturbed'
    BY <2>1 DEF Clean
  <2>2. CASE Undisturbed
    BY <2>2, CleanKept DEF Followed
  <2> QED BY <2>1, <2>2
<1> QED
  BY <1>1, <1>2, MadeKept, DeployedKept, CopiedKept, VoteTokenKept, TimelockKept, ProxyLastKept, PaymentManagerKept,
     ValidatorKept, RegistryKept, ManifestKept DEF Followed

\* A script stays at a step of one of its commands.
LEMMA TypesKept ==
  ASSUME PlanShape, TypeOK, Shape', plan' \in Plan, run' \in {"running", "stopped", "done"},
         command' \in 1..Len(Commands)', step' \in 1..Len(Steps(Command))',
         disturbed' \in BOOLEAN, faults' \in 0..MaxFaults, reruns' \in 0..MaxReruns
  PROVE  TypeOK'
<1>1. DOMAIN chain' = 1..Len(chain')
  BY DEF Shape
<1> QED BY <1>1 DEF TypeOK, Shape

\* The shape depends on the chain and the files only.
LEMMA ShapeRests == ASSUME Shape, UNCHANGED placeVars PROVE Shape'
BY DEF Shape, placeVars

\* A step that is done.
LEMMA TakeStepKeeps ==
  ASSUME DeploymentAssumption, DeployInv, TakeStep
  PROVE  DeployInv'
<1>1. /\ PlanShape /\ TypeOK /\ Shape /\ PreflightPassed /\ plan \in Plan /\ run = "running" /\ plan' = plan
      /\ reruns' = reruns /\ MaxFaults \in Nat
      /\ Fresh => Followed
  BY DEF DeploymentAssumption, DeployInv, TypeOK, TakeStep
<1>2. /\ Command \in Tag /\ Command \in Tags /\ step \in Nat \ {0} /\ Place = step
      /\ command \in 1..Len(Commands) /\ step \in 1..Len(Steps(Command))
  BY <1>1, CommandIsTag DEF TypeOK, Place
<1>3. PICK o \in Outcomes : Took(o)
  BY DEF TakeStep, Took
<1>4. "votetoken" \in Tags
  BY <1>1, CommandsIncluded DEF Included
<1>5. At("votetoken", 3) => Recorded("OcnVoteToken")
  <2>1. ASSUME At("votetoken", 3) PROVE Taken("votetoken", 1) /\ Taken("votetoken", 2)
    BY <1>2, <1>4, <2>1 DEF At, Taken
  <2>2. TagOf("OcnVoteToken") = "votetoken" /\ RecordedAt("OcnVoteToken") = 2 /\ "OcnVoteToken" \in Name
    BY DEF TagOf, RecordedAt, Name
  <2> QED BY <1>1, <2>1, <2>2 DEF Fresh, Followed, AllRecorded
<1>6. At("payment", 2) => chain[Len(chain)].name = "OcnPaymentManager"
  <2>1. ASSUME At("payment", 2) PROVE Taken("votetoken", 1)
    <3>1. Rank["votetoken"] < Rank[Command]
      BY <2>1 DEF At, Rank
    <3> QED BY <1>4, <3>1 DEF Taken
  <2> QED BY <1>1, <2>1 DEF Fresh, Followed, ProxyLast
<1>7. Shape' /\ StepDone
  BY <1>1, <1>3, <1>5, <1>6, StepEffects
<1>8. Commands' = Commands /\ Tags' = Tags /\ Verifiers' = Verifiers /\ \A tag : Steps(tag)' = Steps(tag)
  BY <1>1, SamePlan
<1>9. Ordered
  BY <1>1, CommandsOrdered
<1>10. ASSUME command' \in 1..Len(Commands)' PROVE Command' \in Tag
  BY <1>8, <1>9, <1>10 DEF Ordered, Command
<1>11. ASSUME GoOn
       PROVE  Onward /\ (disturbed' \/ Undisturbed) /\ TypeOK' /\ Ended' /\ StartsOverClean'
  <2>1. GoneOn
    BY <1>1, <1>11, GoOnTakes
  <2>2. Command' \in Tag /\ Rank[Command] <= Rank[Command']
    BY <1>10, <2>1, Fixed DEF GoneOn
  <2>3. Onward
    BY <1>1, <1>8, <2>1, <2>2 DEF GoneOn, Onward
  <2>4. Undisturbed
    <3>1. disturbed' = disturbed
      BY <1>11 DEF GoOn
    <3>2. ASSUME NEW tag, NEW k \in 1..Len(Steps(tag)), ~Taken(tag, k)' PROVE ~Taken(tag, k) /\ ~At(tag, k)
      <4>1. CASE tag \in Tags
        BY <2>1, <3>2, <4>1 DEF GoneOn
      <4>2. CASE tag \notin Tags
        BY <1>2, <4>2 DEF Taken, At
      <4> QED BY <4>1, <4>2
    <3> QED BY <3>1, <3>2 DEF Undisturbed
  <2>5. TypeOK'
    BY <1>1, <1>7, <1>11, <2>1, TypesKept DEF GoneOn, GoOn, TypeOK
  <2>6. Ended' /\ StartsOverClean'
    BY <2>1 DEF GoneOn, StartsOverClean
  <2> QED BY <2>3, <2>4, <2>5, <2>6
<1>12. ASSUME Stop
       PROVE  Onward /\ (disturbed' \/ Undisturbed) /\ TypeOK' /\ Ended' /\ StartsOverClean'
  <2>1. command' = command /\ step' = step /\ run' = "stopped" /\ disturbed' = TRUE
        /\ faults' = faults + 1 /\ faults < MaxFaults
    BY <1>12 DEF Stop
  <2>2. /\ Command' = Command /\ command' \in 1..Len(Commands)' /\ step' \in 1..Len(Steps(Command))'
        /\ \A tag \in Tags : \A k \in 1..Len(Steps(tag)) :
             Taken(tag, k)' <=> (Taken(tag, k) /\ tag # Command)
        /\ Ended'
    BY <1>1, <1>2, <2>1, FallsBack
  <2>3. Rank[Command] <= Rank[Command']
    BY <1>2, <2>2, RanksNat
  <2>4. Onward
    BY <1>1, <1>2, <1>8, <2>1, <2>2, <2>3 DEF Onward
  <2>5. TypeOK'
    <3>1. faults' \in 0..MaxFaults
      BY <1>1, <2>1 DEF TypeOK
    <3>2. reruns' \in 0..MaxReruns
      BY <1>1 DEF TypeOK
    <3> QED BY <1>1, <1>7, <2>1, <2>2, <3>1, <3>2, TypesKept
  <2>6. StartsOverClean'
    BY <2>1 DEF StartsOverClean
  <2> QED BY <2>1, <2>2, <2>4, <2>5, <2>6
<1>13. Onward /\ (disturbed' \/ Undisturbed) /\ TypeOK' /\ Ended' /\ StartsOverClean'
  BY <1>11, <1>12 DEF TakeStep
<1>14. PreflightPassed'
  <2> SUFFICES ASSUME Taken("preflight", 1)' PROVE PreflightPassed'
    BY DEF PreflightPassed
  <2>1. Taken("preflight", 1) \/ At("preflight", 1)
    BY <1>1, <1>13, StepsTaken DEF NewlyTaken
  <2>2. CASE Taken("preflight", 1)
    BY <1>1, <1>8, <2>2 DEF PreflightPassed
  <2>3. CASE At("preflight", 1)
    <3>1. ~Cleared
      BY <2>3 DEF Cleared, At
    <3>2. Checked
      BY <1>1, <1>7, <2>3, <3>1, DoneAt DEF Acts
    <3> QED BY <1>1, <1>8, <3>2 DEF Checked, PreflightPassed
  <2> QED BY <2>1, <2>2, <2>3
<1>15. ASSUME Fresh' PROVE Followed'
  <2>1. CASE Cleared
    BY <1>1, <1>13, <2>1, FollowedReset
  <2>2. CASE ~Cleared
    <3>1. Acts
      BY <1>1, <1>7, <2>2 DEF Acts
    <3>2. Fresh
      BY <1>1, <1>13, <1>15, <3>1, StepsTaken, DoneAt DEF NewlyTaken, Fresh
    <3> QED BY <1>1, <1>13, <3>1, <3>2, FollowedKept
  <2> QED BY <2>1, <2>2
<1> QED BY <1>7, <1>13, <1>14, <1>15 DEF DeployInv

\* A step that fails, or that a fault keeps from being taken.
LEMMA StopKeeps ==
  ASSUME DeploymentAssumption, DeployInv, StopBefore \/ Fail
  PROVE  DeployInv'
<1>1. /\ PlanShape /\ TypeOK /\ Shape /\ PreflightPassed /\ plan \in Plan /\ run = "running" /\ plan' = plan
      /\ reruns' = reruns /\ MaxFaults \in Nat /\ UNCHANGED placeVars
      /\ command' = command /\ step' = step /\ run' = "stopped"
      /\ Fresh => Followed
  BY DEF DeploymentAssumption, DeployInv, TypeOK, StopBefore, Fail, Stop
<1>2. /\ Command \in Tag /\ Command \in Tags /\ step \in Nat \ {0} /\ Place = step
      /\ command \in 1..Len(Commands) /\ step \in 1..Len(Steps(Command)) /\ Verifiers \in Nat
  BY <1>1, CommandIsTag, RegistryStepsInFull DEF TypeOK, Place
<1>3. /\ Command' = Command /\ command' \in 1..Len(Commands)' /\ step' \in 1..Len(Steps(Command))'
      /\ \A tag \in Tags : \A k \in 1..Len(Steps(tag)) :
           Taken(tag, k)' <=> (Taken(tag, k) /\ tag # Command)
      /\ Ended'
  BY <1>1, <1>2, FallsBack
<1>4. Commands' = Commands /\ Tags' = Tags /\ Verifiers' = Verifiers /\ \A tag : Steps(tag)' = Steps(tag)
  BY <1>1, SamePlan
<1>5. Shape'
  BY <1>1, ShapeRests
<1>6. TypeOK'
  <2>1. faults' \in 0..MaxFaults /\ disturbed' \in BOOLEAN
    <3>1. faults \in 0..MaxFaults /\ ((faults < MaxFaults /\ faults' = faults + 1) \/ faults' = faults)
      BY <1>1 DEF TypeOK, StopBefore, Fail, Stop
    <3>2. disturbed \in BOOLEAN /\ (disturbed' = TRUE \/ disturbed' = disturbed)
      BY <1>1 DEF TypeOK, StopBefore, Fail, Stop
    <3>3. faults' \in 0..MaxFaults
      BY <1>1, <3>1
    <3>4. disturbed' \in BOOLEAN
      BY <3>2
    <3> QED BY <3>3, <3>4
  <2>2. reruns' \in 0..MaxReruns
    BY <1>1 DEF TypeOK
  <2> QED BY <1>1, <1>3, <1>5, <2>1, <2>2, TypesKept
<1>7. Rested
  BY <1>1, <1>3, <1>4 DEF Rested
<1>8. StepsKept
  BY <1>1, <1>7, RestedKeeps
<1>9. PreflightPassed'
  BY <1>1, <1>4, <1>8 DEF PreflightPassed, StepsKept
  \* What makes a script stop that nothing disturbed.
<1>10. ASSUME Fail, ~disturbed, plan.script # "basic"
       PROVE  Command = "preflight" \/ (CurrentStep[1] = "allow" /\ ~IsInjective(plan.verifiers))
  BY <1>1, <1>10, Succeeds DEF Fail
<1>11. CurrentStep' = CurrentStep
  BY <1>1, <1>3, <1>4 DEF CurrentStep
<1>12. StartsOverClean'
  <2>1. CASE StopBefore
    BY <2>1 DEF StopBefore, Stop, StartsOverClean
  <2>2. CASE Fail
    BY <1>1, <1>3, <1>10, <1>11, <2>2 DEF Fail, StartsOverClean
  <2> QED BY <2>1, <2>2
<1>13. ASSUME Fresh' PROVE Followed'
  <2>1. Fresh /\ Followed
    BY <1>1, <1>8, <1>13 DEF Fresh, StepsKept
  <2>2. CASE StopBefore
    <3>1. Clean'
      BY <2>2 DEF StopBefore, Stop, Clean
    <3> QED BY <1>1, <1>7, <2>1, <3>1, FollowedRests
  <2>3. CASE Fail
    <3>1. disturbed' = disturbed
      BY <2>3 DEF Fail
    <3>2. CASE disturbed \/ plan.script = "basic"
      <4>1. Clean'
        BY <1>1, <2>1, <3>1, <3>2 DEF Clean
      <4> QED BY <1>1, <1>7, <2>1, <4>1, FollowedRests
    <3>3. CASE ~disturbed /\ plan.script # "basic"
      <4>1. Command # "preflight"
        BY <1>2, <2>1, RanksNat DEF Fresh, Taken, Rank
      <4>2. CurrentStep[1] = "allow" /\ ~IsInjective(plan.verifiers)
        BY <1>10, <2>3, <3>3, <4>1
      <4>3. Command = "registry" /\ step <= Verifiers + 2
        <5>1. \E i \in 1..Verifiers : Allowing(i)
          BY <1>1, <4>2, StepCases DEF Deploying, Copying
        <5> QED BY <1>2, <5>1 DEF Allowing, At
      <4>4. \A k \in {Verifiers + 5, Verifiers + 6} : ~Taken("registry", k)
        BY <1>2, <4>3, RanksNat DEF Taken
      <4>5. /\ Taken("setup", 3) => Taken("setup", 3)'
            /\ Taken("payment", 4) => Taken("payment", 4)'
        <5>1. 3 \in 1..Len(Steps("setup")) /\ 4 \in 1..Len(Steps("payment"))
          BY StepsInFull
        <5> QED BY <1>3, <4>3, <5>1 DEF Taken
      <4>6. Clean'
        BY <1>1, <1>7, <2>1, <3>1, <4>2, <4>4, <4>5, CleanRests DEF Followed
      <4> QED BY <1>1, <1>7, <2>1, <4>6, FollowedRests
    <3> QED BY <3>2, <3>3
  <2> QED BY <2>2, <2>3
<1> QED BY <1>5, <1>6, <1>9, <1>3, <1>12, <1>13 DEF DeployInv

\* A command that starts again, and no step at all.
LEMMA RunAgainKeeps ==
  ASSUME DeploymentAssumption, DeployInv, RunAgain
  PROVE  DeployInv'
<1>1. /\ PlanShape /\ TypeOK /\ Shape /\ plan \in Plan /\ plan' = plan /\ UNCHANGED placeVars
      /\ run = "stopped" /\ run' = "running" /\ command' = command /\ step' = 1
      /\ disturbed' = disturbed /\ faults' = faults
      /\ Fresh => Followed
  BY DEF DeploymentAssumption, DeployInv, TypeOK, RunAgain
<1>2. /\ Command \in Tag /\ Place = 1 /\ 1 \in 1..Len(Steps(Command)) /\ Verifiers \in Nat
  <2>1. Command \in Tag /\ step \in Nat /\ step \in 1..Len(Steps(Command))
    BY <1>1, CommandIsTag DEF TypeOK
  <2>2. Len(Steps(Command)) \in Nat \ {0}
    BY <1>1, <2>1, StepCounts
  <2> QED BY <1>1, <2>1, <2>2, RegistryStepsInFull DEF Place
<1>3. /\ Command' = Command /\ command' \in 1..Len(Commands)' /\ step' \in 1..Len(Steps(Command))'
      /\ \A tag \in Tags : \A k \in 1..Len(Steps(tag)) :
           Taken(tag, k)' <=> (Taken(tag, k) /\ tag # Command)
      /\ Ended' /\ ~(At("payment", 2)' /\ run' = "running")
  BY <1>1, <1>2, FallsBack
<1>4. Tags' = Tags /\ Verifiers' = Verifiers /\ Rank[Command] \in Nat
  BY <1>1, <1>2, SamePlan, RanksNat
<1>5. \A k \in Nat \ {0} : ~Taken(Command, k)
  BY <1>2, <1>4 DEF Taken
<1>6. \A tag : \A k \in 1..Len(Steps(tag)) : Taken(tag, k) => Taken(tag, k)'
  <2> SUFFICES ASSUME NEW tag, NEW k \in 1..Len(Steps(tag)), Taken(tag, k) PROVE Taken(tag, k)'
    OBVIOUS
  <2>1. tag \in Tags /\ tag \in Tag
    BY <1>1, CommandsOrdered DEF Taken, Tags, Ordered
  <2>2. k \in Nat \ {0}
    BY <1>1, <2>1, StepCounts
  <2> QED BY <1>3, <1>5, <2>1, <2>2
<1>7. Shape'
  BY <1>1, ShapeRests
<1>8. TypeOK'
  <2>1. reruns' \in 0..MaxReruns
    BY DEF DeploymentAssumption, DeployInv, TypeOK, RunAgain
  <2>2. faults' \in 0..MaxFaults
    BY <1>1 DEF TypeOK
  <2>3. disturbed' \in BOOLEAN
    BY <1>1 DEF TypeOK
  <2> QED BY <1>1, <1>3, <1>7, <2>1, <2>2, <2>3, TypesKept
<1>9. Rested
  BY <1>1, <1>3, <1>4 DEF Rested
<1>10. StepsKept
  BY <1>1, <1>9, RestedKeeps
<1>11. PreflightPassed'
  BY <1>1, <1>4, <1>10 DEF DeployInv, PreflightPassed, StepsKept
<1>12. StartsOverClean'
  BY <1>1 DEF StartsOverClean
<1>13. ASSUME Fresh' PROVE Followed'
  <2>1. Fresh /\ Followed
    BY <1>1, <1>10, <1>13 DEF Fresh, StepsKept
  <2>2. /\ 3 \in 1..Len(Steps("setup")) /\ 4 \in 1..Len(Steps("payment"))
    BY StepsInFull
  <2>3. /\ Len(Steps("registry")) = Verifiers + 6
    BY <1>1, RegistryStepsInFull DEF Steps
  <2>4. /\ {Verifiers + 5, Verifiers + 6} \subseteq 1..Len(Steps("registry"))
        /\ \A i \in 1..Verifiers : i + 2 \in 1..Len(Steps("registry"))
    BY <1>2, <2>3
  <2>5. Clean'
    BY <1>1, <1>4, <1>6, <1>9, <2>1, <2>2, <2>4, CleanRests DEF Followed
  <2> QED BY <1>1, <1>9, <2>1, <2>5, FollowedRests
<1> QED BY <1>3, <1>7, <1>8, <1>11, <1>12, <1>13 DEF DeployInv

\* The invariant speaks of the variables only.
LEMMA StutterKeeps ==
  ASSUME DeploymentAssumption, DeployInv, UNCHANGED vars
  PROVE  DeployInv'
<1>1. /\ plan' = plan /\ run' = run /\ command' = command /\ step' = step /\ disturbed' = disturbed
      /\ faults' = faults /\ reruns' = reruns /\ UNCHANGED placeVars
      /\ PlanShape /\ TypeOK /\ Shape /\ plan \in Plan /\ Command \in Tag
  BY CommandIsTag DEF vars, scriptVars, DeploymentAssumption, DeployInv, TypeOK
<1>2. Commands' = Commands /\ Tags' = Tags /\ Verifiers' = Verifiers /\ \A tag : Steps(tag)' = Steps(tag)
  BY <1>1, SamePlan
<1>3. Command' = Command
  BY <1>1, <1>2 DEF Command
<1>4. \A tag, k : Taken(tag, k)' <=> Taken(tag, k)
  BY <1>1, <1>2, <1>3, Fixed DEF Taken, Place
<1>5. Rested
  BY <1>1, <1>2, <1>3, <1>4 DEF Rested, At
<1>6. Shape' /\ TypeOK'
  <2>1. Shape'
    BY <1>1, ShapeRests
  <2>2. command' \in 1..Len(Commands)' /\ step' \in 1..Len(Steps(Command))'
    BY <1>1, <1>2, <1>3 DEF TypeOK
  <2> QED BY <1>1, <2>1, <2>2, TypesKept DEF TypeOK
<1>7. Ended'
  BY <1>1, <1>2, <1>3 DEF DeployInv, Ended
<1>8. StartsOverClean'
  <2>1. CurrentStep' = CurrentStep
    BY <1>1, <1>2, <1>3 DEF CurrentStep
  <2> QED BY <1>1, <1>3, <2>1 DEF DeployInv, StartsOverClean
<1>9. PreflightPassed'
  BY <1>1, <1>2, <1>4 DEF DeployInv, PreflightPassed
<1>10. ASSUME Fresh' PROVE Followed'
  <2>1. Fresh /\ Followed
    BY <1>4, <1>10 DEF DeployInv, Fresh
  <2>2. Clean'
    BY <1>1, <1>2, <1>4, <1>5, <2>1, CleanRests DEF Followed
  <2> QED BY <1>1, <1>5, <2>1, <2>2, FollowedRests
<1> QED BY <1>6, <1>7, <1>8, <1>9, <1>10 DEF DeployInv

\* A script that starts has taken nothing, on whatever there is.
AtStart == plan \in Plan /\ command = 1 /\ step = 1 /\ run = "running"

\* A script at its beginning has left nothing,
LEMMA NothingTaken ==
  PlanShape /\ AtStart =>
    /\ command \in 1..Len(Commands) /\ step \in 1..Len(Steps(Command))
    /\ Ended /\ StartsOverClean /\ PreflightPassed /\ ~Fresh
<1> SUFFICES ASSUME PlanShape, AtStart
             PROVE  /\ command \in 1..Len(Commands) /\ step \in 1..Len(Steps(Command))
                    /\ Ended /\ StartsOverClean /\ PreflightPassed /\ ~Fresh
  OBVIOUS
<1>1. /\ command \in 1..Len(Commands) /\ step \in 1..Len(Steps(Command))
      /\ \A tag : \A k \in Nat \ {0} : ~Taken(tag, k)
  BY AtTheStart DEF AtStart
<1>2. ~Taken("preflight", 1) /\ ~Taken("votetoken", 1)
  BY <1>1
<1>3. Ended /\ StartsOverClean
  BY DEF AtStart, Ended, StartsOverClean
<1> QED BY <1>1, <1>2, <1>3 DEF PreflightPassed, Fresh

\* so starting over keeps the invariant, whatever is recorded.
LEMMA StartOverKeeps ==
  ASSUME DeploymentAssumption, DeployInv, StartOver
  PROVE  DeployInv'
<1>1. (PlanShape /\ AtStart =>
         /\ command \in 1..Len(Commands) /\ step \in 1..Len(Steps(Command))
         /\ Ended /\ StartsOverClean /\ PreflightPassed /\ ~Fresh)'
  BY NothingTaken, PTL
<1>2. PlanShape' /\ AtStart'
  BY DEF DeploymentAssumption, PlanShape, StartOver, AtStart
<1>3. Shape' /\ TypeOK /\ PlanShape
  BY ShapeRests DEF StartOver, DeployInv, DeploymentAssumption
<1>4. reruns' \in 0..MaxReruns
  BY DEF DeploymentAssumption, DeployInv, TypeOK, StartOver
<1>5. faults' \in 0..MaxFaults
  BY DEF DeployInv, TypeOK, StartOver
<1>6. disturbed' \in BOOLEAN
  BY DEF StartOver
<1>7. TypeOK'
  BY <1>1, <1>2, <1>3, <1>4, <1>5, <1>6, TypesKept DEF AtStart
<1> QED BY <1>1, <1>2, <1>3, <1>7 DEF DeployInv

\* On a new network it holds.
LEMMA InitMeets == ASSUME DeploymentAssumption, Init PROVE DeployInv
<1>1. PlanShape /\ AtStart /\ MaxFaults \in Nat /\ MaxReruns \in Nat
  BY DEF DeploymentAssumption, Init, AtStart
<1>2. /\ command \in 1..Len(Commands) /\ step \in 1..Len(Steps(Command))
      /\ Ended /\ StartsOverClean /\ PreflightPassed /\ ~Fresh
  BY <1>1, NothingTaken
<1>3. \A n \in Name : records[n] = 0 /\ copies[n] = 0
  BY DEF Init
<1>4. Shape
  <2>1. [name |-> "external stablecoin", args |-> <<>>, roles |-> {}] \in Contracts
    BY DEF Contracts
  <2>2. chain = << [name |-> "external stablecoin", args |-> <<>>, roles |-> {}] >>
    BY DEF Init
  <2>3. ASSUME NEW S, NEW c \in S PROVE <<c>> \in Seq(S)
    OBVIOUS
  <2>4. chain \in Seq(Contracts)
    BY <2>1, <2>2, <2>3
  <2> QED BY <1>3, <2>4 DEF Init, Shape
<1>5. TypeOK
  <2>1. \A files \in {records, copies}, n \in Name : files[n] = 0
    BY <1>3
  <2>2. /\ run = "running" /\ disturbed = FALSE /\ faults = 0 /\ reruns = 0 /\ plan \in Plan
    BY DEF Init
  <2>3. faults \in 0..MaxFaults /\ reruns \in 0..MaxReruns
    BY <1>1, <2>2
  <2>4. disturbed \in BOOLEAN
    BY <2>2
  <2> QED BY <1>2, <2>1, <2>2, <2>3, <2>4 DEF TypeOK
<1> QED BY <1>2, <1>4, <1>5 DEF DeployInv

\* The invariant holds of every script with every environment, however often a
\* fault stops it and however it is taken up again.
THEOREM DeployInvHolds == ASSUME DeploymentAssumption PROVE Spec => []DeployInv
<1>1. Init => DeployInv
  BY InitMeets
<1>2. DeployInv /\ [Next]_vars => DeployInv'
  BY TakeStepKeeps, StopKeeps, RunAgainKeeps, StartOverKeeps, StutterKeeps DEF Next
<1> QED BY <1>1, <1>2, PTL DEF Spec

-----------------------------------------------------------------------------
(* What a script that has come to its end has left *)

\* A script that is done has taken every step of every command,
LEMMA AllTaken ==
  ASSUME PlanShape, TypeOK, Ended, run = "done"
  PROVE  \A tag \in Tags : \A k \in 1..Len(Steps(tag)) : Taken(tag, k)
<1> SUFFICES ASSUME NEW tag \in Tags, NEW k \in 1..Len(Steps(tag)) PROVE Taken(tag, k)
  OBVIOUS
<1>1. /\ plan \in Plan /\ Ordered /\ command = Len(Commands) /\ step = Len(Steps(Command)) /\ Place = step + 1
      /\ command \in 1..Len(Commands)
  BY CommandsOrdered DEF TypeOK, Ended, Place
<1>2. PICK j \in 1..Len(Commands) : tag = Commands[j]
  BY DEF Tags
<1>3. j = command \/ j < command
  BY <1>1 DEF Ordered
<1>4. CASE j < command
  BY <1>1, <1>2, <1>4 DEF Ordered, Command, Taken
<1>5. CASE j = command
  <2>1. tag = Command /\ Command \in Tag
    BY <1>1, <1>2, <1>5 DEF Ordered, Command
  <2>2. Len(Steps(Command)) \in Nat \ {0}
    BY <1>1, <2>1, StepCounts
  <2>3. k < Place
    BY <1>1, <2>1, <2>2
  <2> QED BY <2>1, <2>3 DEF Taken
<1> QED BY <1>3, <1>4, <1>5

AtTheEnd ==
  /\ PlanShape /\ TypeOK /\ Shape /\ plan \in Plan /\ Followed /\ Verifiers \in Nat
  /\ \A n \in Essential : n \in Name /\ Recorded(n)
  /\ \A n \in Name : TagOf(n) \in Tags => Recorded(n) /\ copies[n] = records[n]
  /\ \A tag \in Tags : \A k \in 1..Len(Steps(tag)) : Taken(tag, k)

\* so everything is as the last step of each command is to leave it.
LEMMA Completed ==
  ASSUME DeploymentAssumption, DeployInv, run = "done"
  PROVE  AtTheEnd
<1>1. /\ PlanShape /\ TypeOK /\ Shape /\ plan \in Plan /\ Included /\ Verifiers \in Nat
      /\ \A tag \in Tags : \A k \in 1..Len(Steps(tag)) : Taken(tag, k)
  BY AllTaken, CommandsIncluded, RegistryStepsInFull DEF DeploymentAssumption, DeployInv, TypeOK
<1>2. Followed
  <2>1. "votetoken" \in Tags /\ 1 \in 1..Len(Steps("votetoken"))
    BY <1>1, StepsInFull DEF Included
  <2> QED BY <1>1, <2>1 DEF DeployInv, Fresh
<1>3. ASSUME NEW n \in Name, TagOf(n) \in Tags PROVE Recorded(n) /\ copies[n] = records[n]
  <2>1. Taken(TagOf(n), RecordedAt(n)) /\ Taken(TagOf(n), CopiedAt(TagOf(n)))
    BY <1>1, <1>3, OwnSteps
  <2> QED BY <1>2, <2>1 DEF Followed, AllRecorded, Copied
<1>4. \A n \in Essential \ {"PartyRegistrationValidator"} : n \in Name /\ TagOf(n) \in Tags
  BY <1>1 DEF Essential, Name, TagOf, Included
<1>5. "PartyRegistrationValidator" \in Name /\ Recorded("PartyRegistrationValidator")
  <2>1. Recorded("OcnRegistry") /\ "OcnRegistry" \in Name
    BY <1>3, <1>4 DEF Essential
  <2>2. 0 \notin Range(Args("OcnRegistry"))
    BY <1>2, <2>1 DEF Followed, Made
  <2>3. Args("OcnRegistry")[2] \in Range(Args("OcnRegistry"))
    BY DEF Args, Range
  <2> QED BY <2>2, <2>3 DEF Args, Recorded, Name
<1> QED BY <1>1, <1>2, <1>3, <1>4, <1>5 DEF AtTheEnd

\* The contracts of a script that has come to its end are in the timelock's hands.
LEMMA EndsHandedOver == ASSUME DeploymentAssumption, DeployInv PROVE HandedOver
<1> SUFFICES ASSUME run = "done" PROVE HandedOver
  BY DEF HandedOver
<1> DEFINE timelock == records["Timelock"]
           D == <<"admin", Deployer>>
           T == <<"admin", timelock>>
           prv == "PartyRegistrationValidator"
           V == Verifiers
           C == <<"CPO", records["CPOOracle"]>>
           E == <<"EMSP", records["EMSPOracle"]>>
<1>1. AtTheEnd
  BY Completed
<1>2. /\ Followed /\ V \in Nat /\ plan \in Plan /\ \A n \in Essential : n \in Name /\ Recorded(n)
      /\ Included
  BY <1>1, CommandsIncluded DEF AtTheEnd
<1>3. /\ Taken("votetoken", 3)
      /\ Taken("setup", 1) /\ Taken("setup", 2) /\ Taken("setup", 3)
      /\ Taken("payment", 2) /\ Taken("payment", 4)
      /\ \A i \in 1..V : Taken("registry", i + 2)
      /\ Taken("registry", V + 3) /\ Taken("registry", V + 4)
      /\ Taken("registry", V + 5) /\ Taken("registry", V + 6)
  <2>1. \A tag \in Tags : \A k \in 1..Len(Steps(tag)) : Taken(tag, k)
    BY <1>1 DEF AtTheEnd
  <2>2. {"votetoken", "setup", "payment", "registry"} \subseteq Tags
    BY <1>2 DEF Included
  <2>3. /\ 3 \in 1..Len(Steps("votetoken")) /\ {1, 2, 3} \subseteq 1..Len(Steps("setup"))
        /\ {2, 4} \subseteq 1..Len(Steps("payment"))
    BY StepsInFull
  <2>4. Len(Steps("registry")) = V + 6
    BY <1>1, RegistryStepsInFull DEF Steps, AtTheEnd
  <2>5. /\ {V + 3, V + 4, V + 5, V + 6} \subseteq 1..Len(Steps("registry"))
        /\ \A i \in 1..V : i + 2 \in 1..Len(Steps("registry"))
    BY <1>2, <2>4
  <2> QED BY <2>1, <2>2, <2>3, <2>5
<1>4. timelock \in Nat /\ Deployer \notin Nat
  BY <1>1, <1>2 DEF AtTheEnd, Shape, DeploymentAssumption, Essential
<1>5. {"OcnVoteToken", "Timelock", "OcnGovernor", "OcnPaymentManager", prv, "OcnRegistry"} \subseteq Essential
  BY DEF Essential
<1>6. Contract("Timelock").roles = {T, <<"proposer", records["OcnGovernor"]>>, <<"executor", Anyone>>}
  BY <1>2, <1>3, <1>5 DEF Followed, TimelockRoles
<1>7. Contract("OcnVoteToken").roles = {<<"delegate", Deployer>>}
  BY <1>2, <1>3, <1>5 DEF Followed, VoteTokenRoles
<1>8. Contract("OcnPaymentManager").roles = {T, <<"upgrader", Deployer>>}
  BY <1>2, <1>3 DEF Followed, PaymentManagerMade, PaymentRolesMoved
<1>9. Contract("OcnRegistry").roles = {T}
  BY <1>2, <1>3, <1>5 DEF Followed, RegistryRoles
<1>10. Contract(prv).roles = {T} \union Allowed \union Oracles
  <2> DEFINE roles == Contract(prv).roles
  <2>1. /\ roles \subseteq {D, T} \union Allowed \union Oracles
        /\ \A i \in 1..V : <<"verifier", plan.verifiers[i]>> \in roles
        /\ C \in Oracles => C \in roles
        /\ E \in Oracles => E \in roles
        /\ D \notin roles /\ T \in roles
    BY <1>2, <1>3, <1>5 DEF Followed, ValidatorRoles
  <2>2. Allowed \subseteq roles
    BY <2>1 DEF Allowed
  <2>3. Oracles \subseteq roles
    BY <2>1, OraclesAre
  <2> QED BY <2>1, <2>2, <2>3
<1>11. Allowed = {<<"verifier", x>> : x \in Range(plan.verifiers)}
  <2>1. DOMAIN plan.verifiers = 1..V
    BY <1>1, RegistryStepsInFull DEF AtTheEnd
  <2> QED BY <2>1 DEF Allowed, Range
<1>12. Oracles = {r \in (IF plan.devChain THEN {} ELSE {C, E}) : r[2] # 0}
  <2>1. C[2] = records["CPOOracle"] /\ E[2] = records["EMSPOracle"]
    OBVIOUS
  <2> QED BY <2>1, OraclesAre DEF Recorded
<1>13. \A n \in {"OcnGovernor", prv, "OcnRegistry"} : Contract(n).args = Args(n)
  BY <1>2, <1>5 DEF Followed, Made
<1> QED BY <1>2, <1>6, <1>7, <1>8, <1>9, <1>10, <1>11, <1>12, <1>13 DEF HandedOver

\* The least element.
LEMMA MinIs ==
  ASSUME NEW S \in SUBSET Nat, NEW x \in S, \A y \in S : x <= y
  PROVE  Min(S) = x
<1>1. Min(S) \in S /\ \A y \in S : Min(S) <= y
  BY DEF Min
<1>2. Min(S) <= x /\ x <= Min(S) /\ x \in Nat /\ Min(S) \in Nat
  BY <1>1
<1> QED BY <1>2

\* The first that is a number.
LEMMA FirstIs ==
  ASSUME NEW s, NEW n \in Nat, DOMAIN s = 1..n, NEW i \in 1..n, s[i] # 0, \A j \in 1..n : j < i => s[j] = 0
  PROVE  FirstOf(s) = s[i]
<1> DEFINE S == {j \in DOMAIN s : s[j] # 0}
<1>1. S \in SUBSET Nat /\ i \in S /\ \A j \in S : i <= j
  OBVIOUS
<1>2. Min(S) = i
  BY <1>1, MinIs
<1> QED BY <1>2 DEF FirstOf

\* The first that is a number of all, or after one or three zeros.
LEMMA FirstOfThem ==
  ASSUME NEW s, NEW n \in {2, 3, 4}, DOMAIN s = 1..n
  PROVE  /\ s[1] # 0 => FirstOf(s) = s[1]
         /\ s[1] = 0 /\ s[2] # 0 => FirstOf(s) = s[2]
         /\ n = 4 /\ s[1] = 0 /\ s[2] = 0 /\ s[3] = 0 /\ s[4] # 0 => FirstOf(s) = s[4]
<1>1. ASSUME s[1] # 0 PROVE FirstOf(s) = s[1]
  <2>1. 1 \in 1..n /\ \A j \in 1..n : ~(j < 1)
    BY <1>1
  <2> QED BY <1>1, <2>1, FirstIs
<1>2. ASSUME s[1] = 0, s[2] # 0 PROVE FirstOf(s) = s[2]
  <2>1. 2 \in 1..n /\ \A j \in 1..n : j < 2 => j = 1
    BY <1>2
  <2> QED BY <1>2, <2>1, FirstIs
<1>3. ASSUME n = 4, s[1] = 0, s[2] = 0, s[3] = 0, s[4] # 0 PROVE FirstOf(s) = s[4]
  <2>1. 4 \in 1..n /\ \A j \in 1..n : j < 4 => j = 1 \/ j = 2 \/ j = 3
    BY <1>3
  <2> QED BY <1>3, <2>1, FirstIs
<1> QED BY <1>1, <1>2, <1>3

\* The same for the lists of the manifest.
LEMMA FirstOfTwo ==
  \A s : DOMAIN s = 1..2 =>
    /\ s[1] # 0 => FirstOf(s) = s[1]
    /\ s[1] = 0 /\ s[2] # 0 => FirstOf(s) = s[2]
BY FirstOfThem

LEMMA FirstOfThree ==
  \A s : DOMAIN s = 1..3 =>
    /\ s[1] # 0 => FirstOf(s) = s[1]
    /\ s[1] = 0 /\ s[2] # 0 => FirstOf(s) = s[2]
BY FirstOfThem

LEMMA FirstOfFour ==
  \A s : DOMAIN s = 1..4 =>
    /\ s[1] # 0 => FirstOf(s) = s[1]
    /\ s[1] = 0 /\ s[2] # 0 => FirstOf(s) = s[2]
    /\ s[1] = 0 /\ s[2] = 0 /\ s[3] = 0 /\ s[4] # 0 => FirstOf(s) = s[4]
BY FirstOfThem

\* Those who read what a script has left find the contracts.
LEMMA EndsFound == ASSUME DeploymentAssumption, DeployInv PROVE FoundByItsUsers
<1> SUFFICES ASSUME run = "done" PROVE FoundByItsUsers
  BY DEF FoundByItsUsers
<1> DEFINE pm == "OcnPaymentManager"
           gov == "OcnGovernor"
           reg == "OcnRegistry"
           mock == "MockERC20"
           euro == "EuroStableCoin"
<1>1. AtTheEnd
  BY Completed
<1>2. /\ Followed /\ plan \in Plan /\ \A n \in Essential : n \in Name /\ Recorded(n)
      /\ Included /\ PlanShape /\ \A n \in Name : records[n] \in Nat
  BY <1>1, CommandsIncluded DEF AtTheEnd, Shape
<1>3. \A n \in Name : Recorded(n) => copies[n] = records[n]
  BY <1>1, <1>2 DEF AtTheEnd, Followed, Made
<1>4. ASSUME "subgraph" \in Range(Commands)
      PROVE  /\ \A n \in Indexed :
                  manifest[n].address = records[n] /\ manifest[n].startBlock \in 1..records[n]
             /\ manifest["Stablecoin"].address = Contract(pm).args[1]
             /\ manifest["Stablecoin"].startBlock \in 1..records[pm]
  <2>1. "subgraph" \in Tags /\ plan.script # "basic"
    <3>1. PICK i \in DOMAIN Commands : Commands[i] = "subgraph"
      BY <1>4 DEF Range
    <3>2. DOMAIN Commands = 1..Len(Commands)
      BY <1>2, CommandsDomain
    <3> QED BY <1>2, <3>1, <3>2 DEF Tags, Included
  <2>2. manifest = Manifest
    <3>1. Taken("subgraph", 1)
      BY <1>1, <2>1, StepsInFull DEF AtTheEnd
    <3> QED BY <1>2, <3>1 DEF Followed, ManifestWritten
  <2>3. /\ Contract(pm).args = <<Stablecoin>> /\ Stablecoin # 0
        /\ \A n \in {gov, mock, euro} : records[n] < records[pm]
    <3>1. Taken("payment", 2)
      BY <1>1, <1>2, StepsInFull DEF AtTheEnd, Included
    <3> QED BY <1>2, <3>1 DEF Followed, PaymentManagerMade
  <2>4. {pm, gov, reg, mock, euro, "CertificateVerifier"} \subseteq Name
        /\ {pm, gov, reg, "CertificateVerifier"} \subseteq Essential
    BY DEF Name, Essential
  <2>5. records[reg] \in Nat \ {0} /\ records[gov] \in Nat \ {0} /\ records[pm] \in Nat \ {0}
        /\ records[mock] \in Nat /\ records[euro] \in Nat
    BY <1>2, <2>4 DEF Recorded
  <2>6. FallbackStartBlock \in 1..records[gov]
    <3> DEFINE S == {BlockNumber(n) : n \in {reg, pm, gov}} \ {0}
    <3>1. S = {records[reg], records[gov]}
      BY <2>5 DEF BlockNumber
    <3>2. CASE records[reg] <= records[gov]
      <4>1. Min(S) = records[reg]
        BY <2>5, <3>1, <3>2, MinIs
      <4> QED BY <2>5, <3>2, <4>1 DEF FallbackStartBlock
    <3>3. CASE records[gov] <= records[reg]
      <4>1. Min(S) = records[gov]
        BY <2>5, <3>1, <3>3, MinIs
      <4> QED BY <2>5, <3>3, <4>1 DEF FallbackStartBlock
    <3> QED BY <2>5, <3>2, <3>3
  <2>7. ASSUME NEW n \in Indexed
        PROVE  manifest[n].address = records[n] /\ manifest[n].startBlock \in 1..records[n]
    <3>1. manifest[n] = [address |-> records[n], startBlock |-> FirstOf(<<BlockNumber(n), FallbackStartBlock>>)]
      BY <2>2 DEF Manifest, Indexed
    <3> DEFINE s == <<BlockNumber(n), FallbackStartBlock>>
    <3>2. DOMAIN s = 1..2 /\ s[1] = BlockNumber(n) /\ s[2] = FallbackStartBlock
      OBVIOUS
    <3> HIDE DEF s
    <3>3. CASE n = pm
      <4>1. s[1] = 0 /\ s[2] # 0
        BY <2>5, <2>6, <3>2, <3>3 DEF BlockNumber
      <4>2. FirstOf(s) = s[2]
        BY <3>2, <4>1, FirstOfTwo
      <4>3. FirstOf(s) \in 1..records[pm]
        BY <2>3, <2>5, <2>6, <3>2, <4>2
      <4> QED BY <3>1, <3>3, <4>3 DEF s
    <3>4. CASE n # pm
      <4>1. s[1] = records[n] /\ records[n] \in Nat \ {0}
        BY <1>2, <2>4, <3>2, <3>4 DEF BlockNumber, Indexed, Recorded
      <4>2. FirstOf(s) = s[1]
        BY <3>2, <4>1, FirstOfTwo
      <4>3. FirstOf(s) \in 1..records[n]
        BY <4>1, <4>2
      <4> QED BY <3>1, <4>3 DEF s
    <3> QED BY <3>3, <3>4
  <2>8. manifest["Stablecoin"].address = Stablecoin
    <3>1. manifest["Stablecoin"].address = FirstOf(StablecoinSources)
      BY <2>2 DEF Manifest, Indexed
    <3>2. /\ DOMAIN StablecoinSources = 1..3
          /\ StablecoinSources[1] = IF plan.script = "prod-external" THEN 1 ELSE 0
          /\ StablecoinSources[2] = records[mock]
      BY DEF StablecoinSources
    <3>3. CASE plan.script = "prod-external"
      <4>1. FirstOf(StablecoinSources) = StablecoinSources[1]
        BY <3>2, <3>3, FirstOfThree
      <4> QED BY <3>1, <3>2, <3>3, <4>1 DEF Stablecoin
    <3>4. CASE plan.script # "prod-external"
      <4>1. Stablecoin = records[mock]
        BY <2>1, <3>4 DEF Stablecoin
      <4>2. FirstOf(StablecoinSources) = StablecoinSources[2]
        BY <2>3, <3>2, <3>4, <4>1, FirstOfThree
      <4> QED BY <3>1, <3>2, <4>1, <4>2
    <3> QED BY <3>3, <3>4
  <2>9. manifest["Stablecoin"].startBlock \in 1..records[pm]
    <3> DEFINE s == <<records[mock], records[euro], BlockNumber(pm), FallbackStartBlock>>
    <3>1. manifest["Stablecoin"].startBlock = FirstOf(s)
      BY <2>2 DEF Manifest, Indexed
    <3>2. /\ DOMAIN s = 1..4 /\ s[1] = records[mock] /\ s[2] = records[euro] /\ s[3] = 0
          /\ s[4] = FallbackStartBlock
      BY DEF BlockNumber
    <3> HIDE DEF s
    <3>3. CASE records[mock] # 0
      <4>1. FirstOf(s) = s[1]
        BY <3>2, <3>3, FirstOfFour
      <4> QED BY <2>3, <2>5, <3>1, <3>2, <3>3, <4>1
    <3>4. CASE records[mock] = 0 /\ records[euro] # 0
      <4>1. FirstOf(s) = s[2]
        BY <3>2, <3>4, FirstOfFour
      <4> QED BY <2>3, <2>5, <3>1, <3>2, <3>4, <4>1
    <3>5. CASE records[mock] = 0 /\ records[euro] = 0
      <4>1. FirstOf(s) = s[4]
        BY <2>5, <2>6, <3>2, <3>5, FirstOfFour
      <4> QED BY <2>3, <2>5, <2>6, <3>1, <3>2, <4>1
    <3> QED BY <3>3, <3>4, <3>5
  <2> QED BY <2>3, <2>7, <2>8, <2>9
<1> QED BY <1>3, <1>4 DEF FoundByItsUsers

\* The scripts are always at a step of one of their commands, and the records and
\* their copies name contracts of their name.
THEOREM DeployedTypeCorrect == ASSUME DeploymentAssumption PROVE Spec => []TypeOK
<1>1. DeployInv => TypeOK
  BY DEF DeployInv
<1> QED BY <1>1, DeployInvHolds, PTL

\* Every script that comes to its end has handed the contracts over to the
\* governance, for every list of verifiers and whatever was repeated on the way.
THEOREM DoneIsHandedOver == ASSUME DeploymentAssumption PROVE Spec => []HandedOver
BY EndsHandedOver, DeployInvHolds, PTL

\* The library and the subgraph find the contracts that such a script deployed.
THEOREM DoneIsFound == ASSUME DeploymentAssumption PROVE Spec => []FoundByItsUsers
BY EndsFound, DeployInvHolds, PTL

\* A checked script started from its beginning is stopped by faults only, or by a
\* verifier listed twice, whatever earlier attempts left behind.
THEOREM CleanStartsSucceed == ASSUME DeploymentAssumption PROVE Spec => []StartsOverClean
<1>1. DeployInv => StartsOverClean
  BY DEF DeployInv
<1> QED BY <1>1, DeployInvHolds, PTL
=============================================================================
