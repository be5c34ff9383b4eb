-------------------------- MODULE OcnOperationsMC --------------------------
(* A small instance of OcnOperations for TLC. *)
EXTENDS OcnOperations, FiniteSets, TLC

CONSTANTS v1, v2, p1, p2

\* Every script with an environment that is valid, on a development chain and on
\* another; and one that is not, in each of the ways there are.
Environment(script, devChain, verifiers, bad) ==
  [script |-> script, devChain |-> devChain, verifiers |-> verifiers, bad |-> bad, graphKey |-> TRUE]

Plans ==
  {Environment("dev", TRUE, <<v1, v2>>, ""),
   Environment("prod-mock", FALSE, <<v1>>, ""),
   Environment("prod-external", FALSE, <<v1, v2>>, ""),
   Environment("basic", FALSE, <<v1>>, ""),
   [Environment("prod-external", FALSE, <<>>, "") EXCEPT !.graphKey = FALSE],
   Environment("prod-mock", FALSE, <<v1, v1>>, ""),
   Environment("dev", TRUE, <<NotAnAddress>>, ""),
   Environment("basic", FALSE, <<v1>>, "DEFAULT_OPERATOR"),
   Environment("prod-external", FALSE, <<v1>>, "STABLECOIN_ADDRESS"),
   Environment("prod-mock", FALSE, <<v1>>, "DEPLOYER_PRIVATE_KEY")}

Runs == Permutations({p1, p2})

Governed == Environment("prod-external", FALSE, <<v1, v2>>, "")

\* Governance is looked at after one deployment that went well, with three proposals
\* at most, one of which comes before the voters.
Usage ==
  run = "done" =>
    /\ governanceVars' # governanceVars => plan = Governed /\ reruns = 0 /\ faults = 0
    /\ Cardinality(DOMAIN proposals') <= 3
    /\ Cardinality({id \in DOMAIN proposals' : proposals'[id].state # "Pending"}) <= 1
=============================================================================
