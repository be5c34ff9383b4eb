--------------------------- MODULE OcnOperations ---------------------------
(***************************************************************************)
(* The operation of the contracts from a checkout of the repository: they  *)
(* are deployed, and governed with the tasks once a script has come to its *)
(* end.  The tasks find the governor, the timelock and the payment manager *)
(* under the addresses the deployment recorded.                            *)
(***************************************************************************)
EXTENDS Naturals, Sequences

CONSTANTS
  Deployer, Anyone, NotAnAddress, Plan, NoManifest, MaxFaults, MaxReruns,  \* Deployment
  Process, Amount, Description, Way, None, DefaultYearlyAmount, NewYearlyAmount,
  ProposalDescription                                                      \* GovernanceTasks

VARIABLES
  plan, run, command, step, disturbed, faults, reruns, chain, records, copies, manifest

VARIABLES
  proposals, fundingYearlyAmount, file, task, alone

Scripts == INSTANCE Deployment
Tasks == INSTANCE GovernanceTasks

ASSUME OperationsAssumption == Scripts!DeploymentAssumption /\ Tasks!TypedAssumption

deploymentVars ==
  <<plan, run, command, step, disturbed, faults, reruns, chain, records, copies, manifest>>
governanceVars == <<proposals, fundingYearlyAmount, file, task, alone>>
vars == <<deploymentVars, governanceVars>>

Init == Scripts!Init /\ Tasks!Init

DeploymentStep == Scripts!Next /\ UNCHANGED governanceVars

GovernanceStep == run = "done" /\ Tasks!Next /\ UNCHANGED deploymentVars

Next == DeploymentStep \/ GovernanceStep

Spec == Init /\ [][Next]_vars

-----------------------------------------------------------------------------
(* Properties *)

\* The variables of the scripts and of the tasks are well typed.
TypeOK == Scripts!TypeOK /\ Tasks!TypeOK

\* A script that has come to its end leaves the contracts to the governance: see
\* Deployment.
HandedOver == Scripts!HandedOver

\* The library and the subgraph find what was deployed: see Deployment.
FoundByItsUsers == Scripts!FoundByItsUsers

\* A script can be started over after any failure: see Deployment.
StartsOverClean == Scripts!StartsOverClean

\* proposals.json can be relied on, but for overlapping runs: see GovernanceTasks.
FileTellsProposals == Tasks!FileTellsProposals

\* No vote against, and no amount of 0: see GovernanceTasks.
ZerosAreReplaced == Tasks!ZerosAreReplaced
=============================================================================
