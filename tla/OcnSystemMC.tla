----------------------------- MODULE OcnSystemMC -----------------------------
(* A small instance of OcnSystem for TLC. *)
EXTENDS OcnSystem

CONSTANTS a1, a2, v1, cv1, id1

Signed(kind) ==
  [signedFor |-> cv1, kind |-> kind, signer |-> v1, identifier |-> id1, owner |-> a1]

\* A party's certificates; submitted for the other role they are refused.
Certificates == {Signed("CPO"), Signed("EMP")}

\* Every list of one role or two.
ShortRoleLists == UNION {[1..n -> [role : Role, certificate : Certificate]] : n \in 1..2}

\* Who administers the contracts and who operates the registry stays as deployed,
\* and tokens move only into and out of the payment manager: the rest is checked
\* with each contract.  a1 is the party, which a2 may pay for; a2 has the node.
AsDeployed ==
  /\ UNCHANGED <<registryAdmins, validatorAdmins, paymentAdmins, upgraders, version,
                 operatorAddress, fundingYearlyAmount>>
  /\ stakedFunds' = stakedFunds => balance' = balance
  /\ stakingBlock'[a2] = 0 /\ stakingBlock'[NoAddress] = 0
  /\ uniqueOperators' \subseteq {a2}
=============================================================================
