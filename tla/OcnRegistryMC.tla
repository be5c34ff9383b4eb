---------------------------- MODULE OcnRegistryMC ----------------------------
(* Small instances of OcnRegistry for TLC. *)
EXTENDS OcnRegistry, TLC

CONSTANTS a1, a2

\* Domains, ids, roles and validators are interchangeable; the accounts are not:
\* one of them deploys the contract.
Interchangeable ==
  Permutations(Domain) \union Permutations(OcpiId) \union Permutations(Role)
    \union Permutations(Validator)
=============================================================================
