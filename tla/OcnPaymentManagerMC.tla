------------------------- MODULE OcnPaymentManagerMC -------------------------
(* Small instances of OcnPaymentManager for TLC. *)
EXTENDS OcnPaymentManager, TLC

CONSTANTS a1, a2

\* The administration of roles is independent of the stakes: runs about stakes
\* leave the roles and the version as deployed.
RolesAsDeployed == UNCHANGED <<roleVars, version>>
=============================================================================
