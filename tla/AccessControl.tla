---------------------------- MODULE AccessControl ----------------------------
(***************************************************************************)
(* OpenZeppelin's AccessControl, as the three contracts of this project    *)
(* use it: one role (DEFAULT_ADMIN_ROLE, its own admin) as the set of its  *)
(* members.  The library is not in the repository, so these operators are  *)
(* what its callers rely on: granting and revoking are idempotent.         *)
(***************************************************************************)

Granted(members, account) == members \union {account}

Revoked(members, account) == members \ {account}

\* transferOwnership(newOwner), written alike in the three contracts: grant to
\* the new owner first, then revoke from the caller.
Transferred(members, sender, newOwner) ==
  Revoked(Granted(members, newOwner), sender)

\* What the inherited grantRole, revokeRole and renounceRole let `sender` turn
\* the members of the role into.
Reassigned(members, sender, account) ==
  IF sender \in members
  THEN {Granted(members, account), Revoked(members, account)}
  ELSE {}
=============================================================================
