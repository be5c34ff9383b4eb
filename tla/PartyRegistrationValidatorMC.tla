--------------------- MODULE PartyRegistrationValidatorMC ---------------------
(* Small instances of PartyRegistrationValidator for TLC: the certificates and *)
(* the lists of roles that are tried in every reachable state.                 *)
EXTENDS PartyRegistrationValidator

CONSTANTS a1, a2, v1, v2, cv1, cv2, id1, id2, MaxRoles

Signed(contract, kind, signer, id, owner) ==
  [signedFor |-> contract, kind |-> kind, signer |-> signer, identifier |-> id, owner |-> owner]

\* Two owners, two signers, two identifiers, two kinds, a stale verifier contract.
RealCertificates ==
  {Signed(cv1, "EMP", v1, id1, a1), Signed(cv2, "EMP", v1, id1, a1),
   Signed(cv1, "CPO", v2, id2, a1), Signed(cv1, "CPO", v1, id1, a2)}

\* With one that leaves the owner 0.
AllCertificates == RealCertificates \union {Signed(cv1, "CPO", v1, id1, NoAddress)}

\* Every list of at most MaxRoles roles.
AllRoleLists == UNION {[1..n -> [role : Role, certificate : Certificate]] : n \in 1..MaxRoles}
=============================================================================
