------------------- MODULE PartyRegistrationValidatorProofs -------------------
(***************************************************************************)
(* Theorems about PartyRegistrationValidator, for any certificates, lists  *)
(* of roles of any length, verifiers and oracles.                          *)
(***************************************************************************)
EXTENDS PartyRegistrationValidator, FiniteSetTheorems, TLAPS

-----------------------------------------------------------------------------
(* Administration *)

\* Every transaction keeps the type of every variable.
THEOREM TypeCorrect == ASSUME ValidatorAssumption PROVE Spec => []TypeOK
<1>1. Init => TypeOK
  BY DEF Init, TypeOK, ValidatorAssumption
<1>2. TypeOK /\ [Next]_vars => TypeOK'
  <2> SUFFICES ASSUME TypeOK, [Next]_vars PROVE TypeOK'
    OBVIOUS
  <2> USE DEF TypeOK
  <2>1. ASSUME NEW sender \in Account, AdminStep(sender) PROVE TypeOK'
    <3>1. ASSUME NEW a \in Account \union {NoAddress}, TransferOwnership(sender, a) PROVE TypeOK'
      BY <3>1 DEF TransferOwnership, Transferred, Granted, Revoked
    <3>2. ASSUME NEW a \in Account \union {NoAddress}, ReassignAdmin(sender, a) PROVE TypeOK'
      BY <3>2 DEF ReassignAdmin, Reassigned, Granted, Revoked
    <3>3. ASSUME NEW v \in CertificateVerifier \union {NoAddress}, SetCertificateVerifier(sender, v)
          PROVE  TypeOK'
      BY <3>3 DEF SetCertificateVerifier
    <3>4. ASSUME NEW v \in Verifier \union {NoAddress}, SetVerifier(sender, v) PROVE TypeOK'
      BY <3>4 DEF SetVerifier
    <3>5. ASSUME NEW v \in Verifier \union {NoAddress}, RemoveVerifier(sender, v) PROVE TypeOK'
      BY <3>5 DEF RemoveVerifier
    <3>6. ASSUME NEW r \in Role, NEW o \in Oracle \union {NoAddress}, SetProviderOracle(sender, r, o)
          PROVE  TypeOK'
      BY <3>6 DEF SetProviderOracle
    <3> QED BY <2>1, <3>1, <3>2, <3>3, <3>4, <3>5, <3>6 DEF AdminStep
  <2>2. ASSUME NEW o \in Oracle, NEW ids \in SUBSET Identifier, ProviderChanges(o, ids) PROVE TypeOK'
    BY <2>2 DEF ProviderChanges
  <2>3. CASE UNCHANGED vars
    BY <2>3 DEF vars
  <2> QED BY <2>1, <2>2, <2>3 DEF Next
<1> QED BY <1>1, <1>2, PTL DEF Spec

\* Only an admin changes the rules of registration: without one they stay.
THEOREM OrphanStaysFrozen == Spec => OrphanIsFrozen
<1>1. ASSUME [Next]_vars, admins = {}
      PROVE  UNCHANGED <<admins, allowedCertificateVerifiers, roleOracle, certificateVerifier>>
  <2>1. ASSUME NEW sender \in Account, AdminStep(sender) PROVE FALSE
    BY <1>1, <2>1 DEF AdminStep, TransferOwnership, ReassignAdmin, Reassigned,
       SetCertificateVerifier, SetVerifier, RemoveVerifier, SetProviderOracle
  <2>2. ASSUME NEW o \in Oracle, NEW ids \in SUBSET Identifier, ProviderChanges(o, ids)
        PROVE  UNCHANGED <<admins, allowedCertificateVerifiers, roleOracle, certificateVerifier>>
    BY <2>2 DEF ProviderChanges
  <2> QED BY <1>1, <2>1, <2>2 DEF Next, vars
<1> QED BY <1>1, PTL DEF Spec, OrphanIsFrozen

-----------------------------------------------------------------------------
(* The loop of validateRegistration.  FoldLeft is a recursive function over *)
(* sets of positions, each taken from its last position; its values are     *)
(* given in closed form below.                                              *)

LEMMA LeastNumber ==
  ASSUME NEW T \in SUBSET Nat, T # {}
  PROVE  \E n \in T : \A m \in T : n <= m
<1> DEFINE R == OpToRel(<, Nat)
<1>1. \A a, b \in Nat : a < b => <<a, b>> \in R
  BY DEF OpToRel
<1>2. IsWellFoundedOn(R, Nat)
  BY NatLessThanWellFounded
<1> HIDE DEF R
<1>3. PICK n \in T : \A m \in T : <<m, n>> \notin R
  BY <1>2, WFMin
<1>4. ASSUME NEW m \in T PROVE n <= m
  <2>1. ~(m < n)
    BY <1>1, <1>3
  <2> QED BY <2>1
<1> QED BY <1>4

LEMMA OneLeast ==
  ASSUME NEW T \in SUBSET Nat, NEW n \in T, \A m \in T : n <= m
  PROVE  (CHOOSE i \in T : \A m \in T : i <= m) = n
<1>1. \A i \in T : (\A m \in T : i <= m) => i = n
  <2> SUFFICES ASSUME NEW i \in T, \A m \in T : i <= m PROVE i = n
    OBVIOUS
  <2>1. i <= n /\ n <= i /\ i \in Nat /\ n \in Nat
    OBVIOUS
  <2> QED BY <2>1
<1> QED BY <1>1

LEMMA LastPosition ==
  ASSUME NEW n \in Nat, NEW s \in SUBSET (1..n), s # {}
  PROVE  /\ Max(s) \in s
         /\ \A i \in s : i <= Max(s)
<1> DEFINE after == {n - j : j \in s}
<1>1. after \in SUBSET Nat /\ after # {}
  <2>1. \A j \in s : j \in 1..n
    OBVIOUS
  <2>2. \A j \in 1..n : n - j \in Nat
    OBVIOUS
  <2> QED BY <2>1, <2>2
<1>2. PICK k \in after : \A l \in after : k <= l
  BY <1>1, LeastNumber
<1>3. PICK i \in s : k = n - i
  OBVIOUS
<1>4. \A j \in s : i >= j
  <2> SUFFICES ASSUME NEW j \in s PROVE i >= j
    OBVIOUS
  <2>1. n - i <= n - j
    BY <1>2, <1>3
  <2> QED BY <2>1
<1> QED BY <1>4 DEF Max

\* The positions of s whose certificate names an owner, and the first of them.
Owned(roles, s) == {i \in s : roles[i].certificate.owner # NoAddress}

FirstOwned(roles, s) == CHOOSE i \in Owned(roles, s) : \A j \in Owned(roles, s) : i <= j

\* The owner the loop has read after the positions s: that of the first
\* certificate that names one.
OwnerRead(roles, s) ==
  IF Owned(roles, s) = {} THEN NoAddress ELSE roles[FirstOwned(roles, s)].certificate.owner

\* From that certificate on, every certificate names that owner.
OwnersMatch(roles, s) ==
  \A i \in Owned(roles, s), j \in s :
    i <= j => roles[j].certificate.owner = OwnerRead(roles, s)

Valid(roleDetails) == VerifyCertificate(roleDetails) /\ OracleAccepts(roleDetails)

Read(roles, s) ==
  [credentialOwner |-> OwnerRead(roles, s),
   accepted |-> OwnersMatch(roles, s) /\ \A i \in s : Valid(roles[i])]

NothingRead == [credentialOwner |-> NoAddress, accepted |-> TRUE]

\* One more position, after all of s.
LEMMA ReadOneMore ==
  ASSUME NEW n \in Nat, NEW roles, NEW s \in SUBSET (1..n), NEW x \in s, \A i \in s : i <= x
  PROVE  Read(roles, s) = ValidateRole(Read(roles, s \ {x}), roles[x])
<1> DEFINE before == s \ {x}
           owner == roles[x].certificate.owner
<1>0. \A i \in before : i < x /\ i \in s
  OBVIOUS
<1>1. CASE Owned(roles, before) = {}
  <2>1. OwnerRead(roles, before) = NoAddress
    BY <1>1 DEF OwnerRead
  <2>2. OwnersMatch(roles, before)
    BY <1>1 DEF OwnersMatch
  <2>3. Owned(roles, s) = IF owner = NoAddress THEN {} ELSE {x}
    BY <1>1 DEF Owned
  <2>4. owner # NoAddress => FirstOwned(roles, s) = x
    BY <2>3 DEF FirstOwned
  <2>5. OwnerRead(roles, s) = owner
    BY <2>3, <2>4 DEF OwnerRead
  <2>6. OwnersMatch(roles, s)
    BY <1>0, <2>3, <2>5 DEF OwnersMatch
  <2>7. ValidateRole(Read(roles, before), roles[x]) =
          [credentialOwner |-> owner,
           accepted |-> (\A i \in before : Valid(roles[i])) /\ Valid(roles[x])]
    BY <2>1, <2>2 DEF Read, ValidateRole, Valid
  <2> QED BY <2>5, <2>6, <2>7 DEF Read
<1>2. CASE Owned(roles, before) # {}
  <2>0. \A t \in SUBSET s : Owned(roles, t) \in SUBSET Nat
    <3>1. \A t \in SUBSET s : Owned(roles, t) \subseteq 1..n
      BY DEF Owned
    <3> QED BY <3>1
  <2>1. PICK f \in Owned(roles, before) : \A j \in Owned(roles, before) : f <= j
    BY <1>2, <2>0, LeastNumber
  <2>2. FirstOwned(roles, before) = f
    BY <2>0, <2>1, OneLeast DEF FirstOwned
  <2>3. Owned(roles, s) = Owned(roles, before) \union (IF owner = NoAddress THEN {} ELSE {x})
    BY DEF Owned
  <2>4. FirstOwned(roles, s) = f
    <3>1. f \in Owned(roles, s) /\ \A j \in Owned(roles, s) : f <= j
      BY <1>0, <2>1, <2>3 DEF Owned
    <3> QED BY <2>0, <3>1, OneLeast DEF FirstOwned
  <2>5. OwnerRead(roles, s) = OwnerRead(roles, before)
    BY <1>2, <2>2, <2>3, <2>4 DEF OwnerRead
  <2>6. OwnerRead(roles, before) # NoAddress
    BY <1>2, <2>1, <2>2 DEF OwnerRead, Owned
  <2>7. OwnersMatch(roles, s) <=> OwnersMatch(roles, before) /\ owner = OwnerRead(roles, before)
    <3>1. ASSUME OwnersMatch(roles, s)
          PROVE  OwnersMatch(roles, before) /\ owner = OwnerRead(roles, before)
      <4>1. f \in Owned(roles, s) /\ x \in s /\ f <= x
        BY <1>0, <2>1, <2>3 DEF Owned
      <4> QED BY <2>3, <2>5, <3>1, <4>1 DEF OwnersMatch
    <3>2. ASSUME OwnersMatch(roles, before), owner = OwnerRead(roles, before)
          PROVE  OwnersMatch(roles, s)
      <4> SUFFICES ASSUME NEW i \in Owned(roles, s), NEW j \in s, i <= j
                   PROVE  roles[j].certificate.owner = OwnerRead(roles, before)
        BY <2>5 DEF OwnersMatch
      <4>1. CASE j = x
        BY <3>2, <4>1
      <4>2. CASE j # x
        <5>1. j \in before /\ j < x
          BY <1>0, <4>2
        <5>2. i # x
          BY <5>1 DEF Owned
        <5>3. i \in Owned(roles, before)
          BY <2>3, <5>2
        <5> QED BY <3>2, <5>1, <5>3 DEF OwnersMatch
      <4> QED BY <4>1, <4>2
    <3> QED BY <3>1, <3>2
  <2> QED BY <2>5, <2>6, <2>7 DEF Read, ValidateRole, Valid
<1> QED BY <1>1, <1>2

\* What the whole loop returns.
LEMMA LoopReadsAll ==
  ASSUME NEW S, NEW roles \in Seq(S)
  PROVE  FoldLeft(ValidateRole, NothingRead, roles) = Read(roles, DOMAIN roles)
<1> DEFINE D == DOMAIN roles
           Eq(g) == g = [s \in SUBSET D |->
                      IF s = {} THEN NothingRead
                      ELSE ValidateRole(g[s \ {Max(s)}], roles[Max(s)])]
           closed == [s \in SUBSET D |-> Read(roles, s)]
<1>1. FoldLeft(ValidateRole, NothingRead, roles) = (CHOOSE g : Eq(g))[D]
  BY DEF FoldLeft, MapThenFoldSet
<1>2. D = 1..Len(roles) /\ Len(roles) \in Nat
  OBVIOUS
<1>3. \A s \in SUBSET D : s # {} => Max(s) \in s /\ \A i \in s : i <= Max(s)
  BY <1>2, LastPosition
<1>4. Eq(closed)
  <2>1. closed[{}] = NothingRead
    BY DEF Read, NothingRead, OwnerRead, OwnersMatch, Owned
  <2>2. ASSUME NEW s \in SUBSET D, s # {}
        PROVE  closed[s] = ValidateRole(closed[s \ {Max(s)}], roles[Max(s)])
    <3>1. Read(roles, s) = ValidateRole(Read(roles, s \ {Max(s)}), roles[Max(s)])
      BY <1>2, <1>3, <2>2, ReadOneMore
    <3> QED BY <3>1
  <2> QED BY <2>1, <2>2
<1>5. ASSUME NEW g, Eq(g) PROVE g[D] = closed[D]
  <2> DEFINE Bad == {s \in SUBSET D : g[s] # closed[s]}
  <2> SUFFICES ASSUME Bad # {} PROVE FALSE
    OBVIOUS
  <2>1. IsWellFoundedOn(StrictSubsetOrdering(D), SUBSET D)
    <3>1. IsFiniteSet(D)
      BY <1>2, FS_Interval
    <3> QED BY <3>1, FS_StrictSubsetOrderingWellFounded, FS_FiniteSubsetsOfFinite
  <2>2. PICK s \in Bad : \A t \in Bad : <<t, s>> \notin StrictSubsetOrdering(D)
    BY <2>1, WFMin
  <2>3. s # {}
    BY <1>4, <1>5
  <2>4. Max(s) \in s /\ s \ {Max(s)} \in SUBSET D
    BY <1>3, <2>3
  <2>5. s \ {Max(s)} \notin Bad
    <3>1. s \in SUBSET D /\ s \ {Max(s)} # s
      BY <2>4
    <3>2. <<s \ {Max(s)}, s>> \in StrictSubsetOrdering(D)
      BY <2>4, <3>1 DEF StrictSubsetOrdering
    <3> QED BY <2>2, <3>2
  <2> HIDE DEF closed
  <2>6. /\ g[s] = ValidateRole(g[s \ {Max(s)}], roles[Max(s)])
        /\ closed[s] = ValidateRole(closed[s \ {Max(s)}], roles[Max(s)])
    BY <1>4, <1>5, <2>3
  <2> QED BY <2>4, <2>5, <2>6
<1>6. Eq(CHOOSE g : Eq(g))
  BY <1>4
<1> HIDE DEF Eq
<1> QED BY <1>1, <1>5, <1>6

\* A list is accepted if each of its certificates is valid and they agree on
\* their owner from the first that names one.
LEMMA AcceptedIf ==
  ASSUME NEW S, NEW roles \in Seq(S)
  PROVE  /\ ValidateRegistration(roles).accepted <=>
              /\ OwnersMatch(roles, DOMAIN roles)
              /\ \A i \in DOMAIN roles : Valid(roles[i])
              /\ Len(roles) <= MaxUint8
         /\ ValidateRegistration(roles).credentialOwner = OwnerRead(roles, DOMAIN roles)
<1>1. FoldLeft(ValidateRole, NothingRead, roles) = Read(roles, DOMAIN roles)
  BY LoopReadsAll
<1>2. ValidateRegistration(roles) =
        [Read(roles, DOMAIN roles) EXCEPT !.accepted = @ /\ Len(roles) <= MaxUint8]
  BY <1>1 DEF ValidateRegistration, NothingRead
<1> QED BY <1>2 DEF Read

-----------------------------------------------------------------------------
(* What is accepted *)

LEMMA ValidMeans ==
  ASSUME ValidatorAssumption, TypeOK, NEW roleDetails
  PROVE  LET c == roleDetails.certificate
             oracle == roleOracle[roleDetails.role]
         IN  Valid(roleDetails) <=>
               /\ c.kind = KindOf(roleDetails.role)
               /\ c.signedFor = certificateVerifier
               /\ c.signer \in allowedCertificateVerifiers
               /\ oracle # NoAddress => c.identifier \in activeProviders[oracle]
<1>1. Unrecognised \notin allowedCertificateVerifiers
  BY DEF TypeOK, ValidatorAssumption
<1> QED BY <1>1 DEF Valid, VerifyCertificate, OracleAccepts, Recovered

\* If every certificate names an owner, agreeing on it means naming the first's.
LEMMA RealOwnersMatch ==
  ASSUME NEW S, NEW roles \in Seq(S), roles # << >>, RealOwners(roles)
  PROVE  /\ OwnerRead(roles, DOMAIN roles) = roles[1].certificate.owner
         /\ OwnersMatch(roles, DOMAIN roles) <=>
              \A i \in DOMAIN roles : roles[i].certificate.owner = roles[1].certificate.owner
<1>1. 1 \in DOMAIN roles /\ DOMAIN roles \in SUBSET Nat /\ \A i \in DOMAIN roles : 1 <= i
  <2>1. DOMAIN roles = 1..Len(roles) /\ Len(roles) \in Nat /\ Len(roles) # 0
    OBVIOUS
  <2> QED BY <2>1
<1>2. Owned(roles, DOMAIN roles) = DOMAIN roles
  BY DEF Owned, RealOwners
<1>3. FirstOwned(roles, DOMAIN roles) = 1
  BY <1>1, <1>2, OneLeast DEF FirstOwned
<1>4. OwnerRead(roles, DOMAIN roles) = roles[1].certificate.owner
  BY <1>1, <1>2, <1>3 DEF OwnerRead
<1> QED BY <1>1, <1>2, <1>4 DEF OwnersMatch

\* The owner returned is one that a certificate names.
LEMMA OwnerIsNamed ==
  ASSUME ValidatorAssumption, NEW roles \in RoleLists, roles # << >>
  PROVE  ValidateRegistration(roles).credentialOwner \in CredentialOwner
<1> DEFINE RoleDetails == [role : Role, certificate : Certificate]
<1>1. roles \in Seq(RoleDetails)
  BY DEF ValidatorAssumption
<1>2. \A i \in DOMAIN roles : roles[i].certificate.owner \in CredentialOwner
  <2>1. \A i \in DOMAIN roles : roles[i] \in RoleDetails
    <3> HIDE DEF RoleDetails
    <3> QED BY <1>1
  <2> QED BY <2>1 DEF ValidatorAssumption
<1>3. DOMAIN roles \in SUBSET Nat /\ 1 \in DOMAIN roles
  BY <1>1
<1>4. OwnerRead(roles, DOMAIN roles) \in CredentialOwner
  <2>1. CASE Owned(roles, DOMAIN roles) = {}
    BY <1>2, <1>3, <2>1 DEF OwnerRead, Owned
  <2>2. CASE Owned(roles, DOMAIN roles) # {}
    <3>1. Owned(roles, DOMAIN roles) \in SUBSET Nat
      BY <1>3 DEF Owned
    <3>2. FirstOwned(roles, DOMAIN roles) \in Owned(roles, DOMAIN roles)
      BY <2>2, <3>1, LeastNumber DEF FirstOwned
    <3>3. FirstOwned(roles, DOMAIN roles) \in DOMAIN roles
      BY <3>2 DEF Owned
    <3> QED BY <1>2, <2>2, <3>3 DEF OwnerRead
  <2> QED BY <2>1, <2>2
<1> QED BY <1>1, <1>4, AcceptedIf

LEMMA AcceptedIsCertified ==
  ASSUME ValidatorAssumption, TypeOK, NEW roles \in RoleLists, RealOwners(roles), roles # << >>
  PROVE  /\ ValidateRegistration(roles).accepted <=>
              /\ \E owner \in CredentialOwner : Certified(roles, owner)
              /\ Len(roles) <= MaxUint8
         /\ ValidateRegistration(roles).accepted =>
              Certified(roles, ValidateRegistration(roles).credentialOwner)
<1> DEFINE first == roles[1].certificate.owner
           RoleDetails == [role : Role, certificate : Certificate]
<1>1. roles \in Seq(RoleDetails)
  BY DEF ValidatorAssumption
<1>2. first \in CredentialOwner /\ 1 \in DOMAIN roles
  <2>1. 1 \in DOMAIN roles
    BY <1>1
  <2>2. roles[1] \in RoleDetails
    <3> HIDE DEF RoleDetails
    <3> QED BY <1>1, <2>1
  <2>3. roles[1].certificate \in Certificate
    BY <2>2
  <2> QED BY <2>1, <2>3 DEF ValidatorAssumption
<1>3. /\ OwnerRead(roles, DOMAIN roles) = first
      /\ OwnersMatch(roles, DOMAIN roles) <=>
           \A i \in DOMAIN roles : roles[i].certificate.owner = first
  BY <1>1, RealOwnersMatch
<1>4. \A owner : Certified(roles, owner) <=>
        /\ \A i \in DOMAIN roles : Valid(roles[i])
        /\ \A i \in DOMAIN roles : roles[i].certificate.owner = owner
  BY ValidMeans DEF Certified
<1> HIDE DEF first
<1>5. \A owner : Certified(roles, owner) => owner = first
  BY <1>2, <1>4 DEF first
<1>6. /\ ValidateRegistration(roles).accepted <=> Certified(roles, first) /\ Len(roles) <= MaxUint8
      /\ ValidateRegistration(roles).credentialOwner = first
  BY <1>1, <1>3, <1>4, AcceptedIf
<1> QED BY <1>2, <1>5, <1>6

\* With certificates of real owners the loop accepts exactly the lists in which
\* every role is certified for one owner, in any order, and returns that owner.
THEOREM AcceptedIsAlwaysCertified ==
  ASSUME ValidatorAssumption PROVE Spec => []AcceptedMeansCertified
<1>1. TypeOK => AcceptedMeansCertified
  BY AcceptedIsCertified DEF AcceptedMeansCertified
<1> QED BY <1>1, TypeCorrect, PTL

\* Taking a verifier or a provider away lets nothing in that was refused before:
\* what the loop checks of the owners does not depend on the state.
THEOREM RevocationsOnlyRefuse ==
  ASSUME ValidatorAssumption PROVE Spec => RevocationOnlyRefuses
<1> DEFINE Tightened ==
             /\ allowedCertificateVerifiers' \subseteq allowedCertificateVerifiers
             /\ \A o \in Oracle : activeProviders'[o] \subseteq activeProviders[o]
             /\ UNCHANGED <<roleOracle, certificateVerifier>>
           AsChecked(roles) ==
             ValidateRegistration(roles).accepted <=>
               /\ OwnersMatch(roles, DOMAIN roles)
               /\ \A i \in DOMAIN roles : Valid(roles[i])
               /\ Len(roles) <= MaxUint8
           RoleDetails == [role : Role, certificate : Certificate]
<1>1. \A roles \in RoleLists : roles \in Seq(RoleDetails)
  BY DEF ValidatorAssumption
<1>2. \A roles \in RoleLists : AsChecked(roles)
  BY <1>1, AcceptedIf
<1>3. (\A roles \in RoleLists : AsChecked(roles))'
  BY <1>2, PTL
<1>4. ASSUME TypeOK, Tightened, NEW roles \in RoleLists, ValidateRegistration(roles)'.accepted
      PROVE  ValidateRegistration(roles).accepted
  <2>1. AsChecked(roles) /\ AsChecked(roles)'
    BY <1>2, <1>3
  <2>2. ASSUME NEW i \in DOMAIN roles, Valid(roles[i])' PROVE Valid(roles[i])
    <3>1. roles[i] \in RoleDetails
      <4> HIDE DEF RoleDetails
      <4> QED BY <1>1
    <3>2. roleOracle[roles[i].role] \in Oracle \union {NoAddress}
      BY <1>4, <3>1 DEF TypeOK
    <3> QED BY <1>4, <2>2, <3>2 DEF Valid, VerifyCertificate, OracleAccepts, Recovered
  <2> QED BY <1>4, <2>1, <2>2 DEF OwnersMatch, OwnerRead, FirstOwned, Owned
<1>5. TypeOK => [Tightened => \A roles \in RoleLists :
                   ValidateRegistration(roles)'.accepted => ValidateRegistration(roles).accepted]_vars
  BY <1>4
<1> QED BY <1>5, TypeCorrect, PTL DEF RevocationOnlyRefuses
=============================================================================
