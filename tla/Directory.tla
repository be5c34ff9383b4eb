------------------------------ MODULE Directory ------------------------------
(***************************************************************************)
(* What the OCN Registry promises to the network, with none of its         *)
(* bookkeeping: a node directory (operator -> domain) in which no domain   *)
(* is listed twice, and a party directory (party -> listing) in which no   *)
(* country_code/party_id is listed twice and every listing was published   *)
(* at an operator that had a node at that moment.                          *)
(***************************************************************************)
CONSTANTS
  Operator,    \* addresses a node can be listed under
  Party,       \* addresses a party can be listed under
  Domain,      \* domain names
  NoDomain,    \* "": the operator has no node
  OcpiId,      \* country_code/party_id pairs
  Role,        \* OCPI roles
  NotListed    \* the party has no listing

VARIABLES
  node,        \* the domain of each operator
  listing      \* the listing of each party

vars == <<node, listing>>

Listing == [ocpi : OcpiId, roles : (SUBSET Role) \ {{}}, operator : Operator]

DirectoryTypeOK ==
  /\ node \in [Operator -> Domain \union {NoDomain}]
  /\ listing \in [Party -> Listing \union {NotListed}]

Init ==
  /\ node = [o \in Operator |-> NoDomain]
  /\ listing = [p \in Party |-> NotListed]

\* An operator lists a node, or moves it, at a domain nobody has listed.
PublishNode(o, d) ==
  /\ \A other \in Operator : node[other] # d
  /\ node' = [node EXCEPT ![o] = d]
  /\ UNCHANGED listing

RetireNode(o) ==
  /\ node[o] # NoDomain
  /\ node' = [node EXCEPT ![o] = NoDomain]
  /\ UNCHANGED listing

\* A party is listed, or its listing replaced, under an id no other party is
\* listed under.
List(p, l) ==
  /\ node[l.operator] # NoDomain
  /\ \A other \in Party \ {p} : listing[other] = NotListed \/ listing[other].ocpi # l.ocpi
  /\ listing' = [listing EXCEPT ![p] = l]
  /\ UNCHANGED node

Delist(p) ==
  /\ listing[p] # NotListed
  /\ listing' = [listing EXCEPT ![p] = NotListed]
  /\ UNCHANGED node

Next ==
  \/ \E o \in Operator, d \in Domain : PublishNode(o, d)
  \/ \E o \in Operator : RetireNode(o)
  \/ \E p \in Party, l \in Listing : List(p, l)
  \/ \E p \in Party : Delist(p)

Spec == Init /\ [][Next]_vars
=============================================================================
