---------------------------- MODULE OcnNetworkMC ----------------------------
(* A small instance of OcnNetwork for TLC. *)
EXTENDS OcnNetwork, FiniteSets, TLC

CONSTANTS a1, a2

\* A domain without scheme, a URL, and a URL with a path.
Typed == {"a.org", "https://b.org", "https://b.org/ocn"}

Origins ==
  "a.org" :> NotUrl @@ "https://b.org" :> "https://b.org" @@ "https://b.org/ocn" :> "https://b.org"

\* An id in lower case and one that is too short.
TypedIds == {"de abc", "de ab"}
UpperCased == "de abc" :> "DE ABC" @@ "de ab" :> NoOcpiId

CertificatesOf(owner, refusal) ==
  [readable |-> TRUE, owner |-> owner, roles |-> {"CPO"}, refusal |-> refusal]

\* Accepted, refused with an error the library knows, with one it does not, and
\* files that cannot be read.
Accepted == CertificatesOf(a1, "")

Files ==
  {Accepted, CertificatesOf(a1, "InvalidCertificate"),
   CertificatesOf(a1, "error of a verifier"),
   [Accepted EXCEPT !.readable = FALSE]}

FounderNode == [operator |-> a1, domain |-> "a.org"]

Running(p) == phase[p] \notin {"idle", "ended"}

\* Of the library: two commands at a time; raw messages of a2 only; commands that
\* are refused, or name bad certificates, come first; connections lost after
\* something was sent.  Of the subgraph: one domain, one operator for parties, two
\* places for them and one that pays.
Usage ==
  /\ part = "library" =>
       /\ Cardinality({p \in Client!Process : Running(p)'}) <= 2
       /\ \A p \in Client!Process :
            /\ report'[p] = "Network connection error" => tx[p] # "none"
            /\ call'[p].command \in {"set-node-raw", "delete-node-raw"} => call'[p].signer # a1
            /\ call'[p].domain # "https://b.org"
            /\ p > 1 /\ phase[p] = "idle" /\ phase'[p] # "idle" =>
                 phase'[p] # "ended" /\ call'[p].certificates \in {Accepted, Client!Blank.certificates}
       /\ \A a \in Account : partyOf'[a].paymentStatus = "PENDING"
  /\ part = "subgraph" =>
       /\ uniqueDomains' \subseteq {"a.org"}
       /\ admins' \subseteq Account
       /\ NoAddress \notin uniqueOperators'
       /\ Len(parties') <= 2
       /\ \A a \in Account : operatorOf'[a] \in {NoAddress, a1}
       /\ partyOf'[a2].paymentStatus = "PENDING"
=============================================================================
