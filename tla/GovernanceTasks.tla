-------------------------- MODULE GovernanceTasks --------------------------
(***************************************************************************)
(* The hardhat tasks propose, vote, queue and execute, and the file they   *)
(* share, proposals.json.  Each run of a task is a process of its own that *)
(* loads the file when it starts; a proposal is stored by writing back all *)
(* that was loaded with one record more.                                   *)
(*                                                                         *)
(* The governor and the timelock are OpenZeppelin's: a proposal is known   *)
(* by what it calls and its description, here the pair of the amount given *)
(* to setFundingYearlyAmount and the description.  All tasks send from the *)
(* deployer's account, whose votes are the whole supply: its vote decides. *)
(*                                                                         *)
(* proposeSetVerifier is left out: OcnRegistry has no function setVerifier,*)
(* so encoding the call throws before anything is sent or stored.          *)
(***************************************************************************)
EXTENDS Naturals, Sequences, SequencesExt

CONSTANTS
  Process,             \* runs of tasks
  Amount, Description, Way,   \* what is typed; None where it is not
  None,
  DefaultYearlyAmount, NewYearlyAmount, ProposalDescription,
  Anyone

\* Amounts are in whole units; a vote is 0 (against), 1 (for) or 2 (abstain).
TypedAssumption ==
  /\ Amount \subseteq Nat \union {None} /\ Way \subseteq {0, 1, 2, None}
  /\ DefaultYearlyAmount \in Nat \ {0} /\ NewYearlyAmount \in Nat \ {0}
  /\ None \notin Nat

VARIABLES
  chain, records       \* see Deployment

VARIABLES
  proposals,           \* the governor's, by amount and description
  fundingYearlyAmount,
  file,                \* proposals.json, its entry of this network
  task                 \* what each process does, what it loaded, and on what

VARIABLE
  alone                \* the proposals stored since the file was removed last by a
                       \* run of propose that no other one overlapped

taskVars == <<proposals, fundingYearlyAmount, file, task, alone>>

Idle == [does |-> "nothing", loaded |-> <<>>, proposal |-> None, way |-> None, overlapped |-> FALSE]

Init ==
  /\ proposals = [id \in {} |-> None]
  /\ fundingYearlyAmount = DefaultYearlyAmount
  /\ file = <<>>
  /\ task = [p \in Process |-> Idle]
  /\ alone = {}

\* Mutant: what is typed is taken as it is.
AmountAsTyped(typed) == typed

\* A typed 0 and an empty description are falsy, as one that is missing.
AmountOf(typed) == IF typed \in {None, 0} THEN NewYearlyAmount ELSE typed
DescriptionOf(typed) == IF typed = None THEN ProposalDescription ELSE typed

\* Mutant: the same call with another description is another proposal.
SameProposal(record, proposal) == record = proposal

\* getProposalByEncodedFunction
SameCall(record, proposal) == record[1] = proposal[1]

-----------------------------------------------------------------------------
(* propose *)

Proposing(p) == task[p].does \in {"send proposal", "store proposal"}

\* The file is loaded; the task ends here where it has a record of the same call.
Propose(p) ==
  /\ task[p].does = "nothing"
  /\ \E amount \in Amount, description \in Description :
       LET proposal == <<AmountOf(amount), DescriptionOf(description)>>
           overlapped == \E q \in Process : Proposing(q)
       IN  /\ \A record \in Range(file) : ~SameCall(record, proposal)
           /\ task' =
                [q \in Process |->
                   IF q = p
                   THEN [Idle EXCEPT !.does = "send proposal", !.loaded = file,
                                     !.proposal = proposal, !.overlapped = overlapped]
                   ELSE [task[q] EXCEPT !.overlapped = @ \/ Proposing(q)]]
  /\ UNCHANGED <<proposals, fundingYearlyAmount, file, alone>>

\* The governor refuses a proposal it has, whatever became of it.
SendProposal(p) ==
  /\ task[p].does = "send proposal"
  /\ IF task[p].proposal \in DOMAIN proposals
     THEN /\ task' = [task EXCEPT ![p] = Idle]
          /\ UNCHANGED proposals
     ELSE /\ task' = [task EXCEPT ![p].does = "store proposal"]
          /\ proposals' =
               [id \in DOMAIN proposals \union {task[p].proposal} |->
                  IF id = task[p].proposal THEN [state |-> "Pending", vote |-> None] ELSE proposals[id]]
  /\ UNCHANGED <<fundingYearlyAmount, file, alone>>

\* ProposalStorage.storeProposal
Stored(p) == Append(task[p].loaded, task[p].proposal)

StoreProposal(p) ==
  /\ task[p].does = "store proposal"
  /\ file' = Stored(p)
  /\ alone' = IF task[p].overlapped THEN alone ELSE alone \union {task[p].proposal}
  /\ task' = [task EXCEPT ![p] = Idle]
  /\ UNCHANGED <<proposals, fundingYearlyAmount>>

-----------------------------------------------------------------------------
(* vote, queue, execute *)

\* Mutant: 0 is told from no choice.
WayAsTyped(typed) == IF typed = None THEN 1 ELSE typed

\* No way, and 0, which stands for against, are taken for 1, for.
VoteWay(typed) == IF typed \in {None, 0} THEN 1 ELSE typed

\* The proposal typed, or the one stored last.  Its state is looked up first.
Vote(p) ==
  /\ task[p].does = "nothing"
  /\ \E typed \in DOMAIN proposals \union {None}, way \in Way :
       LET proposal == IF typed = None THEN Last(file) ELSE typed
       IN  /\ typed = None => file # <<>>
           /\ proposals[proposal].state = "Active"
           /\ task' = [task EXCEPT ![p] = [Idle EXCEPT !.does = "cast vote", !.proposal = proposal,
                                                       !.way = VoteWay(way)]]
  /\ UNCHANGED <<proposals, fundingYearlyAmount, file, alone>>

\* castVoteWithReason reverts after the deadline, and where the deployer voted.
CastVote(p) ==
  /\ task[p].does = "cast vote"
  /\ proposals' =
       [proposals EXCEPT ![task[p].proposal].vote =
          IF proposals[task[p].proposal].state = "Active" /\ @ = None THEN task[p].way ELSE @]
  /\ task' = [task EXCEPT ![p] = Idle]
  /\ UNCHANGED <<fundingYearlyAmount, file, alone>>

\* The record of the id typed, or the one stored last.
Chosen(typed) ==
  IF typed = None
  THEN IF file = <<>> THEN {} ELSE {Last(file)}
  ELSE {typed} \intersect Range(file)

Roles(name) == chain[records[name]].roles

\* Of a proposal that succeeded, with a governor the timelock takes it from.
Queue ==
  /\ \E typed \in DOMAIN proposals \union {None} : \E record \in Chosen(typed) :
       /\ proposals[record].state = "Succeeded"
       /\ <<"proposer", records["OcnGovernor"]>> \in Roles("Timelock")
       /\ proposals' = [proposals EXCEPT ![record].state = "Queued"]
  /\ UNCHANGED <<fundingYearlyAmount, file, task, alone>>

\* After the delay, by anyone; the timelock calls the payment manager as its admin.
Execute ==
  /\ \E typed \in DOMAIN proposals \union {None} : \E record \in Chosen(typed) :
       /\ proposals[record].state = "Ready"
       /\ <<"executor", Anyone>> \in Roles("Timelock")
       /\ <<"admin", records["Timelock"]>> \in Roles("OcnPaymentManager")
       /\ proposals' = [proposals EXCEPT ![record].state = "Executed"]
       /\ fundingYearlyAmount' = record[1]
  /\ UNCHANGED <<file, task, alone>>

\* The process of a task ends.
Crash(p) ==
  /\ task[p].does # "nothing"
  /\ task' = [task EXCEPT ![p] = Idle]
  /\ UNCHANGED <<proposals, fundingYearlyAmount, file, alone>>

\* A deployment, to whichever network, removes the file with all its entries.
RemoveFile ==
  /\ file # <<>>
  /\ file' = <<>>
  /\ alone' = {}
  /\ UNCHANGED <<proposals, fundingYearlyAmount, task>>

\* Blocks and time pass, for one proposal sooner than for another: the vote opens
\* and closes, the delay of the timelock ends.
StateLater(proposal) ==
  CASE proposal.state = "Pending" -> "Active"
    [] proposal.state = "Active" -> IF proposal.vote = 1 THEN "Succeeded" ELSE "Defeated"
    [] proposal.state = "Queued" -> "Ready"
    [] OTHER -> proposal.state

TimePasses ==
  /\ \E id \in DOMAIN proposals :
       proposals' = [proposals EXCEPT ![id].state = StateLater(proposals[id])]
  /\ UNCHANGED <<fundingYearlyAmount, file, task, alone>>

Next ==
  \/ \E p \in Process :
       Propose(p) \/ SendProposal(p) \/ StoreProposal(p) \/ Vote(p) \/ CastVote(p) \/ Crash(p)
  \/ Queue \/ Execute \/ RemoveFile \/ TimePasses

-----------------------------------------------------------------------------
(* Properties *)

\* The variables are well typed, and an executed amount was voted for.
TypeOK ==
  /\ \A id \in DOMAIN proposals :
       /\ id[1] \in Nat \ {0}
       /\ proposals[id].state \in
            {"Pending", "Active", "Defeated", "Succeeded", "Queued", "Ready", "Executed"}
       /\ proposals[id].vote \in {None, 0, 1, 2}
  /\ \A p \in Process : task[p].does \in {"nothing", "send proposal", "store proposal", "cast vote"}
  /\ fundingYearlyAmount \in {DefaultYearlyAmount} \union {id[1] : id \in DOMAIN proposals}

\* What proposals.json tells of the proposals.  Each record is of a proposal the
\* governor has, once.  A proposal of a run of propose that no other one overlapped
\* stays on file until the file is removed, and no other such run proposes the same
\* call.
FileTellsProposals ==
  /\ Range(file) \subseteq DOMAIN proposals /\ IsInjective(file)
  /\ alone \subseteq Range(file)
  /\ \A a, b \in alone : a[1] = b[1] => a = b

\* A 0 typed never gets to the governor: no proposal sets the yearly amount to 0,
\* and the vote of a proposal that was defeated is missing or an abstention, for no
\* vote against can be cast with the task.
ZerosAreReplaced ==
  /\ fundingYearlyAmount # 0
  /\ \A id \in DOMAIN proposals :
       /\ id[1] # 0
       /\ proposals[id].state = "Defeated" => proposals[id].vote \in {None, 2}
=============================================================================
