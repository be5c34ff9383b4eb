------------------------ MODULE OcnOperationsProofs ------------------------
(* What TLAPS proves of the deployment and of the governance tasks after it, for *)
(* every list of verifiers, every set of processes and whatever is typed.  What  *)
(* concerns the scripts alone is taken from DeploymentProofs.                    *)
EXTENDS OcnOperations, TLAPS

Proved == INSTANCE DeploymentProofs

\* What can be proposed.
Proposal == {<<Tasks!AmountOf(a), Tasks!DescriptionOf(d)>> : a \in Amount, d \in Description}

ProposalState ==
  {"Pending", "Active", "Defeated", "Succeeded", "Queued", "Ready", "Executed"}

TaskRecord ==
  [does : {"nothing", "send proposal", "store proposal", "cast vote"}, loaded : Seq(Proposal),
   proposal : Proposal \union {None}, way : {1, 2, None}, overlapped : BOOLEAN]

Proposing(p) == Tasks!Proposing(p)

GovernanceTypes ==
  /\ task \in [Process -> TaskRecord]
  /\ file \in Seq(Proposal)
  /\ DOMAIN proposals \subseteq Proposal
  /\ proposals \in [DOMAIN proposals -> [state : ProposalState, vote : {1, 2, None}]]

\* What a run of propose has loaded is what the file was when it started: it holds
\* no record of the same call, and every proposal stored alone.
LoadedTells(p) ==
  /\ Tasks!Range(task[p].loaded) \subseteq DOMAIN proposals /\ Tasks!IsInjective(task[p].loaded)
  /\ \A r \in Tasks!Range(task[p].loaded) : r[1] # task[p].proposal[1]
  /\ alone \subseteq Tasks!Range(task[p].loaded)
  /\ task[p].proposal \in Proposal
  /\ task[p].does = "store proposal" => task[p].proposal \in DOMAIN proposals

FileInv ==
  /\ GovernanceTypes
  /\ FileTellsProposals
  /\ \A p \in Process : Proposing(p) => LoadedTells(p)
  /\ \A p, q \in Process : Proposing(p) /\ Proposing(q) /\ p # q => task[p].overlapped

-----------------------------------------------------------------------------
(* Sequences *)

\* A record appended is the only one that is new.
LEMMA RangeOfAppend ==
  ASSUME NEW S, NEW s \in Seq(S), NEW e \in S
  PROVE  Tasks!Range(Append(s, e)) = Tasks!Range(s) \union {e}
<1>1. Len(Append(s, e)) = Len(s) + 1 /\ Append(s, e)[Len(s) + 1] = e
      /\ \A i \in 1..Len(s) : Append(s, e)[i] = s[i]
  OBVIOUS
<1>2. DOMAIN Append(s, e) = 1..(Len(s) + 1) /\ DOMAIN s = 1..Len(s) /\ Len(s) \in Nat
  OBVIOUS
<1> QED BY <1>1, <1>2 DEF Tasks!Range

\* A file without repetition stays so when something else is appended.
LEMMA AppendedStaysInjective ==
  ASSUME NEW S, NEW s \in Seq(S), NEW e \in S, Tasks!IsInjective(s), e \notin Tasks!Range(s)
  PROVE  Tasks!IsInjective(Append(s, e))
<1> DEFINE t == Append(s, e)
<1>1. t[Len(s) + 1] = e /\ \A i \in 1..Len(s) : t[i] = s[i]
  OBVIOUS
<1>2. DOMAIN t = 1..(Len(s) + 1) /\ DOMAIN s = 1..Len(s) /\ Len(s) \in Nat
  OBVIOUS
<1>3. \A i \in 1..Len(s) : s[i] # e
  BY <1>2 DEF Tasks!Range
<1>4. \A i, j \in 1..Len(s) : s[i] = s[j] => i = j
  BY <1>2 DEF Tasks!IsInjective
<1>5. ASSUME NEW i \in DOMAIN t, NEW j \in DOMAIN t, t[i] = t[j] PROVE i = j
  <2> HIDE DEF t
  <2>1. i \in 1..Len(s) \/ i = Len(s) + 1
    BY <1>2
  <2>2. j \in 1..Len(s) \/ j = Len(s) + 1
    BY <1>2
  <2> QED BY <1>1, <1>3, <1>4, <1>5, <2>1, <2>2
<1> QED BY <1>5 DEF Tasks!IsInjective

-----------------------------------------------------------------------------
(* proposals.json *)

\* The scripts of the deployment leave all this alone.
LEMMA StepsOfTasks ==
  ASSUME [Next]_vars PROVE Tasks!Next \/ UNCHANGED governanceVars
BY DEF Next, DeploymentStep, GovernanceStep, vars

LEMMA InitiallyNothingStored == ASSUME Init PROVE FileInv
<1> USE DEF Init, Tasks!Init, Tasks!Idle
<1>1. GovernanceTypes
  BY DEF GovernanceTypes, TaskRecord
<1>2. Tasks!Range(file) = {} /\ Tasks!IsInjective(file)
  BY DEF Tasks!Range, Tasks!IsInjective
<1>3. FileTellsProposals
  BY <1>2 DEF FileTellsProposals, Tasks!FileTellsProposals
<1>4. \A p \in Process : ~Proposing(p)
  BY DEF Proposing, Tasks!Proposing
<1> QED BY <1>1, <1>3, <1>4 DEF FileInv

\* What a run has loaded stays good while it goes on.
LEMMA LoadedStays ==
  ASSUME NEW q, LoadedTells(q), alone' \subseteq alone, DOMAIN proposals \subseteq DOMAIN proposals',
         task'[q].does = task[q].does \/ task[q].proposal \in DOMAIN proposals',
         task'[q].loaded = task[q].loaded, task'[q].proposal = task[q].proposal
  PROVE  LoadedTells(q)'
BY DEF LoadedTells, Tasks!Range, Tasks!IsInjective

\* A task that ends leaves the others as they are.
LEMMA Ends ==
  ASSUME FileInv, NEW p \in Process, task' = [task EXCEPT ![p] = Tasks!Idle],
         DOMAIN proposals \subseteq DOMAIN proposals'
  PROVE  /\ task' \in [Process -> TaskRecord] /\ ~Proposing(p)'
         /\ \A q \in Process \ {p} : task'[q] = task[q]
         /\ alone' \subseteq alone => \A q \in Process : Proposing(q)' => LoadedTells(q)'
         /\ \A q, r \in Process : Proposing(q)' /\ Proposing(r)' /\ q # r => task'[q].overlapped
<1>1. Tasks!Idle \in TaskRecord /\ Tasks!Idle.does = "nothing"
  <2>1. <<>> \in Seq(Proposal)
    OBVIOUS
  <2> QED BY <2>1 DEF Tasks!Idle, TaskRecord
<1>2. task \in [Process -> TaskRecord]
  BY DEF FileInv, GovernanceTypes
<1>3. /\ task' \in [Process -> TaskRecord] /\ task'[p] = Tasks!Idle
      /\ \A q \in Process \ {p} : task'[q] = task[q]
  BY <1>1, <1>2
<1>4. ~Proposing(p)' /\ \A q \in Process : Proposing(q)' => q # p /\ Proposing(q)
  BY <1>1, <1>3 DEF Proposing, Tasks!Proposing
<1>5. ASSUME alone' \subseteq alone, NEW q \in Process, Proposing(q)' PROVE LoadedTells(q)'
  <2>1. LoadedTells(q) /\ task'[q] = task[q]
    BY <1>3, <1>4, <1>5 DEF FileInv
  <2> QED BY <2>1, <1>5, LoadedStays
<1>6. \A q, r \in Process : Proposing(q)' /\ Proposing(r)' /\ q # r => task'[q].overlapped
  BY <1>3, <1>4 DEF FileInv
<1> QED BY <1>3, <1>4, <1>5, <1>6

\* propose loads the file, and everything it has to know of it.
LEMMA ProposeLoads ==
  ASSUME FileInv, NEW p \in Process, Tasks!Propose(p) PROVE FileInv'
<1> USE DEF FileInv, GovernanceTypes
<1>1. PICK amount \in Amount, description \in Description :
        LET proposal == <<Tasks!AmountOf(amount), Tasks!DescriptionOf(description)>>
            overlapped == \E q \in Process : Tasks!Proposing(q)
        IN  /\ \A record \in Tasks!Range(file) : ~Tasks!SameCall(record, proposal)
            /\ task' =
                 [q \in Process |->
                    IF q = p
                    THEN [Tasks!Idle EXCEPT !.does = "send proposal", !.loaded = file,
                                            !.proposal = proposal, !.overlapped = overlapped]
                    ELSE [task[q] EXCEPT !.overlapped = @ \/ Tasks!Proposing(q)]]
  BY DEF Tasks!Propose
<1> DEFINE new == <<Tasks!AmountOf(amount), Tasks!DescriptionOf(description)>>
<1>2. new \in Proposal
  BY DEF Proposal
<1>3. UNCHANGED <<proposals, fundingYearlyAmount, file, alone>> /\ task[p].does = "nothing"
  BY DEF Tasks!Propose
<1>4. /\ task'[p].does = "send proposal" /\ task'[p].loaded = file /\ task'[p].proposal = new
      /\ task'[p].overlapped = \E q \in Process : Tasks!Proposing(q)
      /\ task'[p] \in TaskRecord
  BY <1>1, <1>2 DEF Tasks!Idle, TaskRecord, Tasks!Proposing
<1>5. ASSUME NEW q \in Process \ {p}
      PROVE  /\ task'[q].does = task[q].does /\ task'[q].loaded = task[q].loaded
             /\ task'[q].proposal = task[q].proposal
             /\ task'[q].overlapped = (task[q].overlapped \/ Tasks!Proposing(q))
             /\ task'[q] \in TaskRecord
  BY <1>1 DEF TaskRecord, Tasks!Proposing
<1>6. task' \in [Process -> TaskRecord]
  BY <1>1, <1>4, <1>5
<1>7. ASSUME NEW q \in Process, Proposing(q)' PROVE LoadedTells(q)'
  <2>1. CASE q = p
    BY <2>1, <1>1, <1>2, <1>3, <1>4
       DEF LoadedTells, FileTellsProposals, Tasks!FileTellsProposals, Tasks!SameCall
  <2>2. CASE q # p
    <3>1. LoadedTells(q)
      BY <2>2, <1>5, <1>7 DEF Proposing, Tasks!Proposing
    <3> QED BY <2>2, <3>1, <1>3, <1>5, LoadedStays
  <2> QED BY <2>1, <2>2
<1>8. ASSUME NEW q \in Process, NEW r \in Process, Proposing(q)', Proposing(r)', q # r
      PROVE  task'[q].overlapped
  <2>1. CASE q = p
    <3>1. Tasks!Proposing(r)
      BY <1>5, <1>8, <2>1 DEF Proposing, Tasks!Proposing
    <3> QED BY <2>1, <3>1, <1>4
  <2>2. CASE q # p
    BY <1>5, <1>8, <2>2 DEF Proposing, Tasks!Proposing
  <2> QED BY <2>1, <2>2
<1> QED BY <1>3, <1>6, <1>7, <1>8 DEF FileTellsProposals, Tasks!FileTellsProposals

\* A proposal the governor did not have becomes one, or nothing is sent.
LEMMA SendKeeps ==
  ASSUME FileInv, NEW p \in Process, Tasks!SendProposal(p) PROVE FileInv'
<1> USE DEF FileInv, GovernanceTypes
<1>1. UNCHANGED <<fundingYearlyAmount, file, alone>> /\ Proposing(p) /\ LoadedTells(p)
  BY DEF Tasks!SendProposal, Proposing, Tasks!Proposing
<1>2. CASE task[p].proposal \in DOMAIN proposals
  <2>1. task' = [task EXCEPT ![p] = Tasks!Idle] /\ UNCHANGED proposals
    BY <1>2 DEF Tasks!SendProposal
  <2> QED BY <1>1, <2>1, Ends DEF FileTellsProposals, Tasks!FileTellsProposals
<1>3. CASE task[p].proposal \notin DOMAIN proposals
  <2> DEFINE new == task[p].proposal
  <2>1. /\ task' = [task EXCEPT ![p].does = "store proposal"]
        /\ proposals' =
             [id \in DOMAIN proposals \union {new} |->
                IF id = new THEN [state |-> "Pending", vote |-> None] ELSE proposals[id]]
    BY <1>3 DEF Tasks!SendProposal
  <2>2. task' \in [Process -> TaskRecord] /\ \A q \in Process \ {p} : task'[q] = task[q]
    BY <2>1 DEF TaskRecord
  <2>3. /\ task'[p].does = "store proposal" /\ task'[p].loaded = task[p].loaded
        /\ task'[p].proposal = new /\ task'[p].overlapped = task[p].overlapped
    BY <2>1 DEF TaskRecord
  <2>4. /\ DOMAIN proposals' = DOMAIN proposals \union {new}
        /\ proposals' \in [DOMAIN proposals' -> [state : ProposalState, vote : {1, 2, None}]]
        /\ new \in Proposal
    BY <1>1, <2>1 DEF LoadedTells, ProposalState
  <2>5. ASSUME NEW q \in Process, Proposing(q)' PROVE Proposing(q) /\ LoadedTells(q)'
    <3>1. CASE q = p
      <4>1. LoadedTells(q) /\ alone' = alone /\ new \in DOMAIN proposals'
        BY <3>1, <1>1, <2>4
      <4> QED BY <3>1, <4>1, <1>1, <2>3, <2>4, LoadedStays
    <3>2. CASE q # p
      <4>1. Proposing(q) /\ LoadedTells(q)
        BY <3>2, <2>2, <2>5 DEF Proposing, Tasks!Proposing
      <4> QED BY <4>1, <3>2, <2>2, <2>4, <1>1, LoadedStays
    <3> QED BY <3>1, <3>2
  <2>6. \A q, r \in Process : Proposing(q)' /\ Proposing(r)' /\ q # r => task'[q].overlapped
    BY <2>2, <2>3, <2>5
  <2> QED BY <1>1, <2>2, <2>4, <2>5, <2>6 DEF FileTellsProposals, Tasks!FileTellsProposals
<1> QED BY <1>2, <1>3

\* What is written back holds all that has to be on file: whoever stored alone was
\* through before this run loaded the file.
LEMMA StoreKeeps ==
  ASSUME FileInv, NEW p \in Process, Tasks!StoreProposal(p) PROVE FileInv'
<1> USE DEF FileInv, GovernanceTypes
<1> DEFINE new == task[p].proposal
           loaded == task[p].loaded
<1>1. /\ Proposing(p) /\ LoadedTells(p) /\ task[p].does = "store proposal"
      /\ file' = Append(loaded, new) /\ UNCHANGED <<proposals, fundingYearlyAmount>>
      /\ alone' = IF task[p].overlapped THEN alone ELSE alone \union {new}
      /\ task' = [task EXCEPT ![p] = Tasks!Idle]
  BY DEF Tasks!StoreProposal, Tasks!Stored, Proposing, Tasks!Proposing
<1>2. /\ loaded \in Seq(Proposal) /\ new \in Proposal /\ new \in DOMAIN proposals
      /\ new \notin Tasks!Range(loaded) /\ Tasks!IsInjective(loaded)
      /\ Tasks!Range(loaded) \subseteq DOMAIN proposals /\ alone \subseteq Tasks!Range(loaded)
  BY <1>1 DEF LoadedTells, TaskRecord
<1>3. /\ file' \in Seq(Proposal) /\ Tasks!Range(file') = Tasks!Range(loaded) \union {new}
      /\ Tasks!IsInjective(file')
  <2> HIDE DEF new, loaded
  <2>1. Append(loaded, new) \in Seq(Proposal)
    BY <1>2
  <2>2. Tasks!Range(Append(loaded, new)) = Tasks!Range(loaded) \union {new}
    BY <1>2, RangeOfAppend
  <2>3. Tasks!IsInjective(Append(loaded, new))
    BY <1>2, AppendedStaysInjective
  <2> QED BY <1>1, <2>1, <2>2, <2>3
<1>5. \A a, b \in alone' : a[1] = b[1] => a = b
  <2>1. \A a \in alone : a[1] # new[1]
    BY <1>1, <1>2 DEF LoadedTells
  <2> QED BY <1>1, <2>1 DEF FileTellsProposals, Tasks!FileTellsProposals
<1>6. FileTellsProposals'
  <2>1. alone' \subseteq Tasks!Range(file')
    BY <1>1, <1>2, <1>3
  <2>2. Tasks!Range(file)' = Tasks!Range(file') /\ Tasks!IsInjective(file)' = Tasks!IsInjective(file')
    BY DEF Tasks!Range, Tasks!IsInjective
  <2> QED BY <1>1, <1>2, <1>3, <1>5, <2>1, <2>2 DEF FileTellsProposals, Tasks!FileTellsProposals
<1>4. /\ task' \in [Process -> TaskRecord] /\ ~Proposing(p)'
      /\ \A q \in Process \ {p} : task'[q] = task[q]
      /\ \A q, r \in Process : Proposing(q)' /\ Proposing(r)' /\ q # r => task'[q].overlapped
  BY <1>1, Ends
<1>7. ASSUME NEW q \in Process, Proposing(q)' PROVE q # p /\ Proposing(q) /\ LoadedTells(q)'
  <2>1. q # p /\ Proposing(q) /\ LoadedTells(q)
    BY <1>4, <1>7 DEF Proposing, Tasks!Proposing
  <2>2. alone' = alone
    BY <1>1, <2>1
  <2> QED BY <2>1, <2>2, <1>1, <1>4, LoadedStays
<1> QED BY <1>1, <1>3, <1>4, <1>6, <1>7

\* The other tasks, time, and the scripts that remove the file.
LEMMA OthersKeep ==
  ASSUME FileInv, Tasks!Queue \/ Tasks!Execute \/ Tasks!RemoveFile \/ Tasks!TimePasses
  PROVE  FileInv'
<1> USE DEF FileInv, GovernanceTypes
<1>1. /\ UNCHANGED task /\ DOMAIN proposals' = DOMAIN proposals /\ alone' \subseteq alone
      /\ proposals' \in [DOMAIN proposals' -> [state : ProposalState, vote : {1, 2, None}]]
  <2>1. CASE Tasks!Queue
    BY <2>1 DEF Tasks!Queue, ProposalState
  <2>2. CASE Tasks!Execute
    <3>1. PICK record : proposals' = [proposals EXCEPT ![record].state = "Executed"]
      BY <2>2 DEF Tasks!Execute
    <3>2. "Executed" \in ProposalState
      BY DEF ProposalState
    <3> QED BY <2>2, <3>1, <3>2 DEF Tasks!Execute
  <2>3. CASE Tasks!RemoveFile
    BY <2>3 DEF Tasks!RemoveFile
  <2>4. CASE Tasks!TimePasses
    <3>1. \A r \in [state : ProposalState, vote : {1, 2, None}] : Tasks!StateLater(r) \in ProposalState
      BY DEF Tasks!StateLater, ProposalState
    <3> QED BY <2>4, <3>1 DEF Tasks!TimePasses
  <2> QED BY <2>1, <2>2, <2>3, <2>4
<1>2. \/ UNCHANGED <<file, alone>>
      \/ file' = <<>> /\ alone' = {}
  BY DEF Tasks!Queue, Tasks!Execute, Tasks!RemoveFile, Tasks!TimePasses
<1>3. FileTellsProposals' /\ file' \in Seq(Proposal)
  <2>1. CASE UNCHANGED <<file, alone>>
    BY <2>1, <1>1 DEF FileTellsProposals, Tasks!FileTellsProposals, Tasks!Range, Tasks!IsInjective
  <2>2. CASE file' = <<>> /\ alone' = {}
    BY <2>2, <1>1 DEF FileTellsProposals, Tasks!FileTellsProposals, Tasks!Range, Tasks!IsInjective
  <2> QED BY <2>1, <2>2, <1>2
<1>4. \A q \in Process : Proposing(q)' => LoadedTells(q)'
  BY <1>1, LoadedStays DEF Proposing, Tasks!Proposing
<1>5. \A q, r \in Process : Proposing(q)' /\ Proposing(r)' /\ q # r => task'[q].overlapped
  BY <1>1 DEF Proposing, Tasks!Proposing
<1> QED BY <1>1, <1>3, <1>4, <1>5

\* vote records nothing in the file and makes no proposal.
LEMMA VoteKeeps ==
  ASSUME OperationsAssumption, FileInv, NEW p \in Process,
         Tasks!Vote(p) \/ Tasks!CastVote(p) \/ Tasks!Crash(p)
  PROVE  FileInv'
<1> USE DEF FileInv, GovernanceTypes
<1>1. UNCHANGED <<fundingYearlyAmount, file, alone>>
  BY DEF Tasks!Vote, Tasks!CastVote, Tasks!Crash
<1>2. DOMAIN proposals' = DOMAIN proposals => FileTellsProposals' /\ file' \in Seq(Proposal)
  BY <1>1 DEF FileTellsProposals, Tasks!FileTellsProposals, Tasks!Range, Tasks!IsInjective
<1>3. CASE Tasks!Vote(p)
  <2>1. PICK typed \in DOMAIN proposals \union {None}, way \in Way :
          /\ typed = None => file # <<>>
          /\ task' = [task EXCEPT ![p] =
               [Tasks!Idle EXCEPT !.does = "cast vote",
                                  !.proposal = IF typed = None THEN Tasks!Last(file) ELSE typed,
                                  !.way = Tasks!VoteWay(way)]]
    BY <1>3 DEF Tasks!Vote
  <2> DEFINE voter == [Tasks!Idle EXCEPT !.does = "cast vote",
                                         !.proposal = IF typed = None THEN Tasks!Last(file) ELSE typed,
                                         !.way = Tasks!VoteWay(way)]
  <2>2. (IF typed = None THEN Tasks!Last(file) ELSE typed) \in Proposal
    BY <2>1 DEF Tasks!Last
  <2>3. Tasks!VoteWay(way) \in {1, 2}
    BY DEF OperationsAssumption, Tasks!TypedAssumption, Tasks!VoteWay
  <2>4. <<>> \in Seq(Proposal)
    OBVIOUS
  <2>5. voter \in TaskRecord /\ voter.does = "cast vote"
    BY <2>2, <2>3, <2>4 DEF Tasks!Idle, TaskRecord
  <2>6. /\ task' \in [Process -> TaskRecord] /\ task'[p].does = "cast vote"
        /\ \A q \in Process \ {p} : task'[q] = task[q]
    <3> HIDE DEF voter
    <3>1. task' = [task EXCEPT ![p] = voter]
      BY <2>1 DEF voter
    <3> QED BY <2>5, <3>1
  <2>7. UNCHANGED proposals
    BY <1>3 DEF Tasks!Vote
  <2>8. ASSUME NEW q \in Process, Proposing(q)'
        PROVE  Proposing(q) /\ q # p /\ LoadedTells(q)'
    <3>1. q # p /\ Proposing(q) /\ LoadedTells(q)
      BY <2>6, <2>8 DEF Proposing, Tasks!Proposing
    <3> QED BY <3>1, <2>6, <2>7, <1>1, LoadedStays
  <2> QED BY <1>1, <1>2, <2>6, <2>7, <2>8
<1>4. CASE Tasks!CastVote(p)
  <2>1. task' = [task EXCEPT ![p] = Tasks!Idle] /\ DOMAIN proposals' = DOMAIN proposals
    BY <1>4 DEF Tasks!CastVote
  <2>2. proposals' \in [DOMAIN proposals' -> [state : ProposalState, vote : {1, 2, None}]]
    <3>1. task[p].way \in {1, 2, None}
      BY DEF TaskRecord
    <3> QED BY <1>4, <3>1 DEF Tasks!CastVote
  <2> QED BY <1>1, <1>2, <2>1, <2>2, Ends
<1>5. CASE Tasks!Crash(p)
  <2>1. task' = [task EXCEPT ![p] = Tasks!Idle] /\ UNCHANGED proposals
    BY <1>5 DEF Tasks!Crash
  <2> QED BY <1>1, <1>2, <2>1, Ends
<1> QED BY <1>3, <1>4, <1>5

\* The inductive step.
LEMMA FileInvKept == ASSUME OperationsAssumption, FileInv, [Next]_vars PROVE FileInv'
<1>1. CASE UNCHANGED governanceVars
  <2>1. UNCHANGED <<proposals, file, task, alone>>
    BY <1>1 DEF governanceVars
  <2>2. FileTellsProposals' /\ GovernanceTypes'
    BY <2>1 DEF FileInv, GovernanceTypes, FileTellsProposals, Tasks!FileTellsProposals,
                Tasks!Range, Tasks!IsInjective
  <2>3. \A q \in Process : Proposing(q)' => Proposing(q) /\ LoadedTells(q)'
    BY <2>1, LoadedStays DEF FileInv, Proposing, Tasks!Proposing
  <2> QED BY <2>1, <2>2, <2>3 DEF FileInv
<1>2. CASE Tasks!Next
  BY <1>2, ProposeLoads, SendKeeps, StoreKeeps, VoteKeeps, OthersKeep DEF Tasks!Next
<1> QED BY <1>1, <1>2, StepsOfTasks

\* In every behaviour, whatever overlaps or crashes, proposals.json tells what
\* FileTellsProposals says it does.
THEOREM FileKeepsTelling == ASSUME OperationsAssumption PROVE Spec => []FileTellsProposals
<1>1. Init => FileInv
  BY InitiallyNothingStored
<1>2. FileInv /\ [Next]_vars => FileInv'
  BY FileInvKept
<1>3. FileInv => FileTellsProposals
  BY DEF FileInv
<1> QED BY <1>1, <1>2, <1>3, PTL DEF Spec

-----------------------------------------------------------------------------
(* Zeros *)

\* A typed 0 is replaced before it is proposed.
LEMMA NoZeroProposed == ASSUME OperationsAssumption PROVE \A id \in Proposal : id[1] \in Nat \ {0}
BY DEF OperationsAssumption, Tasks!TypedAssumption, Proposal, Tasks!AmountOf

ZerosInv == FileInv /\ ZerosAreReplaced

LEMMA ZerosStep ==
  ASSUME OperationsAssumption, ZerosInv, FileInv', Tasks!Next PROVE ZerosAreReplaced'
<1>1. /\ proposals \in [DOMAIN proposals -> [state : ProposalState, vote : {1, 2, None}]]
      /\ proposals' \in [DOMAIN proposals' -> [state : ProposalState, vote : {1, 2, None}]]
      /\ DOMAIN proposals \subseteq Proposal /\ DOMAIN proposals' \subseteq Proposal
      /\ fundingYearlyAmount # 0 /\ 1 # None
      /\ \A id \in DOMAIN proposals : proposals[id].state = "Defeated" => proposals[id].vote # 1
  BY DEF ZerosInv, FileInv, GovernanceTypes, ZerosAreReplaced, Tasks!ZerosAreReplaced,
         OperationsAssumption, Tasks!TypedAssumption
<1>2. \A id \in DOMAIN proposals' : id[1] # 0
  BY <1>1, NoZeroProposed
<1>3. fundingYearlyAmount' # 0
  <2>1. CASE Tasks!Execute
    <3>1. PICK typed \in DOMAIN proposals \union {None} : \E record \in Tasks!Chosen(typed) :
            fundingYearlyAmount' = record[1]
      BY <2>1 DEF Tasks!Execute
    <3>2. Tasks!Chosen(typed) \subseteq Proposal
      BY DEF Tasks!Chosen, Tasks!Last, Tasks!Range, ZerosInv, FileInv, GovernanceTypes
    <3> QED BY <3>1, <3>2, NoZeroProposed
  <2>2. CASE ~Tasks!Execute
    BY <2>2, <1>1 DEF Tasks!Next, Tasks!Propose, Tasks!SendProposal, Tasks!StoreProposal, Tasks!Vote,
       Tasks!CastVote, Tasks!Crash, Tasks!Queue, Tasks!RemoveFile, Tasks!TimePasses
  <2> QED BY <2>1, <2>2
<1> DEFINE NotAgainst == \A id \in DOMAIN proposals' :
             proposals'[id].state = "Defeated" => proposals'[id].vote # 1
<1>4. NotAgainst
  <2>1. CASE UNCHANGED proposals
    BY <2>1, <1>1
  <2>2. ASSUME NEW p \in Process, Tasks!SendProposal(p), ~UNCHANGED proposals PROVE NotAgainst
    <3>1. proposals' = [id \in DOMAIN proposals \union {task[p].proposal} |->
                          IF id = task[p].proposal THEN [state |-> "Pending", vote |-> None]
                          ELSE proposals[id]]
      BY <2>2 DEF Tasks!SendProposal
    <3> QED BY <3>1, <1>1
  <2>3. ASSUME NEW p \in Process, Tasks!CastVote(p) PROVE NotAgainst
    <3>1. proposals' = [proposals EXCEPT ![task[p].proposal].vote =
            IF proposals[task[p].proposal].state = "Active" /\ @ = None THEN task[p].way ELSE @]
      BY <2>3 DEF Tasks!CastVote
    <3> QED BY <3>1, <1>1
  <2>4. CASE Tasks!Queue
    <3>1. PICK record : proposals' = [proposals EXCEPT ![record].state = "Queued"]
      BY <2>4 DEF Tasks!Queue
    <3> QED BY <3>1, <1>1
  <2>5. CASE Tasks!Execute
    <3>1. PICK record : proposals' = [proposals EXCEPT ![record].state = "Executed"]
      BY <2>5 DEF Tasks!Execute
    <3> QED BY <3>1, <1>1
  <2>6. CASE Tasks!TimePasses
    <3>1. PICK id \in DOMAIN proposals :
            proposals' = [proposals EXCEPT ![id].state = Tasks!StateLater(proposals[id])]
      BY <2>6 DEF Tasks!TimePasses
    <3>2. Tasks!StateLater(proposals[id]) = "Defeated" => proposals[id].vote # 1
      BY <1>1 DEF Tasks!StateLater
    <3> QED BY <3>1, <3>2, <1>1
  <2> QED
    BY <2>1, <2>2, <2>3, <2>4, <2>5, <2>6
       DEF Tasks!Next, Tasks!Propose, Tasks!StoreProposal, Tasks!Vote, Tasks!Crash, Tasks!RemoveFile
<1> QED BY <1>1, <1>2, <1>3, <1>4 DEF ZerosAreReplaced, Tasks!ZerosAreReplaced

\* No vote against is ever cast with the task, and no proposal sets the yearly
\* amount to 0, whatever is typed.
THEOREM ZerosStayReplaced == ASSUME OperationsAssumption PROVE Spec => []ZerosAreReplaced
<1>1. Init => ZerosInv
  <2> SUFFICES ASSUME Init PROVE ZerosInv
    OBVIOUS
  <2>1. ZerosAreReplaced
    BY DEF Init, Tasks!Init, ZerosAreReplaced, Tasks!ZerosAreReplaced,
           OperationsAssumption, Tasks!TypedAssumption
  <2> QED BY <2>1, InitiallyNothingStored DEF ZerosInv
<1>2. ZerosInv /\ [Next]_vars => ZerosInv'
  <2> SUFFICES ASSUME ZerosInv, [Next]_vars PROVE ZerosInv'
    OBVIOUS
  <2>1. FileInv'
    BY FileInvKept DEF ZerosInv
  <2>2. CASE UNCHANGED governanceVars
    BY <2>1, <2>2 DEF governanceVars, ZerosInv, ZerosAreReplaced, Tasks!ZerosAreReplaced
  <2>3. CASE Tasks!Next
    BY <2>1, <2>3, ZerosStep DEF ZerosInv
  <2> QED BY <2>2, <2>3, StepsOfTasks
<1>3. ZerosInv => ZerosAreReplaced
  BY DEF ZerosInv
<1> QED BY <1>1, <1>2, <1>3, PTL DEF Spec

-----------------------------------------------------------------------------
(* The scripts: an instance of Deployment and one of what is proved of it *)

\* The scripts are the same lists of steps in both.
LEMMA SameLists ==
  Scripts!Commands = Proved!Commands /\ \A tag : Scripts!Steps(tag) = Proved!Steps(tag)
<1>1. Scripts!Commands = Proved!Commands
  BY DEF Scripts!Commands, Proved!Commands, Scripts!Governance, Proved!Governance
<1>2. \A tag : Scripts!Steps(tag) = Proved!Steps(tag)
  BY DEF
    Scripts!Steps, Scripts!Deploys, Scripts!VoteTokenSteps, Scripts!TimelockSteps,
    Scripts!GovernorSteps, Scripts!SetupSteps, Scripts!EuroStableCoinSteps,
    Scripts!MockERC20Steps, Scripts!PaymentSteps, Scripts!CertificateVerifierSteps,
    Scripts!OraclesSteps, Scripts!ValidatorSteps, Scripts!RegistrySteps, Proved!Steps,
    Proved!Deploys, Proved!VoteTokenSteps, Proved!TimelockSteps, Proved!GovernorSteps,
    Proved!SetupSteps, Proved!EuroStableCoinSteps, Proved!MockERC20Steps, Proved!PaymentSteps,
    Proved!CertificateVerifierSteps, Proved!OraclesSteps, Proved!ValidatorSteps,
    Proved!RegistrySteps
<1> QED BY <1>1, <1>2

\* The script is at the same step in both.
LEMMA SamePlace == Scripts!Command = Proved!Command /\ Scripts!CurrentStep = Proved!CurrentStep
BY SameLists DEF Scripts!Command, Proved!Command, Scripts!CurrentStep, Proved!CurrentStep

\* So are the contracts.
LEMMA SameContracts ==
  /\ Scripts!Name = Proved!Name
  /\ \A n : /\ Scripts!Recorded(n) = Proved!Recorded(n)
           /\ Scripts!Contract(n) = Proved!Contract(n)
           /\ Scripts!Args(n) = Proved!Args(n)
BY DEF
    Scripts!Name, Scripts!Recorded, Scripts!Contract, Scripts!Args, Proved!Name,
    Proved!Recorded, Proved!Contract, Proved!Args

\* So is what a step makes of them.
LEMMA SameResults == \A s : Scripts!Results(s) = Proved!Results(s)
BY DEF
    Scripts!Results, Scripts!Unchanged, Scripts!Name, Scripts!Recorded, Scripts!Contract,
    Scripts!Administered, Scripts!Admins, Scripts!Args, Scripts!Created, Scripts!InitialRoles,
    Scripts!WithRoles, Scripts!Preflight, Scripts!Reset, Scripts!Deploy, Scripts!Proxy,
    Scripts!Save, Scripts!Copy, Scripts!Grant, Scripts!Revoke, Scripts!Allow, Scripts!SetOracle,
    Scripts!Transfer, Scripts!WriteManifest, Scripts!Manifest, Scripts!Stablecoin,
    Scripts!StablecoinSources, Scripts!Indexed, Scripts!FirstOf, Scripts!FallbackStartBlock,
    Scripts!BlockNumber, Scripts!Granted, Scripts!Revoked, Scripts!Transferred, Scripts!Range,
    Scripts!Min, Proved!Results, Proved!Unchanged, Proved!Name, Proved!Recorded,
    Proved!Contract, Proved!Administered, Proved!Admins, Proved!Args, Proved!Created,
    Proved!InitialRoles, Proved!WithRoles, Proved!Preflight, Proved!Reset, Proved!Deploy,
    Proved!Proxy, Proved!Save, Proved!Copy, Proved!Grant, Proved!Revoke, Proved!Allow,
    Proved!SetOracle, Proved!Transfer, Proved!WriteManifest, Proved!Manifest, Proved!Stablecoin,
    Proved!StablecoinSources, Proved!Indexed, Proved!FirstOf, Proved!FallbackStartBlock,
    Proved!BlockNumber, Proved!Granted, Proved!Revoked, Proved!Transferred, Proved!Range,
    Proved!Min

\* So are the steps of the scripts.
LEMMA SameNext == Scripts!Next = Proved!Next
<1>1. Scripts!Outcomes = Proved!Outcomes
  BY SamePlace, SameResults DEF Scripts!Outcomes, Proved!Outcomes
<1> QED BY <1>1, SamePlace, SameLists DEF
    Scripts!Next, Scripts!TakeStep, Scripts!GoOn, Scripts!Stop, Scripts!StopBefore,
    Scripts!Fail, Scripts!RunAgain, Scripts!StartOver, Scripts!placeVars, Proved!Next,
    Proved!TakeStep, Proved!GoOn, Proved!Stop, Proved!StopBefore, Proved!Fail, Proved!RunAgain,
    Proved!StartOver, Proved!placeVars

\* The assumption is the same, and so is what is claimed of the scripts.
LEMMA SameClaims ==
  /\ OperationsAssumption => Proved!DeploymentAssumption
  /\ Proved!TypeOK => Scripts!TypeOK
  /\ Proved!HandedOver => HandedOver
  /\ Proved!FoundByItsUsers => FoundByItsUsers
  /\ Proved!StartsOverClean => StartsOverClean
<1>1. OperationsAssumption => Proved!DeploymentAssumption
  BY DEF OperationsAssumption, Scripts!DeploymentAssumption, Proved!DeploymentAssumption,
         Scripts!PlanShape, Proved!PlanShape, Scripts!Range, Proved!Range
<1>2. Proved!TypeOK => Scripts!TypeOK
  BY SamePlace, SameLists, SameContracts DEF Scripts!TypeOK, Proved!TypeOK
<1>3. Proved!HandedOver => HandedOver
  BY SameContracts DEF HandedOver, Scripts!HandedOver, Proved!HandedOver, Scripts!Essential,
     Proved!Essential, Scripts!Range, Proved!Range
<1>4. Proved!FoundByItsUsers => FoundByItsUsers
  BY SameContracts, SameLists DEF FoundByItsUsers, Scripts!FoundByItsUsers,
     Proved!FoundByItsUsers, Scripts!Indexed, Proved!Indexed, Scripts!Range, Proved!Range
<1>5. Proved!StartsOverClean => StartsOverClean
  BY SamePlace DEF StartsOverClean, Scripts!StartsOverClean, Proved!StartsOverClean,
     Scripts!IsInjective, Proved!IsInjective
<1> QED BY <1>1, <1>2, <1>3, <1>4, <1>5

\* The tasks leave the contracts' addresses and the scripts alone: whatever is
\* done with them, the deployment is one that Deployment allows.
THEOREM DeploysAsSpecified == Spec => Proved!Spec
<1>1. Init => Proved!Init
  BY DEF Init, Scripts!Init, Proved!Init, Scripts!Name, Proved!Name
<1>2. [Next]_vars => [Proved!Next]_(Proved!vars)
  <2>1. UNCHANGED deploymentVars => UNCHANGED Proved!vars
    BY DEF Proved!vars, Proved!scriptVars, Proved!placeVars, deploymentVars
  <2> QED BY <2>1, SameNext DEF Next, DeploymentStep, GovernanceStep, vars
<1> QED BY <1>1, <1>2, PTL DEF Spec, Proved!Spec

\* A script that has come to its end has handed the contracts over to the timelock
\* and the governor, whatever was repeated on the way, and they stay there while
\* the tasks are run.
THEOREM ContractsAreHandedOver == ASSUME OperationsAssumption PROVE Spec => []HandedOver
BY SameClaims, DeploysAsSpecified, Proved!DoneIsHandedOver, PTL

\* The library and the subgraph find the contracts of a script that has come to
\* its end.
THEOREM UsersFindContracts == ASSUME OperationsAssumption PROVE Spec => []FoundByItsUsers
BY SameClaims, DeploysAsSpecified, Proved!DoneIsFound, PTL

\* A checked script started from its beginning is stopped by faults only, or by a
\* verifier listed twice, whatever earlier attempts left behind.
THEOREM StartingOverSucceeds == ASSUME OperationsAssumption PROVE Spec => []StartsOverClean
BY SameClaims, DeploysAsSpecified, Proved!CleanStartsSucceed, PTL

-----------------------------------------------------------------------------
(* Types *)

\* The yearly amount is one that the governance decided on.
AmountDecided ==
  fundingYearlyAmount \in {DefaultYearlyAmount} \union {id[1] : id \in DOMAIN proposals}

LEMMA AmountStaysDecided ==
  ASSUME FileInv, FileInv', AmountDecided, [Next]_vars PROVE AmountDecided'
<1>1. CASE UNCHANGED governanceVars
  BY <1>1 DEF governanceVars, AmountDecided
<1>2. CASE Tasks!Execute
  <2>1. PICK typed \in DOMAIN proposals \union {None} : \E record \in Tasks!Chosen(typed) :
          /\ proposals' = [proposals EXCEPT ![record].state = "Executed"]
          /\ fundingYearlyAmount' = record[1]
    BY <1>2 DEF Tasks!Execute
  <2>2. PICK record \in Tasks!Chosen(typed) :
          /\ proposals' = [proposals EXCEPT ![record].state = "Executed"]
          /\ fundingYearlyAmount' = record[1]
    BY <2>1
  <2>3. record \in Tasks!Range(file)
    BY DEF FileInv, GovernanceTypes, Tasks!Chosen, Tasks!Last, Tasks!Range
  <2>4. record \in DOMAIN proposals
    BY <2>3 DEF FileInv, FileTellsProposals, Tasks!FileTellsProposals
  <2>5. DOMAIN proposals' = DOMAIN proposals
    BY <2>2 DEF FileInv, GovernanceTypes
  <2> QED BY <2>2, <2>4, <2>5 DEF AmountDecided
<1>3. CASE Tasks!Next /\ ~Tasks!Execute
  <2>1. UNCHANGED fundingYearlyAmount /\ DOMAIN proposals \subseteq DOMAIN proposals'
    BY <1>3 DEF Tasks!Next, Tasks!Propose, Tasks!SendProposal, Tasks!StoreProposal, Tasks!Vote,
       Tasks!CastVote, Tasks!Crash, Tasks!Queue, Tasks!RemoveFile, Tasks!TimePasses
  <2> QED BY <2>1 DEF AmountDecided
<1> QED BY <1>1, <1>2, <1>3, StepsOfTasks

\* The variables of the scripts and of the tasks stay well typed; among them, the
\* yearly amount is the default one or that of a proposal.
THEOREM OperationsTypeCorrect == ASSUME OperationsAssumption PROVE Spec => []TypeOK
<1>1. Init => FileInv /\ AmountDecided
  BY InitiallyNothingStored DEF AmountDecided, Init, Tasks!Init
<1>2. FileInv /\ AmountDecided /\ [Next]_vars => (FileInv /\ AmountDecided)'
  BY FileInvKept, AmountStaysDecided
<1>3. FileInv /\ AmountDecided => Tasks!TypeOK
  BY NoZeroProposed DEF FileInv, GovernanceTypes, ProposalState, TaskRecord, AmountDecided, Tasks!TypeOK
<1>4. Scripts!TypeOK /\ Tasks!TypeOK => TypeOK
  BY DEF TypeOK
<1> QED BY <1>1, <1>2, <1>3, <1>4, SameClaims, DeploysAsSpecified, Proved!DeployedTypeCorrect, PTL DEF Spec
=============================================================================
