CONSTANTS
  v1 = v1
  p1 = p1
  p2 = p2
  v2 = v2
  Deployer = Deployer
  Anyone = Anyone
  NotAnAddress = NotAnAddress
  NoManifest = NoManifest
  Plan <- Plans
  MaxFaults = 2
  MaxReruns = 2
  Process = {p1, p2}
  None = None
  Amount = {0, 100, None}
  Description = {"other", None}
  Way = {0, 2, None}
  DefaultYearlyAmount = 100
  NewYearlyAmount = 104
  ProposalDescription = "Proposal 104 in the Box!"
SPECIFICATION Spec
SYMMETRY Runs
ACTION_CONSTRAINT Usage
CHECK_DEADLOCK FALSE
INVARIANTS
  TypeOK
  HandedOver
  FoundByItsUsers
  
  FileTellsProposals
  
