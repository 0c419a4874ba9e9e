CONSTANTS
  m1 = m1
  m2 = m2
  m3 = m3
  outsider = outsider
  k1 = k1
  None = None
  Members <- MCMembers
  Proposals <- MCProposals
  Keys <- MCKeys
  Inputs <- MCInputs
  Times <- MCTimes
  MaxBallots = 3
  ann = ann
  bob = bob
  out = out
  x = x
  y = y
  z = z
  r1 = r1
  r2 = r2
  Unset = Unset
  People <- MCPeople
  Roster <- MCRoster
  Candidates <- MCCandidates
  Nameable <- MCNameable
  MaxApprovals = 1
  Minor <- MCMinor
  MaterialSet <- MCMaterial
  Lead = "lead"
  Values <- MCValues
  RevisionIds <- MCRevisions
  Voted <- MCVoted
  MaxCast = 3
  MaxVersions = 3
SYMMETRY MCSymmetry
SPECIFICATION RulesSpec
INVARIANTS
  CountedStand
  KeyCreatesOne
  AllocationRespectsRank
  FirstValidCounts
  RevisionsWarranted
PROPERTIES
  ElectorateFrozen
CHECK_DEADLOCK FALSE
