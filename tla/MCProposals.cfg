CONSTANTS
  a1 = a1
  a2 = a2
  m1 = m1
  m2 = m2
  k1 = k1
  None = None
  Blank = "blank"
  Accounts <- MCAccounts
  Members <- MCMembers
  Contents <- MCRoutes
  Grants <- MCRenewedGrants
  Policies <- MCPolicies
  Keys <- MCKeys
  MaxTime = 1
  MaxProposals = 2
  MaxVersion = 2
  MaxConfirmations = 2
  MaxRegistryChanges = 2
SPECIFICATION MCSpec
CONSTRAINT OneProposal
INVARIANTS
  FormalVersionConfirmed
  NoDuplicateInSelection
  DuplicateChainsEnd
CHECK_DEADLOCK FALSE
SYMMETRY MCSymmetry
