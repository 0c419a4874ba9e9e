CONSTANTS
  c1 = c1
  c2 = c2
  ann = ann
  bob = bob
  x = x
  y = y
  ed = ed
  None = None
  Calls <- MCCalls
  Accounts <- MCAccounts
  CallIds <- MCCallIds
  Texts <- MCTexts
  Editors <- MCEditors
  MaxDrafts = 1
  MaxLog = 3
  Desks <- MCDesks
SYMMETRY MCSymmetry
SPECIFICATION Spec
INVARIANTS
  AnswersHold
  OneVersionPerCall
PROPERTIES
  NothingLost
CHECK_DEADLOCK FALSE
