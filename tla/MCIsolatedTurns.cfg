CONSTANTS
  o1 = o1
  talk1 = talk1
  forget1 = forget1
  reset1 = reset1
  n1 = n1
  n2 = n2
  None = None
  Owners <- MCOwners
  Events <- MCEvents
  OwnerOf <- MCOwnerOf
  CommandOf <- MCCommandOf
  Names <- MCNames
  SeenLimit = 2
  OwnerLimit = 2
  TotalLimit = 2
  NoteLimit = 1
  MaxReceivers = 2
  MaxDeliveries = 4
  MaxChunks = 2
SPECIFICATION Spec
INVARIANTS
  NoStaleReply
  ForgottenForGood
CHECK_DEADLOCK FALSE
