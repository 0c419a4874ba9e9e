SPECIFICATION Spec
CONSTANTS
  None = None
  ann = ann
  ben = ben
  dee = dee
  eve = eve
  p1 = p1
  p2 = p2
  p3 = p3
  b1 = b1
  b2 = b2
  a = a
  b = b
  Turns <- MCTurns
  SenderOf <- MCSenderOf
  ChannelOf <- MCChannelOf
  Contributors = {ann, ben}
  Directors = {dee, eve}
  Texts <- MCTexts
  Types = {"event", "odd"}
  Configured = {"event"}
  Cap = 2
  MaxApprovals = 1
  Material = {"budget"}
  Ordinary = {"title"}
  Values = {"new"}
  Desks <- MCDesks
  Ttl = 1
  MaxCalls = 3
  MaxTime = 1
INVARIANTS ConfirmedText AnswerKept ProofOwn MaterialApproved
CHECK_DEADLOCK FALSE
SYMMETRY MCSymmetry
