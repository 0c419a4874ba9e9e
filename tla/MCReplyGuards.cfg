CONSTANTS
  r1 = r1
  r2 = r2
  q1 = q1
  q2 = q2
  Absent = Absent
  Runs <- MCRuns
  Calls <- MCCalls
  MaxEntries = 1
  Ttl = 1
  MaxTime = 1
  MaxCalls = 3
  MaxReplies = 2
SPECIFICATION GuardsSpec
INVARIANTS
  BallotSaid
  BallotHeard
  SentenceCurrent
SYMMETRY MCSymmetry
CHECK_DEADLOCK FALSE
