CONSTANTS
  p1 = p1
  p2 = p2
  k1 = k1
  k2 = k2
  o1 = o1
  o2 = o2
  Processes <- MCProcesses
  Keys <- MCKeys
  Ops <- MCOps
  NoReceipt = NoReceipt
  MaxFaults = 2
  MaxPowerLosses = 2
SPECIFICATION Spec
INVARIANTS
  FileConsistent
  PromiseKept
PROPERTIES
  AtomicSpec
SYMMETRY MCSymmetry
