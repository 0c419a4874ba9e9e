CONSTANTS
  MaxRevision = 2
  Broken <- MCBroken
  None = None
  MaxFaults = 2
  MaxManuals = 1
  Questions = 1
  MaxEdits = 1
  MaxMisses = 2
SPECIFICATION MCSpec
INVARIANTS
  ReleaseKept
  SettledForGood
  ReportedOnce
PROPERTIES
  AtomicSpec
  EventsSettled
  ReportsArrive
