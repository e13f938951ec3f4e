SPECIFICATION Spec
CONSTANTS
  Threads = {t1, t2}
  Uses <- MCUses
  MaxCalls = 2
  MaxFiles = 1
INVARIANTS
  OwnStart
  HostWritten
  LinesReadable
  ArrowsRight
  StatsPaired
SYMMETRY Symmetry
