SPECIFICATION Spec
CONSTANTS
  Threads = {t1, t2}
  Uses <- MCOpenCLCalls
  MaxCalls = 2
  MaxFiles = 1
INVARIANTS OwnershipKept
