SPECIFICATION FairSpec
CONSTANTS
  NumDevices = 2
  EventThreshold = 1
  MaxEvents = 2
  MaxContexts = 3
  NoPlFirst = {2}
INVARIANTS OnceEach LinesKept NoEmptyFile AllWritten FirstFileRight
PROPERTY EndWriteReturns
