SPECIFICATION FairSpec
CONSTANTS
  NumTS2MM = 2
  BufSize <- TwoBuffers
  Version2 = TRUE
  BurstLen = 2
  MaxWords = 5
INVARIANTS InOrder RangeInBuffer EndedQuiet NothingLeftBehind FullMarker
PROPERTY StopCompletes
