SPECIFICATION FairSpec
CONSTANTS
  NumTS2MM = 1
  BufSize <- OneBuffer
  Version2 = TRUE
  BurstLen = 2
  MaxWords = 2
PROPERTY FlushReturns
