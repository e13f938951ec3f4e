SPECIFICATION ClientSpec
CONSTANTS
  NumStream <- OneAndOne
  BufSz <- EightGMIO
  ChunkSz = 1
  PacketWords = 2
  Version2 = TRUE
  BurstLen = 2
  MaxUpdates = 1
  AppStyle = "load"
  Reuse = FALSE
INVARIANT NewTraceLogged
