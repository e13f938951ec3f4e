SPECIFICATION FairSpec
CONSTANTS
  NumStream <- OneAndOne
  BufSz <- TwoAndTwo
  ChunkSz = 1
  PacketWords = 2
  Version2 = TRUE
  BurstLen = 2
  MaxUpdates = 2
  AppStyle = "load"
  Reuse = TRUE
INVARIANTS SearchFindsEnd FilesContiguous PollerSafe FullReported
PROPERTIES StreamsKeepPromise FlushAnswered
