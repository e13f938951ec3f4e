--------------------------- MODULE AIETraceClient ---------------------------
(***************************************************************************)
(* The AIETraceOffload of the client build.  It has GMIO streams only,     *)
(* keeps its buffer objects until it is destroyed, and finds the new words *)
(* of a buffer in a way of its own; everything else is the offloader and   *)
(* the plugin of AIETracePlugin in the build "xdna".                       *)
(***************************************************************************)
EXTENDS AIETracePlugin

ClientInit == Init /\ build = "xdna"

\* The words the search is given: BufSz words from the address map() + offset,
\* where map() points to words of 32 bits and offset counts bytes, so that
\* it lies four times the offset into the buffer.  Past the end of the buffer is
\* memory of whatever content.
SearchedWords(s, past) ==
  [k \in 0..(BufSz["GMIO"] - 1) |->
     LET at == 4 * bd[s].offset + k
     IN IF at >= BufSz["GMIO"] THEN past[k] ELSE IF at < written[s] THEN 1 ELSE 0]

\* syncAndLog of the client: the chunk is logged as if it began at offset;
\* badFile keeps the streams for which it did not
SyncAndLogClient ==
  LET s == Current("GMIO") IN
  /\ call["GMIO"].pc = "sync" /\ bd[s].offset < bd[s].usedSz
  /\ \E past \in [0..(BufSz["GMIO"] - 1) -> {0, 1}] :
       LET n == SearchWrittenBytes(SearchedWords(s, past), BufSz["GMIO"])
       IN /\ LogChunk(s, 4 * bd[s].offset, n)
          /\ bd' = AfterLog(s, n)
  /\ call' = [call EXCEPT !["GMIO"] = NextStream("GMIO")]
  /\ UNCHANGED <<objVars, bufferInitialized, offloadStatus, thread, dmaVars>>

\* readTraceGMIO
ReadTraceClient == ReadGMIO \/ SkipStream("GMIO") \/ SyncNothing("GMIO") \/ SyncAndLogClient

\* startOffload .. offloadFinished
ContinuousOffloadClient == OtStep("GMIO")

ClientNext ==
  \/ Update \/ PollStep \/ FlushBegins \/ FlushStep \/ WriteOnly \/ Gone
  \/ /\ ReadTraceClient \/ ContinuousOffloadClient \/ (\E s \in StreamsOf("GMIO") : DmaWrite(s))
     /\ UNCHANGED <<pluginVars, pollVars, owed, fileVars, warned>>

ClientSpec == ClientInit /\ [][ClientNext]_vars

\* "Amount of newly written trace" ... "Log nBytes of trace": the chunks of
\* one stream that a later writer finds are consecutive words of its trace.
NewTraceLogged == \A s \in Stream : Continue(aiedb[s], IF aiedb[s] = <<>> THEN 0 ELSE aiedb[s][1].from)
=============================================================================
