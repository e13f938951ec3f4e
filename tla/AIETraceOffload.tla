-------------------------- MODULE AIETraceOffload --------------------------
(***************************************************************************)
(* AIETraceOffload: one object per kind of trace stream (PLIO, through     *)
(* data movers in the fabric, or GMIO, through shim DMA channels), with    *)
(* the trace buffer of each stream, the two readers readTracePLIO and      *)
(* readTraceGMIO, and the offload thread.                                  *)
(*                                                                         *)
(* Sizes and positions are counted in 64-bit trace words.  Word n of a     *)
(* stream is the n-th word its DMA has written, so that a chunk given to   *)
(* the logger is an interval of word numbers.  Trace words are not zero:   *)
(* that is what searchWrittenBytes relies on.                              *)
(*                                                                         *)
(* The branches for a reused (circular) buffer are left out.  They are not *)
(* reached: initReadTrace decides whether to reuse, before startOffload    *)
(* has called setContinuousTrace, and continuous trace is a condition of   *)
(* it (NeverReused in AIETraceProofs).                                     *)
(***************************************************************************)
EXTENDS Integers, Sequences

CONSTANTS
  NumStream,    \* numStream of each offloader
  BufSz,        \* bufAllocSz of each offloader
  ChunkSz,      \* chunk_512k
  PacketWords,  \* words of an AIE trace packet
  Version2,     \* the PLIO data movers are V2: flushed by reset, written in bursts
  BurstLen      \* TS2MM_V2_BURST_LEN

Off == {"PLIO", "GMIO"}

ASSUME StreamAssumption == NumStream \in [Off -> Nat \ {0}]
ASSUME SizeAssumption == /\ BufSz \in [Off -> Nat \ {0}] /\ ChunkSz \in Nat \ {0}
                         /\ PacketWords \in Nat \ {0} /\ BurstLen \in Nat \ {0}
ASSUME FlagAssumption == Version2 \in BOOLEAN

Stream == UNION {{o} \X (1..NumStream[o]) : o \in Off}
StreamsOf(o) == {s \in Stream : s[1] = o}

VARIABLES
  build,              \* the variant compiled, which never changes: "edge" (and VE2
                      \* with ZOCL), or "xdna" (VE2), which has no PLIO
  made,               \* offloaders that exist (plio.offloader, gmio.offloader)
  traceContinuous, mEnCircularBuf, bufferInitialized, offloadStatus,
  bd,                 \* buffers[index] of each stream
  thread,             \* control state of continuousOffload
  call,               \* control state of mReadTrace
  written, dmaOn,     \* the DMA of each stream
  logged,             \* history: end of the last chunk given to the logger
  aiedb               \* AIEDB traceDataMap: chunks logged and not yet written

objVars == <<build, made, traceContinuous, mEnCircularBuf>>
dmaVars == <<written, dmaOn>>
logVars == <<logged, aiedb>>
offloadVars == <<objVars, bufferInitialized, offloadStatus, bd, thread, call, dmaVars, logVars>>

-----------------------------------------------------------------------------
BufferInfo == [bufId : BOOLEAN, usedSz : Nat, offset : Nat, isFull : BOOLEAN, offloadDone : BOOLEAN]
NewBuffer == [bufId |-> FALSE, usedSz |-> 0, offset |-> 0, isFull |-> FALSE, offloadDone |-> FALSE]

CallIdle == [pc |-> "idle", i |-> 1, final |-> FALSE]

OffloadInit ==
  /\ build \in {"edge", "xdna"} /\ made = {}
  /\ traceContinuous = [o \in Off |-> FALSE] /\ mEnCircularBuf = [o \in Off |-> FALSE]
  /\ bufferInitialized = [o \in Off |-> FALSE] /\ offloadStatus = [o \in Off |-> "IDLE"]
  /\ bd = [s \in Stream |-> NewBuffer]
  /\ thread = [o \in Off |-> "none"] /\ call = [o \in Off |-> CallIdle]
  /\ written = [s \in Stream |-> 0] /\ dmaOn = [s \in Stream |-> FALSE]
  /\ logged = [s \in Stream |-> 0] /\ aiedb = [s \in Stream |-> <<>>]

\* the constructor of the offloaders in os, which forgets those before them
Construct(os) ==
  /\ made' = os
  /\ traceContinuous' = [o \in Off |-> FALSE]
  /\ offloadStatus' = [o \in Off |-> "IDLE"]
  /\ thread' = [o \in Off |-> "none"]
  /\ call' = [o \in Off |-> CallIdle]

-----------------------------------------------------------------------------
(* The DMA fills the buffer of a stream once and then accepts nothing.     *)
DmaWrite(s) ==
  /\ dmaOn[s] /\ written[s] < BufSz[s[1]]
  /\ written' = [written EXCEPT ![s] = @ + 1]
  /\ UNCHANGED <<objVars, bufferInitialized, offloadStatus, bd, thread, call, dmaOn, logVars>>

-----------------------------------------------------------------------------
(* initReadTrace and endReadTrace                                          *)

\* checkCircularBufferSupport for offloader o: reuse is asked for, and not
\* refused for GMIO, for an old data mover or for the lack of periodic
\* offload.  It asks the new object, which Construct has just made.  The
\* XDNA build has no such buffers.
CheckCircularBufferSupport(o, reuse) ==
  build = "edge" /\ reuse /\ o = "PLIO" /\ Version2 /\ traceContinuous'[o]

\* every buffer of the offloaders in os is allocated and its DMA started,
\* but for the streams in failed and those after them in the same loop
InitReadTrace(os, failed, reuse) ==
  LET started(s) == s[1] \in os /\ \A f \in failed : f[1] = s[1] => s[2] < f[2]
  IN /\ bd' = [s \in Stream |-> IF s[1] \in os THEN [NewBuffer EXCEPT !.bufId = started(s)] ELSE bd[s]]
     /\ dmaOn' = [s \in Stream |-> started(s)]
     /\ written' = [s \in Stream |-> 0]
     /\ logged' = [s \in Stream |-> 0]
     /\ mEnCircularBuf' = [o \in Off |-> o \in os /\ CheckCircularBufferSupport(o, reuse)]
     /\ bufferInitialized' = [o \in Off |-> o \in os /\ \A f \in failed : f[1] # o]

\* the buffers are dropped; only the edge build stops the DMA
EndReadTrace(o) ==
  /\ dmaOn' = [s \in Stream |-> dmaOn[s] /\ ~(build = "edge" /\ s[1] = o /\ bd[s].bufId)]
  /\ bd' = [s \in Stream |-> IF s[1] = o THEN [bd[s] EXCEPT !.bufId = FALSE] ELSE bd[s]]
  /\ bufferInitialized' = [bufferInitialized EXCEPT ![o] = FALSE]

-----------------------------------------------------------------------------
(* mReadTrace(final): readTracePLIO or readTraceGMIO                       *)

CallRead(o, final) ==
  /\ call[o].pc = "idle"
  /\ call' = [call EXCEPT ![o] = [pc |-> "read", i |-> 1, final |-> final]]

\* the next stream of the loop, or the return
NextStream(o) ==
  IF call[o].i < NumStream[o] THEN [call[o] EXCEPT !.pc = "read", !.i = @ + 1] ELSE CallIdle

Current(o) == <<o, call[o].i>>

\* AIETraceS2MM::getWordCount, adjustWordCount
WordCount(s, final) ==
  IF Version2 /\ ~final THEN written[s] - (written[s] % BurstLen) ELSE written[s]

WholePackets(n) == n - (n % PacketWords)

SkipStream(o) ==
  /\ call[o].pc = "read" /\ bd[Current(o)].offloadDone
  /\ call' = [call EXCEPT ![o] = NextStream(o)]
  /\ UNCHANGED <<objVars, bufferInitialized, offloadStatus, bd, thread, dmaVars, logVars>>

\* the count is read, by a final read after the data mover has been flushed
\* and stopped; whole packets beyond what has been read are taken
ReadPLIO ==
  LET s == Current("PLIO") IN
  /\ call["PLIO"].pc = "read" /\ ~bd[s].offloadDone
  /\ dmaOn' = [dmaOn EXCEPT ![s] = @ /\ ~(call["PLIO"].final /\ Version2)]
  /\ bd' = [bd EXCEPT ![s].offset = bd[s].usedSz,
                      ![s].usedSz = WholePackets(WordCount(s, call["PLIO"].final))]
  /\ call' = [call EXCEPT !["PLIO"].pc = "sync"]
  /\ UNCHANGED <<objVars, bufferInitialized, offloadStatus, thread, written, logVars>>

\* one chunk, or all that is left of the buffer
ReadGMIO ==
  LET s == Current("GMIO")
      chunkEnd == bd[s].offset + ChunkSz
  IN /\ call["GMIO"].pc = "read" /\ ~bd[s].offloadDone
     /\ bd' = [bd EXCEPT ![s].usedSz =
                 IF call["GMIO"].final \/ chunkEnd > BufSz["GMIO"] THEN BufSz["GMIO"] ELSE chunkEnd]
     /\ call' = [call EXCEPT !["GMIO"].pc = "sync"]
     /\ UNCHANGED <<objVars, bufferInitialized, offloadStatus, thread, dmaVars, logVars>>

-----------------------------------------------------------------------------
(* syncAndLog                                                              *)

\* addAIETraceData; a chunk without a word changes nothing a writer sees
LogChunk(s, from, n) ==
  /\ logged' = [logged EXCEPT ![s] = from + n]
  /\ aiedb' = [aiedb EXCEPT ![s] = IF n = 0 THEN @ ELSE Append(@, [from |-> from, to |-> from + n])]

\* mutant: the last word of a part is not looked at
SearchWrittenBytesLow(words, n) ==
  LET search[v \in [low : 0..n, high : -1..(n - 1), boundary : 0..n]] ==
        LET mid == v.low + ((v.high - v.low) \div 2)
        IN IF v.low >= v.high THEN v.boundary
           ELSE IF words[mid] = 0 THEN search[[v EXCEPT !.high = mid - 1, !.boundary = mid]]
                ELSE search[[v EXCEPT !.low = mid + 1]]
  IN search[[low |-> 0, high |-> n - 1, boundary |-> n]]

\* searchWrittenBytes: binary search for the first zero among n words
SearchWrittenBytes(words, n) ==
  LET search[v \in [low : 0..n, high : -1..(n - 1), boundary : 0..n]] ==
        LET mid == v.low + ((v.high - v.low) \div 2)
        IN IF v.low > v.high THEN v.boundary
           ELSE IF words[mid] = 0 THEN search[[v EXCEPT !.high = mid - 1, !.boundary = mid]]
                ELSE search[[v EXCEPT !.low = mid + 1]]
  IN search[[low |-> 0, high |-> n - 1, boundary |-> n]]

\* what it finds in words from .. to - 1 of the buffer: see SearchFindsEnd
WrittenIn(s, from, to) ==
  IF written[s] <= from THEN 0 ELSE IF written[s] < to THEN written[s] - from ELSE to - from

\* mutant: a full buffer is done with but not reported
AfterLogNotFull(s, n) ==
  [bd EXCEPT ![s].offloadDone = @ \/ bd[s].offset + n >= BufSz[s[1]],
             ![s].offset = IF s[1] = "GMIO" THEN @ + n ELSE @]

\* mutant: readTraceGMIO leaves the offset where it is
AfterLogKeepOffset(s, n) ==
  [bd EXCEPT ![s].isFull = @ \/ bd[s].offset + n >= BufSz[s[1]],
             ![s].offloadDone = @ \/ bd[s].offset + n >= BufSz[s[1]]]

\* the buffer after n words were logged; readTraceGMIO adds n to the offset
AfterLog(s, n) ==
  [bd EXCEPT ![s].isFull = @ \/ bd[s].offset + n >= BufSz[s[1]],
             ![s].offloadDone = @ \/ bd[s].offset + n >= BufSz[s[1]],
             ![s].offset = IF s[1] = "GMIO" THEN @ + n ELSE @]

\* nothing new, or no buffer any more: syncTraceBuf returns no address.  An
\* XDNA offloader keeps its buffer objects after endReadTrace.
SyncNothing(o) ==
  LET s == Current(o) IN
  /\ call[o].pc = "sync"
  /\ \/ bd[s].offset >= bd[s].usedSz /\ UNCHANGED bd
     \/ /\ bd[s].offset < bd[s].usedSz
        /\ build = "edge" /\ ~bd[s].bufId
        /\ bd' = [bd EXCEPT ![s].offloadDone = TRUE]
  /\ call' = [call EXCEPT ![o] = NextStream(o)]
  /\ UNCHANGED <<objVars, bufferInitialized, offloadStatus, thread, dmaVars, logVars>>

SyncAndLog(o) ==
  LET s == Current(o)
      n == IF o = "PLIO" THEN bd[s].usedSz - bd[s].offset ELSE WrittenIn(s, bd[s].offset, bd[s].usedSz)
  IN /\ call[o].pc = "sync" /\ bd[s].offset < bd[s].usedSz
     /\ build = "edge" => bd[s].bufId
     /\ LogChunk(s, bd[s].offset, n)
     /\ bd' = AfterLog(s, n)
     /\ call' = [call EXCEPT ![o] = NextStream(o)]
     /\ UNCHANGED <<objVars, bufferInitialized, offloadStatus, thread, dmaVars>>

ReadStep(o) ==
  \/ o = "PLIO" /\ ReadPLIO
  \/ o = "GMIO" /\ ReadGMIO
  \/ SkipStream(o) \/ SyncNothing(o) \/ SyncAndLog(o)

-----------------------------------------------------------------------------
(* The offload thread                                                      *)

\* startOffload of every offloader that exists: its status, then its thread
StartOffload ==
  /\ traceContinuous' = [o \in Off |-> o \in made]
  /\ offloadStatus' = [o \in Off |-> IF o \in made THEN "RUNNING" ELSE offloadStatus[o]]
  /\ thread' = [o \in Off |-> IF o \in made THEN "loop" ELSE thread[o]]

\* mutant: a running offload is left alone
StopOffloadIdleOnly(o) ==
  offloadStatus' = [offloadStatus EXCEPT ![o] = IF @ \in {"STOPPED", "RUNNING"} THEN @ ELSE "STOPPING"]

StopOffload(o) ==
  offloadStatus' = [offloadStatus EXCEPT ![o] = IF @ = "STOPPED" THEN @ ELSE "STOPPING"]

\* mutant: the last read is an ordinary one
OtReadNotFinal(o) ==
  /\ thread[o] = "loop"
  /\ CallRead(o, FALSE)
  /\ thread' = [thread EXCEPT ![o] = IF offloadStatus[o] = "RUNNING" THEN "pass" ELSE "final"]
  /\ UNCHANGED <<objVars, bufferInitialized, offloadStatus, bd, dmaVars, logVars>>

\* keepOffloading, then a pass over the streams, or the final one
OtRead(o) ==
  /\ thread[o] = "loop"
  /\ CallRead(o, offloadStatus[o] # "RUNNING")
  /\ thread' = [thread EXCEPT ![o] = IF offloadStatus[o] = "RUNNING" THEN "pass" ELSE "final"]
  /\ UNCHANGED <<objVars, bufferInitialized, offloadStatus, bd, dmaVars, logVars>>

OtPassed(o) ==
  /\ thread[o] = "pass" /\ call[o].pc = "idle"
  /\ thread' = [thread EXCEPT ![o] = "loop"]
  /\ UNCHANGED <<objVars, bufferInitialized, offloadStatus, bd, call, dmaVars, logVars>>

OtEnd(o) ==
  /\ thread[o] = "final" /\ call[o].pc = "idle"
  /\ EndReadTrace(o)
  /\ thread' = [thread EXCEPT ![o] = "finish"]
  /\ UNCHANGED <<objVars, offloadStatus, call, written, logVars>>

\* offloadFinished
OtFinish(o) ==
  /\ thread[o] = "finish"
  /\ offloadStatus' = [offloadStatus EXCEPT ![o] = "STOPPED"]
  /\ thread' = [thread EXCEPT ![o] = "done"]
  /\ UNCHANGED <<objVars, bufferInitialized, bd, call, dmaVars, logVars>>

OtStep(o) == OtRead(o) \/ OtPassed(o) \/ OtEnd(o) \/ OtFinish(o)

-----------------------------------------------------------------------------
OffloadTypeOK ==
  /\ build \in {"edge", "xdna"} /\ made \subseteq Off
  /\ traceContinuous \in [Off -> BOOLEAN] /\ mEnCircularBuf \in [Off -> BOOLEAN]
  /\ bufferInitialized \in [Off -> BOOLEAN]
  /\ offloadStatus \in [Off -> {"IDLE", "RUNNING", "STOPPING", "STOPPED"}]
  /\ bd \in [Stream -> BufferInfo]
  /\ thread \in [Off -> {"none", "loop", "pass", "final", "finish", "done"}]
  /\ call \in [Off -> [pc : {"idle", "read", "sync"}, i : Nat, final : BOOLEAN]]
  /\ \A o \in Off : call[o].i \in 1..NumStream[o]
  /\ written \in [Stream -> Nat] /\ dmaOn \in [Stream -> BOOLEAN]
  /\ logged \in [Stream -> Nat] /\ aiedb \in [Stream -> Seq([from : Nat, to : Nat])]
=============================================================================
