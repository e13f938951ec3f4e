--------------------------- MODULE AIETracePlugin ---------------------------
(***************************************************************************)
(* AieTracePluginUnified and AIETraceOffloadManager for one device handle: *)
(* updateAIEDevice, the flush calls, writeAll, the thread that samples the *)
(* AIE timers, and the trace writers.                                      *)
(*                                                                         *)
(* The application thread (main) makes the calls one after the other; an   *)
(* offload thread per offloader and the poller interleave with it.         *)
(***************************************************************************)
EXTENDS AIETraceOffload

CONSTANTS
  AppStyle,     \* how the application loads designs: "load" or "register"
  Reuse,        \* the option reuse_buffer
  MaxUpdates    \* bound: calls of updateAIEDevice in a behaviour

ASSUME OptionAssumption == AppStyle \in {"load", "register"} /\ Reuse \in BOOLEAN
ASSUME UpdatesAssumption == MaxUpdates \in Nat

VARIABLES
  main,          \* control state of the application thread in the plugin
  kind,          \* the call it is in: updateAIEDevice or one of the flushes
  cur,           \* the offloader flushAll is at
  entry,         \* handleToAIEData[handle]: absent, or valid or not
  continuous,    \* metadata->getContinuousTrace() of the update
  configuredOnePlioPartition,
  poller, pollCtrl, \* pollAIETimers and pollAIETimerThreadCtrlBool
  freed,         \* freeResources was called on the implementation
  usedFreed,     \* history: the poller used freed resources or no AIEData
  owed,          \* history: per stream, what the flush under way must deliver
  writers,       \* the AIETraceWriters of each stream in the order of the
                 \* plugin's list, each at its place in the file, in words
  file,          \* end of the last chunk in the stream's trace file, 0 when
                 \* the file is empty
  hole,          \* words before the first chunk that nobody has written
  badFile,       \* history: streams whose file has a gap or an overlap
  warned,        \* offloaders for which the user was told of a full buffer
  updates        \* number of updates so far

pluginVars == <<main, kind, cur, entry, continuous,
                configuredOnePlioPartition, updates>>
pollVars == <<poller, pollCtrl, freed, usedFreed>>
fileVars == <<writers, file, hole, badFile>>
vars == <<offloadVars, pluginVars, pollVars, owed, fileVars, warned>>

-----------------------------------------------------------------------------
Init ==
  /\ OffloadInit
  /\ main = "idle" /\ kind = "none" /\ cur = "PLIO" /\ entry = "none"
  /\ continuous = FALSE
  /\ configuredOnePlioPartition = FALSE /\ updates = 0
  /\ poller = "none" /\ pollCtrl = FALSE /\ freed = FALSE /\ usedFreed = FALSE
  /\ owed = [s \in Stream |-> -1]
  /\ writers = [s \in Stream |-> <<>>] /\ file = [s \in Stream |-> 0]
  /\ hole = [s \in Stream |-> 0] /\ badFile = {} /\ warned = {}

-----------------------------------------------------------------------------
(* updateAIEDevice.  XRT finishes the flush of a handle before it loads    *)
(* again.  The XDNA build does nothing then: there a handle is one of a    *)
(* hardware context and not used again while it has a valid entry.         *)

UpdateBegins ==
  /\ main = "idle" /\ entry # "valid" /\ updates < MaxUpdates
  /\ updates' = updates + 1

\* the offloaders that configureAndInitPLIO and configureAndInitGMIO make
Made(isPLIO, isGMIO) ==
  {o \in Off : \/ o = "PLIO" /\ isPLIO /\ ~configuredOnePlioPartition /\ build = "edge"
               \/ o = "GMIO" /\ isGMIO}

\* createTraceWriters: one more writer for each stream of the design, whose
\* file it empties.  Those of earlier designs stay in the list with the same
\* file open
CreateTraceWriters(isPLIO, isGMIO) ==
  LET has(s) == IF s[1] = "PLIO" THEN isPLIO ELSE isGMIO
  IN /\ writers' = [s \in Stream |-> IF has(s) THEN Append(writers[s], 0) ELSE writers[s]]
     /\ file' = [s \in Stream |-> IF has(s) THEN 0 ELSE file[s]]
     /\ hole' = [s \in Stream |-> IF has(s) THEN 0 ELSE hole[s]]
     /\ UNCHANGED badFile

\* no metadata, no tile with a metric, no stream, or one more PLIO partition
\* among registered xclbins: the entry is left invalid
UpdateRefused ==
  /\ UpdateBegins
  /\ entry' = "invalid"
  /\ UNCHANGED <<offloadVars, main, kind, cur, continuous,
                 configuredOnePlioPartition, pollVars, owed, fileVars, warned>>

\* the AIE device instance cannot be had: the entry stays valid, with the
\* writers and a manager that has no offloader
UpdateNoInstance ==
  /\ UpdateBegins /\ build = "edge"
  /\ \E isPLIO, isGMIO \in BOOLEAN :
       /\ (isPLIO /\ ~configuredOnePlioPartition) \/ isGMIO
       /\ CreateTraceWriters(isPLIO, isGMIO)
  /\ Construct({})
  /\ entry' = "valid"
  /\ freed' = FALSE /\ pollCtrl' = FALSE
  /\ warned' = {}
  /\ UNCHANGED <<build, mEnCircularBuf, bufferInitialized, bd, dmaVars, logVars, main, kind, cur,
                 continuous, configuredOnePlioPartition, poller, usedFreed, owed>>

\* the writers are made and the offloaders constructed; initReadTraces
\* allocates and starts
UpdateConfigures ==
  /\ UpdateBegins
  /\ \E isPLIO, isGMIO, opt \in BOOLEAN :
       /\ isPLIO \/ isGMIO
       /\ ~(AppStyle = "register" /\ isPLIO /\ ~isGMIO /\ configuredOnePlioPartition)
       /\ CreateTraceWriters(isPLIO, isGMIO)
       /\ Construct(Made(isPLIO, isGMIO))
       /\ configuredOnePlioPartition' = (configuredOnePlioPartition \/ isPLIO)
       /\ continuous' = opt
       /\ \E failed \in SUBSET {s \in Stream : s[1] \in Made(isPLIO, isGMIO)} :
            /\ InitReadTrace(Made(isPLIO, isGMIO), failed, Reuse)
            /\ entry' = IF failed = {} THEN "valid" ELSE "invalid"
            /\ main' = IF failed = {} THEN "timeline" ELSE "idle"
  /\ freed' = FALSE /\ pollCtrl' = FALSE
  /\ warned' = {}
  /\ UNCHANGED <<build, aiedb, kind, cur, poller, usedFreed, owed>>

\* the timer thread is started before the trace events are configured
UpdateTimeline ==
  /\ main = "timeline"
  /\ \E enable \in BOOLEAN :
       /\ pollCtrl' = enable
       /\ poller' = IF enable THEN "run" ELSE "none"
  /\ main' = "start"
  /\ UNCHANGED <<offloadVars, kind, cur, entry, continuous,
                 configuredOnePlioPartition, updates, freed, usedFreed, owed, fileVars, warned>>

\* updateDevice, then startOffload with the option continuous
UpdateStarts ==
  /\ main = "start"
  /\ IF continuous THEN StartOffload ELSE UNCHANGED <<traceContinuous, offloadStatus, thread>>
  /\ main' = "idle"
  /\ UNCHANGED <<build, made, mEnCircularBuf, bufferInitialized, bd, call, dmaVars, logVars, kind, cur, entry,
                 continuous, configuredOnePlioPartition, updates, pollVars,
                 owed, fileVars, warned>>

-----------------------------------------------------------------------------
(* pollAIETimers: until told to stop, or enough samples are taken          *)

PollCheck ==
  /\ poller = "run"
  /\ poller' = IF pollCtrl THEN "poll" ELSE "done"
  /\ UNCHANGED <<offloadVars, pluginVars, pollCtrl, freed, usedFreed, owed, fileVars, warned>>

PollEnough ==
  /\ poller = "run"
  /\ poller' = "done"
  /\ UNCHANGED <<offloadVars, pluginVars, pollCtrl, freed, usedFreed, owed, fileVars, warned>>

PollTimers ==
  /\ poller = "poll"
  /\ poller' = "run"
  /\ usedFreed' = (usedFreed \/ freed \/ entry # "valid")
  /\ UNCHANGED <<offloadVars, pluginVars, pollCtrl, freed, owed, fileVars, warned>>

PollStep == PollCheck \/ PollEnough \/ PollTimers

-----------------------------------------------------------------------------
(* flushAIEDevice, finishFlushAIEDevice and writeAll, the last also from   *)
(* the destructor.  finishFlushAIEDevice does nothing in the XDNA build.   *)

FlushBegins ==
  /\ main = "idle" /\ entry = "valid"
  /\ \E k \in {"flush", "finish", "writeAll"} :
       /\ k = "finish" => build = "edge"
       /\ kind' = k
       /\ main' = IF k = "flush" THEN "modules" ELSE "endPoll"
  /\ UNCHANGED <<offloadVars, cur, entry, continuous, configuredOnePlioPartition,
                 updates, pollVars, owed, fileVars, warned>>

\* endPollforDevice
EndPoll ==
  /\ main = "endPoll"
  /\ pollCtrl' = FALSE
  /\ main' = IF pollCtrl THEN "joinPoll" ELSE "modules"
  /\ UNCHANGED <<offloadVars, kind, cur, entry, continuous, configuredOnePlioPartition,
                 updates, poller, freed, usedFreed, owed, fileVars, warned>>

\* mutant: the resources are freed without waiting for the thread
JoinPollNot ==
  /\ main = "joinPoll"
  /\ freed' = TRUE
  /\ main' = "modules"
  /\ UNCHANGED <<offloadVars, kind, cur, entry, continuous, configuredOnePlioPartition,
                 updates, poller, pollCtrl, usedFreed, owed, fileVars, warned>>

JoinPoll ==
  /\ main = "joinPoll" /\ poller = "done"
  /\ poller' = "none"
  /\ freed' = TRUE
  /\ main' = "modules"
  /\ UNCHANGED <<offloadVars, kind, cur, entry, continuous, configuredOnePlioPartition,
                 updates, pollCtrl, usedFreed, owed, fileVars, warned>>

\* flushTraceModules, then flushAll from its first offloader.  What a stream
\* whose DMA still runs has written by now is owed to the logger.
FlushModules ==
  /\ main = "modules"
  /\ owed' = [s \in Stream |-> IF s[1] \in made /\ bufferInitialized[s[1]]
                               THEN WholePackets(written[s]) ELSE -1]
  /\ cur' = "PLIO"
  /\ main' = "offloader"
  /\ UNCHANGED <<offloadVars, kind, entry, continuous, configuredOnePlioPartition,
                 updates, pollVars, fileVars, warned>>

NextOffloader == IF cur = "PLIO" THEN cur' = "GMIO" /\ main' = "offloader"
                                 ELSE cur' = cur /\ main' = "flushed"

FlushSkip ==
  /\ main = "offloader" /\ cur \notin made
  /\ NextOffloader
  /\ UNCHANGED <<offloadVars, kind, entry, continuous, configuredOnePlioPartition,
                 updates, pollVars, owed, fileVars, warned>>

\* flushOffloader of a running offload thread, or by the calling thread
FlushStop ==
  /\ main = "offloader" /\ cur \in made /\ traceContinuous[cur]
  /\ StopOffload(cur)
  /\ main' = "wait"
  /\ UNCHANGED <<objVars, bufferInitialized, bd, thread, call, dmaVars, logVars, kind, cur, entry,
                 continuous, configuredOnePlioPartition, updates, pollVars,
                 owed, fileVars, warned>>

FlushRead ==
  /\ main = "offloader" /\ cur \in made /\ ~traceContinuous[cur]
  /\ CallRead(cur, TRUE)
  /\ main' = "read"
  /\ UNCHANGED <<objVars, bufferInitialized, offloadStatus, bd, thread, dmaVars, logVars, kind, cur,
                 entry, continuous, configuredOnePlioPartition, updates,
                 pollVars, owed, fileVars, warned>>

FlushEndRead ==
  /\ main = "read" /\ call[cur].pc = "idle"
  /\ EndReadTrace(cur)
  /\ main' = "full"
  /\ UNCHANGED <<objVars, offloadStatus, thread, call, written, logVars, kind, cur, entry, continuous, configuredOnePlioPartition, updates, pollVars, owed,
                 fileVars, warned>>

FlushWaited ==
  /\ main = "wait" /\ offloadStatus[cur] = "STOPPED"
  /\ main' = "full"
  /\ UNCHANGED <<offloadVars, kind, cur, entry, continuous, configuredOnePlioPartition,
                 updates, pollVars, owed, fileVars, warned>>

\* isTraceBufferFull, asked for by finishFlushAIEDevice and writeAll
FlushCheckFull ==
  /\ main = "full"
  /\ warned' = warned \cup {o \in {cur} : kind # "flush" /\ \E s \in StreamsOf(o) : bd[s].isFull}
  /\ NextOffloader
  /\ UNCHANGED <<offloadVars, kind, entry, continuous, configuredOnePlioPartition,
                 updates, pollVars, owed, fileVars>>

-----------------------------------------------------------------------------
(* endWrite: an AIETraceWriter takes all that AIEDB holds for its stream,  *)
(* so that the first writer of the stream takes it and the others get      *)
(* nothing                                                                 *)

\* chunks c[1], c[2], ... continue a file that ends at n
Continue(c, n) == \A k \in 1..Len(c) : c[k].from = IF k = 1 THEN n ELSE c[k - 1].to

\* the words in chunks that continue each other
Words(c) == c[Len(c)].to - c[1].from

\* the first writer goes on at its own place, wherever the file ends
WriteTraceEvents ==
  /\ writers' = [s \in Stream |-> IF aiedb[s] = <<>> THEN writers[s]
                                  ELSE [writers[s] EXCEPT ![1] = @ + Words(aiedb[s])]]
  /\ hole' = [s \in Stream |-> IF aiedb[s] # <<>> /\ file[s] = 0 THEN writers[s][1] ELSE hole[s]]
  /\ badFile' = badFile \cup {s \in Stream : ~Continue(aiedb[s], file[s])}
  /\ file' = [s \in Stream |-> IF aiedb[s] = <<>> THEN file[s] ELSE aiedb[s][Len(aiedb[s])].to]
  /\ aiedb' = [s \in Stream |-> <<>>]

\* a flush returns; finish and writeAll write, and erase the entry with its
\* offloaders, whose threads have ended
FlushReturns ==
  /\ main = "flushed"
  /\ IF kind = "flush"
     THEN main' = "idle" /\ UNCHANGED <<aiedb, fileVars, entry, made>>
     ELSE /\ WriteTraceEvents
          /\ entry' = "none" /\ made' = {}
          /\ main' = IF kind = "finish" THEN "idle" ELSE "gone"
  /\ owed' = [s \in Stream |-> -1]
  /\ kind' = "none"
  /\ UNCHANGED <<build, traceContinuous, mEnCircularBuf, bufferInitialized, offloadStatus, bd, thread, call,
                 dmaVars, logged, cur, continuous, configuredOnePlioPartition,
                 updates, pollVars, warned>>

\* writeAll with nothing to flush
WriteOnly ==
  /\ main = "idle" /\ entry # "valid"
  /\ WriteTraceEvents
  /\ entry' = "none" /\ made' = {}
  /\ main' = "gone"
  /\ UNCHANGED <<build, traceContinuous, mEnCircularBuf, bufferInitialized, offloadStatus, bd, thread, call,
                 dmaVars, logged, kind, cur, continuous, configuredOnePlioPartition,
                 updates, pollVars, owed, warned>>

Gone == main = "gone" /\ UNCHANGED vars

-----------------------------------------------------------------------------
Update == UpdateRefused \/ UpdateNoInstance \/ UpdateConfigures \/ UpdateTimeline \/ UpdateStarts

FlushStep == EndPoll \/ JoinPoll \/ FlushModules \/ FlushSkip \/ FlushStop \/ FlushRead
               \/ FlushEndRead \/ FlushWaited \/ FlushCheckFull \/ FlushReturns

OffloaderStep ==
  /\ (\E o \in Off : ReadStep(o) \/ OtStep(o)) \/ (\E s \in Stream : DmaWrite(s))
  /\ UNCHANGED <<pluginVars, pollVars, owed, fileVars, warned>>

Next == Update \/ PollStep \/ FlushBegins \/ FlushStep \/ WriteOnly \/ Gone \/ OffloaderStep

Spec == Init /\ [][Next]_vars

\* every thread is scheduled: the call that has begun, the reader it or an
\* offload thread is in, the offload threads, and the poller
Fairness ==
  /\ WF_vars(FlushStep) /\ WF_vars(PollStep)
  /\ \A o \in Off :
       WF_vars((ReadStep(o) \/ OtStep(o)) /\ UNCHANGED <<pluginVars, pollVars, owed, fileVars, warned>>)

FairSpec == Spec /\ Fairness

-----------------------------------------------------------------------------
(* Properties                                                              *)

\* Every variable has its type.
TypeOK ==
  /\ OffloadTypeOK
  /\ main \in {"idle", "timeline", "start", "endPoll", "joinPoll", "modules", "offloader", "wait",
               "read", "full", "flushed", "gone"}
  /\ kind \in {"none", "flush", "finish", "writeAll"} /\ cur \in Off
  /\ entry \in {"none", "invalid", "valid"} /\ continuous \in BOOLEAN
  /\ configuredOnePlioPartition \in BOOLEAN /\ updates \in Nat
  /\ poller \in {"none", "run", "poll", "done"} /\ pollCtrl \in BOOLEAN
  /\ freed \in BOOLEAN /\ usedFreed \in BOOLEAN
  /\ owed \in [Stream -> Int]
  /\ writers \in [Stream -> Seq(Nat)] /\ file \in [Stream -> Nat] /\ hole \in [Stream -> Nat]
  /\ badFile \subseteq Stream /\ warned \subseteq Off

Promise == INSTANCE TraceStream WITH Slack <- PacketWords, delivered <- logged

\* The streams keep the promise of TraceStream: the offload threads and the
\* flushes deliver every word once and in order, and a flush that returns
\* has delivered every whole packet written before it was asked for.
StreamsKeepPromise == Promise!Spec

\* searchWrittenBytes finds how much of any chunk of a buffer is written.
SearchFindsEnd ==
  \A s \in Stream : \A to \in 0..BufSz[s[1]] : \A from \in 0..to :
    SearchWrittenBytes([k \in 0..(to - from - 1) |-> IF from + k < written[s] THEN 1 ELSE 0], to - from)
      = WrittenIn(s, from, to)

\* A trace file holds the words of the last design that was loaded with the
\* stream, without a gap and no word twice: the chunks the logger kept in
\* AIEDB over many passes of the reader and several flushes continue each
\* other, and the file ends where the writer that wrote it stands.  They are
\* at the beginning of the file unless an earlier design had the stream too:
\* then its writer, which writes for the new design, has left a hole as long
\* as all it wrote before.
FilesContiguous ==
  /\ badFile = {}
  /\ \A s \in Stream :
       /\ Len(writers[s]) <= 1 => hole[s] = 0
       /\ file[s] > 0 => writers[s][1] = hole[s] + file[s]

\* The sampling thread never uses an implementation whose resources were
\* freed, nor looks up an entry that finishFlushAIEDevice has erased.
PollerSafe == ~usedFreed

\* When a flush that reports is over, the user has been told of exactly the
\* offloaders that filled a buffer, in whichever thread and pass it filled.
FullReported ==
  (main = "flushed" /\ kind # "flush") =>
    \A o \in made : (o \in warned) <=> \E s \in StreamsOf(o) : logged[s] = BufSz[o]

\* A flush, once begun, returns: the offload threads end and are seen to,
\* and the poller is joined.
FlushAnswered == (main = "endPoll" \/ main = "modules") ~> (main \in {"idle", "gone"})
=============================================================================
