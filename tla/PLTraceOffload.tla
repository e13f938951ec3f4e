--------------------------- MODULE PLTraceOffload ---------------------------
(***************************************************************************)
(* PLDeviceTraceOffload with its two threads, and the part of              *)
(* PLDeviceOffloadPlugin that drives it: initialization, start, flush,     *)
(* check of the buffers for fullness, and deletion.                        *)
(*                                                                         *)
(* Three threads interleave: the application thread inside the plugin      *)
(* (main), the offload thread (ot) and the processing thread (pt).  Each   *)
(* has a program counter; a step is what a thread does between two points  *)
(* where another thread can be seen.  process_trace() is a procedure like  *)
(* read_trace_s2mm(), with proc as its control state: pt calls it under    *)
(* continuous offload and main calls it otherwise.                         *)
(***************************************************************************)
EXTENDS PLTraceReader

VARIABLES
  main,          \* control state of the plugin's calls on the offloader
  device_trace,  \* the plugin's flag
  continuous_trace, \* the plugin's option of that name, which never changes
  continuous,    \* set by set_continuous
  ot, pt,        \* control state of offload_thread and process_thread
  m_initialized,
  proc,          \* control state of process_trace: the chunk in hand
  status,        \* OffloadThreadStatus
  m_process_trace, m_process_trace_done,
  delivered,     \* history: end of the last interval given to the logger
  ended,         \* the logger has run endProcessTraceData
  markedFull,    \* addEventMarkers was told that a TS2MM buffer is full
  outOfRange,    \* history: buffers[i] was evaluated on the cleared vector
  abandoned      \* history: data movers that lost an interval to an exception

pluginVars == <<main, device_trace, continuous_trace, continuous>>
threadVars == <<ot, pt, m_initialized>>
flagVars == <<status, m_process_trace, m_process_trace_done>>
loggerVars == <<delivered, ended, markedFull>>

vars == <<readerVars, pluginVars, threadVars, proc, flagVars, loggerVars, outOfRange, abandoned>>

-----------------------------------------------------------------------------
NoChunk == [ts2mm |-> 1, from |-> 0, to |-> 0]
ProcIdle == [pc |-> "idle", chunk |-> NoChunk]
ProcCall == [pc |-> "pop", chunk |-> NoChunk]

\* the offloader has just been constructed; device_trace is off when only
\* the counters of the device are wanted
Init ==
  /\ ReaderInit
  /\ main = "new" /\ device_trace \in BOOLEAN
  /\ continuous_trace \in BOOLEAN /\ continuous = FALSE
  /\ ot = "none" /\ pt = "none" /\ m_initialized = FALSE
  /\ proc = ProcIdle
  /\ status = "IDLE" /\ m_process_trace = FALSE /\ m_process_trace_done = FALSE
  /\ delivered = [b \in TS2MM |-> 0] /\ ended = FALSE /\ markedFull = FALSE
  /\ outOfRange = FALSE /\ abandoned = {}

\* stop_offload
StopOffload == status' = IF status = "STOPPED" THEN "STOPPED" ELSE "STOPPING"

-----------------------------------------------------------------------------
(* PLDeviceOffloadPlugin::addOffloader                                     *)

\* a circular buffer is asked for with continuous_trace, and used when the
\* data movers support it and the offload rate is high enough
CircBuf == {FALSE, continuous_trace}

\* read_trace_init succeeds
InitTrace ==
  /\ main = "new" /\ device_trace
  /\ \E circ \in CircBuf : InitS2MM(TS2MM, circ)
  /\ m_initialized' = TRUE
  /\ main' = "ready"
  /\ UNCHANGED <<device_trace, continuous, continuous_trace, ot, pt, proc, flagVars, loggerVars, outOfRange, abandoned>>

\* allocTraceBuf fails for buffer k: the offloader stays for the counters
\* with device_trace off, or is deleted when they are not wanted
InitFails ==
  /\ main = "new" /\ device_trace
  /\ \E k \in TS2MM, circ \in CircBuf : InitS2MM(1..(k - 1), circ)
  /\ \/ main' = "ready" /\ device_trace' = FALSE
     \/ main' = "deleted" /\ UNCHANGED device_trace
  /\ UNCHANGED <<continuous, continuous_trace, threadVars, proc, flagVars, loggerVars, outOfRange, abandoned>>

\* device_trace is off: the offloader is kept for the counters only
InitSkipped ==
  /\ main = "new" /\ ~device_trace
  /\ main' = "ready"
  /\ UNCHANGED <<readerVars, device_trace, continuous, continuous_trace, threadVars, proc,
                 flagVars, loggerVars, outOfRange, abandoned>>

-----------------------------------------------------------------------------
(* PLDeviceOffloadPlugin::startContinuousThreads and start_offload         *)

\* start_offload(TRACE) creates the offload thread first ...
StartTrace ==
  /\ main = "ready" /\ continuous_trace /\ status # "RUNNING"
  /\ status' = "RUNNING"
  /\ ot' = "start"
  /\ main' = "spawn"
  /\ UNCHANGED <<readerVars, device_trace, continuous, continuous_trace, pt, m_initialized, proc,
                 m_process_trace, m_process_trace_done, loggerVars, outOfRange, abandoned>>

\* ... and then the processing thread
SpawnProcess ==
  /\ main = "spawn"
  /\ pt' = "start"
  /\ continuous' = TRUE
  /\ main' = "running"
  /\ UNCHANGED <<readerVars, device_trace, continuous_trace, ot, m_initialized, proc, flagVars,
                 loggerVars, outOfRange, abandoned>>

\* start_offload(CLOCK_TRAIN)
StartClockTrain ==
  /\ main = "ready" /\ ~continuous_trace /\ status # "RUNNING"
  /\ status' = "RUNNING"
  /\ ot' = "train"
  /\ main' = "running"
  /\ UNCHANGED <<readerVars, device_trace, continuous, continuous_trace, pt, m_initialized, proc,
                 m_process_trace, m_process_trace_done, loggerVars, outOfRange, abandoned>>

-----------------------------------------------------------------------------
(* process_trace: a chunk is taken under process_queue_lock and processed  *)
(* after the lock is released.  q_empty is read with the chunk: when it is *)
(* true the call returns after this chunk, whatever is queued meanwhile.   *)

PopChunk ==
  /\ proc.pc = "pop" /\ data_queue # <<>>
  /\ proc' = [pc |-> IF Tail(data_queue) = <<>> THEN "workLast" ELSE "work",
              chunk |-> Head(data_queue)]
  /\ data_queue' = Tail(data_queue)
  /\ UNCHANGED <<buffers, use_circ_buf, reader, written, dmaOn, logged,
                 pluginVars, threadVars, flagVars, loggerVars, outOfRange, abandoned>>

PopNothing ==
  /\ proc.pc = "pop" /\ data_queue = <<>>
  /\ proc' = ProcIdle
  /\ UNCHANGED <<readerVars, pluginVars, threadVars, flagVars, loggerVars, outOfRange, abandoned>>

ProcessChunk ==
  /\ proc.pc \in {"work", "workLast"}
  /\ delivered' = [delivered EXCEPT ![proc.chunk.ts2mm] = proc.chunk.to]
  /\ proc' = IF proc.pc = "work" THEN ProcCall ELSE ProcIdle
  /\ UNCHANGED <<readerVars, pluginVars, threadVars, flagVars, ended, markedFull, outOfRange, abandoned>>

ProcStep == PopChunk \/ PopNothing \/ ProcessChunk

-----------------------------------------------------------------------------
(* The steps of read_trace_s2mm, for whichever thread called it            *)

ReaderStep ==
  /\ \/ ReadStep /\ UNCHANGED status
     \/ AbortOverwritten /\ StopOffload
  /\ UNCHANGED <<pluginVars, threadVars, proc, m_process_trace,
                 m_process_trace_done, loggerVars, outOfRange, abandoned>>

\* mutant: the buffers are cleared before they are asked for fullness
ReadTraceEndResetFirst ==
  /\ ended' = TRUE
  /\ ResetS2MM
  /\ m_initialized' = FALSE
  /\ UNCHANGED <<delivered, markedFull, outOfRange, abandoned>>

\* read_trace_end: approximations and markers, then reset_s2mm.  On the
\* cleared vector trace_buffer_full reads the memory of destroyed elements
ReadTraceEnd ==
  /\ ended' = TRUE
  /\ IF buffers = <<>>
     THEN outOfRange' = TRUE /\ markedFull' \in BOOLEAN
     ELSE /\ markedFull' = (markedFull \/ \E b \in TS2MM : buffers[b].full)
          /\ UNCHANGED outOfRange
  /\ ResetS2MM
  /\ m_initialized' = FALSE
  /\ UNCHANGED <<delivered, abandoned>>

-----------------------------------------------------------------------------
(* offload_thread: offload_device_continuous or train_clock_continuous     *)

OtStart ==
  /\ ot = "start"
  /\ IF m_initialized THEN ot' = "loop" /\ UNCHANGED status
                      ELSE ot' = "done" /\ status' = "STOPPED"
  /\ UNCHANGED <<readerVars, pluginVars, pt, m_initialized, proc,
                 m_process_trace, m_process_trace_done, loggerVars, outOfRange, abandoned>>

\* should_continue, then a pass over the buffers
OtPass ==
  /\ ot = "loop" /\ status = "RUNNING"
  /\ CallRead(FALSE)
  /\ ot' = "pass"
  /\ UNCHANGED <<pluginVars, pt, m_initialized, proc, flagVars, loggerVars, outOfRange, abandoned>>

OtPassed ==
  /\ ot = "pass" /\ reader.pc = "idle"
  /\ ot' = "loop"
  /\ UNCHANGED <<readerVars, pluginVars, pt, m_initialized, proc, flagVars,
                 loggerVars, outOfRange, abandoned>>

\* mutant: the last read is not forced, so nothing is flushed
OtFinalUnforced ==
  /\ ot = "loop" /\ status # "RUNNING"
  /\ CallRead(FALSE)
  /\ ot' = "final"
  /\ UNCHANGED <<pluginVars, pt, m_initialized, proc, flagVars, loggerVars, outOfRange, abandoned>>

\* the final forced read
OtFinal ==
  /\ ot = "loop" /\ status # "RUNNING"
  /\ CallRead(TRUE)
  /\ ot' = "final"
  /\ UNCHANGED <<pluginVars, pt, m_initialized, proc, flagVars, loggerVars, outOfRange, abandoned>>

\* mutants: m_process_trace is not cleared, m_process_trace_done not awaited
OtStopProcessForgotten ==
  /\ ot = "final" /\ reader.pc = "idle"
  /\ ot' = "spin"
  /\ UNCHANGED <<readerVars, pluginVars, pt, m_initialized, proc, flagVars,
                 loggerVars, outOfRange, abandoned>>

OtSpunAtOnce ==
  /\ ot = "spin"
  /\ ot' = "end"
  /\ UNCHANGED <<readerVars, pluginVars, pt, m_initialized, proc, flagVars,
                 loggerVars, outOfRange, abandoned>>

OtStopProcess ==
  /\ ot = "final" /\ reader.pc = "idle"
  /\ m_process_trace' = FALSE
  /\ ot' = "spin"
  /\ UNCHANGED <<readerVars, pluginVars, pt, m_initialized, proc, status,
                 m_process_trace_done, loggerVars, outOfRange, abandoned>>

OtSpun ==
  /\ ot = "spin" /\ m_process_trace_done
  /\ ot' = "end"
  /\ UNCHANGED <<readerVars, pluginVars, pt, m_initialized, proc, flagVars,
                 loggerVars, outOfRange, abandoned>>

OtEnd ==
  /\ ot = "end"
  /\ ReadTraceEnd
  /\ ot' = "finish"
  /\ UNCHANGED <<pluginVars, pt, proc, flagVars>>

OtFinish ==
  /\ \/ ot = "finish"
     \/ ot = "train" /\ status # "RUNNING"
  /\ status' = "STOPPED"
  /\ ot' = "done"
  /\ UNCHANGED <<readerVars, pluginVars, pt, m_initialized, proc,
                 m_process_trace, m_process_trace_done, loggerVars, outOfRange, abandoned>>

OtStep == OtStart \/ OtPass \/ OtPassed \/ OtFinal \/ OtStopProcess \/ OtSpun \/ OtEnd \/ OtFinish

-----------------------------------------------------------------------------
(* process_thread: process_trace_continuous                                *)

PtStart ==
  /\ pt = "start"
  /\ m_process_trace' = TRUE
  /\ pt' = "start2"
  /\ UNCHANGED <<readerVars, pluginVars, ot, m_initialized, proc, status,
                 m_process_trace_done, loggerVars, outOfRange, abandoned>>

PtReady ==
  /\ pt = "start2"
  /\ m_process_trace_done' = FALSE
  /\ pt' = "loop"
  /\ UNCHANGED <<readerVars, pluginVars, ot, m_initialized, proc, status,
                 m_process_trace, loggerVars, outOfRange, abandoned>>

\* mutant: the queue is not drained one last time after the loop
PtCallNoLast ==
  /\ pt = "loop"
  /\ pt' = IF m_process_trace THEN "body" ELSE "last"
  /\ proc' = IF m_process_trace THEN ProcCall ELSE ProcIdle
  /\ UNCHANGED <<readerVars, pluginVars, ot, m_initialized, flagVars, loggerVars, outOfRange, abandoned>>

\* one turn of the loop, or the last call after it
PtCall ==
  /\ pt = "loop"
  /\ pt' = IF m_process_trace THEN "body" ELSE "last"
  /\ proc' = ProcCall
  /\ UNCHANGED <<readerVars, pluginVars, ot, m_initialized, flagVars, loggerVars, outOfRange, abandoned>>

PtBack ==
  /\ pt = "body" /\ proc.pc = "idle"
  /\ pt' = "loop"
  /\ UNCHANGED <<readerVars, pluginVars, ot, m_initialized, proc, flagVars,
                 loggerVars, outOfRange, abandoned>>

PtDone ==
  /\ pt = "last" /\ proc.pc = "idle"
  /\ m_process_trace_done' = TRUE
  /\ pt' = "done"
  /\ UNCHANGED <<readerVars, pluginVars, ot, m_initialized, proc, status,
                 m_process_trace, loggerVars, outOfRange, abandoned>>

PtStep == PtStart \/ PtReady \/ PtCall \/ PtBack \/ PtDone

-----------------------------------------------------------------------------
(* PLDeviceOffloadPlugin::flushTraceOffloader, followed by                 *)
(* checkTraceBufferFullness as in readTrace and writeAll.  Both may be     *)
(* repeated: on a READ_TRACE broadcast, and again on destruction.          *)

FlushStop ==
  /\ main = "running" /\ continuous
  /\ StopOffload
  /\ main' = "wait"
  /\ UNCHANGED <<readerVars, device_trace, continuous, continuous_trace, threadVars, proc,
                 m_process_trace, m_process_trace_done, loggerVars, outOfRange, abandoned>>

FlushStopped ==
  /\ main = "wait" /\ status = "STOPPED"
  /\ main' = "check"
  /\ UNCHANGED <<readerVars, device_trace, continuous, continuous_trace, threadVars, proc,
                 flagVars, loggerVars, outOfRange, abandoned>>

\* mutants: the flush reads without force, and skips process_trace
FlushReadUnforced ==
  /\ main = "running" /\ ~continuous /\ device_trace
  /\ CallRead(FALSE)
  /\ outOfRange' = (outOfRange \/ buffers = <<>>)
  /\ main' = "read"
  /\ UNCHANGED <<device_trace, continuous, continuous_trace, threadVars, proc, flagVars, loggerVars, abandoned>>

FlushProcessSkipped ==
  /\ main = "read" /\ reader.pc = "idle"
  /\ main' = "process"
  /\ UNCHANGED <<readerVars, device_trace, continuous, continuous_trace, threadVars, proc, flagVars,
                 loggerVars, outOfRange, abandoned>>

\* without continuous offload the calling thread does the work
FlushRead ==
  /\ main = "running" /\ ~continuous /\ device_trace
  /\ CallRead(TRUE)
  /\ outOfRange' = (outOfRange \/ buffers = <<>>)
  /\ main' = "read"
  /\ UNCHANGED <<device_trace, continuous, continuous_trace, threadVars, proc, flagVars, loggerVars, abandoned>>

\* mapping or syncing the buffer object throws: the flush is given up, with
\* the cursor already advanced over the interval that was not copied
FlushThrows ==
  LET b == reader.i IN
  /\ main = "read" /\ reader.pc = "sync"
  /\ buffers[b].offset < buffers[b].used_size
  /\ reader' = ReaderIdle
  /\ abandoned' = abandoned \cup {b}
  /\ main' = "check"
  /\ UNCHANGED <<buffers, use_circ_buf, data_queue, written, dmaOn, logged, device_trace,
                 continuous, continuous_trace, threadVars, proc, flagVars, loggerVars, outOfRange>>

FlushProcess ==
  /\ main = "read" /\ reader.pc = "idle"
  /\ proc' = ProcCall
  /\ main' = "process"
  /\ UNCHANGED <<readerVars, device_trace, continuous, continuous_trace, threadVars, flagVars,
                 loggerVars, outOfRange, abandoned>>

FlushEnd ==
  /\ main = "process" /\ proc.pc = "idle"
  /\ ReadTraceEnd
  /\ main' = "check"
  /\ UNCHANGED <<device_trace, continuous, continuous_trace, ot, pt, proc, flagVars>>

FlushSkip ==
  /\ main = "running" /\ ~continuous /\ ~device_trace
  /\ main' = "check"
  /\ UNCHANGED <<readerVars, device_trace, continuous, continuous_trace, threadVars, proc,
                 flagVars, loggerVars, outOfRange, abandoned>>

\* checkTraceBufferFullness calls trace_buffer_full when device_trace is on
CheckFullness ==
  /\ main = "check"
  /\ outOfRange' = (outOfRange \/ (device_trace /\ buffers = <<>>))
  /\ main' = "running"
  /\ UNCHANGED <<readerVars, device_trace, continuous, continuous_trace, threadVars, proc,
                 flagVars, loggerVars, abandoned>>

\* clearOffloader: the destructor stops the threads and joins them
Delete ==
  /\ main = "running"
  /\ StopOffload
  /\ main' = "join"
  /\ UNCHANGED <<readerVars, device_trace, continuous, continuous_trace, threadVars, proc,
                 m_process_trace, m_process_trace_done, loggerVars, outOfRange, abandoned>>

Joined ==
  /\ main = "join" /\ ot \in {"none", "done"} /\ pt \in {"none", "done"}
  /\ main' = "deleted"
  /\ UNCHANGED <<readerVars, device_trace, continuous, continuous_trace, threadVars, proc,
                 flagVars, loggerVars, outOfRange, abandoned>>

\* the offloader is gone
Deleted == main = "deleted" /\ UNCHANGED vars

-----------------------------------------------------------------------------
Setup == InitTrace \/ InitFails \/ InitSkipped \/ StartTrace \/ SpawnProcess \/ StartClockTrain

Flush == FlushStop \/ FlushStopped \/ FlushRead \/ FlushThrows \/ FlushProcess \/ FlushEnd
           \/ FlushSkip \/ CheckFullness

Dma == \E b \in TS2MM :
         DmaWrite(b) /\ UNCHANGED <<pluginVars, threadVars, proc, flagVars, loggerVars, outOfRange, abandoned>>

Next == Setup \/ Flush \/ Delete \/ Joined \/ Deleted
          \/ OtStep \/ PtStep \/ ReaderStep \/ ProcStep \/ Dma

Spec == Init /\ [][Next]_vars

\* the operating system runs every thread: a flush or a deletion that has
\* begun, the offload thread with the pass it makes, the processing thread
\* with the chunk in its hand.  Nothing makes the data movers write
Fairness ==
  /\ WF_vars(SpawnProcess \/ FlushStopped \/ FlushProcess \/ FlushEnd \/ CheckFullness \/ Joined)
  /\ WF_vars(OtStep) /\ WF_vars(ReaderStep)
  /\ WF_vars(PtStep) /\ WF_vars(ProcStep)

FairSpec == Spec /\ Fairness

-----------------------------------------------------------------------------
(* Properties                                                              *)

\* Every variable has its type.  Nat for the cursors matters: used_size is
\* the unsigned difference of a word count and a number of laps.
TypeOK ==
  /\ ReaderTypeOK
  /\ main \in {"new", "ready", "spawn", "running", "wait", "read", "process",
               "check", "join", "deleted"}
  /\ device_trace \in BOOLEAN /\ continuous_trace \in BOOLEAN /\ continuous \in BOOLEAN
  /\ ot \in {"none", "start", "loop", "pass", "final", "spin", "end", "finish",
             "train", "done"}
  /\ pt \in {"none", "start", "start2", "loop", "body", "last", "done"}
  /\ m_initialized \in BOOLEAN
  /\ proc \in [pc : {"idle", "pop", "work", "workLast"}, chunk : Chunk]
  /\ status \in {"IDLE", "RUNNING", "STOPPING", "STOPPED"}
  /\ m_process_trace \in BOOLEAN /\ m_process_trace_done \in BOOLEAN
  /\ delivered \in [TS2MM -> Nat]
  /\ ended \in BOOLEAN /\ markedFull \in BOOLEAN /\ outOfRange \in BOOLEAN
  /\ abandoned \subseteq TS2MM

InHand == proc.pc \in {"work", "workLast"}

\* an interval of b that may follow one that ended at end
Continues(b, end, start) == end <= start /\ (b \notin abandoned => start = end)

\* The logger receives the words of each data mover in the order they were
\* written and none twice, across laps of the buffer and across the queue
\* between the two threads.  None is left out either: the chunk being
\* processed begins where the previous chunk of the same data mover ended,
\* unless an exception made a flush give up an interval.
InOrder ==
  InHand => Continues(proc.chunk.ts2mm, delivered[proc.chunk.ts2mm], proc.chunk.from)

\* The range of a sync lies inside the allocated buffer: the cursors of
\* read_trace_s2mm never leave it, and never cross the end of a lap.
RangeInBuffer ==
  buffers # <<>> =>
    /\ \A b \in TS2MM : buffers[b].offset <= BufSize[b] /\ buffers[b].used_size <= BufSize[b]
    /\ reader.pc = "sync" => buffers[reader.i].offset <= buffers[reader.i].used_size

\* Once read_trace_end has added the approximated end events, no trace is
\* still on its way to the logger: the queue is drained, no chunk is being
\* processed, and all that was queued has been delivered.  This is what the
\* handshake of m_process_trace and m_process_trace_done is for.
EndedQuiet ==
  ended => data_queue = <<>> /\ ~InHand /\ reader.pc = "idle" /\ delivered = logged

\* the calling thread has read, and processed, all it will read
AtEnd == buffers # <<>> /\ (ot = "end" \/ (main = "process" /\ proc.pc = "idle"))

\* The final forced read flushes the V2 data movers before it counts, so
\* when no sync failed and no data mover lapped the reader, every word
\* written has reached the logger by the time read_trace_end runs.
NothingLeftBehind ==
  AtEnd /\ Version2 /\ abandoned = {}
    /\ (\A b \in TS2MM : BytesRead(b) = logged[b] /\ written[b] <= BytesRead(b) + BufSize[b])
  => delivered = written

\* The marker that tells the user that trace is missing is added exactly
\* when a linear buffer has been read to its end.
FullMarker ==
  ended /\ ~outOfRange =>
    (markedFull <=> ~use_circ_buf /\ \E b \in TS2MM : logged[b] = BufSize[b])

\* When the processing thread was scheduled before the offload thread clears
\* m_process_trace, a request to stop is answered: the offload thread makes
\* the final read, the queue is drained, and the offloader is STOPPED.
StopCompletes ==
  (status = "STOPPING" /\ pt \in {"start2", "loop", "body"} /\ ot \in {"loop", "pass", "final"})
    ~> (status = "STOPPED" /\ ended /\ data_queue = <<>>)

\* flushTraceOffloader waits for the offloader to stop, so the offloader
\* must stop: whichever thread is scheduled first after start_offload.
FlushReturns == main = "wait" ~> status = "STOPPED"
=============================================================================
