--------------------------- MODULE PLTraceReader ---------------------------
(***************************************************************************)
(* The TS2MM side of PLDeviceTraceOffload: the data movers that write PL   *)
(* trace words to device memory, the per-buffer read cursors, and          *)
(* read_trace_s2mm(), which copies the new words to the host and queues    *)
(* them for the trace logger.                                              *)
(*                                                                         *)
(* All sizes and positions are counted in trace words (TRACE_PACKET_SIZE   *)
(* bytes).  Word n of a data mover is the n-th word it has written since   *)
(* its reset, so a queued chunk is an interval of word numbers.            *)
(*                                                                         *)
(* read_trace_s2mm() is a procedure: the variable reader is its control    *)
(* state, and the module that EXTENDS this one says who calls it.          *)
(***************************************************************************)
EXTENDS Integers, Sequences

CONSTANTS
  NumTS2MM,   \* number of PL trace data movers of the device
  BufSize,    \* buf_sizes: words allocated for each of them
  Version2,   \* the data movers are V2: flushed by reset, written in bursts
  BurstLen,   \* TS2MM_V2_BURST_LEN
  MaxWords    \* bound: words one data mover writes in a behaviour

TS2MM == 1..NumTS2MM

ASSUME NumAssumption == NumTS2MM \in Nat \ {0}
ASSUME SizeAssumption == BufSize \in [TS2MM -> Nat \ {0}]
ASSUME FlagAssumption == Version2 \in BOOLEAN
ASSUME BurstAssumption == BurstLen \in Nat \ {0}
ASSUME BoundAssumption == MaxWords \in Nat

VARIABLES
  buffers,      \* ts2mm_info.buffers: <<>> after clear()
  use_circ_buf, \* ts2mm_info.use_circ_buf
  data_queue,   \* ts2mm_info.data_queue with size_queue
  reader,       \* control state of read_trace_s2mm
  written,      \* the TS2MM_WRITTEN registers
  dmaOn,        \* data movers that are started and not reset
  logged        \* history: end of the last interval queued, per data mover

readerVars == <<buffers, use_circ_buf, data_queue, reader, written, dmaOn, logged>>

-----------------------------------------------------------------------------
BufferInfo == [used_size : Nat, offset : Nat, rollover_count : Nat,
               full : BOOLEAN, offload_done : BOOLEAN]

Chunk == [ts2mm : TS2MM, from : Nat, to : Nat]

NewBuffer == [used_size |-> 0, offset |-> 0, rollover_count |-> 0,
              full |-> FALSE, offload_done |-> FALSE]

ReaderIdle == [pc |-> "idle", i |-> 1, force |-> FALSE, rest |-> 0]

ReaderInit ==
  /\ buffers = <<>>
  /\ use_circ_buf = FALSE
  /\ data_queue = <<>>
  /\ reader = ReaderIdle
  /\ written = [b \in TS2MM |-> 0]
  /\ dmaOn = [b \in TS2MM |-> FALSE]
  /\ logged = [b \in TS2MM |-> 0]

\* bytes_read
BytesRead(b) == buffers[b].rollover_count * BufSize[b] + buffers[b].used_size

\* mutant: the final count is rounded down to whole bursts as well
WordCountRounded(b, final) ==
  IF Version2 THEN written[b] - (written[b] % BurstLen) ELSE written[b]

\* TraceS2MM::getWordCount(final)
WordCount(b, final) ==
  IF Version2 /\ ~final THEN written[b] - (written[b] % BurstLen) ELSE written[b]

-----------------------------------------------------------------------------
(* The data mover.  A linear buffer accepts no word once it is full.       *)

DmaWrite(b) ==
  /\ dmaOn[b]
  /\ written[b] < MaxWords
  /\ use_circ_buf \/ written[b] < BufSize[b]
  /\ written' = [written EXCEPT ![b] = @ + 1]
  /\ UNCHANGED <<buffers, use_circ_buf, data_queue, reader, dmaOn, logged>>

-----------------------------------------------------------------------------
(* init_s2mm and reset_s2mm                                                *)

\* ok: the data movers whose buffer was allocated before the first failure;
\* circ: a circular buffer is wanted, supported and fast enough
InitS2MM(ok, circ) ==
  /\ buffers' = [b \in TS2MM |-> NewBuffer]
  /\ use_circ_buf' = (use_circ_buf \/ circ)
  /\ dmaOn' = [b \in TS2MM |-> b \in ok]
  /\ UNCHANGED <<data_queue, reader, written, logged>>

ResetS2MM ==
  /\ buffers' = <<>>
  /\ dmaOn' = [b \in TS2MM |-> FALSE]
  /\ UNCHANGED <<use_circ_buf, data_queue, reader, written, logged>>

-----------------------------------------------------------------------------
(* read_trace_s2mm(force)                                                  *)

\* the call itself, and the call on a cleared vector, which has nothing to
\* read but the memory of destroyed elements
CallRead(force) ==
  /\ reader.pc = "idle"
  /\ reader' = IF buffers = <<>> THEN ReaderIdle
               ELSE [pc |-> "check", i |-> 1, force |-> force, rest |-> 0]
  /\ UNCHANGED <<buffers, use_circ_buf, data_queue, written, dmaOn, logged>>

\* control state for the next buffer, or the return of the procedure
NextBuffer ==
  IF reader.i < NumTS2MM
  THEN [reader EXCEPT !.pc = "check", !.i = @ + 1, !.rest = 0]
  ELSE ReaderIdle

\* getWordCount(final) resets a V2 data mover before it reads the count
FlushDma(b) == dmaOn' = [dmaOn EXCEPT ![b] = @ /\ ~(reader.force /\ Version2)]

Overwritten(b, count) == count > BytesRead(b) + BufSize[b]

\* mutants of Advance: the offset is not taken back to the start of the buffer,
\* the end is not limited to the buffer, every read starts at the beginning of
\* the lap
AdvanceKeepOffset(b, count) ==
  LET wrap == buffers[b].used_size = BufSize[b]
      lap == buffers[b].rollover_count + (IF wrap THEN 1 ELSE 0)
      end == count - lap * BufSize[b]
  IN [used_size |-> IF end > BufSize[b] THEN BufSize[b] ELSE end,
      offset |-> buffers[b].used_size, rollover_count |-> lap,
      full |-> buffers[b].full, offload_done |-> buffers[b].offload_done]

AdvanceUnlimited(b, count) ==
  LET wrap == buffers[b].used_size = BufSize[b]
      lap == buffers[b].rollover_count + (IF wrap THEN 1 ELSE 0)
  IN [used_size |-> count - lap * BufSize[b],
      offset |-> IF wrap THEN 0 ELSE buffers[b].used_size, rollover_count |-> lap,
      full |-> buffers[b].full, offload_done |-> buffers[b].offload_done]

AdvanceRewind(b, count) ==
  LET wrap == buffers[b].used_size = BufSize[b]
      lap == buffers[b].rollover_count + (IF wrap THEN 1 ELSE 0)
      end == count - lap * BufSize[b]
  IN [used_size |-> IF end > BufSize[b] THEN BufSize[b] ELSE end,
      offset |-> 0, rollover_count |-> lap,
      full |-> buffers[b].full, offload_done |-> buffers[b].offload_done]

\* the cursor after the call: it moves to the next lap when the last one is
\* read to its end, and stops at the end of the lap
Advance(b, count) ==
  LET wrap == buffers[b].used_size = BufSize[b]
      lap == buffers[b].rollover_count + (IF wrap THEN 1 ELSE 0)
      end == count - lap * BufSize[b]
  IN [used_size |-> IF end > BufSize[b] THEN BufSize[b] ELSE end,
      offset |-> IF wrap THEN 0 ELSE buffers[b].used_size, rollover_count |-> lap,
      full |-> buffers[b].full, offload_done |-> buffers[b].offload_done]

\* cir_buf_rollover_bytes
Rollover(b, count) ==
  LET wrap == buffers[b].used_size = BufSize[b]
      lap == buffers[b].rollover_count + (IF wrap THEN 1 ELSE 0)
      end == count - lap * BufSize[b]
  IN IF end > BufSize[b] THEN end - BufSize[b] ELSE 0

\* a buffer given up earlier is skipped
SkipBuffer ==
  /\ reader.pc = "check"
  /\ buffers[reader.i].offload_done
  /\ reader' = NextBuffer
  /\ UNCHANGED <<buffers, use_circ_buf, data_queue, written, dmaOn, logged>>

\* the data mover has lapped the reader: give up the buffer and the pass
AbortOverwritten ==
  LET b == reader.i IN
  /\ reader.pc = "check"
  /\ ~buffers[b].offload_done
  /\ FlushDma(b)
  /\ Overwritten(b, WordCount(b, reader.force))
  /\ buffers' = [buffers EXCEPT ![b].offload_done = TRUE]
  /\ reader' = ReaderIdle
  /\ UNCHANGED <<use_circ_buf, data_queue, written, logged>>

\* a linear buffer that has been read to its end is finished
LinearDone ==
  LET b == reader.i IN
  /\ reader.pc = "check"
  /\ ~buffers[b].offload_done
  /\ FlushDma(b)
  /\ ~Overwritten(b, WordCount(b, reader.force))
  /\ buffers[b].used_size = BufSize[b] /\ ~use_circ_buf
  /\ buffers' = [buffers EXCEPT ![b].offload_done = TRUE,
                                ![b].offset = buffers[b].used_size]
  /\ reader' = NextBuffer
  /\ UNCHANGED <<use_circ_buf, data_queue, written, logged>>

\* the interval to copy is computed from the word count read here
SetRange ==
  LET b == reader.i
      count == WordCount(b, reader.force)
  IN
  /\ reader.pc = "check"
  /\ ~buffers[b].offload_done
  /\ FlushDma(b)
  /\ ~Overwritten(b, count)
  /\ buffers[b].used_size # BufSize[b] \/ use_circ_buf
  /\ buffers' = [buffers EXCEPT ![b] = Advance(b, count)]
  /\ reader' = [reader EXCEPT !.pc = "sync", !.rest = Rollover(b, count)]
  /\ UNCHANGED <<use_circ_buf, data_queue, written, logged>>

\* sync_and_log: no data or invalid settings
SyncNothing ==
  /\ reader.pc = "sync"
  /\ buffers[reader.i].offset >= buffers[reader.i].used_size
  /\ reader' = NextBuffer
  /\ UNCHANGED <<buffers, use_circ_buf, data_queue, written, dmaOn, logged>>

\* sync_and_log: syncTraceBuf returned a null pointer
SyncFails ==
  LET b == reader.i IN
  /\ reader.pc = "sync"
  /\ buffers[b].offset < buffers[b].used_size
  /\ buffers' = [buffers EXCEPT ![b].offload_done = TRUE]
  /\ reader' = NextBuffer
  /\ UNCHANGED <<use_circ_buf, data_queue, written, dmaOn, logged>>

\* sync_and_log: the interval is copied and queued.  When the call crosses
\* the end of a circular buffer the leftover words, at the start of the
\* buffer, are the next interval
SyncAndLog ==
  LET b == reader.i
      bd == buffers[b]
      base == bd.rollover_count * BufSize[b]
      chunk == [ts2mm |-> b, from |-> base + bd.offset,
                to |-> base + bd.used_size]
      full == bd.full \/ (bd.used_size = BufSize[b] /\ ~use_circ_buf)
      second == use_circ_buf /\ reader.rest > 0
  IN
  /\ reader.pc = "sync"
  /\ bd.offset < bd.used_size
  /\ data_queue' = Append(data_queue, chunk)
  /\ logged' = [logged EXCEPT ![b] = chunk.to]
  /\ buffers' = [buffers EXCEPT ![b] =
       IF second
       THEN [used_size |-> reader.rest, offset |-> 0,
             rollover_count |-> bd.rollover_count + 1,
             full |-> full, offload_done |-> bd.offload_done]
       ELSE [bd EXCEPT !.full = full]]
  /\ reader' = IF second THEN [reader EXCEPT !.rest = 0] ELSE NextBuffer
  /\ UNCHANGED <<use_circ_buf, written, dmaOn>>

\* the steps of read_trace_s2mm that touch no state of the threads
ReadStep == SkipBuffer \/ LinearDone \/ SetRange \/ SyncNothing \/ SyncFails \/ SyncAndLog

\* the types of the variables of this module, part of TypeOK
ReaderTypeOK ==
  /\ buffers \in {<<>>} \cup [TS2MM -> BufferInfo]
  /\ use_circ_buf \in BOOLEAN
  /\ data_queue \in Seq(Chunk)
  /\ reader \in [pc : {"idle", "check", "sync"}, i : TS2MM, force : BOOLEAN, rest : Nat]
  /\ written \in [TS2MM -> Nat]
  /\ dmaOn \in [TS2MM -> BOOLEAN]
  /\ logged \in [TS2MM -> Nat]

=============================================================================
