------------------------- MODULE PLTraceOffloadInv -------------------------
(***************************************************************************)
(* The inductive invariant of PLTraceOffload, in named parts.              *)
(* PLTraceOffloadProofs shows that every step preserves it and that it     *)
(* implies the safety properties; TLC checks it on the instances.          *)
(***************************************************************************)
EXTENDS PLTraceOffload

\* Who may be inside read_trace_s2mm and process_trace, and with which
\* argument; how the plugin's flags follow its control state.
ControlInv ==
  /\ reader.pc # "idle" =>
       /\ ot = "pass" \/ ot = "final" \/ main = "read"
       /\ reader.force <=> ~(continuous_trace /\ ot = "pass")
       /\ buffers # <<>>
  /\ proc.pc # "idle" => pt = "body" \/ pt = "last" \/ main = "process"
  /\ main \in {"new", "ready"} => ot = "none" /\ pt = "none"
  /\ main = "new" => buffers = <<>> /\ ~ended
  /\ main = "spawn" => pt = "none" /\ continuous_trace
  /\ continuous => continuous_trace
  /\ main \in {"running", "wait", "check", "join"} /\ continuous_trace => continuous
  /\ main \in {"read", "process"} => ~continuous_trace
  /\ ot \notin {"none", "train", "done"} => continuous_trace
  /\ pt # "none" => continuous_trace
  /\ m_initialized => buffers # <<>>
  /\ ot \in {"loop", "pass", "final", "spin", "end"} => m_initialized
  /\ ot \in {"none", "start", "train"} /\ continuous_trace => ~ended

\* Nothing is queued before the buffers are initialized.
StartInv == main = "new" => \A b \in TS2MM : logged[b] = 0

\* The interval that a pass is about to copy from buffer b starts where the
\* words queued so far end (or later, when an exception lost an interval);
\* otherwise all that was read has been queued.
CursorInv(b) ==
  LET bd == buffers[b]
      copying == reader.pc = "sync" /\ reader.i = b
      base == bd.rollover_count * BufSize[b]
  IN /\ bd.used_size <= BufSize[b] /\ bd.offset <= BufSize[b]
     /\ ~bd.offload_done =>
          /\ Continues(b, logged[b], IF copying THEN base + bd.offset ELSE BytesRead(b))
          /\ BytesRead(b) + (IF copying THEN reader.rest ELSE 0) <= written[b]
          /\ continuous_trace /\ ot \in {"none", "start", "loop", "pass"} =>
               BytesRead(b) + (IF copying THEN reader.rest ELSE 0) <= WordCount(b, FALSE)
     /\ copying =>
          /\ ~bd.offload_done
          /\ bd.offset <= bd.used_size
          /\ reader.rest <= BufSize[b]
          /\ reader.rest > 0 => bd.used_size = BufSize[b] /\ bd.offset < BufSize[b]

ReaderInv == buffers # <<>> => \A b \in TS2MM : CursorInv(b)

\* where the queue has to continue for data mover b
Expected(b) == IF InHand /\ proc.chunk.ts2mm = b THEN proc.chunk.to ELSE delivered[b]

\* The chunks of one data mover, in hand and queued, are adjacent intervals
\* from delivered to logged.
QueueInv ==
  LET q == data_queue IN
  /\ InHand => Continues(proc.chunk.ts2mm, delivered[proc.chunk.ts2mm], proc.chunk.from)
  /\ \A b \in TS2MM : \A k \in 1..Len(q) :
       q[k].ts2mm = b /\ (\A j \in 1..(k - 1) : q[j].ts2mm # b) => Continues(b, Expected(b), q[k].from)
  /\ \A j \in 1..Len(q) : \A k \in (j + 1)..Len(q) :
       q[j].ts2mm = q[k].ts2mm /\ (\A l \in (j + 1)..(k - 1) : q[l].ts2mm # q[k].ts2mm)
         => Continues(q[k].ts2mm, q[j].to, q[k].from)
  /\ \A k \in 1..Len(q) :
       (\A l \in (k + 1)..Len(q) : q[l].ts2mm # q[k].ts2mm) => logged[q[k].ts2mm] = q[k].to
  /\ \A b \in TS2MM : (\A k \in 1..Len(q) : q[k].ts2mm # b) => Expected(b) = logged[b]

\* The handshake that ends the processing thread: it leaves its loop only
\* after the final read, and reports done only with the queue drained.
HandshakeInv ==
  /\ pt \in {"start2", "loop", "body"} /\ ~m_process_trace =>
       ot \in {"spin", "end", "finish", "done"}
  /\ pt \in {"last", "done"} => ot \in {"spin", "end", "finish", "done"}
  /\ m_process_trace_done => pt = "done"
  /\ ot \in {"end", "finish"} => m_process_trace_done
  /\ pt = "last" /\ proc.pc \in {"idle", "workLast"} => data_queue = <<>>
  /\ pt = "done" => data_queue = <<>>
  /\ main = "process" /\ proc.pc \in {"idle", "workLast"} => data_queue = <<>>
  /\ ended => buffers = <<>> /\ data_queue = <<>> /\ ~InHand
  /\ ended /\ continuous_trace => pt = "done"

IInv == TypeOK /\ ControlInv /\ StartInv /\ ReaderInv /\ QueueInv /\ HandshakeInv

-----------------------------------------------------------------------------
(* A second invariant, on top of IInv: what the final forced read leaves.  *)

\* Nothing is written before the buffers are initialized.
FreshInv == main = "new" => \A b \in TS2MM : written[b] = 0 /\ ~dmaOn[b]

\* A linear buffer has one lap, and full is set when the lap has been queued to its
\* end.  addEventMarkers is told so once.
FullInv ==
  /\ ~ended => ~markedFull
  /\ ~use_circ_buf => \A b \in TS2MM : written[b] <= BufSize[b]
  /\ buffers # <<>> => \A b \in TS2MM :
       /\ buffers[b].full <=> ~use_circ_buf /\ logged[b] = BufSize[b]
       /\ ~use_circ_buf => buffers[b].rollover_count = 0
  /\ FullMarker

\* The words of a buffer that has been given up are missing for good: it was lapped,
\* or what was read of it has not been queued.
Lost(b) ==
  /\ buffers[b].offload_done
  /\ written[b] > BytesRead(b) + BufSize[b] \/ logged[b] < BytesRead(b)

\* All words of b have been read, and its data mover writes no more.
AtLinearEnd(b) == ~use_circ_buf /\ written[b] = BufSize[b] /\ BytesRead(b) = BufSize[b]
Complete(b) == AtLinearEnd(b) \/ (~dmaOn[b] /\ BytesRead(b) = written[b])

\* The final forced read has come past buffer b.
Passed(b) ==
  \/ ot \in {"spin", "end"} \/ main = "process"
  \/ (ot = "final" \/ main = "read") /\ (reader.pc = "idle" \/ b < reader.i)

\* A finished buffer is lost or a linear one read to its end.  The final read leaves
\* every buffer complete behind it, unless it is given up for one that is lost.
FinalInv ==
  buffers # <<>> /\ Version2 => \A b \in TS2MM :
    /\ buffers[b].offload_done => Lost(b) \/ AtLinearEnd(b)
    /\ reader.pc = "sync" /\ reader.i = b /\ reader.force =>
         ~dmaOn[b] /\ BytesRead(b) + reader.rest = written[b]
    /\ Passed(b) => Complete(b) \/ \E c \in TS2MM : Lost(c)

EndIInv == FreshInv /\ FullInv /\ FinalInv
============================================================================
