----------------------- MODULE PLTraceOffloadProofs -----------------------
(***************************************************************************)
(* Proofs that PLTraceOffload keeps its inductive invariant, and with it   *)
(* the safety properties, for every number of data movers, every buffer    *)
(* size and burst length, and every bound on the words written; and that   *)
(* the start and end events that PLTraceLogger makes of the packets pair   *)
(* up, for any monitors and any packets that are dropped.                  *)
(***************************************************************************)
EXTENDS PLTraceOffloadInv, PLTraceLogger, FiniteSetTheorems, SequenceTheorems,
        WellFoundedInduction, TLAPS

USE DEF TS2MM

-----------------------------------------------------------------------------
(* Arithmetic of the cursors                                               *)

\* Rounding down to whole bursts is monotone: the count that
\* TraceS2MM::getWordCount(false) returns never goes back.
LEMMA FloorMono ==
  ASSUME NEW w \in Nat, NEW B \in Nat \ {0}
  PROVE  w - (w % B) <= (w + 1) - ((w + 1) % B)
<1> DEFINE q == w \div B
           p == (w + 1) \div B
<1>1. q \in Nat /\ w % B \in Nat /\ w = q * B + (w % B)
  BY SMT
<1>2. p \in Nat /\ (w + 1) % B \in Nat /\ (w + 1) % B < B /\ w + 1 = p * B + ((w + 1) % B)
  BY SMT
<1> HIDE DEF q, p
<1>3. q * B \in Nat /\ p * B \in Nat
  BY <1>1, <1>2, SMT
<1>4. q * B <= p * B
  <2>1. CASE q <= p BY <2>1, <1>1, <1>2, SMT
  <2>2. CASE p + 1 <= q
    <3>1. (p + 1) * B <= q * B BY <2>2, <1>1, <1>2, SMT
    <3>2. (p + 1) * B = p * B + B BY <1>2, SMT
    <3> QED BY <3>1, <3>2, <1>1, <1>2, <1>3, SMT
  <2> QED BY <2>1, <2>2, <1>1, <1>2, SMT
<1> QED BY <1>1, <1>2, <1>3, <1>4, SMT

\* The word count is a natural number between the rounded-down count and the
\* number of words written.
LEMMA WordCountFacts ==
  ASSUME TypeOK, NEW b \in TS2MM, NEW f \in BOOLEAN
  PROVE  /\ WordCount(b, f) \in Nat
         /\ WordCount(b, f) <= written[b]
         /\ WordCount(b, FALSE) <= WordCount(b, f)
<1>1. written[b] \in Nat BY DEF TypeOK, ReaderTypeOK
<1>2. written[b] % BurstLen \in Nat /\ written[b] % BurstLen <= written[b]
  BY <1>1, BurstAssumption, SMT
<1> QED BY <1>1, <1>2, SMT DEF WordCount

\* The product of a count of laps and a buffer size, and bytes_read, are
\* natural numbers.
LEMMA CursorNat ==
  ASSUME TypeOK, buffers # <<>>, NEW b \in TS2MM
  PROVE  /\ buffers[b] \in BufferInfo /\ BufSize[b] \in Nat \ {0}
         /\ buffers[b].rollover_count * BufSize[b] \in Nat
         /\ BytesRead(b) \in Nat
         /\ BytesRead(b) = buffers[b].rollover_count * BufSize[b] + buffers[b].used_size
<1>1. buffers[b] \in BufferInfo BY DEF TypeOK, ReaderTypeOK
<1>2. PICK r \in Nat : r = buffers[b].rollover_count BY <1>1 DEF BufferInfo
<1>3. PICK u \in Nat : u = buffers[b].used_size BY <1>1 DEF BufferInfo
<1>4. PICK S \in Nat \ {0} : S = BufSize[b] BY SizeAssumption
<1>5. r * S \in Nat BY SMT
<1>6. r * S + u \in Nat BY <1>5, SMT
<1> QED BY <1>1, <1>2, <1>3, <1>4, <1>5, <1>6 DEF BytesRead

\* Laps and offsets: r laps of S words and u more are read, c are written.
LEMMA LapArithmetic ==
  ASSUME NEW r \in Nat, NEW u \in Nat, NEW S \in Nat \ {0}, NEW c \in Nat,
         u <= S, r * S + u <= c, c <= r * S + u + S
  PROVE  /\ r * S \in Nat /\ (r + 1) * S = r * S + S
         /\ u = S => c - (r + 1) * S \in Nat /\ c - (r + 1) * S <= S
         /\ u # S => c - r * S \in Nat /\ u <= c - r * S /\ c - r * S <= u + S
<1>1. r * S \in Nat /\ (r + 1) * S = r * S + S BY SMT
<1> QED BY <1>1, SMT

\* The cursor that read_trace_s2mm computes from a count that is not behind
\* the reader and not more than a lap ahead of it: the new interval starts
\* where the last one ended, stays inside the buffer, and with the leftover
\* words ends at the count.
LEMMA AdvanceFacts ==
  ASSUME TypeOK, NEW b \in TS2MM, NEW count \in Nat,
         buffers # <<>>,
         buffers[b].used_size <= BufSize[b],
         BytesRead(b) <= count, count <= BytesRead(b) + BufSize[b],
         NEW a, a = Advance(b, count),
         NEW rest, rest = Rollover(b, count)
  PROVE  /\ a \in BufferInfo
         /\ a.offload_done = buffers[b].offload_done
         /\ a.full = buffers[b].full
         /\ a.offset <= a.used_size /\ a.used_size <= BufSize[b] /\ a.offset <= BufSize[b]
         /\ a.rollover_count * BufSize[b] \in Nat
         /\ a.rollover_count * BufSize[b] + a.offset = BytesRead(b)
         /\ rest \in Nat /\ rest <= BufSize[b]
         /\ a.rollover_count * BufSize[b] + a.used_size + rest = count
         /\ rest > 0 => a.used_size = BufSize[b] /\ a.offset < BufSize[b]
<1>1. buffers[b] \in BufferInfo BY DEF TypeOK, ReaderTypeOK
<1>2. PICK r \in Nat : r = buffers[b].rollover_count BY <1>1 DEF BufferInfo
<1>3. PICK u \in Nat : u = buffers[b].used_size BY <1>1 DEF BufferInfo
<1>4. PICK S \in Nat \ {0} : S = BufSize[b] BY SizeAssumption
<1>5. PICK fu \in BOOLEAN : fu = buffers[b].full BY <1>1 DEF BufferInfo
<1>6. PICK od \in BOOLEAN : od = buffers[b].offload_done BY <1>1 DEF BufferInfo
<1>7. u <= S /\ r * S + u <= count /\ count <= r * S + u + S /\ BytesRead(b) = r * S + u
  BY <1>2, <1>3, <1>4 DEF BytesRead
<1>8. /\ r * S \in Nat /\ (r + 1) * S = r * S + S
      /\ u = S => count - (r + 1) * S \in Nat /\ count - (r + 1) * S <= S
      /\ u # S => count - r * S \in Nat /\ u <= count - r * S /\ count - r * S <= u + S
  BY <1>7, LapArithmetic
<1>9. CASE u = S
  <2>1. PICK e \in Nat : e = count - (r + 1) * S BY <1>8, <1>9
  <2>2. e <= S /\ (r + 1) * S + e = count BY <2>1, <1>8, <1>9, SMT
  <2>3. a = [used_size |-> e, offset |-> 0, rollover_count |-> r + 1, full |-> fu, offload_done |-> od]
    <3>1. a = [used_size |-> IF e > S THEN S ELSE e, offset |-> 0, rollover_count |-> r + 1,
               full |-> fu, offload_done |-> od]
      BY <1>2, <1>3, <1>4, <1>5, <1>6, <1>9, <2>1 DEF Advance
    <3> QED BY <3>1, <2>2, SMT
  <2>4. rest = 0
    <3>1. rest = IF e > S THEN e - S ELSE 0
      BY <1>2, <1>3, <1>4, <1>9, <2>1 DEF Rollover
    <3> QED BY <3>1, <2>2, SMT
  <2>5. a.used_size = e /\ a.offset = 0 /\ a.rollover_count = r + 1 /\ a.full = fu /\ a.offload_done = od
    BY <2>3
  <2>6. a \in BufferInfo BY <2>3 DEF BufferInfo
  <2>7. a.rollover_count * BufSize[b] = r * S + S BY <2>5, <1>4, <1>8
  <2>8. r * S + S \in Nat /\ r * S + S + 0 = r * S + u /\ r * S + S + e + 0 = count
    BY <2>2, <1>8, <1>9, SMT
  <2>9. 0 <= e /\ e <= S /\ 0 <= S /\ 0 \in Nat /\ ~(0 > 0) BY <2>2, SMT
  <2>10. a.used_size = e /\ a.offset = 0 BY <2>5
  <2> QED BY <2>4, <2>5, <2>6, <2>7, <2>8, <2>9, <1>4, <1>5, <1>6, <1>7
<1>10. CASE u # S
  <2>1. PICK e \in Nat : e = count - r * S BY <1>8, <1>10
  <2>2. u <= e /\ e <= u + S /\ u < S /\ r * S + e = count BY <2>1, <1>7, <1>8, <1>10, SMT
  <2>3. a = [used_size |-> IF e > S THEN S ELSE e, offset |-> u, rollover_count |-> r,
             full |-> fu, offload_done |-> od]
    <3>1. r + 0 = r OBVIOUS
    <3> QED BY <3>1, <1>2, <1>3, <1>4, <1>5, <1>6, <1>10, <2>1 DEF Advance
  <2>4. rest = IF e > S THEN e - S ELSE 0
    <3>1. r + 0 = r OBVIOUS
    <3> QED BY <3>1, <1>2, <1>3, <1>4, <1>10, <2>1 DEF Rollover
  <2>5. /\ a.used_size = (IF e > S THEN S ELSE e) /\ a.offset = u /\ a.rollover_count = r
        /\ a.full = fu /\ a.offload_done = od
    BY <2>3
  <2>6. a \in BufferInfo BY <2>3 DEF BufferInfo
  <2>7. a.rollover_count * BufSize[b] = r * S BY <2>5, <1>4
  <2>8. PICK v \in Nat : v = IF e > S THEN S ELSE e OBVIOUS
  <2>9. rest \in Nat /\ rest <= S /\ u <= v /\ v <= S /\ u <= S /\ r * S + v + rest = count
        /\ (rest > 0 => v = S /\ u < S)
    BY <2>2, <2>4, <2>8, <1>8, SMT
  <2>10. a.used_size = v /\ a.offset = u BY <2>5, <2>8
  <2> QED BY <2>5, <2>6, <2>7, <2>9, <2>10, <1>4, <1>5, <1>6, <1>7, <1>8
<1> QED BY <1>9, <1>10
-----------------------------------------------------------------------------
(* Type correctness                                                        *)

\* The initial state is well typed.
LEMMA TypeInit == Init => TypeOK
<1> SUFFICES ASSUME Init PROVE TypeOK OBVIOUS
<1>1. 1 \in TS2MM BY NumAssumption
<1>2. ReaderTypeOK
  <2>1. ReaderIdle \in [pc : {"idle", "check", "sync"}, i : TS2MM, force : BOOLEAN, rest : Nat]
    BY <1>1 DEF ReaderIdle
  <2>2. buffers \in {<<>>} \cup [TS2MM -> BufferInfo] BY Zenon DEF Init, ReaderInit
  <2>3. data_queue \in Seq(Chunk) BY DEF Init, ReaderInit
  <2>4. written \in [TS2MM -> Nat] /\ logged \in [TS2MM -> Nat] BY DEF Init, ReaderInit
  <2>5. dmaOn \in [TS2MM -> BOOLEAN] /\ use_circ_buf \in BOOLEAN BY Zenon DEF Init, ReaderInit
  <2>6. reader = ReaderIdle BY DEF Init, ReaderInit
  <2> QED BY <2>1, <2>2, <2>3, <2>4, <2>5, <2>6, Zenon DEF ReaderTypeOK
<1>3. ProcIdle \in [pc : {"idle", "pop", "work", "workLast"}, chunk : Chunk]
  BY <1>1 DEF ProcIdle, NoChunk, Chunk
<1> QED BY <1>2, <1>3 DEF Init, TypeOK

\* No step of the threads that leaves the variables of the reader alone
\* breaks the types.
LEMMA TypeThreads ==
  ASSUME TypeOK,
         \/ InitSkipped \/ StartTrace \/ SpawnProcess \/ StartClockTrain
         \/ FlushStop \/ FlushStopped \/ FlushProcess \/ FlushSkip \/ CheckFullness
         \/ Delete \/ Joined \/ Deleted
         \/ OtStart \/ OtPassed \/ OtStopProcess \/ OtSpun \/ OtFinish
         \/ PtStep \/ PopNothing \/ ProcessChunk \/ UNCHANGED vars
  PROVE  TypeOK'
<1>0. 1 \in TS2MM BY NumAssumption
<1>1. {ProcIdle, ProcCall} \subseteq [pc : {"idle", "pop", "work", "workLast"}, chunk : Chunk]
  BY <1>0 DEF ProcIdle, ProcCall, NoChunk, Chunk
<1>2. UNCHANGED readerVars
  BY DEF InitSkipped, StartTrace, SpawnProcess, StartClockTrain, FlushStop, FlushStopped,
         FlushProcess, FlushSkip, CheckFullness, Delete, Joined, Deleted, OtStart, OtPassed,
         OtStopProcess, OtSpun, OtFinish, PtStep, PtStart, PtReady, PtCall, PtBack, PtDone,
         PopNothing, ProcessChunk, vars
<1>3. ReaderTypeOK' BY <1>2 DEF ReaderTypeOK, TypeOK, readerVars
<1>4. delivered' \in [TS2MM -> Nat]
  <2>1. CASE ProcessChunk BY <2>1 DEF ProcessChunk, TypeOK, Chunk
  <2> QED
    BY <2>1 DEF TypeOK, InitSkipped, StartTrace, SpawnProcess, StartClockTrain, FlushStop, FlushStopped,
         FlushProcess, FlushSkip, CheckFullness, Delete, Joined, Deleted, OtStart, OtPassed,
         OtStopProcess, OtSpun, OtFinish, PtStep, PtStart, PtReady, PtCall, PtBack, PtDone,
         PopNothing, vars, loggerVars
<1> USE <1>1, <1>3, <1>4 DEF TypeOK, pluginVars, threadVars, flagVars, loggerVars
<1>5. CASE InitSkipped BY <1>5 DEF InitSkipped
<1>6. CASE StartTrace BY <1>6 DEF StartTrace
<1>7. CASE SpawnProcess BY <1>7 DEF SpawnProcess
<1>8. CASE StartClockTrain BY <1>8 DEF StartClockTrain
<1>9. CASE FlushStop BY <1>9 DEF FlushStop, StopOffload
<1>10. CASE FlushStopped BY <1>10 DEF FlushStopped
<1>11. CASE FlushProcess BY <1>11 DEF FlushProcess
<1>12. CASE FlushSkip BY <1>12 DEF FlushSkip
<1>13. CASE CheckFullness BY <1>13 DEF CheckFullness
<1>14. CASE Delete BY <1>14 DEF Delete, StopOffload
<1>15. CASE Joined BY <1>15 DEF Joined
<1>16. CASE Deleted BY <1>16 DEF Deleted, vars
<1>17. CASE OtStart BY <1>17 DEF OtStart
<1>18. CASE OtPassed BY <1>18 DEF OtPassed
<1>19. CASE OtStopProcess
  <2>1. m_process_trace' \in BOOLEAN BY <1>19, Zenon DEF OtStopProcess
  <2> QED BY <1>19, <2>1 DEF OtStopProcess
<1>20. CASE OtSpun BY <1>20 DEF OtSpun
<1>21. CASE OtFinish BY <1>21 DEF OtFinish
<1>22. CASE PtStart BY <1>22 DEF PtStart
<1>23. CASE PtReady
  <2>1. m_process_trace_done' \in BOOLEAN BY <1>23, Zenon DEF PtReady
  <2> QED BY <1>23, <2>1 DEF PtReady
<1>24. CASE PtCall BY <1>24 DEF PtCall
<1>25. CASE PtBack BY <1>25 DEF PtBack
<1>26. CASE PtDone BY <1>26 DEF PtDone
<1>27. CASE PopNothing BY <1>27 DEF PopNothing
<1>28. CASE ProcessChunk BY <1>28 DEF ProcessChunk
<1>29. CASE UNCHANGED vars BY <1>29 DEF vars
<1> QED
  BY <1>5, <1>6, <1>7, <1>8, <1>9, <1>10, <1>11, <1>12, <1>13, <1>14, <1>15, <1>16, <1>17, <1>18, <1>19, <1>20, <1>21, <1>22, <1>23, <1>24, <1>25, <1>26, <1>27, <1>28, <1>29 DEF PtStep

\* The steps of read_trace_s2mm keep the types, given that its cursors are
\* where ReaderInv says: without that, used_size could underflow.
LEMMA TypeReader ==
  ASSUME IInv, ReaderStep
  PROVE  TypeOK'
<1>0. TypeOK /\ ReaderTypeOK /\ ControlInv /\ ReaderInv BY DEF IInv, TypeOK
<1> DEFINE b == reader.i
           RType == [pc : {"idle", "check", "sync"}, i : TS2MM, force : BOOLEAN, rest : Nat]
<1>1. reader \in RType /\ b \in TS2MM BY <1>0 DEF ReaderTypeOK
<1>2. NextBuffer \in RType /\ ReaderIdle \in RType
  <2>1. 1 \in TS2MM BY NumAssumption
  <2>2. ReaderIdle \in RType BY <2>1 DEF ReaderIdle
  <2>3. ASSUME reader.i < NumTS2MM PROVE reader.i + 1 \in TS2MM BY <1>1, <2>3, NumAssumption
  <2> QED BY <2>2, <2>3, <1>1 DEF NextBuffer
<1>3. ASSUME reader.pc # "idle"
      PROVE  buffers \in [TS2MM -> BufferInfo] /\ CursorInv(b) /\ buffers[b] \in BufferInfo
  BY <1>0, <1>1, <1>3 DEF ReaderTypeOK, ControlInv, ReaderInv
<1>4. ASSUME ReaderTypeOK' PROVE TypeOK'
  <2>1. status' \in {"IDLE", "RUNNING", "STOPPING", "STOPPED"}
    BY <1>0 DEF ReaderStep, TypeOK, StopOffload
  <2> QED BY <1>0, <1>4, <2>1 DEF ReaderStep, TypeOK, pluginVars, threadVars, loggerVars
<1>5. ASSUME FlushDma(b) PROVE dmaOn' \in [TS2MM -> BOOLEAN]
  BY <1>0, <1>1, <1>5 DEF FlushDma, ReaderTypeOK
<1> USE DEF ReaderTypeOK
<1>6. CASE SkipBuffer BY <1>0, <1>2, <1>4, <1>6 DEF SkipBuffer
<1>7. CASE LinearDone
  <2>1. buffers' \in [TS2MM -> BufferInfo] BY <1>1, <1>3, <1>7 DEF LinearDone, BufferInfo
  <2> QED BY <2>1, <1>0, <1>2, <1>4, <1>5, <1>7 DEF LinearDone
<1>8. CASE SetRange
  <2> DEFINE count == WordCount(b, reader.force)
  <2>1. reader.pc = "check" /\ ~buffers[b].offload_done BY <1>8 DEF SetRange
  <2>2. count \in Nat /\ BytesRead(b) <= count /\ buffers[b].used_size <= BufSize[b]
    <3>1. BytesRead(b) <= written[b] /\ (~reader.force => BytesRead(b) <= WordCount(b, FALSE))
          /\ buffers[b].used_size <= BufSize[b]
      <4>1. BytesRead(b) \in Nat BY <2>1, <1>0, <1>1, CursorNat DEF ControlInv
      <4>2. BytesRead(b) + 0 = BytesRead(b) BY <4>1
      <4> QED BY <2>1, <4>2, <1>0, <1>1, <1>3 DEF CursorInv, ControlInv
    <3> QED BY <3>1, <1>0, <1>1, WordCountFacts DEF WordCount
  <2>3. count <= BytesRead(b) + BufSize[b]
    <3>1. BytesRead(b) \in Nat /\ BufSize[b] \in Nat BY <2>1, <1>0, <1>1, CursorNat DEF ControlInv
    <3> QED BY <1>8, <2>2, <3>1 DEF SetRange, Overwritten
  <2>4. Advance(b, count) \in BufferInfo /\ Rollover(b, count) \in Nat
    BY <1>0, <1>1, <1>3, <2>1, <2>2, <2>3, AdvanceFacts DEF ControlInv
  <2>5. buffers' \in [TS2MM -> BufferInfo]
    BY <2>1, <2>4, <1>1, <1>3, <1>8 DEF SetRange
  <2>6. reader' \in RType BY <2>4, <1>1, <1>8 DEF SetRange
  <2> QED BY <2>5, <2>6, <1>0, <1>4, <1>5, <1>8 DEF SetRange
<1>9. CASE SyncNothing BY <1>0, <1>2, <1>4, <1>9 DEF SyncNothing
<1>10. CASE SyncFails
  <2>1. buffers' \in [TS2MM -> BufferInfo] BY <1>1, <1>3, <1>10 DEF SyncFails, BufferInfo
  <2> QED BY <2>1, <1>0, <1>2, <1>4, <1>10 DEF SyncFails
<1>11. CASE SyncAndLog
  <2> DEFINE bd == buffers[b]
             base == bd.rollover_count * BufSize[b]
             chunk == [ts2mm |-> b, from |-> base + bd.offset, to |-> base + bd.used_size]
             second == use_circ_buf /\ reader.rest > 0
             full == bd.full \/ (bd.used_size = BufSize[b] /\ ~use_circ_buf)
  <2>1. reader.pc = "sync" BY <1>11 DEF SyncAndLog
  <2>2. bd \in BufferInfo /\ base \in Nat /\ buffers \in [TS2MM -> BufferInfo]
    BY <2>1, <1>0, <1>1, <1>3, CursorNat DEF ControlInv
  <2>3. base + bd.offset \in Nat /\ base + bd.used_size \in Nat
    <3> HIDE DEF base
    <3> QED BY <2>2 DEF BufferInfo
  <2>4. chunk \in Chunk
    <3>1. written[b] \in Nat BY <1>0, <1>1
    <3> QED BY <2>3, <3>1, <1>1 DEF Chunk
  <2>5. data_queue' \in Seq(Chunk)
    <3>1. data_queue' = Append(data_queue, chunk) BY <1>11 DEF SyncAndLog
    <3> HIDE DEF chunk
    <3> QED BY <3>1, <2>4, <1>0
  <2>6. logged' \in [TS2MM -> Nat]
    <3>1. logged' = [logged EXCEPT ![b] = base + bd.used_size] BY <1>11 DEF SyncAndLog
    <3> QED BY <3>1, <2>3, <1>0, <1>1
  <2>7. buffers' \in [TS2MM -> BufferInfo]
    <3>1. full \in BOOLEAN BY <2>2 DEF BufferInfo
    <3>2. [bd EXCEPT !.full = full] \in BufferInfo BY <3>1, <2>2 DEF BufferInfo
    <3>3. [used_size |-> reader.rest, offset |-> 0, rollover_count |-> bd.rollover_count + 1,
           full |-> full, offload_done |-> bd.offload_done] \in BufferInfo
      BY <3>1, <2>2, <1>1 DEF BufferInfo
    <3>4. buffers' = [buffers EXCEPT ![b] = IF second
             THEN [used_size |-> reader.rest, offset |-> 0, rollover_count |-> bd.rollover_count + 1,
                   full |-> full, offload_done |-> bd.offload_done]
             ELSE [bd EXCEPT !.full = full]]
      BY <1>11 DEF SyncAndLog
    <3> HIDE DEF bd, full, second
    <3> QED BY <3>2, <3>3, <3>4, <2>2, <1>1
  <2>8. reader' \in RType
    <3>1. [reader EXCEPT !.rest = 0] \in RType BY <1>1
    <3> QED BY <3>1, <1>2, <1>11 DEF SyncAndLog
  <2> QED BY <2>5, <2>6, <2>7, <2>8, <1>0, <1>4, <1>11 DEF SyncAndLog
<1>12. CASE AbortOverwritten
  <2>1. buffers' \in [TS2MM -> BufferInfo] BY <1>1, <1>3, <1>12 DEF AbortOverwritten, BufferInfo
  <2> QED BY <2>1, <1>0, <1>2, <1>4, <1>5, <1>12 DEF AbortOverwritten
<1> QED BY <1>6, <1>7, <1>8, <1>9, <1>10, <1>11, <1>12 DEF ReaderStep, ReadStep

\* Type correctness is preserved by every step.
LEMMA TypeStep ==
  ASSUME IInv, [Next]_vars
  PROVE  TypeOK'
<1>0. TypeOK /\ ReaderTypeOK /\ ControlInv BY DEF IInv, TypeOK
<1>1. 1 \in TS2MM BY NumAssumption
<1>2. NewBuffer \in BufferInfo BY DEF NewBuffer, BufferInfo
<1> DEFINE RType == [pc : {"idle", "check", "sync"}, i : TS2MM, force : BOOLEAN, rest : Nat]
<1>3. ASSUME NEW f \in BOOLEAN, CallRead(f) PROVE ReaderTypeOK'
  <2>1. ReaderIdle \in RType /\ [pc |-> "check", i |-> 1, force |-> f, rest |-> 0] \in RType
    BY <1>1 DEF ReaderIdle
  <2>2. reader' \in RType BY <1>3, <2>1 DEF CallRead
  <2> QED BY <1>0, <1>3, <2>2 DEF CallRead, ReaderTypeOK
<1>4. ASSUME NEW ok, NEW circ \in BOOLEAN, InitS2MM(ok, circ) PROVE ReaderTypeOK'
  <2>1. buffers' \in [TS2MM -> BufferInfo] BY <1>2, <1>4 DEF InitS2MM
  <2>2. use_circ_buf' \in BOOLEAN BY <1>0, <1>4 DEF InitS2MM, ReaderTypeOK
  <2>3. dmaOn' \in [TS2MM -> BOOLEAN]
    <3>1. \A b \in TS2MM : (b \in ok) \in BOOLEAN OBVIOUS
    <3> QED BY <1>4, <3>1 DEF InitS2MM
  <2> QED BY <1>0, <1>4, <2>1, <2>2, <2>3 DEF InitS2MM, ReaderTypeOK
<1>5. ASSUME ReadTraceEnd
      PROVE  /\ ReaderTypeOK'
             /\ ended' \in BOOLEAN /\ markedFull' \in BOOLEAN /\ outOfRange' \in BOOLEAN
             /\ m_initialized' \in BOOLEAN /\ UNCHANGED <<delivered, abandoned>>
  <2>1. buffers' \in {<<>>} \cup [TS2MM -> BufferInfo] BY <1>5, Zenon DEF ReadTraceEnd, ResetS2MM
  <2>2. dmaOn' \in [TS2MM -> BOOLEAN] BY <1>5, Zenon DEF ReadTraceEnd, ResetS2MM
  <2>3. ReaderTypeOK' BY <1>0, <1>5, <2>1, <2>2 DEF ReadTraceEnd, ResetS2MM, ReaderTypeOK
  <2>4. m_initialized' \in BOOLEAN /\ ended' \in BOOLEAN BY <1>5, Zenon DEF ReadTraceEnd
  <2> QED BY <1>0, <1>5, <2>3, <2>4 DEF ReadTraceEnd, TypeOK
<1> USE DEF pluginVars, threadVars, flagVars, loggerVars
<1>6. CASE InitTrace
  <2>1. ReaderTypeOK' BY <1>0, <1>4, <1>6 DEF InitTrace, CircBuf, TypeOK
  <2> QED BY <1>0, <1>6, <2>1 DEF InitTrace, TypeOK
<1>7. CASE InitFails
  <2>1. ReaderTypeOK' BY <1>0, <1>4, <1>7 DEF InitFails, CircBuf, TypeOK
  <2>2. device_trace' \in BOOLEAN BY <1>0, <1>7, Zenon DEF InitFails, TypeOK
  <2>3. main' \in {"ready", "deleted"} BY <1>7 DEF InitFails
  <2>4. UNCHANGED <<continuous, continuous_trace, threadVars, proc, flagVars, loggerVars, outOfRange, abandoned>>
    BY <1>7 DEF InitFails
  <2> QED BY <1>0, <2>1, <2>2, <2>3, <2>4 DEF TypeOK
<1>8. CASE FlushRead
  <2>1. ReaderTypeOK' BY <1>3, <1>8 DEF FlushRead
  <2> QED BY <1>0, <1>8, <2>1 DEF FlushRead, TypeOK
<1>9. CASE FlushEnd
  <2>1. main' = "check" /\ UNCHANGED <<device_trace, continuous, continuous_trace, ot, pt, proc, flagVars>>
    BY <1>9 DEF FlushEnd
  <2>2. ReadTraceEnd BY <1>9 DEF FlushEnd
  <2>3. abandoned' \subseteq TS2MM /\ delivered' \in [TS2MM -> Nat] BY <1>0, <1>5, <2>2 DEF TypeOK
  <2>4. ReaderTypeOK' /\ ended' \in BOOLEAN /\ markedFull' \in BOOLEAN /\ outOfRange' \in BOOLEAN
        /\ m_initialized' \in BOOLEAN
    BY <1>5, <2>2
  <2> QED BY <1>0, <2>1, <2>3, <2>4 DEF TypeOK
<1>10. CASE OtPass
  <2>1. ReaderTypeOK' BY <1>3, <1>10 DEF OtPass
  <2> QED BY <1>0, <1>10, <2>1 DEF OtPass, TypeOK
<1>11. CASE OtFinal
  <2>1. ReaderTypeOK' BY <1>3, <1>11 DEF OtFinal
  <2> QED BY <1>0, <1>11, <2>1 DEF OtFinal, TypeOK
<1>12. CASE OtEnd
  <2>1. ot' = "finish" /\ UNCHANGED <<pluginVars, pt, proc, flagVars>>
    BY <1>12 DEF OtEnd
  <2>2. ReadTraceEnd BY <1>12 DEF OtEnd
  <2>3. abandoned' \subseteq TS2MM /\ delivered' \in [TS2MM -> Nat] BY <1>0, <1>5, <2>2 DEF TypeOK
  <2>4. ReaderTypeOK' /\ ended' \in BOOLEAN /\ markedFull' \in BOOLEAN /\ outOfRange' \in BOOLEAN
        /\ m_initialized' \in BOOLEAN
    BY <1>5, <2>2
  <2> QED BY <1>0, <2>1, <2>3, <2>4 DEF TypeOK
<1>13. CASE PopChunk
  <2>1. data_queue # <<>> /\ data_queue \in Seq(Chunk) BY <1>0, <1>13 DEF PopChunk, ReaderTypeOK
  <2>2. Head(data_queue) \in Chunk /\ Tail(data_queue) \in Seq(Chunk) BY <2>1
  <2>3. ReaderTypeOK' BY <1>0, <1>13, <2>2 DEF PopChunk, ReaderTypeOK
  <2>4. proc' \in [pc : {"idle", "pop", "work", "workLast"}, chunk : Chunk]
    BY <1>13, <2>2 DEF PopChunk
  <2> QED BY <1>0, <1>13, <2>3, <2>4 DEF PopChunk, TypeOK
<1>14. CASE Dma
  <2>1. ReaderTypeOK' BY <1>0, <1>14 DEF Dma, DmaWrite, ReaderTypeOK
  <2> QED BY <1>0, <1>14, <2>1 DEF Dma, TypeOK
<1>15. CASE ReaderStep BY <1>15, TypeReader
<1>16. CASE FlushThrows
  <2>1. ReaderTypeOK'
    <3>1. reader' \in RType BY <1>1, <1>16 DEF FlushThrows, ReaderIdle
    <3> QED BY <1>0, <1>16, <3>1 DEF FlushThrows, ReaderTypeOK
  <2>2. abandoned' \subseteq TS2MM BY <1>0, <1>16 DEF FlushThrows, TypeOK, ReaderTypeOK
  <2> QED BY <1>0, <1>16, <2>1, <2>2 DEF FlushThrows, TypeOK
<1> QED
  BY <1>16, <1>0, <1>6, <1>7, <1>8, <1>9, <1>10, <1>11, <1>12, <1>13, <1>14, <1>15, TypeThreads
  DEF Next, Setup, Flush, OtStep, ProcStep

-----------------------------------------------------------------------------
(* Control                                                                 *)

\* A vector of buffers is not the cleared vector.
LEMMA NotCleared ==
  ASSUME NEW f \in [TS2MM -> BufferInfo]
  PROVE  f # <<>>
<1>1. 1 \in DOMAIN f BY NumAssumption
<1>2. 1 \notin DOMAIN <<>> OBVIOUS
<1> QED BY <1>1, <1>2

\* A step of read_trace_s2mm keeps the vector of buffers and the argument of
\* the call.
LEMMA ReaderFrame ==
  ASSUME IInv, ReaderStep
  PROVE  /\ reader.pc # "idle" /\ buffers # <<>>
         /\ buffers' \in [TS2MM -> BufferInfo] /\ buffers' # <<>>
         /\ reader'.pc # "idle" => reader'.force = reader.force
<1>0. TypeOK /\ ReaderTypeOK /\ ControlInv BY DEF IInv, TypeOK
<1>1. reader.pc # "idle"
  BY DEF ReaderStep, ReadStep, SkipBuffer, LinearDone, SetRange, SyncNothing, SyncFails,
         SyncAndLog, AbortOverwritten
<1>2. buffers # <<>> /\ buffers \in [TS2MM -> BufferInfo]
  BY <1>0, <1>1 DEF ControlInv, ReaderTypeOK
<1>3. DOMAIN buffers' = TS2MM
  BY <1>2 DEF ReaderStep, ReadStep, SkipBuffer, LinearDone, SetRange, SyncNothing, SyncFails,
              SyncAndLog, AbortOverwritten
<1>4. buffers' # <<>>
  <2>1. 1 \in DOMAIN buffers' BY <1>3, NumAssumption
  <2>2. 1 \notin DOMAIN <<>> OBVIOUS
  <2> QED BY <2>1, <2>2
<1>5. buffers' \in [TS2MM -> BufferInfo]
  BY <1>4, TypeReader DEF TypeOK, ReaderTypeOK
<1>6. reader'.pc # "idle" => reader'.force = reader.force
  <2>1. reader \in [pc : {"idle", "check", "sync"}, i : TS2MM, force : BOOLEAN, rest : Nat]
    BY <1>0 DEF ReaderTypeOK
  <2>2. NextBuffer.pc # "idle" => NextBuffer.force = reader.force
    BY <2>1 DEF NextBuffer, ReaderIdle
  <2>3. CASE SetRange BY <2>1, <2>3 DEF SetRange
  <2>4. CASE SyncAndLog
    <3>1. reader' = [reader EXCEPT !.rest = 0] \/ reader' = NextBuffer BY <2>4 DEF SyncAndLog
    <3> QED BY <2>1, <2>2, <3>1
  <2>5. CASE AbortOverwritten BY <2>5 DEF AbortOverwritten, ReaderIdle
  <2>6. CASE SkipBuffer \/ LinearDone \/ SyncNothing \/ SyncFails
    <3>1. reader' = NextBuffer BY <2>6 DEF SkipBuffer, LinearDone, SyncNothing, SyncFails
    <3> QED BY <2>2, <3>1
  <2> QED BY <2>3, <2>4, <2>5, <2>6 DEF ReaderStep, ReadStep
<1> QED BY <1>1, <1>2, <1>4, <1>5, <1>6

\* The control invariant is preserved by every step.
LEMMA ControlStep ==
  ASSUME IInv, [Next]_vars
  PROVE  ControlInv'
<1>0. TypeOK /\ ReaderTypeOK /\ ControlInv /\ HandshakeInv BY DEF IInv, TypeOK
<1> USE <1>0 DEF ControlInv, TypeOK, readerVars, pluginVars, threadVars, flagVars, loggerVars,
                 ProcIdle, ProcCall
<1>1. CASE InitSkipped BY <1>1 DEF InitSkipped
<1>2. CASE StartTrace BY <1>2 DEF StartTrace
<1>3. CASE SpawnProcess BY <1>3 DEF SpawnProcess
<1>4. CASE StartClockTrain BY <1>4 DEF StartClockTrain
<1>5. CASE FlushStop BY <1>5 DEF FlushStop
<1>6. CASE FlushStopped BY <1>6 DEF FlushStopped
<1>7. CASE FlushProcess BY <1>7 DEF FlushProcess
<1>8. CASE FlushSkip BY <1>8 DEF FlushSkip
<1>9. CASE CheckFullness BY <1>9 DEF CheckFullness
<1>10. CASE Delete BY <1>10 DEF Delete
<1>11. CASE Joined BY <1>11 DEF Joined
<1>12. CASE Deleted BY <1>12 DEF Deleted, vars
<1>13. CASE OtStart BY <1>13 DEF OtStart
<1>14. CASE OtPassed BY <1>14 DEF OtPassed
<1>15. CASE OtStopProcess BY <1>15 DEF OtStopProcess
<1>16. CASE OtSpun BY <1>16 DEF OtSpun, HandshakeInv
<1>17. CASE OtFinish BY <1>17 DEF OtFinish
<1>18. CASE PtStart BY <1>18 DEF PtStart
<1>19. CASE PtReady BY <1>19 DEF PtReady
<1>20. CASE PtCall BY <1>20 DEF PtCall
<1>21. CASE PtBack BY <1>21 DEF PtBack
<1>22. CASE PtDone BY <1>22 DEF PtDone
<1>23. CASE PopChunk BY <1>23 DEF PopChunk
<1>24. CASE PopNothing BY <1>24 DEF PopNothing
<1>25. CASE ProcessChunk BY <1>25 DEF ProcessChunk
<1>26. CASE UNCHANGED vars BY <1>26 DEF vars
<1>27. CASE InitTrace
  <2>1. buffers' # <<>>
    <3>1. buffers' = [b \in TS2MM |-> NewBuffer] BY <1>27 DEF InitTrace, InitS2MM
    <3>2. NewBuffer \in BufferInfo BY DEF NewBuffer, BufferInfo
    <3> QED BY <3>1, <3>2, NotCleared
  <2> QED BY <1>27, <2>1 DEF InitTrace, InitS2MM
<1>28. CASE InitFails
  <2>1. buffers' # <<>>
    <3>1. buffers' = [b \in TS2MM |-> NewBuffer] BY <1>28 DEF InitFails, InitS2MM
    <3>2. NewBuffer \in BufferInfo BY DEF NewBuffer, BufferInfo
    <3> QED BY <3>1, <3>2, NotCleared
  <2> QED BY <1>28, <2>1 DEF InitFails, InitS2MM
<1>29. CASE FlushRead BY <1>29 DEF FlushRead, CallRead, ReaderIdle
<1>30. CASE OtPass BY <1>30 DEF OtPass, CallRead, ReaderIdle
<1>31. CASE OtFinal BY <1>31 DEF OtFinal, CallRead, ReaderIdle
<1>32. CASE FlushEnd BY <1>32 DEF FlushEnd, ReadTraceEnd, ResetS2MM, HandshakeInv
<1>33. CASE OtEnd BY <1>33 DEF OtEnd, ReadTraceEnd, ResetS2MM, HandshakeInv
<1>34. CASE Dma BY <1>34 DEF Dma, DmaWrite
<1>36. CASE FlushThrows BY <1>36 DEF FlushThrows, ReaderIdle
<1>35. CASE ReaderStep
  <2>1. UNCHANGED <<pluginVars, threadVars, proc, m_process_trace, m_process_trace_done, loggerVars, outOfRange>>
    BY <1>35 DEF ReaderStep
  <2> QED BY <1>35, <2>1, ReaderFrame
<1> QED
  BY <1>1, <1>2, <1>3, <1>4, <1>5, <1>6, <1>7, <1>8, <1>9, <1>10, <1>11, <1>12, <1>13, <1>14, <1>15, <1>16, <1>17, <1>18, <1>19, <1>20, <1>21, <1>22, <1>23, <1>24, <1>25, <1>26, <1>27, <1>28, <1>29, <1>30, <1>31, <1>32, <1>33, <1>34, <1>35, <1>36
  DEF Next, Setup, Flush, OtStep, PtStep, ProcStep
-----------------------------------------------------------------------------
(* The handshake that ends the processing thread                           *)

\* The handshake invariant is preserved by every step.
LEMMA HandshakeStep ==
  ASSUME IInv, [Next]_vars
  PROVE  HandshakeInv'
<1>0. TypeOK /\ ReaderTypeOK /\ ControlInv /\ HandshakeInv BY DEF IInv, TypeOK
<1> USE <1>0 DEF HandshakeInv, InHand, ControlInv, readerVars, pluginVars, threadVars, flagVars,
                 loggerVars, ProcIdle, ProcCall
<1>1. CASE InitTrace BY <1>1 DEF InitTrace, InitS2MM
<1>2. CASE InitFails BY <1>2 DEF InitFails, InitS2MM
<1>3. CASE InitSkipped BY <1>3 DEF InitSkipped
<1>4. CASE StartTrace BY <1>4 DEF StartTrace
<1>5. CASE SpawnProcess BY <1>5 DEF SpawnProcess
<1>6. CASE StartClockTrain BY <1>6 DEF StartClockTrain
<1>7. CASE FlushStop BY <1>7 DEF FlushStop
<1>8. CASE FlushStopped BY <1>8 DEF FlushStopped
<1>9. CASE FlushProcess BY <1>9 DEF FlushProcess
<1>10. CASE FlushSkip BY <1>10 DEF FlushSkip
<1>11. CASE CheckFullness BY <1>11 DEF CheckFullness
<1>12. CASE Delete BY <1>12 DEF Delete
<1>13. CASE Joined BY <1>13 DEF Joined
<1>14. CASE Deleted BY <1>14 DEF Deleted, vars
<1>15. CASE OtStart BY <1>15 DEF OtStart
<1>16. CASE OtPassed BY <1>16 DEF OtPassed
<1>17. CASE OtStopProcess BY <1>17 DEF OtStopProcess
<1>18. CASE OtSpun BY <1>18 DEF OtSpun
<1>19. CASE OtFinish BY <1>19 DEF OtFinish
<1>20. CASE PtStart BY <1>20 DEF PtStart
<1>21. CASE PtReady BY <1>21 DEF PtReady
<1>22. CASE PtCall BY <1>22 DEF PtCall
<1>23. CASE PtBack BY <1>23 DEF PtBack
<1>24. CASE PtDone BY <1>24 DEF PtDone
<1>25. CASE PopChunk BY <1>25 DEF PopChunk
<1>26. CASE PopNothing BY <1>26 DEF PopNothing
<1>27. CASE ProcessChunk BY <1>27 DEF ProcessChunk
<1>28. CASE FlushRead BY <1>28 DEF FlushRead, CallRead
<1>29. CASE OtPass BY <1>29 DEF OtPass, CallRead
<1>30. CASE OtFinal BY <1>30 DEF OtFinal, CallRead
<1>31. CASE FlushEnd BY <1>31 DEF FlushEnd, ReadTraceEnd, ResetS2MM
<1>32. CASE OtEnd BY <1>32 DEF OtEnd, ReadTraceEnd, ResetS2MM
<1>33. CASE Dma BY <1>33 DEF Dma, DmaWrite
<1>34. CASE UNCHANGED vars BY <1>34 DEF vars
<1>36. CASE FlushThrows BY <1>36 DEF FlushThrows, ReaderIdle
<1>35. CASE ReaderStep
  <2>1. UNCHANGED <<pluginVars, threadVars, proc, m_process_trace, m_process_trace_done, loggerVars, outOfRange>>
    BY <1>35 DEF ReaderStep
  <2>2. ~ended /\ pt \notin {"last", "done"} /\ main # "process"
    BY <1>35, ReaderFrame
  <2> QED BY <2>1, <2>2
<1> QED
  BY <1>1, <1>2, <1>3, <1>4, <1>5, <1>6, <1>7, <1>8, <1>9, <1>10, <1>11, <1>12, <1>13, <1>14, <1>15, <1>16, <1>17, <1>18, <1>19, <1>20, <1>21, <1>22, <1>23, <1>24, <1>25, <1>26, <1>27, <1>28, <1>29, <1>30, <1>31, <1>32, <1>33, <1>34, <1>35, <1>36
  DEF Next, Setup, Flush, OtStep, PtStep, ProcStep
-----------------------------------------------------------------------------
(* The read cursors                                                        *)

Early == {"none", "start", "loop", "pass"}

\* A cursor that is not being copied from stays right when its buffer, its
\* history and its data mover are left alone.
LEMMA CursorFrame ==
  ASSUME NEW b \in TS2MM, CursorInv(b),
         buffers'[b] = buffers[b], logged'[b] = logged[b], written'[b] = written[b],
         abandoned \subseteq abandoned', UNCHANGED continuous_trace, ot' \in Early => ot \in Early,
         ~(reader.pc = "sync" /\ reader.i = b), ~(reader'.pc = "sync" /\ reader'.i = b)
  PROVE  CursorInv(b)'
BY DEF CursorInv, BytesRead, WordCount, Early, Continues

\* Nor does a cursor change when a step leaves the reader alone.
LEMMA ReaderUnchanged ==
  ASSUME ReaderInv, UNCHANGED <<buffers, logged, written, reader, abandoned, continuous_trace>>,
         ot' \in Early => ot \in Early
  PROVE  ReaderInv'
BY DEF ReaderInv, CursorInv, BytesRead, WordCount, Early, Continues

\* A call of read_trace_s2mm begins without a range.
LEMMA ReaderCalled ==
  ASSUME ReaderInv, ReaderTypeOK, NEW f, CallRead(f), UNCHANGED <<abandoned, continuous_trace>>,
         ot' \in Early => ot \in Early
  PROVE  ReaderInv'
<1>1. reader.pc # "sync" /\ reader'.pc # "sync" BY DEF CallRead, ReaderIdle
<1>2. UNCHANGED <<buffers, logged, written>> BY DEF CallRead
<1> QED BY <1>1, <1>2, CursorFrame DEF ReaderInv

\* A word written by a data mover only moves its count forward.
LEMMA ReaderDma ==
  ASSUME IInv, Dma
  PROVE  ReaderInv'
<1>0. TypeOK /\ ReaderTypeOK /\ ReaderInv BY DEF IInv, TypeOK
<1>1. PICK d \in TS2MM : DmaWrite(d) BY DEF Dma
<1>2. UNCHANGED <<buffers, reader, logged, ot, abandoned, continuous_trace>>
  BY DEF Dma, DmaWrite, threadVars, pluginVars
<1>3. SUFFICES ASSUME buffers # <<>>, NEW b \in TS2MM PROVE CursorInv(b)'
  BY <1>2 DEF ReaderInv
<1>4. CursorInv(b) BY <1>0, <1>3 DEF ReaderInv
<1>5. written[b] \in Nat /\ written'[b] \in Nat /\ written[b] <= written'[b]
  BY <1>0, <1>1 DEF DmaWrite, ReaderTypeOK
<1>6. WordCount(b, FALSE) \in Nat /\ WordCount(b, FALSE)' \in Nat
      /\ WordCount(b, FALSE) <= WordCount(b, FALSE)'
  <2>1. written'[b] = written[b] \/ written'[b] = written[b] + 1
    BY <1>0, <1>1 DEF DmaWrite, ReaderTypeOK
  <2>2. \A w \in Nat : w - (w % BurstLen) \in Nat
    <3> SUFFICES ASSUME NEW w \in Nat PROVE w - (w % BurstLen) \in Nat OBVIOUS
    <3>1. w % BurstLen \in Nat /\ w % BurstLen <= w BY BurstAssumption, SMT
    <3> QED BY <3>1, SMT
  <2>3. written[b] - (written[b] % BurstLen) <= (written[b] + 1) - ((written[b] + 1) % BurstLen)
    BY <1>5, FloorMono, BurstAssumption
  <2>4. CASE written'[b] = written[b] BY <2>2, <2>4, <1>5 DEF WordCount
  <2>5. CASE written'[b] = written[b] + 1 BY <2>2, <2>3, <2>5, <1>5 DEF WordCount
  <2> QED BY <2>1, <2>4, <2>5
<1>7. BytesRead(b) \in Nat /\ reader.rest \in Nat
  BY <1>0, <1>3, CursorNat DEF ReaderTypeOK
<1>8. BytesRead(b)' = BytesRead(b) BY <1>2 DEF BytesRead
<1>9. PICK n \in Nat : n = BytesRead(b) + (IF reader.pc = "sync" /\ reader.i = b THEN reader.rest ELSE 0)
  BY <1>7
<1>10. /\ n <= written[b] => n <= written'[b]
       /\ n <= WordCount(b, FALSE) => n <= WordCount(b, FALSE)'
  <2>1. PICK v \in Nat : v = WordCount(b, FALSE) BY <1>6
  <2>2. PICK w \in Nat : w = WordCount(b, FALSE)' BY <1>6
  <2>3. v <= w BY <1>6, <2>1, <2>2
  <2>4. n <= v => n <= w BY <2>3
  <2>5. n <= written[b] => n <= written'[b] BY <1>5
  <2> QED BY <2>1, <2>2, <2>4, <2>5
<1> QED BY <1>2, <1>4, <1>8, <1>9, <1>10 DEF CursorInv, Continues

\* The steps of read_trace_s2mm keep every cursor right.
LEMMA ReaderReads ==
  ASSUME IInv, ReaderStep
  PROVE  ReaderInv'
<1>0. TypeOK /\ ReaderTypeOK /\ ControlInv /\ ReaderInv BY DEF IInv, TypeOK
<1>1. PICK b \in TS2MM : b = reader.i BY <1>0 DEF ReaderTypeOK
<1>10. reader \in [pc : {"idle", "check", "sync"}, i : TS2MM, force : BOOLEAN, rest : Nat]
  BY <1>0 DEF ReaderTypeOK
<1>2. buffers # <<>> /\ buffers \in [TS2MM -> BufferInfo] /\ buffers' \in [TS2MM -> BufferInfo]
  BY <1>0, ReaderFrame DEF ReaderTypeOK
<1>3. CursorInv(b) /\ \A c \in TS2MM : CursorInv(c) BY <1>0, <1>1, <1>2 DEF ReaderInv
<1>4. UNCHANGED <<written, ot, abandoned, continuous_trace>>
  BY DEF ReaderStep, ReadStep, SkipBuffer, LinearDone, SetRange,
         SyncNothing, SyncFails, SyncAndLog, AbortOverwritten, threadVars, pluginVars
<1>5. NextBuffer.pc # "sync" /\ ReaderIdle.pc # "sync"
  BY <1>10 DEF NextBuffer, ReaderIdle
<1>6. \A c \in TS2MM \ {b} : buffers'[c] = buffers[c] /\ logged'[c] = logged[c]
  BY <1>0, <1>1, <1>2 DEF ReaderStep, ReadStep, SkipBuffer, LinearDone, SetRange,
         SyncNothing, SyncFails, SyncAndLog, AbortOverwritten, ReaderTypeOK
<1>7. \A c \in TS2MM \ {b} : ~(reader.pc = "sync" /\ reader.i = c) /\ ~(reader'.pc = "sync" /\ reader'.i = c)
  <2>2. CASE SetRange BY <2>2, <1>1, <1>10 DEF SetRange
  <2>3. CASE SyncAndLog
    <3>1. reader' = [reader EXCEPT !.rest = 0] \/ reader' = NextBuffer BY <2>3 DEF SyncAndLog
    <3> QED BY <1>1, <1>10, <1>5, <3>1
  <2>4. CASE SkipBuffer \/ LinearDone \/ SyncNothing \/ SyncFails \/ AbortOverwritten
    BY <1>1, <1>5, <2>4 DEF SkipBuffer, LinearDone, SyncNothing, SyncFails, AbortOverwritten
  <2> QED BY <2>2, <2>3, <2>4 DEF ReaderStep, ReadStep
<1>8. \A c \in TS2MM \ {b} : CursorInv(c)' BY <1>3, <1>4, <1>6, <1>7, CursorFrame
<1>9. SUFFICES CursorInv(b)' BY <1>8, <1>1 DEF ReaderInv

<1>11. buffers[b] \in BufferInfo /\ buffers[b].rollover_count * BufSize[b] \in Nat /\ BytesRead(b) \in Nat
       /\ BytesRead(b) = buffers[b].rollover_count * BufSize[b] + buffers[b].used_size
       /\ BufSize[b] \in Nat \ {0} /\ written[b] \in Nat
  BY <1>0, <1>1, <1>2, CursorNat DEF ReaderTypeOK
<1>12. CASE SkipBuffer
  <2>1. UNCHANGED <<buffers, logged>> /\ reader.pc # "sync" /\ reader'.pc # "sync"
    BY <1>5, <1>12 DEF SkipBuffer
  <2> QED BY <1>3, <1>4, <2>1, CursorFrame
<1>13. CASE LinearDone \/ SyncFails \/ AbortOverwritten
  <2>1. reader'.pc # "sync" BY <1>5, <1>13 DEF LinearDone, SyncFails, AbortOverwritten
  <2>2. buffers'[b].offload_done /\ buffers'[b].used_size = buffers[b].used_size
        /\ (buffers'[b].offset = buffers[b].offset \/ buffers'[b].offset = buffers[b].used_size)
    <3>1. CASE LinearDone
      <4>1. buffers' = [buffers EXCEPT ![b].offload_done = TRUE, ![b].offset = buffers[b].used_size]
        BY <1>1, <3>1 DEF LinearDone
      <4> QED BY <4>1, <1>2, <1>11 DEF BufferInfo
    <3>2. CASE SyncFails \/ AbortOverwritten
      <4>1. buffers' = [buffers EXCEPT ![b].offload_done = TRUE]
        BY <1>1, <3>2 DEF SyncFails, AbortOverwritten
      <4> QED BY <4>1, <1>2, <1>11 DEF BufferInfo
    <3> QED BY <1>13, <3>1, <3>2
  <2> QED BY <1>3, <2>1, <2>2 DEF CursorInv
<1>14. CASE SetRange
  <2>1. PICK count : count = WordCount(b, reader.force) OBVIOUS
  <2>2. reader.pc = "check" /\ ~buffers[b].offload_done BY <1>1, <1>14 DEF SetRange
  <2>3. BytesRead(b) + 0 = BytesRead(b) BY <1>11
  <2>4. /\ buffers[b].used_size <= BufSize[b] /\ BytesRead(b) <= written[b]
        /\ ~reader.force => BytesRead(b) <= WordCount(b, FALSE)
    BY <2>2, <2>3, <1>0, <1>3 DEF CursorInv, ControlInv
  <2>5. count \in Nat /\ count <= written[b] /\ BytesRead(b) <= count
    <3>1. count \in Nat /\ count <= written[b] BY <2>1, <1>0, <1>10, WordCountFacts
    <3>2. reader.force => BytesRead(b) <= count BY <2>1, <2>4 DEF WordCount
    <3>3. ~reader.force => BytesRead(b) <= count
      <4> SUFFICES ASSUME ~reader.force PROVE BytesRead(b) <= count OBVIOUS
      <4>1. reader.force = FALSE BY <1>10
      <4>2. count = WordCount(b, FALSE) BY <2>1, <4>1
      <4> QED BY <2>4, <4>2
    <3> QED BY <3>1, <3>2, <3>3
  <2>6. count <= BytesRead(b) + BufSize[b]
    BY <2>1, <2>5, <1>1, <1>11, <1>14 DEF SetRange, Overwritten
  <2>7. PICK a : a = Advance(b, count) OBVIOUS
  <2>8. PICK rest : rest = Rollover(b, count) OBVIOUS
  <2>9. /\ a \in BufferInfo
        /\ a.offload_done = buffers[b].offload_done
        /\ a.offset <= a.used_size /\ a.used_size <= BufSize[b] /\ a.offset <= BufSize[b]
        /\ a.rollover_count * BufSize[b] \in Nat
        /\ a.rollover_count * BufSize[b] + a.offset = BytesRead(b)
        /\ rest \in Nat /\ rest <= BufSize[b]
        /\ a.rollover_count * BufSize[b] + a.used_size + rest = count
        /\ rest > 0 => a.used_size = BufSize[b] /\ a.offset < BufSize[b]
    BY <1>0, <1>2, <2>4, <2>5, <2>6, <2>7, <2>8, AdvanceFacts
  <2>10. buffers'[b] = a /\ reader'.pc = "sync" /\ reader'.i = b /\ reader'.rest = rest /\ logged' = logged
    BY <1>1, <1>2, <1>10, <1>14, <2>1, <2>7, <2>8 DEF SetRange
  <2>11. Continues(b, logged[b], BytesRead(b)) BY <2>2, <1>3 DEF CursorInv
  <2>12. continuous_trace /\ ot \in Early => count = WordCount(b, FALSE)
    BY <2>1, <2>2, <1>0, <1>10 DEF ControlInv, Early
  <2>13. WordCount(b, FALSE)' = WordCount(b, FALSE) BY <1>4 DEF WordCount
  <2>14. BytesRead(b)' = a.rollover_count * BufSize[b] + a.used_size BY <2>10 DEF BytesRead
  <2> QED
    <3>1. buffers'[b].used_size <= BufSize[b] /\ buffers'[b].offset <= BufSize[b] BY <2>9, <2>10
    <3>2. Continues(b, logged[b], buffers[b].rollover_count * BufSize[b] + buffers[b].offset)'
      <4>1. buffers'[b].rollover_count * BufSize[b] + buffers'[b].offset = BytesRead(b) BY <2>9, <2>10
      <4> QED BY <4>1, <1>4, <2>10, <2>11 DEF Continues
    <3>3. BytesRead(b)' + reader'.rest <= written'[b] BY <2>5, <2>9, <2>10, <2>14, <1>4
    <3>4. continuous_trace /\ ot' \in Early => BytesRead(b)' + reader'.rest <= WordCount(b, FALSE)'
      <4>1. BytesRead(b)' + reader'.rest = count BY <2>9, <2>10, <2>14
      <4>2. count <= count BY <2>5
      <4> QED BY <4>1, <4>2, <2>12, <2>13, <1>4
    <3>5. ~buffers'[b].offload_done /\ buffers'[b].offset <= buffers'[b].used_size
          /\ reader'.rest <= BufSize[b]
          /\ (reader'.rest > 0 => buffers'[b].used_size = BufSize[b] /\ buffers'[b].offset < BufSize[b])
      BY <2>2, <2>9, <2>10
    <3> QED BY <3>1, <3>2, <3>3, <3>4, <3>5, <2>10, <1>4 DEF CursorInv, Early
<1>15. CASE SyncNothing
  <2>1. reader.pc = "sync" /\ buffers[b].offset >= buffers[b].used_size
        /\ UNCHANGED <<buffers, logged>> /\ reader'.pc # "sync"
    BY <1>1, <1>5, <1>15 DEF SyncNothing
  <2>2. buffers[b].offset <= buffers[b].used_size /\ ~buffers[b].offload_done
    BY <2>1, <1>1, <1>3 DEF CursorInv
  <2>3. buffers[b].offset = buffers[b].used_size BY <2>1, <2>2, <1>11 DEF BufferInfo
  <2>4. BytesRead(b) + 0 = BytesRead(b) /\ BytesRead(b) <= BytesRead(b) + reader.rest
    BY <1>10, <1>11
  <2>5. Continues(b, logged[b], BytesRead(b)) /\ BytesRead(b) + reader.rest <= written[b]
        /\ (continuous_trace /\ ot \in Early => BytesRead(b) + reader.rest <= WordCount(b, FALSE))
    BY <2>1, <2>2, <2>3, <1>1, <1>3, <1>11 DEF CursorInv, Early
  <2>6. WordCount(b, FALSE) \in Nat BY <1>0, WordCountFacts
  <2>7. BytesRead(b) <= written[b] /\ (continuous_trace /\ ot \in Early => BytesRead(b) <= WordCount(b, FALSE))
    <3>1. PICK w \in Nat : w = WordCount(b, FALSE) BY <2>6
    <3>2. PICK n \in Nat : n = BytesRead(b) BY <1>11
    <3>3. PICK k \in Nat : k = reader.rest BY <1>10
    <3>4. n + k <= w => n <= w OBVIOUS
    <3>5. n + k <= written[b] => n <= written[b] BY <1>11
    <3> QED BY <2>5, <3>1, <3>2, <3>3, <3>4, <3>5
  <2>8. BytesRead(b)' = BytesRead(b) /\ WordCount(b, FALSE)' = WordCount(b, FALSE)
    BY <2>1, <1>4 DEF BytesRead, WordCount
  <2>9. buffers[b].used_size <= BufSize[b] /\ buffers[b].offset <= BufSize[b] BY <1>3 DEF CursorInv
  <2> QED BY <2>1, <2>4, <2>5, <2>7, <2>8, <2>9, <1>4 DEF CursorInv, Early, Continues
<1>16. CASE SyncAndLog
  <2> DEFINE bd == buffers[b]
             base == bd.rollover_count * BufSize[b]
             second == use_circ_buf /\ reader.rest > 0
             full == bd.full \/ (bd.used_size = BufSize[b] /\ ~use_circ_buf)
  <2>1. reader.pc = "sync" /\ bd.offset < bd.used_size /\ logged'[b] = base + bd.used_size
    BY <1>0, <1>1, <1>16 DEF SyncAndLog, ReaderTypeOK
  <2>2. /\ ~bd.offload_done /\ bd.used_size <= BufSize[b] /\ bd.offset <= BufSize[b]
        /\ BytesRead(b) + reader.rest <= written[b]
        /\ continuous_trace /\ ot \in Early => BytesRead(b) + reader.rest <= WordCount(b, FALSE)
        /\ reader.rest <= BufSize[b]
        /\ reader.rest > 0 => bd.used_size = BufSize[b]
    BY <2>1, <1>1, <1>3 DEF CursorInv, Early
  <2>3. WordCount(b, FALSE)' = WordCount(b, FALSE) BY <1>4 DEF WordCount
  <2>4. WordCount(b, FALSE) \in Nat BY <1>0, WordCountFacts
  <2>5. PICK w \in Nat : w = WordCount(b, FALSE) BY <2>4
  <2>6. PICK n \in Nat : n = BytesRead(b) BY <1>11
  <2>7. PICK k \in Nat : k = reader.rest BY <1>10
  <2>8. CASE ~second
    <3>1. reader' = NextBuffer /\ buffers'[b] = [bd EXCEPT !.full = full]
      BY <1>1, <1>2, <1>16, <2>8 DEF SyncAndLog
    <3>2. buffers'[b].used_size = bd.used_size /\ buffers'[b].offset = bd.offset
          /\ buffers'[b].rollover_count = bd.rollover_count /\ buffers'[b].offload_done = bd.offload_done
      BY <3>1, <1>11 DEF BufferInfo
    <3>3. reader'.pc # "sync" BY <3>1, <1>5
    <3>4. BytesRead(b)' = n BY <3>2, <2>6 DEF BytesRead
    <3>5. n + k <= w => n <= w OBVIOUS
    <3>6. n + k <= written[b] => n <= written[b] BY <1>11
    <3>7. n + 0 = n /\ logged'[b] = n /\ n <= n BY <2>1, <2>6, <1>11
    <3> QED
      BY <3>2, <3>3, <3>4, <3>5, <3>6, <3>7, <2>2, <2>3, <2>5, <2>6, <2>7, <1>4
      DEF CursorInv, Early, Continues
  <2>9. CASE second
    <3>1. reader' = [reader EXCEPT !.rest = 0] BY <1>16, <1>1, <2>9 DEF SyncAndLog
    <3>2. buffers'[b] = [used_size |-> reader.rest, offset |-> 0, rollover_count |-> bd.rollover_count + 1,
                         full |-> full, offload_done |-> bd.offload_done]
      BY <1>1, <1>2, <1>16, <2>9 DEF SyncAndLog
    <3>3. reader'.pc = "sync" /\ reader'.i = b /\ reader'.rest = 0 BY <3>1, <2>1, <1>1, <1>10
    <3>4. buffers'[b].used_size = k /\ buffers'[b].offset = 0
          /\ buffers'[b].rollover_count = bd.rollover_count + 1 /\ buffers'[b].offload_done = bd.offload_done
      BY <3>2, <2>7
    <3>5. PICK r \in Nat : r = bd.rollover_count BY <1>11 DEF BufferInfo
    <3>6. PICK S \in Nat \ {0} : S = BufSize[b] BY <1>11
    <3>7. r * S \in Nat /\ (r + 1) * S = r * S + S BY SMT
    <3>8. n = r * S + S /\ logged'[b] = r * S + S BY <2>1, <2>2, <2>6, <2>7, <2>9, <3>5, <3>6, <1>11
    <3>9. BytesRead(b)' = r * S + S + k BY <3>4, <3>5, <3>6, <3>7 DEF BytesRead
    <3>10. buffers'[b].rollover_count * BufSize[b] = r * S + S BY <3>4, <3>5, <3>6, <3>7
    <3>11. PICK m \in Nat : m = r * S + S BY <3>7
    <3>12. m + k + 0 = m + k /\ m + 0 = m /\ m <= m /\ 0 <= k /\ 0 <= S /\ ~(0 > 0) OBVIOUS
    <3> QED
      BY <3>3, <3>4, <3>6, <3>8, <3>9, <3>10, <3>11, <3>12, <2>2, <2>3, <2>5, <2>6, <2>7, <1>4
      DEF CursorInv, Early, Continues
  <2> QED BY <2>8, <2>9
<1> QED BY <1>12, <1>13, <1>14, <1>15, <1>16 DEF ReaderStep, ReadStep

\* An exception leaves the cursor behind the interval that was not copied.
LEMMA ReaderThrows ==
  ASSUME IInv, FlushThrows
  PROVE  ReaderInv'
<1>0. TypeOK /\ ReaderTypeOK /\ ControlInv /\ ReaderInv BY DEF IInv, TypeOK
<1>1. PICK b \in TS2MM : b = reader.i BY <1>0 DEF ReaderTypeOK
<1>2. /\ reader.pc = "sync" /\ reader'.pc # "sync" /\ buffers[b].offset < buffers[b].used_size
      /\ abandoned' = abandoned \cup {b}
      /\ UNCHANGED <<buffers, logged, written, ot, continuous_trace>>
  BY <1>1 DEF FlushThrows, ReaderIdle, threadVars
<1>3. buffers # <<>> BY <1>0, <1>2 DEF ControlInv
<1>4. \A c \in TS2MM : CursorInv(c) BY <1>0, <1>3 DEF ReaderInv
<1>5. \A c \in TS2MM \ {b} : CursorInv(c)' BY <1>1, <1>2, <1>4, CursorFrame
<1>6. SUFFICES CursorInv(b)' BY <1>5 DEF ReaderInv
<1>7. buffers[b] \in BufferInfo /\ reader.rest \in Nat /\ written[b] \in Nat /\ logged[b] \in Nat
  BY <1>0, <1>3, CursorNat DEF ReaderTypeOK
<1>8. PICK base \in Nat : base = buffers[b].rollover_count * BufSize[b] BY <1>0, <1>3, CursorNat
<1>9. PICK n \in Nat : n = BytesRead(b) BY <1>0, <1>3, CursorNat
<1>10. PICK w \in Nat : w = WordCount(b, FALSE) BY <1>0, WordCountFacts
<1>11. PICK k \in Nat : k = reader.rest BY <1>7
<1>12. BytesRead(b)' = n /\ WordCount(b, FALSE)' = w BY <1>2, <1>9, <1>10 DEF BytesRead, WordCount
<1>13. /\ buffers[b].used_size <= BufSize[b] /\ buffers[b].offset <= BufSize[b]
       /\ logged[b] <= base + buffers[b].offset /\ n + k <= written[b]
       /\ continuous_trace /\ ot \in Early => n + k <= w
  BY <1>1, <1>2, <1>4, <1>8, <1>9, <1>10, <1>11 DEF CursorInv, Continues, Early
<1>14. n = base + buffers[b].used_size BY <1>8, <1>9 DEF BytesRead
<1>15. PICK o \in Nat : o = buffers[b].offset BY <1>7 DEF BufferInfo
<1>16. PICK u \in Nat : u = buffers[b].used_size BY <1>7 DEF BufferInfo
<1>17. logged[b] <= n BY <1>2, <1>7, <1>13, <1>14, <1>15, <1>16
<1>18. n <= written[b] /\ (n + k <= w => n <= w) /\ n + 0 = n BY <1>7, <1>13
<1> QED BY <1>2, <1>12, <1>13, <1>17, <1>18 DEF CursorInv, Continues, Early

\* The cursor invariant is preserved by every step.
LEMMA ReaderInvStep ==
  ASSUME IInv, [Next]_vars
  PROVE  ReaderInv'
<1>0. TypeOK /\ ReaderTypeOK /\ ControlInv /\ ReaderInv BY DEF IInv, TypeOK
<1>1. CASE
         \/ InitSkipped \/ StartTrace \/ SpawnProcess \/ StartClockTrain \/ FlushStop
         \/ FlushStopped \/ FlushProcess \/ FlushSkip \/ CheckFullness \/ Delete \/ Joined
         \/ Deleted \/ OtStart \/ OtPassed \/ OtStopProcess \/ OtSpun \/ OtFinish
         \/ PtStart \/ PtReady \/ PtCall \/ PtBack \/ PtDone \/ PopChunk \/ PopNothing
         \/ ProcessChunk
         \/ UNCHANGED vars
  <2> USE DEF Early, vars, readerVars, pluginVars, threadVars, flagVars, loggerVars
  <2>1. ASSUME InitSkipped \/ StartTrace \/ SpawnProcess \/ StartClockTrain \/ FlushStop
           \/ FlushStopped \/ FlushProcess \/ FlushSkip \/ CheckFullness
       PROVE  UNCHANGED <<buffers, logged, written, reader, abandoned, continuous_trace>> /\ (ot' \in Early => ot \in Early)
    BY <1>0, <2>1 DEF ControlInv, InitSkipped, StartTrace, SpawnProcess, StartClockTrain, FlushStop,
           FlushStopped,
           FlushProcess, FlushSkip, CheckFullness
  <2>2. ASSUME Delete \/ Joined \/ Deleted \/ OtStart \/ OtPassed
           \/ OtStopProcess \/ OtSpun \/ OtFinish
       PROVE  UNCHANGED <<buffers, logged, written, reader, abandoned, continuous_trace>> /\ (ot' \in Early => ot \in Early)
    BY <2>2 DEF Delete, Joined, Deleted, OtStart, OtPassed, OtStopProcess, OtSpun, OtFinish
  <2>3. ASSUME PtStart \/ PtReady \/ PtCall \/ PtBack \/ PtDone
           \/ PopChunk \/ PopNothing \/ ProcessChunk
       PROVE  UNCHANGED <<buffers, logged, written, reader, abandoned, continuous_trace>> /\ (ot' \in Early => ot \in Early)
    BY <2>3 DEF PtStart, PtReady, PtCall, PtBack, PtDone, PopChunk, PopNothing, ProcessChunk
  <2>4. UNCHANGED vars => UNCHANGED <<buffers, logged, written, reader, ot, abandoned, continuous_trace>> OBVIOUS
  <2> QED BY <1>0, <1>1, <2>1, <2>2, <2>3, <2>4, ReaderUnchanged
<1>2. CASE InitTrace \/ InitFails
  <2>1. buffers' = [b \in TS2MM |-> NewBuffer] /\ UNCHANGED <<reader, written, logged>>
    BY <1>2 DEF InitTrace, InitFails, InitS2MM
  <2>2. main = "new" /\ reader.pc = "idle" BY <1>0, <1>2 DEF InitTrace, InitFails, ControlInv
  <2>3. ASSUME NEW b \in TS2MM PROVE CursorInv(b)'
    <3>1. buffers'[b] = NewBuffer BY <2>1
    <3>2. BufSize[b] \in Nat \ {0} /\ 0 * BufSize[b] = 0 BY SizeAssumption
    <3>3. BytesRead(b)' = 0 BY <3>1, <3>2 DEF BytesRead, NewBuffer
    <3>4. logged'[b] = 0 BY <2>1, <2>2 DEF IInv, StartInv
    <3>5. WordCount(b, FALSE)' \in Nat
      <4>1. WordCount(b, FALSE)' = WordCount(b, FALSE) BY <2>1 DEF WordCount
      <4> QED BY <4>1, <1>0, WordCountFacts
    <3>6. reader'.pc # "sync" /\ written'[b] \in Nat BY <1>0, <2>1, <2>2 DEF ReaderTypeOK
    <3>7. PICK w \in Nat : w = WordCount(b, FALSE)' BY <3>5
    <3>8. PICK v \in Nat : v = written'[b] BY <3>6
    <3>9. PICK S \in Nat : S = BufSize[b] BY <3>2
    <3>10. 0 + 0 <= w /\ 0 + 0 <= v /\ 0 <= S /\ 0 <= 0 OBVIOUS
    <3>11. buffers'[b].used_size = 0 /\ buffers'[b].offset = 0 BY <3>1 DEF NewBuffer
    <3> QED BY <3>3, <3>4, <3>6, <3>7, <3>8, <3>9, <3>10, <3>11 DEF CursorInv, Continues
  <2> QED BY <2>3 DEF ReaderInv
<1>3. CASE FlushRead \/ OtPass \/ OtFinal
  <2>1. PICK f : CallRead(f) BY <1>3 DEF FlushRead, OtPass, OtFinal
  <2>2. UNCHANGED <<abandoned, continuous_trace>> /\ (ot' \in Early => ot \in Early)
    BY <1>3 DEF FlushRead, OtPass, OtFinal, threadVars, pluginVars, Early
  <2> QED BY <1>0, <2>1, <2>2, ReaderCalled
<1>4. CASE FlushEnd \/ OtEnd
  <2>1. buffers' = <<>> BY <1>4 DEF FlushEnd, OtEnd, ReadTraceEnd, ResetS2MM
  <2> QED BY <2>1 DEF ReaderInv
<1>5. CASE Dma BY <1>5, ReaderDma
<1>6. CASE ReaderStep BY <1>6, ReaderReads
<1>7. CASE FlushThrows BY <1>7, ReaderThrows
<1> QED
  BY <1>1, <1>2, <1>3, <1>4, <1>5, <1>6, <1>7 DEF Next, Setup, Flush, OtStep, PtStep, ProcStep

\* Nothing is queued before the buffers are initialized: preserved.
LEMMA StartStep ==
  ASSUME IInv, [Next]_vars
  PROVE  StartInv'
<1>0. StartInv /\ ControlInv BY DEF IInv
<1> SUFFICES ASSUME main' = "new" PROVE main = "new" /\ logged' = logged
  BY <1>0 DEF StartInv
<1> USE DEF readerVars, pluginVars, threadVars, flagVars, loggerVars
<1>1. CASE ReaderStep
  <2>1. main = "new" BY <1>1 DEF ReaderStep
  <2>2. reader.pc # "idle" BY <1>1, ReaderFrame
  <2> QED BY <1>0, <2>1, <2>2 DEF ControlInv
<1>2. CASE Setup
  BY <1>2 DEF Setup, InitTrace, InitFails, InitSkipped, StartTrace, SpawnProcess, StartClockTrain
<1>3. CASE Flush \/ Delete \/ Joined \/ Deleted \/ UNCHANGED vars
  BY <1>3 DEF Flush, FlushStop, FlushStopped, FlushRead, FlushThrows, FlushProcess, FlushEnd, FlushSkip,
              CheckFullness, Delete, Joined, Deleted, vars
<1>4. CASE OtStep
  BY <1>4 DEF OtStep, OtStart, OtPass, OtPassed, OtFinal, OtStopProcess, OtSpun, OtEnd, OtFinish,
              CallRead, ReadTraceEnd, ResetS2MM
<1>5. CASE PtStep \/ ProcStep \/ Dma
  BY <1>5 DEF PtStep, PtStart, PtReady, PtCall, PtBack, PtDone, ProcStep, PopChunk, PopNothing,
              ProcessChunk, Dma, DmaWrite
<1> QED BY <1>1, <1>2, <1>3, <1>4, <1>5 DEF Next

-----------------------------------------------------------------------------
(* The queue between the threads                                           *)

\* Steps that neither queue, take nor process a chunk.
LEMMA QueueFrame ==
  ASSUME QueueInv, UNCHANGED <<data_queue, delivered, logged>>, abandoned \subseteq abandoned',
         UNCHANGED proc \/ (~InHand /\ ~InHand')
  PROVE  QueueInv'
<1>1. \A b : Expected(b)' = Expected(b) BY DEF Expected, InHand
<1>2. \A b, x, y : Continues(b, x, y) => Continues(b, x, y)' BY DEF Continues
<1> QED BY <1>1, <1>2 DEF QueueInv, InHand

\* sync_and_log queues the interval that starts where the queued words end.
LEMMA QueueAppend ==
  ASSUME TypeOK, QueueInv, NEW c \in Chunk,
         data_queue' = Append(data_queue, c), Continues(c.ts2mm, logged[c.ts2mm], c.from),
         logged' = [logged EXCEPT ![c.ts2mm] = c.to],
         UNCHANGED <<proc, delivered, abandoned>>
  PROVE  QueueInv'
<1>0. data_queue \in Seq(Chunk) /\ c.ts2mm \in TS2MM /\ logged \in [TS2MM -> Nat]
  BY DEF TypeOK, ReaderTypeOK, Chunk
<1>1. PICK n \in Nat : n = Len(data_queue) BY <1>0
<1>2. Len(data_queue') = n + 1 BY <1>0, <1>1
<1>3. \A k \in 1..n : data_queue'[k] = data_queue[k] /\ data_queue[k] \in Chunk BY <1>0, <1>1
<1>4. data_queue'[n + 1] = c BY <1>0, <1>1
<1>5. \A b : Expected(b)' = Expected(b) BY DEF Expected, InHand
<1>6. logged'[c.ts2mm] = c.to /\ \A b \in TS2MM : b # c.ts2mm => logged'[b] = logged[b] BY <1>0
<1>7. \A k \in 1..n : data_queue[k].ts2mm \in TS2MM BY <1>3 DEF Chunk
<1> DEFINE q == data_queue
           p == data_queue'
<1>13. \A b, x, y : Continues(b, x, y)' = Continues(b, x, y) BY DEF Continues
<1>8. InHand' => Continues(proc.chunk.ts2mm, delivered[proc.chunk.ts2mm], proc.chunk.from)
  BY DEF QueueInv, InHand
<1>9. \A b \in TS2MM : \A k \in 1..(n + 1) :
        p[k].ts2mm = b /\ (\A j \in 1..(k - 1) : p[j].ts2mm # b)
          => Continues(b, Expected(b), p[k].from)
  <2> SUFFICES ASSUME NEW b \in TS2MM, NEW k \in 1..(n + 1), p[k].ts2mm = b,
                      \A j \in 1..(k - 1) : p[j].ts2mm # b
               PROVE  Continues(b, Expected(b), p[k].from)
    OBVIOUS
  <2>0. k \in 1..n \/ k = n + 1 OBVIOUS
  <2>1. CASE k \in 1..n
    <3>1. \A j \in 1..(k - 1) : j \in 1..n BY <2>1
    <3>2. q[k].ts2mm = b /\ \A j \in 1..(k - 1) : q[j].ts2mm # b BY <2>1, <3>1, <1>3
    <3>3. Continues(b, Expected(b), q[k].from) BY <2>1, <3>2, <1>1 DEF QueueInv
    <3> QED BY <2>1, <3>3, <1>3
  <2>2. CASE k = n + 1
    <3>1. k - 1 = n BY <2>2
    <3>2. \A j \in 1..n : q[j].ts2mm # b BY <3>1, <1>3
    <3>3. Expected(b) = logged[b] BY <3>2, <1>1 DEF QueueInv
    <3>4. c.ts2mm = b BY <2>2, <1>4
    <3> QED BY <2>2, <3>3, <3>4, <1>4
  <2> QED BY <2>0, <2>1, <2>2
<1>10. \A j \in 1..(n + 1) : \A k \in (j + 1)..(n + 1) :
         p[j].ts2mm = p[k].ts2mm /\ (\A l \in (j + 1)..(k - 1) : p[l].ts2mm # p[k].ts2mm)
           => Continues(p[k].ts2mm, p[j].to, p[k].from)
  <2> SUFFICES ASSUME NEW j \in 1..(n + 1), NEW k \in (j + 1)..(n + 1), p[j].ts2mm = p[k].ts2mm,
                      \A l \in (j + 1)..(k - 1) : p[l].ts2mm # p[k].ts2mm
               PROVE  Continues(p[k].ts2mm, p[j].to, p[k].from)
    OBVIOUS
  <2>0. j \in 1..n /\ (k \in (j + 1)..n \/ k = n + 1) OBVIOUS
  <2>1. CASE k \in (j + 1)..n
    <3>1. k \in 1..n /\ \A l \in (j + 1)..(k - 1) : l \in 1..n BY <2>0, <2>1
    <3> QED BY <2>0, <2>1, <3>1, <1>1, <1>3 DEF QueueInv
  <2>2. CASE k = n + 1
    <3>1. k - 1 = n /\ \A l \in (j + 1)..n : l \in 1..n BY <2>0, <2>2
    <3>2. \A l \in (j + 1)..n : q[l].ts2mm # q[j].ts2mm BY <2>0, <3>1, <1>3
    <3>3. logged[q[j].ts2mm] = q[j].to BY <2>0, <3>2, <1>1 DEF QueueInv
    <3> QED BY <2>0, <2>2, <3>3, <1>3, <1>4
  <2> QED BY <2>0, <2>1, <2>2
<1>11. \A k \in 1..(n + 1) :
         (\A l \in (k + 1)..(n + 1) : p[l].ts2mm # p[k].ts2mm) => logged'[p[k].ts2mm] = p[k].to
  <2> SUFFICES ASSUME NEW k \in 1..(n + 1), \A l \in (k + 1)..(n + 1) : p[l].ts2mm # p[k].ts2mm
               PROVE  logged'[p[k].ts2mm] = p[k].to
    OBVIOUS
  <2>1. CASE k \in 1..n
    <3>1. n + 1 \in (k + 1)..(n + 1) /\ \A l \in (k + 1)..n : l \in (k + 1)..(n + 1) /\ l \in 1..n BY <2>1
    <3>2. c.ts2mm # q[k].ts2mm BY <2>1, <3>1, <1>3, <1>4
    <3>3. \A l \in (k + 1)..n : q[l].ts2mm # q[k].ts2mm BY <2>1, <3>1, <1>3
    <3>4. logged[q[k].ts2mm] = q[k].to BY <2>1, <3>3, <1>1 DEF QueueInv
    <3> QED BY <2>1, <3>2, <3>4, <1>3, <1>6, <1>7
  <2>2. CASE k = n + 1 BY <2>2, <1>4, <1>6
  <2>3. k \in 1..n \/ k = n + 1 OBVIOUS
  <2> QED BY <2>1, <2>2, <2>3
<1>12. \A b \in TS2MM : (\A k \in 1..(n + 1) : p[k].ts2mm # b) => Expected(b)' = logged'[b]
  <2> SUFFICES ASSUME NEW b \in TS2MM, \A k \in 1..(n + 1) : p[k].ts2mm # b
               PROVE  Expected(b)' = logged'[b]
    OBVIOUS
  <2>1. n + 1 \in 1..(n + 1) /\ \A k \in 1..n : k \in 1..(n + 1) OBVIOUS
  <2>2. b # c.ts2mm /\ \A k \in 1..n : q[k].ts2mm # b BY <2>1, <1>3, <1>4
  <2> QED BY <2>2, <1>1, <1>5, <1>6 DEF QueueInv
<1>14. InHand' => Continues(proc.chunk.ts2mm, delivered[proc.chunk.ts2mm], proc.chunk.from)'
  BY <1>8 DEF Continues
<1>15. \A b \in TS2MM : \A k \in 1..(n + 1) :
         p[k].ts2mm = b /\ (\A j \in 1..(k - 1) : p[j].ts2mm # b)
           => Continues(b, Expected(b), data_queue[k].from)'
  BY <1>5, <1>9 DEF Continues
<1>16. \A j \in 1..(n + 1) : \A k \in (j + 1)..(n + 1) :
         p[j].ts2mm = p[k].ts2mm /\ (\A l \in (j + 1)..(k - 1) : p[l].ts2mm # p[k].ts2mm)
           => Continues(data_queue[k].ts2mm, data_queue[j].to, data_queue[k].from)'
  BY <1>10 DEF Continues
<1> QED BY <1>2, <1>14, <1>15, <1>16, <1>11, <1>12 DEF QueueInv

\* process_trace takes the first chunk: it starts where its data mover's
\* processed words end.
LEMMA QueuePop ==
  ASSUME TypeOK, QueueInv, ~InHand, data_queue # <<>>,
         data_queue' = Tail(data_queue),
         InHand', proc'.chunk = Head(data_queue),
         UNCHANGED <<logged, delivered, abandoned>>
  PROVE  QueueInv'
<1>0. data_queue \in Seq(Chunk) BY DEF TypeOK, ReaderTypeOK
<1>1. PICK n \in Nat : n + 1 = Len(data_queue)
  <2>1. Len(data_queue) \in Nat /\ Len(data_queue) # 0 BY <1>0
  <2> QED BY <2>1
<1>2. Len(data_queue') = n BY <1>0, <1>1
<1>3. \A k \in 1..n : data_queue'[k] = data_queue[k + 1] BY <1>0, <1>1
<1>4. proc'.chunk = data_queue[1] /\ data_queue[1] \in Chunk BY <1>0, <1>1
<1> DEFINE q == data_queue
           p == data_queue'
<1>5. \A b : Expected(b) = delivered[b] BY DEF Expected
<1>6. \A b : Expected(b)' = IF q[1].ts2mm = b THEN q[1].to ELSE delivered[b]
  BY <1>4 DEF Expected
<1>7. 1 \in 1..(n + 1) /\ Continues(q[1].ts2mm, delivered[q[1].ts2mm], q[1].from)
  <2>1. 1 \in 1..(n + 1) /\ \A j \in 1..(1 - 1) : FALSE OBVIOUS
  <2>2. q[1].ts2mm \in TS2MM BY <1>4 DEF Chunk
  <2> QED BY <2>1, <2>2, <1>1, <1>5 DEF QueueInv
<1>8. \A b \in TS2MM : \A k \in 1..n :
        p[k].ts2mm = b /\ (\A j \in 1..(k - 1) : p[j].ts2mm # b)
          => Continues(b, IF q[1].ts2mm = b THEN q[1].to ELSE delivered[b], p[k].from)
  <2> SUFFICES ASSUME NEW b \in TS2MM, NEW k \in 1..n, p[k].ts2mm = b,
                      \A j \in 1..(k - 1) : p[j].ts2mm # b
               PROVE  Continues(b, IF q[1].ts2mm = b THEN q[1].to ELSE delivered[b], p[k].from)
    OBVIOUS
  <2>1. k + 1 \in 1..(n + 1) /\ (k + 1) - 1 = k /\ k + 1 \in (1 + 1)..(n + 1) OBVIOUS
  <2>2. \A j \in 2..k : q[j].ts2mm # b
    <3> SUFFICES ASSUME NEW j \in 2..k PROVE q[j].ts2mm # b OBVIOUS
    <3>1. j - 1 \in 1..(k - 1) /\ j - 1 \in 1..n /\ (j - 1) + 1 = j OBVIOUS
    <3> QED BY <3>1, <1>3
  <2>5. q[k + 1].ts2mm = b BY <1>3
  <2>3. CASE q[1].ts2mm = b
    <3>1. 1 + 1 = 2 OBVIOUS
    <3>2. Continues(q[k + 1].ts2mm, q[1].to, q[k + 1].from) BY <2>1, <2>2, <2>3, <2>5, <3>1, <1>1, <1>7 DEF QueueInv
    <3> QED BY <2>3, <2>5, <3>2, <1>3
  <2>4. CASE q[1].ts2mm # b
    <3>1. \A j \in 1..k : j = 1 \/ j \in 2..k OBVIOUS
    <3>2. \A j \in 1..((k + 1) - 1) : q[j].ts2mm # b BY <2>1, <2>2, <2>4, <3>1
    <3>3. Continues(b, Expected(b), q[k + 1].from) BY <2>1, <2>5, <3>2, <1>1 DEF QueueInv
    <3> QED BY <2>4, <3>3, <1>3, <1>5
  <2> QED BY <2>3, <2>4
<1>9. \A j \in 1..n : \A k \in (j + 1)..n :
         p[j].ts2mm = p[k].ts2mm /\ (\A l \in (j + 1)..(k - 1) : p[l].ts2mm # p[k].ts2mm)
           => Continues(p[k].ts2mm, p[j].to, p[k].from)
  <2> SUFFICES ASSUME NEW j \in 1..n, NEW k \in (j + 1)..n, p[j].ts2mm = p[k].ts2mm,
                      \A l \in (j + 1)..(k - 1) : p[l].ts2mm # p[k].ts2mm
               PROVE  Continues(p[k].ts2mm, p[j].to, p[k].from)
    OBVIOUS
  <2>1. j + 1 \in 1..(n + 1) /\ k + 1 \in ((j + 1) + 1)..(n + 1) /\ k \in 1..n OBVIOUS
  <2>2. ASSUME NEW l \in ((j + 1) + 1)..((k + 1) - 1) PROVE q[l].ts2mm # q[k + 1].ts2mm
    <3>1. l - 1 \in (j + 1)..(k - 1) /\ l - 1 \in 1..n /\ (l - 1) + 1 = l OBVIOUS
    <3> QED BY <2>1, <3>1, <1>3
  <2>3. q[j + 1].ts2mm = q[k + 1].ts2mm BY <2>1, <1>3
  <2>4. Continues(q[k + 1].ts2mm, q[j + 1].to, q[k + 1].from) BY <2>1, <2>2, <2>3, <1>1 DEF QueueInv
  <2> QED BY <2>1, <2>4, <1>3
<1>10. \A k \in 1..n :
         (\A l \in (k + 1)..n : p[l].ts2mm # p[k].ts2mm) => logged'[p[k].ts2mm] = p[k].to
  <2> SUFFICES ASSUME NEW k \in 1..n, \A l \in (k + 1)..n : p[l].ts2mm # p[k].ts2mm
               PROVE  logged'[p[k].ts2mm] = p[k].to
    OBVIOUS
  <2>1. k + 1 \in 1..(n + 1) OBVIOUS
  <2>2. ASSUME NEW l \in ((k + 1) + 1)..(n + 1) PROVE q[l].ts2mm # q[k + 1].ts2mm
    <3>1. l - 1 \in (k + 1)..n /\ l - 1 \in 1..n /\ (l - 1) + 1 = l OBVIOUS
    <3> QED BY <3>1, <1>3
  <2>3. logged[q[k + 1].ts2mm] = q[k + 1].to BY <2>1, <2>2, <1>1 DEF QueueInv
  <2> QED BY <2>3, <1>3
<1>11. \A b \in TS2MM : (\A k \in 1..n : p[k].ts2mm # b) => Expected(b)' = logged'[b]
  <2> SUFFICES ASSUME NEW b \in TS2MM, \A k \in 1..n : p[k].ts2mm # b
               PROVE  Expected(b)' = logged'[b]
    OBVIOUS
  <2>1. ASSUME NEW k \in 2..(n + 1) PROVE q[k].ts2mm # b
    <3>1. k - 1 \in 1..n /\ (k - 1) + 1 = k OBVIOUS
    <3> QED BY <3>1, <1>3
  <2>2. CASE q[1].ts2mm = b
    <3>1. 1 + 1 = 2 OBVIOUS
    <3>2. logged[b] = q[1].to BY <2>1, <2>2, <3>1, <1>1, <1>7 DEF QueueInv
    <3> QED BY <2>2, <3>2, <1>6
  <2>3. CASE q[1].ts2mm # b
    <3>1. \A k \in 1..(n + 1) : k = 1 \/ k \in 2..(n + 1) OBVIOUS
    <3>2. Expected(b) = logged[b] BY <2>1, <2>3, <3>1, <1>1 DEF QueueInv
    <3> QED BY <2>3, <3>2, <1>5, <1>6
  <2> QED BY <2>2, <2>3
<1>12. Continues(proc.chunk.ts2mm, delivered[proc.chunk.ts2mm], proc.chunk.from)'
  BY <1>4, <1>7 DEF Continues
<1>13. \A b \in TS2MM : \A k \in 1..n :
         p[k].ts2mm = b /\ (\A j \in 1..(k - 1) : p[j].ts2mm # b)
           => Continues(b, Expected(b), data_queue[k].from)'
  BY <1>6, <1>8 DEF Continues
<1>14. \A j \in 1..n : \A k \in (j + 1)..n :
         p[j].ts2mm = p[k].ts2mm /\ (\A l \in (j + 1)..(k - 1) : p[l].ts2mm # p[k].ts2mm)
           => Continues(data_queue[k].ts2mm, data_queue[j].to, data_queue[k].from)'
  BY <1>9 DEF Continues
<1> QED BY <1>2, <1>12, <1>13, <1>14, <1>10, <1>11 DEF QueueInv

\* The chunk in hand is given to the logger: its words become delivered.
LEMMA QueueDeliver ==
  ASSUME TypeOK, QueueInv, ProcessChunk
  PROVE  QueueInv'
<1>1. InHand /\ ~InHand' BY DEF ProcessChunk, InHand, ProcCall, ProcIdle
<1>2. proc.chunk.ts2mm \in TS2MM /\ delivered \in [TS2MM -> Nat] BY DEF TypeOK, Chunk
<1>3. \A b \in TS2MM : Expected(b)' = Expected(b)
  <2>1. TAKE b \in TS2MM
  <2>2. Expected(b)' = delivered'[b] BY <1>1 DEF Expected
  <2>3. delivered'[b] = IF proc.chunk.ts2mm = b THEN proc.chunk.to ELSE delivered[b]
    BY <1>2 DEF ProcessChunk
  <2> QED BY <1>1, <2>2, <2>3 DEF Expected
<1>4. UNCHANGED <<data_queue, logged, abandoned>> BY DEF ProcessChunk, readerVars
<1>5. \A b, x, y : Continues(b, x, y) => Continues(b, x, y)' BY <1>4 DEF Continues
<1> QED BY <1>1, <1>3, <1>4, <1>5 DEF QueueInv

\* The queue invariant is preserved by every step.
LEMMA QueueStep ==
  ASSUME IInv, [Next]_vars
  PROVE  QueueInv'
<1>0. TypeOK /\ ReaderTypeOK /\ ControlInv /\ ReaderInv /\ QueueInv /\ HandshakeInv
  BY DEF IInv, TypeOK
<1> USE DEF readerVars, pluginVars, threadVars, flagVars, loggerVars
<1>1. CASE ReaderStep
  <2>1. CASE SyncAndLog
    <3>1. PICK b \in TS2MM : b = reader.i BY <1>0 DEF ReaderTypeOK
    <3>2. buffers # <<>> BY <1>1, ReaderFrame
    <3>3. reader.pc = "sync" BY <2>1 DEF SyncAndLog
    <3>4. CursorInv(b) BY <1>0, <3>2 DEF ReaderInv
    <3>5. Continues(b, logged[b], buffers[b].rollover_count * BufSize[b] + buffers[b].offset)
      BY <3>1, <3>3, <3>4 DEF CursorInv
    <3>6. PICK base \in Nat : base = buffers[b].rollover_count * BufSize[b]
      BY <1>0, <3>2, CursorNat
    <3>7. buffers[b] \in BufferInfo /\ written[b] \in Nat BY <1>0, <3>2, CursorNat DEF ReaderTypeOK
    <3>8. PICK c : c = [ts2mm |-> b, from |-> base + buffers[b].offset,
                        to |-> base + buffers[b].used_size]
      OBVIOUS
    <3>9. c \in Chunk BY <3>6, <3>7, <3>8 DEF Chunk, BufferInfo
    <3>10. Continues(c.ts2mm, logged[c.ts2mm], c.from) BY <3>5, <3>6, <3>8
    <3>11. data_queue' = Append(data_queue, c) BY <2>1, <3>1, <3>6, <3>8 DEF SyncAndLog
    <3>12. logged' = [logged EXCEPT ![c.ts2mm] = c.to] BY <2>1, <3>1, <3>6, <3>8 DEF SyncAndLog
    <3>13. UNCHANGED <<proc, delivered, abandoned>> BY <1>1 DEF ReaderStep
    <3> QED BY <1>0, <3>9, <3>10, <3>11, <3>12, <3>13, QueueAppend
  <2>2. CASE SkipBuffer \/ LinearDone \/ SetRange \/ SyncNothing \/ SyncFails \/ AbortOverwritten
    <3>1. UNCHANGED <<data_queue, logged>>
      BY <2>2 DEF SkipBuffer, LinearDone, SetRange, SyncNothing, SyncFails, AbortOverwritten
    <3>2. UNCHANGED <<proc, delivered, abandoned>> BY <1>1 DEF ReaderStep
    <3> QED BY <1>0, <3>1, <3>2, QueueFrame
  <2> QED BY <1>1, <2>1, <2>2 DEF ReaderStep, ReadStep
<1>2. CASE Setup
  <2>1. UNCHANGED <<data_queue, delivered, logged, proc, abandoned>>
    BY <1>2 DEF Setup, InitTrace, InitFails, InitSkipped, StartTrace, SpawnProcess,
                StartClockTrain, InitS2MM
  <2> QED BY <1>0, <2>1, QueueFrame
<1>3. CASE Flush \/ Delete \/ Joined \/ Deleted \/ UNCHANGED vars
  <2>1. CASE FlushProcess
    <3>1. main = "read" /\ UNCHANGED <<data_queue, delivered, logged, abandoned>> BY <2>1 DEF FlushProcess
    <3>2. ~InHand
      <4>1. ~continuous_trace BY <1>0, <3>1 DEF ControlInv
      <4>2. pt = "none" BY <1>0, <4>1 DEF ControlInv
      <4> QED BY <1>0, <3>1, <4>2 DEF ControlInv, InHand
    <3>3. ~InHand' BY <2>1 DEF FlushProcess, InHand, ProcCall
    <3> QED BY <1>0, <3>1, <3>2, <3>3, QueueFrame
  <2>2. CASE FlushStop \/ FlushStopped \/ FlushRead \/ FlushEnd \/ FlushSkip \/ CheckFullness
             \/ Delete \/ Joined \/ Deleted \/ UNCHANGED vars
    <3>1. UNCHANGED <<data_queue, delivered, logged, proc, abandoned>>
      BY <2>2 DEF FlushStop, FlushStopped, FlushRead, FlushEnd, FlushSkip, CheckFullness, CallRead,
                  ReadTraceEnd, ResetS2MM, Delete, Joined, Deleted, vars
    <3> QED BY <1>0, <3>1, QueueFrame
  <2>3. CASE FlushThrows
    <3>1. UNCHANGED <<data_queue, delivered, logged, proc>> /\ abandoned \subseteq abandoned'
      BY <2>3 DEF FlushThrows
    <3> QED BY <1>0, <3>1, QueueFrame
  <2> QED BY <1>3, <2>1, <2>2, <2>3 DEF Flush
<1>4. CASE OtStep
  <2>1. UNCHANGED <<data_queue, delivered, logged, proc, abandoned>>
    BY <1>4 DEF OtStep, OtStart, OtPass, OtPassed, OtFinal, OtStopProcess, OtSpun, OtEnd,
                OtFinish, CallRead, ReadTraceEnd, ResetS2MM
  <2> QED BY <1>0, <2>1, QueueFrame
<1>5. CASE PtStep
  <2>1. CASE PtCall
    <3>1. pt = "loop" /\ UNCHANGED <<data_queue, delivered, logged, abandoned>> BY <2>1 DEF PtCall
    <3>2. ~InHand BY <1>0, <3>1 DEF ControlInv, InHand
    <3>3. ~InHand' BY <2>1 DEF PtCall, InHand, ProcCall
    <3> QED BY <1>0, <3>1, <3>2, <3>3, QueueFrame
  <2>2. CASE PtStart \/ PtReady \/ PtBack \/ PtDone
    <3>1. UNCHANGED <<data_queue, delivered, logged, proc, abandoned>>
      BY <2>2 DEF PtStart, PtReady, PtBack, PtDone
    <3> QED BY <1>0, <3>1, QueueFrame
  <2> QED BY <1>5, <2>1, <2>2 DEF PtStep
<1>6. CASE ProcStep
  <2>1. CASE PopChunk
    <3>1. ~InHand /\ InHand' /\ proc'.chunk = Head(data_queue) BY <2>1 DEF PopChunk, InHand
    <3>2. data_queue # <<>> /\ data_queue' = Tail(data_queue) /\ UNCHANGED <<logged, delivered, abandoned>>
      BY <2>1 DEF PopChunk
    <3> QED BY <1>0, <3>1, <3>2, QueuePop
  <2>2. CASE PopNothing
    <3>1. ~InHand /\ ~InHand' /\ UNCHANGED <<data_queue, delivered, logged, abandoned>>
      BY <2>2 DEF PopNothing, InHand, ProcIdle
    <3> QED BY <1>0, <3>1, QueueFrame
  <2>3. CASE ProcessChunk BY <1>0, <2>3, QueueDeliver
  <2> QED BY <1>6, <2>1, <2>2, <2>3 DEF ProcStep
<1>7. CASE Dma
  <2>1. UNCHANGED <<data_queue, delivered, logged, proc, abandoned>> BY <1>7 DEF Dma, DmaWrite
  <2> QED BY <1>0, <2>1, QueueFrame
<1> QED BY <1>1, <1>2, <1>3, <1>4, <1>5, <1>6, <1>7 DEF Next

-----------------------------------------------------------------------------
(* The theorems                                                            *)

\* A freshly constructed offloader satisfies the invariant.
LEMMA IInvInit == Init => IInv
<1> SUFFICES ASSUME Init PROVE IInv OBVIOUS
<1> USE DEF Init, ReaderInit, ReaderIdle, ProcIdle
<1>1. TypeOK BY TypeInit
<1>2. ControlInv BY DEF ControlInv
<1>3. StartInv BY DEF StartInv
<1>4. ReaderInv BY DEF ReaderInv
<1>5. QueueInv BY DEF QueueInv, Expected, InHand
<1>6. HandshakeInv BY DEF HandshakeInv, InHand
<1> QED BY <1>1, <1>2, <1>3, <1>4, <1>5, <1>6 DEF IInv

\* Every step of every thread preserves the invariant.
LEMMA IInvStep == IInv /\ [Next]_vars => IInv'
<1> SUFFICES ASSUME IInv, [Next]_vars PROVE IInv' OBVIOUS
<1>1. TypeOK' BY TypeStep
<1>2. ControlInv' BY ControlStep
<1>3. StartInv' BY StartStep
<1>4. ReaderInv' BY ReaderInvStep
<1>5. QueueInv' BY QueueStep
<1>6. HandshakeInv' BY HandshakeStep
<1> QED BY <1>1, <1>2, <1>3, <1>4, <1>5, <1>6 DEF IInv

\* IInv holds in every reachable state.
THEOREM Invariance == Spec => []IInv
BY IInvInit, IInvStep, PTL DEF Spec

\* Type correctness; with it, no cursor of read_trace_s2mm ever wraps below
\* zero, whatever the sizes of the buffers and the pace of the data movers.
THEOREM TypeCorrect == Spec => []TypeOK
<1>1. IInv => TypeOK BY DEF IInv
<1> QED BY <1>1, Invariance, PTL

\* process_trace hands the words of every data mover to the logger in order,
\* none twice and none left out.
THEOREM InOrderDelivery == Spec => []InOrder
<1>1. IInv => InOrder BY DEF IInv, QueueInv, InOrder
<1> QED BY <1>1, Invariance, PTL

\* Every sync of read_trace_s2mm stays inside the allocated buffer.
THEOREM RangeSafe == Spec => []RangeInBuffer
<1>1. IInv => RangeInBuffer
  <2> SUFFICES ASSUME IInv, buffers # <<>>
               PROVE  /\ \A b \in TS2MM : buffers[b].offset <= BufSize[b] /\ buffers[b].used_size <= BufSize[b]
                      /\ reader.pc = "sync" => buffers[reader.i].offset <= buffers[reader.i].used_size
    BY DEF RangeInBuffer
  <2>1. \A b \in TS2MM : CursorInv(b) BY DEF IInv, ReaderInv
  <2>2. reader.i \in TS2MM BY DEF IInv, TypeOK, ReaderTypeOK
  <2> QED BY <2>1, <2>2 DEF CursorInv
<1> QED BY <1>1, Invariance, PTL

\* The handshake of the two threads works: when read_trace_end has added the
\* approximated end events, everything that was read has been processed.
THEOREM QuietAfterEnd == Spec => []EndedQuiet
<1>1. IInv => EndedQuiet
  <2> SUFFICES ASSUME IInv, ended
               PROVE  data_queue = <<>> /\ ~InHand /\ reader.pc = "idle" /\ delivered = logged
    BY DEF EndedQuiet
  <2>1. buffers = <<>> /\ data_queue = <<>> /\ ~InHand BY DEF IInv, HandshakeInv
  <2>2. reader.pc = "idle" BY <2>1 DEF IInv, ControlInv
  <2>3. \A b \in TS2MM : delivered[b] = logged[b]
    <3>1. \A b \in TS2MM : Expected(b) = logged[b] BY <2>1 DEF IInv, QueueInv
    <3> QED BY <2>1, <3>1 DEF Expected
  <2>4. delivered \in [TS2MM -> Nat] /\ logged \in [TS2MM -> Nat] BY DEF IInv, TypeOK, ReaderTypeOK
  <2>5. delivered = logged
    <3>1. delivered = [b \in TS2MM |-> delivered[b]] BY <2>4
    <3>2. logged = [b \in TS2MM |-> logged[b]] BY <2>4
    <3>3. [b \in TS2MM |-> delivered[b]] = [b \in TS2MM |-> logged[b]] BY <2>3, Zenon
    <3> QED BY <3>1, <3>2, <3>3, Zenon
  <2> QED BY <2>1, <2>2, <2>5
<1> QED BY <1>1, Invariance, PTL

-----------------------------------------------------------------------------
(* What the final read leaves: EndIInv                                     *)

\* A step of read_trace_s2mm touches the state of the buffer it is at.
LEMMA ReadFrame ==
  ASSUME IInv, ReaderStep, NEW b \in TS2MM, b = reader.i
  PROVE  /\ UNCHANGED <<written, use_circ_buf, ot, main, ended, markedFull, outOfRange>>
         /\ \A c \in TS2MM \ {b} :
              buffers'[c] = buffers[c] /\ logged'[c] = logged[c] /\ dmaOn'[c] = dmaOn[c]
         /\ \A c \in TS2MM : dmaOn'[c] => dmaOn[c]
         /\ reader \in [pc : {"idle", "check", "sync"}, i : TS2MM, force : BOOLEAN, rest : Nat]
         /\ buffers # <<>> /\ buffers \in [TS2MM -> BufferInfo] /\ logged \in [TS2MM -> Nat]
         /\ CursorInv(b) /\ ~ended /\ written[b] \in Nat
<1>0. TypeOK /\ ReaderTypeOK /\ ControlInv /\ ReaderInv /\ HandshakeInv BY DEF IInv, TypeOK
<1>1. buffers # <<>> /\ buffers \in [TS2MM -> BufferInfo] /\ logged \in [TS2MM -> Nat]
      /\ dmaOn \in [TS2MM -> BOOLEAN] /\ written[b] \in Nat
  BY <1>0, ReaderFrame DEF ReaderTypeOK
<1>2. UNCHANGED <<written, use_circ_buf, ot, main, ended, markedFull, outOfRange>>
  BY DEF ReaderStep, ReadStep, SkipBuffer, LinearDone, SetRange, SyncNothing, SyncFails,
         SyncAndLog, AbortOverwritten, threadVars, pluginVars, loggerVars
<1>3. \A c \in TS2MM \ {b} : buffers'[c] = buffers[c] /\ logged'[c] = logged[c]
  BY <1>1 DEF ReaderStep, ReadStep, SkipBuffer, LinearDone, SetRange,
         SyncNothing, SyncFails, SyncAndLog, AbortOverwritten
<1>4. UNCHANGED dmaOn \/ FlushDma(b)
  BY DEF ReaderStep, ReadStep, SkipBuffer, LinearDone, SetRange,
         SyncNothing, SyncFails, SyncAndLog, AbortOverwritten
<1>5. /\ \A c \in TS2MM \ {b} : dmaOn'[c] = dmaOn[c]
      /\ \A c \in TS2MM : dmaOn'[c] => dmaOn[c]
  BY <1>1, <1>4 DEF FlushDma
<1>6. CursorInv(b) /\ ~ended BY <1>0, <1>1 DEF ReaderInv, HandshakeInv
<1>7. reader \in [pc : {"idle", "check", "sync"}, i : TS2MM, force : BOOLEAN, rest : Nat]
  BY <1>0 DEF ReaderTypeOK
<1> QED BY <1>1, <1>2, <1>3, <1>5, <1>6, <1>7

\* full and the laps of the buffer that a step of read_trace_s2mm is at.
LEMMA FullReads ==
  ASSUME IInv, FullInv, ReaderStep
  PROVE  FullInv'
<1>1. PICK b \in TS2MM : b = reader.i BY DEF IInv, TypeOK, ReaderTypeOK
<1>2. /\ UNCHANGED <<written, use_circ_buf, ended, markedFull>>
      /\ \A c \in TS2MM \ {b} : buffers'[c] = buffers[c] /\ logged'[c] = logged[c]
      /\ buffers # <<>> /\ buffers \in [TS2MM -> BufferInfo] /\ logged \in [TS2MM -> Nat]
      /\ CursorInv(b) /\ ~ended /\ written[b] \in Nat
  BY <1>1, ReadFrame
<1>a. TypeOK BY DEF IInv
<1>3. PICK S \in Nat \ {0} : S = BufSize[b] BY SizeAssumption
<1>4. PICK r \in Nat : r = buffers[b].rollover_count BY <1>2 DEF BufferInfo
<1>5. PICK fu \in BOOLEAN : fu = buffers[b].full BY <1>2 DEF BufferInfo
<1>6. /\ fu <=> ~use_circ_buf /\ logged[b] = S
      /\ ~use_circ_buf => r = 0
  BY <1>2, <1>3, <1>4, <1>5 DEF FullInv
<1>7. SUFFICES /\ buffers'[b].full <=> ~use_circ_buf /\ logged'[b] = S
               /\ ~use_circ_buf => buffers'[b].rollover_count = 0
  BY <1>2, <1>3 DEF FullInv, FullMarker
<1>8. CASE SkipBuffer \/ SyncNothing
  <2>1. UNCHANGED <<buffers, logged>> BY <1>8 DEF SkipBuffer, SyncNothing
  <2> QED BY <1>4, <1>5, <1>6, <2>1
<1>9. CASE LinearDone \/ SyncFails \/ AbortOverwritten
  <2>1. logged' = logged /\ buffers'[b].full = buffers[b].full
        /\ buffers'[b].rollover_count = buffers[b].rollover_count
    BY <1>1, <1>2, <1>9 DEF LinearDone, SyncFails, AbortOverwritten, BufferInfo
  <2> QED BY <1>4, <1>5, <1>6, <2>1
<1>10. CASE SetRange
  <2>1. PICK count : buffers' = [buffers EXCEPT ![b] = Advance(b, count)] /\ logged' = logged
                     /\ (buffers[b].used_size # S \/ use_circ_buf)
    BY <1>1, <1>3, <1>10 DEF SetRange
  <2>2. buffers'[b].full = buffers[b].full
        /\ (~use_circ_buf => buffers'[b].rollover_count = buffers[b].rollover_count + 0)
    BY <1>2, <1>3, <2>1 DEF Advance
  <2>3. r + 0 = r OBVIOUS
  <2> QED BY <1>4, <1>5, <1>6, <2>1, <2>2, <2>3
<1>11. CASE SyncAndLog
  <2> DEFINE bd == buffers[b]
             full == bd.full \/ (bd.used_size = BufSize[b] /\ ~use_circ_buf)
  <2>1. PICK u \in Nat, o \in Nat : u = bd.used_size /\ o = bd.offset BY <1>2 DEF BufferInfo
  <2>2. reader.pc = "sync" /\ o < u /\ logged'[b] = r * S + u
    BY <1>1, <1>2, <1>3, <1>4, <1>11, <2>1 DEF SyncAndLog
  <2>3. /\ buffers'[b].full = full
        /\ ~use_circ_buf => buffers'[b].rollover_count = r
    BY <1>1, <1>2, <1>4, <1>11 DEF SyncAndLog, BufferInfo
  <2>4. u <= S /\ logged[b] <= r * S + o
    BY <1>1, <1>2, <1>3, <1>4, <2>1, <2>2 DEF CursorInv, Continues
  <2>5. CASE use_circ_buf BY <1>5, <1>6, <2>3, <2>5
  <2>6. CASE ~use_circ_buf
    <3>1. r = 0 /\ r * S = 0 BY <1>6, <2>6
    <3>2. ~fu BY <1>2, <1>6, <2>2, <2>4, <3>1
    <3>3. full <=> u = S BY <1>3, <1>5, <2>1, <2>6, <3>2
    <3>4. r * S + u = u BY <3>1
    <3> HIDE DEF full
    <3> QED BY <2>2, <2>3, <2>6, <3>1, <3>3, <3>4
  <2> QED BY <2>5, <2>6
<1> QED BY <1>8, <1>9, <1>10, <1>11 DEF ReaderStep, ReadStep

\* The other steps: init_s2mm starts with nothing queued, and read_trace_end asks the
\* buffers before it clears them.
LEMMA FullStep ==
  ASSUME IInv, FreshInv, FullInv, [Next]_vars
  PROVE  FullInv'
<1>0. TypeOK /\ ReaderTypeOK /\ ControlInv /\ StartInv /\ HandshakeInv BY DEF IInv, TypeOK
<1> USE DEF readerVars, pluginVars, threadVars, flagVars, loggerVars
<1>1. CASE ReaderStep BY <1>1, FullReads
<1>2. CASE InitTrace \/ InitFails
  <2>1. main = "new" /\ buffers' = [b \in TS2MM |-> NewBuffer]
        /\ UNCHANGED <<written, logged, ended, markedFull>>
    BY <1>2 DEF InitTrace, InitFails, InitS2MM
  <2>2. \A b \in TS2MM : logged[b] = 0 /\ written[b] = 0 /\ BufSize[b] \in Nat \ {0}
    BY <2>1, <1>0, SizeAssumption DEF StartInv, FreshInv
  <2>3. \A b \in TS2MM : buffers'[b].full = FALSE /\ buffers'[b].rollover_count = 0
    BY <2>1 DEF NewBuffer
  <2>4. ~ended BY <1>0, <2>1 DEF ControlInv
  <2> QED BY <2>1, <2>2, <2>3, <2>4 DEF FullInv, FullMarker
<1>3. CASE OtEnd \/ FlushEnd
  <2>1. ReadTraceEnd BY <1>3 DEF OtEnd, FlushEnd
  <2>2. buffers' = <<>> /\ ended' = TRUE /\ UNCHANGED <<written, logged, use_circ_buf>>
    BY <2>1 DEF ReadTraceEnd, ResetS2MM
  <2>3. FullMarker'
    <3>1. CASE buffers = <<>> BY <2>1, <3>1 DEF ReadTraceEnd, FullMarker
    <3>2. CASE buffers # <<>>
      <4>1. markedFull' = (markedFull \/ \E b \in TS2MM : buffers[b].full)
        BY <2>1, <3>2 DEF ReadTraceEnd
      <4>2. ~markedFull BY <1>0, <3>2 DEF HandshakeInv, FullInv
      <4>3. \A b \in TS2MM : buffers[b].full <=> ~use_circ_buf /\ logged[b] = BufSize[b]
        BY <3>2 DEF FullInv
      <4> QED BY <2>2, <4>1, <4>2, <4>3 DEF FullMarker
    <3> QED BY <3>1, <3>2
  <2> QED BY <2>2, <2>3 DEF FullInv
<1>4. CASE Dma
  <2>1. PICK d \in TS2MM : DmaWrite(d) BY <1>4 DEF Dma
  <2>2. /\ written' = [written EXCEPT ![d] = @ + 1] /\ (use_circ_buf \/ written[d] < BufSize[d])
        /\ UNCHANGED <<buffers, logged, use_circ_buf, ended, markedFull, outOfRange>>
    BY <1>4, <2>1 DEF Dma, DmaWrite
  <2>3. written \in [TS2MM -> Nat] /\ BufSize \in [TS2MM -> Nat \ {0}]
    BY <1>0, SizeAssumption DEF ReaderTypeOK
  <2>4. ~use_circ_buf => \A b \in TS2MM : written'[b] <= BufSize[b]
    BY <2>2, <2>3 DEF FullInv
  <2> QED BY <2>2, <2>4 DEF FullInv, FullMarker
<1>5. CASE /\ UNCHANGED <<buffers, logged, written, use_circ_buf, ended, markedFull>>
           /\ outOfRange => outOfRange'
  BY <1>5 DEF FullInv, FullMarker
<1>6. CASE InitSkipped \/ StartTrace \/ SpawnProcess \/ StartClockTrain
  BY <1>6, <1>5 DEF InitSkipped, StartTrace, SpawnProcess, StartClockTrain
<1>7. CASE FlushStop \/ FlushStopped \/ FlushThrows \/ FlushProcess \/ FlushSkip
           \/ Delete \/ Joined \/ Deleted \/ UNCHANGED vars
  BY <1>7, <1>5 DEF FlushStop, FlushStopped, FlushThrows, FlushProcess, FlushSkip,
                    Delete, Joined, Deleted, vars
<1>10. CASE FlushRead \/ CheckFullness
  <2>1. UNCHANGED <<buffers, logged, written, use_circ_buf, ended, markedFull>>
    BY <1>10 DEF FlushRead, CheckFullness, CallRead
  <2>2. outOfRange => outOfRange' BY <1>10 DEF FlushRead, CheckFullness
  <2> QED BY <1>5, <2>1, <2>2
<1>8. CASE OtStart \/ OtPass \/ OtPassed \/ OtFinal \/ OtStopProcess \/ OtSpun \/ OtFinish
  BY <1>8, <1>5 DEF OtStart, OtPass, OtPassed, OtFinal, OtStopProcess, OtSpun, OtFinish, CallRead
<1>9. CASE PtStep \/ ProcStep
  BY <1>9, <1>5 DEF PtStep, PtStart, PtReady, PtCall, PtBack, PtDone, ProcStep, PopChunk,
                    PopNothing, ProcessChunk
<1> QED BY <1>1, <1>2, <1>3, <1>4, <1>6, <1>7, <1>8, <1>9, <1>10 DEF Next, Setup, Flush, OtStep

\* Before the buffers are initialized no data mover runs.
LEMMA FreshStep ==
  ASSUME IInv, FreshInv, [Next]_vars
  PROVE  FreshInv'
<1>0. ControlInv BY DEF IInv
<1> SUFFICES ASSUME main' = "new" PROVE \A b \in TS2MM : written'[b] = 0 /\ ~dmaOn'[b]
  BY DEF FreshInv
<1> USE DEF readerVars, pluginVars, threadVars, flagVars, loggerVars
<1>1. CASE ReaderStep
  <2>1. main = "new" BY <1>1 DEF ReaderStep
  <2> QED BY <1>0, <1>1, <2>1, ReaderFrame DEF ControlInv
<1>2. CASE Dma
  <2>1. main = "new" BY <1>2 DEF Dma
  <2>2. \A b \in TS2MM : ~dmaOn[b] BY <2>1 DEF FreshInv
  <2> QED BY <1>2, <2>2 DEF Dma, DmaWrite
<1>3. CASE OtEnd \/ FlushEnd
  <2>1. main = "new" BY <1>0, <1>3 DEF OtEnd, FlushEnd
  <2> QED BY <1>0, <1>3, <2>1 DEF ControlInv, OtEnd, FlushEnd
<1>4. CASE Setup \/ Flush \/ Delete \/ Joined
  BY <1>3, <1>4 DEF Setup, InitTrace, InitFails, InitSkipped, StartTrace, SpawnProcess, StartClockTrain,
              Flush, FlushStop, FlushStopped, FlushRead, FlushThrows, FlushProcess,
              FlushSkip, CheckFullness, Delete, Joined
<1>5. CASE OtStart \/ OtPass \/ OtPassed \/ OtFinal \/ OtStopProcess \/ OtSpun \/ OtFinish
           \/ PtStep \/ ProcStep \/ Deleted \/ UNCHANGED vars
  <2>1. UNCHANGED <<main, written, dmaOn>>
    BY <1>5 DEF OtStart, OtPass, OtPassed, OtFinal, OtStopProcess, OtSpun, OtFinish, CallRead,
                PtStep, PtStart, PtReady, PtCall, PtBack, PtDone, ProcStep, PopChunk,
                PopNothing, ProcessChunk, Deleted, vars
  <2> QED BY <2>1 DEF FreshInv
<1> QED BY <1>1, <1>2, <1>3, <1>4, <1>5 DEF Next, OtStep

\* What FinalInv says of one buffer.
FinalOK(b) ==
  /\ buffers[b].offload_done => Lost(b) \/ AtLinearEnd(b)
  /\ reader.pc = "sync" /\ reader.i = b /\ reader.force =>
       ~dmaOn[b] /\ BytesRead(b) + reader.rest = written[b]
  /\ Passed(b) => Complete(b) \/ \E c \in TS2MM : Lost(c)

\* FinalInv is kept when buffers and data movers are left alone and the final read
\* comes past no buffer.
LEMMA FinalFrame ==
  ASSUME FinalInv, UNCHANGED <<buffers, logged, written, dmaOn, use_circ_buf>>,
         reader'.pc = "sync" => reader' = reader,
         \A b \in TS2MM : buffers # <<>> /\ Passed(b)' => Passed(b)
  PROVE  FinalInv'
<1> SUFFICES ASSUME buffers' # <<>>, Version2, NEW b \in TS2MM PROVE FinalOK(b)'
  BY DEF FinalInv, FinalOK
<1>1. FinalOK(b) BY DEF FinalInv, FinalOK
<1>2. \A c \in TS2MM : Lost(c)' = Lost(c) /\ Complete(c)' = Complete(c) /\ AtLinearEnd(c)' = AtLinearEnd(c)
                       /\ BytesRead(c)' = BytesRead(c)
  BY DEF Lost, Complete, AtLinearEnd, BytesRead
<1>3. Passed(b)' => Complete(b)' \/ \E c \in TS2MM : Lost(c)' BY <1>1, <1>2 DEF FinalOK
<1>4. buffers'[b].offload_done => Lost(b)' \/ AtLinearEnd(b)' BY <1>1, <1>2 DEF FinalOK
<1>5. reader'.pc = "sync" /\ reader'.i = b /\ reader'.force =>
        ~dmaOn'[b] /\ BytesRead(b)' + reader'.rest = written'[b]
  BY <1>1, <1>2 DEF FinalOK
<1> QED BY <1>3, <1>4, <1>5 DEF FinalOK

\* A data mover that has been flushed, or is at the end of a linear buffer, writes no
\* more; a lapped buffer stays lapped.
LEMMA FinalDma ==
  ASSUME IInv, FullInv, FinalInv, Dma
  PROVE  FinalInv'
<1>1. PICK d \in TS2MM : DmaWrite(d) BY DEF Dma
<1>2. /\ written' = [written EXCEPT ![d] = @ + 1] /\ dmaOn[d]
      /\ use_circ_buf \/ written[d] < BufSize[d]
      /\ UNCHANGED <<buffers, use_circ_buf, reader, dmaOn, logged, ot, main>>
  BY <1>1 DEF Dma, DmaWrite, pluginVars, threadVars
<1>3. TypeOK /\ written \in [TS2MM -> Nat] /\ BufSize \in [TS2MM -> Nat \ {0}]
  BY SizeAssumption DEF IInv, TypeOK, ReaderTypeOK
<1> SUFFICES ASSUME buffers # <<>>, Version2, NEW b \in TS2MM PROVE FinalOK(b)'
  BY <1>2 DEF FinalInv, FinalOK
<1>4. FinalOK(b) BY DEF FinalInv, FinalOK
<1>5. \A c \in TS2MM : BytesRead(c) \in Nat /\ BytesRead(c)' = BytesRead(c)
  BY <1>2, <1>3, CursorNat DEF BytesRead
<1>6. \A c \in TS2MM : Lost(c) => Lost(c)'
  <2>1. \A c \in TS2MM : written[c] \in Nat /\ written'[c] \in Nat /\ written[c] <= written'[c]
                         /\ BufSize[c] \in Nat
    BY <1>2, <1>3
  <2> QED BY <1>2, <1>5, <2>1 DEF Lost
<1>7. AtLinearEnd(b) => AtLinearEnd(b)' /\ b # d
  BY <1>2, <1>3, <1>5 DEF AtLinearEnd
<1>8. ~dmaOn[b] => ~dmaOn'[b] /\ written'[b] = written[b] BY <1>2, <1>3
<1>9. Complete(b) => Complete(b)' BY <1>5, <1>7, <1>8 DEF Complete
<1>10. Passed(b)' => Passed(b) BY <1>2 DEF Passed
<1>11. Passed(b)' => Complete(b)' \/ \E c \in TS2MM : Lost(c)'
  BY <1>4, <1>6, <1>9, <1>10 DEF FinalOK
<1>12. buffers'[b].offload_done => Lost(b)' \/ AtLinearEnd(b)'
  BY <1>2, <1>4, <1>6, <1>7 DEF FinalOK
<1>13. reader'.pc = "sync" /\ reader'.i = b /\ reader'.force =>
         ~dmaOn'[b] /\ BytesRead(b)' + reader'.rest = written'[b]
  BY <1>2, <1>4, <1>5, <1>8 DEF FinalOK
<1> QED BY <1>11, <1>12, <1>13 DEF FinalOK

\* How a step of read_trace_s2mm leaves the buffer it is at: lost, at the end of a
\* linear buffer, read up to the count, or about to be copied.
ReadOutcome(b) ==
  \/ Lost(b)' /\ reader' \in {ReaderIdle, NextBuffer}
  \/ AtLinearEnd(b)' /\ reader' = NextBuffer
  \/ /\ ~buffers'[b].offload_done /\ reader' = NextBuffer
     /\ reader.force => ~dmaOn'[b] /\ BytesRead(b)' = written[b]
  \/ /\ ~buffers'[b].offload_done /\ reader'.pc = "sync" /\ reader'.i = b
     /\ reader.force => ~dmaOn'[b] /\ BytesRead(b)' + reader'.rest = written[b]

\* A forced read resets the data mover and takes its final count, so what it copies
\* and what is left over are all words of the buffer.
LEMMA RangeOutcome ==
  ASSUME IInv, SetRange, Version2, UNCHANGED written, NEW b \in TS2MM, b = reader.i,
         buffers \in [TS2MM -> BufferInfo], buffers # <<>>, CursorInv(b),
         reader \in [pc : {"idle", "check", "sync"}, i : TS2MM, force : BOOLEAN, rest : Nat]
  PROVE  ReadOutcome(b)
<1>0. TypeOK /\ ReaderTypeOK BY DEF IInv, TypeOK
<1>1. PICK count : count = WordCount(b, reader.force) OBVIOUS
<1>2. /\ reader.pc = "check" /\ ~buffers[b].offload_done /\ FlushDma(b)
      /\ ~Overwritten(b, count)
      /\ buffers' = [buffers EXCEPT ![b] = Advance(b, count)]
      /\ reader' = [reader EXCEPT !.pc = "sync", !.rest = Rollover(b, count)]
  BY <1>1 DEF SetRange
<1>3. reader'.pc = "sync" /\ reader'.i = b /\ reader'.rest = Rollover(b, count) BY <1>2
<1>4. buffers'[b] = Advance(b, count) BY <1>2
<1>5. ~buffers'[b].offload_done BY <1>2, <1>4 DEF Advance
<1>6. ASSUME reader.force PROVE ~dmaOn'[b] /\ BytesRead(b)' + reader'.rest = written[b]
  <2>1. count = written[b] /\ written[b] \in Nat BY <1>0, <1>1, <1>6 DEF WordCount, ReaderTypeOK
  <2>2. BytesRead(b) \in Nat /\ BufSize[b] \in Nat \ {0} BY <1>0, CursorNat
  <2>3. BytesRead(b) <= count /\ count <= BytesRead(b) + BufSize[b] /\ buffers[b].used_size <= BufSize[b]
    <3>1. BytesRead(b) + 0 = BytesRead(b) BY <2>2
    <3>2. BytesRead(b) <= written[b] /\ buffers[b].used_size <= BufSize[b]
      BY <1>2, <3>1 DEF CursorInv
    <3> QED BY <1>2, <2>1, <2>2, <3>2 DEF Overwritten
  <2>4. PICK a : a = Advance(b, count) OBVIOUS
  <2>5. PICK rest : rest = Rollover(b, count) OBVIOUS
  <2>6. a.rollover_count * BufSize[b] + a.used_size + rest = count
    BY <1>0, <2>1, <2>3, <2>4, <2>5, AdvanceFacts
  <2>7. BytesRead(b)' = a.rollover_count * BufSize[b] + a.used_size BY <1>4, <2>4 DEF BytesRead
  <2>8. ~dmaOn'[b]
    <3>1. dmaOn \in [TS2MM -> BOOLEAN] BY <1>0 DEF ReaderTypeOK
    <3> QED BY <1>2, <1>6, <3>1 DEF FlushDma
  <2> QED BY <1>3, <2>1, <2>5, <2>6, <2>7, <2>8
<1> QED BY <1>3, <1>5, <1>6 DEF ReadOutcome

\* An interval that has been copied: the words left over at the start of a circular
\* buffer are the next one, and otherwise there are none.
LEMMA LogOutcome ==
  ASSUME IInv, FullInv, SyncAndLog, Version2, UNCHANGED written, NEW b \in TS2MM, b = reader.i,
         buffers \in [TS2MM -> BufferInfo], buffers # <<>>, CursorInv(b),
         reader \in [pc : {"idle", "check", "sync"}, i : TS2MM, force : BOOLEAN, rest : Nat],
         reader.force => ~dmaOn[b] /\ BytesRead(b) + reader.rest = written[b]
  PROVE  ReadOutcome(b)
<1>0. TypeOK /\ ReaderTypeOK BY DEF IInv, TypeOK
<1> DEFINE bd == buffers[b]
           second == use_circ_buf /\ reader.rest > 0
           full == bd.full \/ (bd.used_size = BufSize[b] /\ ~use_circ_buf)
<1>1. PICK r \in Nat : r = bd.rollover_count BY DEF BufferInfo
<1>2. PICK u \in Nat : u = bd.used_size BY DEF BufferInfo
<1>3. PICK S \in Nat \ {0} : S = BufSize[b] BY SizeAssumption
<1>4. PICK k \in Nat : k = reader.rest OBVIOUS
<1>5. PICK w \in Nat : w = written[b] BY <1>0 DEF ReaderTypeOK
<1>6. r * S \in Nat /\ (r + 1) * S = r * S + S /\ BytesRead(b) = r * S + u
  BY <1>1, <1>2, <1>3 DEF BytesRead
<1>7. reader.pc = "sync" /\ ~bd.offload_done /\ (k > 0 => u = S) /\ UNCHANGED dmaOn
  BY <1>2, <1>3, <1>4 DEF SyncAndLog, CursorInv
<1>8. CASE second
  <2>1. reader' = [reader EXCEPT !.rest = 0] BY <1>8 DEF SyncAndLog
  <2>2. buffers'[b] = [used_size |-> k, offset |-> 0, rollover_count |-> r + 1,
                       full |-> full, offload_done |-> bd.offload_done]
    BY <1>1, <1>4, <1>8 DEF SyncAndLog
  <2>3. /\ buffers'[b].used_size = k /\ buffers'[b].rollover_count = r + 1
        /\ ~buffers'[b].offload_done
    BY <1>7, <2>2
  <2>4. reader'.pc = "sync" /\ reader'.i = b /\ reader'.rest = 0 BY <1>7, <2>1
  <2>5. BytesRead(b)' = r * S + S + k BY <1>3, <1>6, <2>3 DEF BytesRead
  <2>6. u = S BY <1>4, <1>7, <1>8
  <2>7. r * S + S + k + 0 = r * S + u + k BY <1>6, <2>6
  <2> QED BY <1>4, <1>6, <1>7, <2>3, <2>4, <2>5, <2>7 DEF ReadOutcome
<1>9. CASE ~second
  <2>1. reader' = NextBuffer /\ buffers'[b] = [bd EXCEPT !.full = full]
    BY <1>9 DEF SyncAndLog
  <2>2. buffers'[b].used_size = u /\ buffers'[b].rollover_count = r /\ ~buffers'[b].offload_done
    BY <1>1, <1>2, <1>7, <2>1 DEF BufferInfo
  <2>3. BytesRead(b)' = BytesRead(b) BY <1>1, <1>2, <2>2 DEF BytesRead
  <2>4. ASSUME reader.force PROVE BytesRead(b) = written[b]
    <3>1. r * S + u + k = w BY <1>4, <1>5, <1>6, <2>4
    <3>2. CASE use_circ_buf
      <4>1. k = 0 BY <1>4, <1>9, <3>2
      <4> QED BY <1>5, <1>6, <3>1, <4>1
    <3>3. CASE ~use_circ_buf
      <4>1. r = 0 /\ w <= S BY <1>1, <1>3, <1>5, <3>3 DEF FullInv
      <4>2. r * S = 0 BY <4>1
      <4>3. k = 0 BY <1>7, <3>1, <4>1, <4>2
      <4> QED BY <1>5, <1>6, <3>1, <4>3
    <3> QED BY <3>2, <3>3
  <2> QED BY <1>7, <2>1, <2>2, <2>3, <2>4 DEF ReadOutcome
<1> QED BY <1>8, <1>9

\* Every step of read_trace_s2mm has one of the outcomes.
LEMMA ReadOutcomes ==
  ASSUME IInv, FullInv, FinalInv, Version2, ReaderStep, NEW b \in TS2MM, b = reader.i
  PROVE  ReadOutcome(b)
<1>0. TypeOK /\ ReaderTypeOK BY DEF IInv, TypeOK
<1>1. /\ UNCHANGED <<written, use_circ_buf>> /\ written[b] \in Nat
      /\ reader \in [pc : {"idle", "check", "sync"}, i : TS2MM, force : BOOLEAN, rest : Nat]
      /\ buffers # <<>> /\ buffers \in [TS2MM -> BufferInfo] /\ logged \in [TS2MM -> Nat]
      /\ CursorInv(b)
  BY ReadFrame
<1>2. FinalOK(b) BY <1>1 DEF FinalInv, FinalOK
<1>3. /\ BytesRead(b) \in Nat /\ BufSize[b] \in Nat \ {0} /\ buffers[b].rollover_count * BufSize[b] \in Nat
      /\ BytesRead(b) = buffers[b].rollover_count * BufSize[b] + buffers[b].used_size
  BY <1>0, <1>1, CursorNat
<1>4. CASE SkipBuffer
  <2>1. buffers[b].offload_done /\ UNCHANGED <<buffers, logged>> /\ reader' = NextBuffer
    BY <1>4 DEF SkipBuffer
  <2>2. (Lost(b)' <=> Lost(b)) /\ (AtLinearEnd(b)' <=> AtLinearEnd(b))
    BY <1>1, <2>1 DEF Lost, AtLinearEnd, BytesRead
  <2> QED BY <1>2, <2>1, <2>2 DEF FinalOK, ReadOutcome
<1>5. CASE AbortOverwritten
  <2>1. /\ buffers' = [buffers EXCEPT ![b].offload_done = TRUE] /\ reader' = ReaderIdle
        /\ logged' = logged /\ WordCount(b, reader.force) > BytesRead(b) + BufSize[b]
    BY <1>5 DEF AbortOverwritten, Overwritten
  <2>2. buffers'[b].offload_done /\ BytesRead(b)' = BytesRead(b)
    BY <1>1, <2>1 DEF BytesRead, BufferInfo
  <2>3. WordCount(b, reader.force) \in Nat /\ WordCount(b, reader.force) <= written[b]
    BY <1>0, <1>1, WordCountFacts
  <2>4. written[b] > BytesRead(b) + BufSize[b] BY <1>1, <1>3, <2>1, <2>3
  <2> QED BY <1>1, <2>1, <2>2, <2>4 DEF ReadOutcome, Lost
<1>6. CASE LinearDone
  <2>1. /\ buffers' = [buffers EXCEPT ![b].offload_done = TRUE, ![b].offset = buffers[b].used_size]
        /\ reader' = NextBuffer /\ buffers[b].used_size = BufSize[b] /\ ~use_circ_buf
        /\ ~buffers[b].offload_done /\ reader.pc = "check"
    BY <1>6 DEF LinearDone
  <2>2. BytesRead(b)' = BytesRead(b) BY <1>1, <2>1 DEF BytesRead, BufferInfo
  <2>3. buffers[b].rollover_count = 0 /\ written[b] <= BufSize[b] BY <1>1, <2>1 DEF FullInv
  <2>4. BytesRead(b) = BufSize[b]
    <3>1. 0 * BufSize[b] = 0 BY <1>3
    <3> QED BY <1>3, <2>1, <2>3, <3>1
  <2>5. BytesRead(b) + 0 = BytesRead(b) BY <1>3
  <2>6. BytesRead(b) <= written[b] BY <1>1, <2>1, <2>5 DEF CursorInv
  <2>7. written[b] = BufSize[b] BY <1>1, <1>3, <2>3, <2>4, <2>6
  <2> QED BY <1>1, <2>1, <2>2, <2>4, <2>7 DEF ReadOutcome, AtLinearEnd
<1>7. CASE SetRange BY <1>1, <1>7, RangeOutcome
<1>8. CASE SyncNothing
  <2>1. reader.pc = "sync" /\ buffers[b].offset >= buffers[b].used_size
        /\ UNCHANGED <<buffers, dmaOn>> /\ reader' = NextBuffer
    BY <1>8 DEF SyncNothing
  <2>2. ~buffers[b].offload_done /\ reader.rest = 0
    <3>1. buffers[b].used_size \in Nat /\ buffers[b].offset \in Nat /\ reader.rest \in Nat
      BY <1>1 DEF BufferInfo
    <3>2. ~buffers[b].offload_done
          /\ (reader.rest > 0 => buffers[b].used_size = BufSize[b] /\ buffers[b].offset < BufSize[b])
      BY <1>1, <2>1 DEF CursorInv
    <3> QED BY <2>1, <3>1, <3>2
  <2>3. BytesRead(b)' = BytesRead(b) /\ BytesRead(b) + 0 = BytesRead(b) BY <1>3, <2>1 DEF BytesRead
  <2> QED BY <1>2, <2>1, <2>2, <2>3 DEF FinalOK, ReadOutcome
<1>9. CASE SyncFails
  <2>1. reader.pc = "sync" /\ buffers[b].offset < buffers[b].used_size
        /\ buffers' = [buffers EXCEPT ![b].offload_done = TRUE] /\ reader' = NextBuffer
        /\ logged' = logged
    BY <1>9 DEF SyncFails
  <2>2. buffers'[b].offload_done /\ BytesRead(b)' = BytesRead(b)
    BY <1>1, <2>1 DEF BytesRead, BufferInfo
  <2>3. logged[b] <= buffers[b].rollover_count * BufSize[b] + buffers[b].offset
    BY <1>1, <2>1 DEF CursorInv, Continues
  <2>4. buffers[b].used_size \in Nat /\ buffers[b].offset \in Nat /\ logged[b] \in Nat
    BY <1>1 DEF BufferInfo
  <2>5. logged[b] < BytesRead(b) BY <1>3, <2>1, <2>3, <2>4
  <2> QED BY <2>1, <2>2, <2>5 DEF ReadOutcome, Lost
<1>10. CASE SyncAndLog
  <2>1. reader.pc = "sync" BY <1>10 DEF SyncAndLog
  <2> QED BY <1>1, <1>2, <1>10, <2>1, LogOutcome DEF FinalOK
<1> QED BY <1>4, <1>5, <1>6, <1>7, <1>8, <1>9, <1>10 DEF ReaderStep, ReadStep

\* A finished buffer is left alone by read_trace_s2mm, so what is lost stays lost.
LEMMA LostKept ==
  ASSUME IInv, ReaderStep, NEW c \in TS2MM, Lost(c)
  PROVE  Lost(c)'
<1>1. PICK b \in TS2MM : b = reader.i BY DEF IInv, TypeOK, ReaderTypeOK
<1>2. /\ UNCHANGED written
      /\ \A d \in TS2MM \ {b} : buffers'[d] = buffers[d] /\ logged'[d] = logged[d]
      /\ CursorInv(b)
  BY <1>1, ReadFrame
<1>3. c = b => SkipBuffer
  BY <1>1, <1>2 DEF Lost, ReaderStep, ReadStep, LinearDone, SetRange, SyncNothing, SyncFails,
         SyncAndLog, AbortOverwritten, CursorInv
<1>4. buffers'[c] = buffers[c] /\ logged'[c] = logged[c]
  BY <1>2, <1>3 DEF SkipBuffer
<1> QED BY <1>2, <1>4 DEF Lost, BytesRead

\* The read leaves the buffers it has come past complete, and is given up only for one
\* that is lost.
LEMMA FinalReads ==
  ASSUME IInv, FullInv, FinalInv, ReaderStep
  PROVE  FinalInv'
<1>0. ControlInv /\ TypeOK BY DEF IInv
<1>1. PICK b \in TS2MM : b = reader.i BY DEF IInv, TypeOK, ReaderTypeOK
<1>2. /\ UNCHANGED <<written, use_circ_buf, ot, main>>
      /\ \A c \in TS2MM \ {b} :
           buffers'[c] = buffers[c] /\ logged'[c] = logged[c] /\ dmaOn'[c] = dmaOn[c]
      /\ reader \in [pc : {"idle", "check", "sync"}, i : TS2MM, force : BOOLEAN, rest : Nat]
      /\ buffers # <<>>
  BY <1>1, ReadFrame
<1>3. reader.pc # "idle" /\ (reader'.pc # "idle" => reader'.force = reader.force) BY ReaderFrame
<1>4. SUFFICES ASSUME Version2 PROVE \A c \in TS2MM : FinalOK(c)'
  BY DEF FinalInv, FinalOK
<1>5. ReadOutcome(b) BY <1>1, <1>4, ReadOutcomes
<1>6. \A c \in TS2MM : Lost(c) => Lost(c)' BY LostKept
<1>7. /\ NextBuffer.pc # "sync" /\ ReaderIdle.pc = "idle"
      /\ NextBuffer.pc = "idle" => b = NumTS2MM
      /\ NextBuffer.pc # "idle" => NextBuffer.i = b + 1
  BY <1>1, <1>2, NumAssumption DEF NextBuffer, ReaderIdle
<1> DEFINE final == ot = "final" \/ main = "read"
<1>8. \A c \in TS2MM : Passed(c) <=> final /\ c < b
  BY <1>0, <1>1, <1>3 DEF Passed, ControlInv
<1>9. final => reader.force BY <1>0, <1>3 DEF ControlInv
<1>10. \A c \in TS2MM : Passed(c)' <=> final /\ (reader'.pc = "idle" \/ c < reader'.i)
  BY <1>0, <1>2, <1>3 DEF Passed, ControlInv
<1> HIDE DEF final
<1>11. ASSUME NEW c \in TS2MM, c # b PROVE FinalOK(c)'
  <2>1. FinalOK(c) BY <1>2, <1>4 DEF FinalInv, FinalOK
  <2>2. BytesRead(c)' = BytesRead(c) BY <1>2, <1>11 DEF BytesRead
  <2>3. AtLinearEnd(c)' <=> AtLinearEnd(c) BY <1>2, <2>2 DEF AtLinearEnd
  <2>4. Complete(c)' <=> Complete(c) BY <1>2, <1>11, <2>2, <2>3 DEF Complete
  <2>5. ~(reader'.pc = "sync" /\ reader'.i = c) BY <1>5, <1>7, <1>11 DEF ReadOutcome
  <2>6. buffers'[c].offload_done => Lost(c)' \/ AtLinearEnd(c)'
    BY <1>2, <1>6, <1>11, <2>1, <2>3 DEF FinalOK
  <2>7. ASSUME Passed(c)' PROVE Complete(c)' \/ \E d \in TS2MM : Lost(d)'
    <3>1. CASE Lost(b)' BY <3>1
    <3>2. CASE c < b
      <4>1. Complete(c) \/ \E d \in TS2MM : Lost(d)
        BY <1>8, <1>10, <2>1, <2>7, <3>2 DEF FinalOK
      <4> QED BY <1>6, <2>4, <4>1
    <3>3. CASE ~Lost(b)' /\ c >= b
      <4>1. c > b BY <1>11, <3>3
      <4>2. reader' = NextBuffer \/ (reader'.pc = "sync" /\ reader'.i = b)
        BY <1>5, <3>3 DEF ReadOutcome
      <4> QED BY <1>7, <1>10, <2>7, <4>1, <4>2
    <3> QED BY <3>1, <3>2, <3>3
  <2> QED BY <2>5, <2>6, <2>7 DEF FinalOK
<1>12. FinalOK(b)'
  <2>1. CASE Lost(b)' /\ reader' \in {ReaderIdle, NextBuffer}
    <3>1. reader'.pc # "sync" BY <1>7, <2>1
    <3> QED BY <2>1, <3>1 DEF FinalOK
  <2>2. CASE AtLinearEnd(b)' /\ reader' = NextBuffer
    BY <1>7, <2>2 DEF FinalOK, Complete
  <2>3. CASE /\ ~buffers'[b].offload_done /\ reader' = NextBuffer
             /\ reader.force => ~dmaOn'[b] /\ BytesRead(b)' = written[b]
    <3>1. Passed(b)' => Complete(b)' BY <1>2, <1>9, <1>10, <2>3 DEF Complete
    <3> QED BY <1>7, <2>3, <3>1 DEF FinalOK
  <2>4. CASE /\ ~buffers'[b].offload_done /\ reader'.pc = "sync" /\ reader'.i = b
             /\ reader.force => ~dmaOn'[b] /\ BytesRead(b)' + reader'.rest = written[b]
    <3>1. ~Passed(b)' BY <1>10, <2>4
    <3> QED BY <1>2, <1>3, <2>4, <3>1 DEF FinalOK
  <2> QED BY <1>5, <2>1, <2>2, <2>3, <2>4 DEF ReadOutcome
<1> QED BY <1>11, <1>12

\* Every step keeps FinalInv: the calls start at the first buffer, and what follows
\* the final read leaves the buffers alone until read_trace_end clears them.
LEMMA FinalStep ==
  ASSUME IInv, FullInv, FinalInv, [Next]_vars
  PROVE  FinalInv'
<1>0. TypeOK /\ ControlInv BY DEF IInv
<1> USE DEF readerVars, pluginVars, threadVars, flagVars, loggerVars
<1>1. CASE ReaderStep BY <1>1, FinalReads
<1>2. CASE Dma BY <1>2, FinalDma
<1>3. CASE InitTrace \/ InitFails
  <2>1. main = "new" /\ buffers' = [b \in TS2MM |-> NewBuffer] /\ UNCHANGED <<reader, ot>>
        /\ main' \in {"ready", "deleted"}
    BY <1>3 DEF InitTrace, InitFails, InitS2MM
  <2>2. ot = "none" /\ reader.pc = "idle" BY <1>0, <2>1 DEF ControlInv
  <2>3. \A b \in TS2MM : ~Passed(b)' BY <2>1, <2>2 DEF Passed
  <2>4. \A b \in TS2MM : ~buffers'[b].offload_done BY <2>1 DEF NewBuffer
  <2> QED BY <2>1, <2>2, <2>3, <2>4 DEF FinalInv
<1>4. CASE OtEnd \/ FlushEnd
  BY <1>4 DEF OtEnd, FlushEnd, ReadTraceEnd, ResetS2MM, FinalInv
<1>5. CASE OtPass \/ OtFinal \/ FlushRead
  <2>1. \E f \in BOOLEAN : CallRead(f) BY <1>5 DEF OtPass, OtFinal, FlushRead
  <2>2. /\ UNCHANGED <<buffers, logged, written, dmaOn, use_circ_buf>> /\ reader'.pc # "sync"
        /\ buffers # <<>> => reader'.pc = "check" /\ reader'.i = 1
    BY <2>1 DEF CallRead, ReaderIdle
  <2>3. \A b \in TS2MM : ~(b < 1) BY NumAssumption
  <2>4. ot' \notin {"spin", "end"} /\ main' # "process"
    BY <1>0, <1>5 DEF OtPass, OtFinal, FlushRead, ControlInv
  <2>5. \A b \in TS2MM : buffers # <<>> => ~Passed(b)' BY <2>2, <2>3, <2>4 DEF Passed
  <2> QED BY <2>2, <2>5, FinalFrame
<1>6. CASE FlushThrows
  <2>1. /\ UNCHANGED <<buffers, logged, written, dmaOn, use_circ_buf, ot>> /\ reader'.pc # "sync"
        /\ main = "read" /\ main' = "check"
    BY <1>6 DEF FlushThrows, ReaderIdle
  <2>2. \A b \in TS2MM : ~Passed(b)' BY <1>0, <2>1 DEF Passed, ControlInv
  <2> QED BY <2>1, <2>2, FinalFrame
<1>7. CASE FlushProcess \/ OtStopProcess \/ OtSpun
  <2>1. UNCHANGED <<buffers, logged, written, dmaOn, use_circ_buf, reader>>
    BY <1>7 DEF FlushProcess, OtStopProcess, OtSpun
  <2>2. \A b \in TS2MM : Passed(b)' => Passed(b)
    BY <1>7 DEF FlushProcess, OtStopProcess, OtSpun, Passed
  <2> QED BY <2>1, <2>2, FinalFrame
<1>8. CASE /\ UNCHANGED <<buffers, logged, written, dmaOn, use_circ_buf, reader>>
           /\ ot' \in {"final", "spin", "end"} => ot' = ot
           /\ main' \in {"read", "process"} => main' = main
  <2>1. \A b \in TS2MM : Passed(b)' => Passed(b) BY <1>8 DEF Passed
  <2> QED BY <1>8, <2>1, FinalFrame
<1>9. CASE InitSkipped \/ StartTrace \/ SpawnProcess \/ StartClockTrain
  BY <1>9, <1>8 DEF InitSkipped, StartTrace, SpawnProcess, StartClockTrain
<1>10. CASE FlushStop \/ FlushStopped \/ FlushSkip \/ CheckFullness
            \/ Delete \/ Joined \/ Deleted \/ UNCHANGED vars
  BY <1>10, <1>8 DEF FlushStop, FlushStopped, FlushSkip, CheckFullness, Delete, Joined, Deleted, vars
<1>11. CASE OtStart \/ OtPassed \/ OtFinish
  BY <1>11, <1>8 DEF OtStart, OtPassed, OtFinish
<1>12. CASE PtStep \/ ProcStep
  BY <1>12, <1>8 DEF PtStep, PtStart, PtReady, PtCall, PtBack, PtDone, ProcStep, PopChunk,
                    PopNothing, ProcessChunk
<1> QED BY <1>1, <1>2, <1>3, <1>4, <1>5, <1>6, <1>7, <1>9, <1>10, <1>11, <1>12
        DEF Next, Setup, Flush, OtStep

\* The second invariant holds of every behaviour, on top of the first.
LEMMA EndInvariance == Spec => []EndIInv
<1>1. Init => EndIInv
  <2> SUFFICES ASSUME Init PROVE EndIInv OBVIOUS
  <2> USE DEF Init, ReaderInit
  <2>1. FreshInv BY DEF FreshInv
  <2>2. \A b \in TS2MM : written[b] <= BufSize[b]
    BY SizeAssumption
  <2>3. FullInv BY <2>2 DEF FullInv, FullMarker
  <2>4. FinalInv BY DEF FinalInv
  <2> QED BY <2>1, <2>3, <2>4 DEF EndIInv
<1>2. IInv /\ EndIInv /\ [Next]_vars => EndIInv'
  BY FreshStep, FullStep, FinalStep DEF EndIInv
<1> QED BY <1>1, <1>2, Invariance, PTL DEF Spec

\* addEventMarkers is told that a buffer is full exactly when a linear buffer has been
\* read to its end, whoever runs read_trace_end.
THEOREM FullMarkerRight == Spec => []FullMarker
<1>1. EndIInv => FullMarker BY DEF EndIInv, FullInv
<1> QED BY <1>1, EndInvariance, PTL

\* When read_trace_end runs, the logger has every word that the V2 data movers have
\* written, unless a sync failed or a data mover lapped the reader.
THEOREM FlushLeavesNothing == Spec => []NothingLeftBehind
<1>1. IInv /\ EndIInv => NothingLeftBehind
  <2> SUFFICES ASSUME IInv, EndIInv, AtEnd, Version2,
                      \A b \in TS2MM : /\ BytesRead(b) = logged[b]
                                        /\ written[b] <= BytesRead(b) + BufSize[b]
               PROVE  delivered = written
    BY DEF NothingLeftBehind
  <2>0. TypeOK /\ ReaderTypeOK /\ ControlInv /\ HandshakeInv /\ QueueInv BY DEF IInv, TypeOK
  <2>1. buffers # <<>> BY DEF AtEnd
  <2>2. data_queue = <<>> /\ ~InHand
    BY <2>0 DEF AtEnd, HandshakeInv, ControlInv, InHand
  <2>3. \A b \in TS2MM : delivered[b] = logged[b]
    <3>1. \A b \in TS2MM : Expected(b) = logged[b] BY <2>0, <2>2 DEF QueueInv
    <3> QED BY <2>2, <3>1 DEF Expected
  <2>4. \A c \in TS2MM : ~Lost(c)
    <3>1. \A c \in TS2MM : BytesRead(c) \in Nat /\ written[c] \in Nat /\ BufSize[c] \in Nat
      BY <2>0, <2>1, CursorNat DEF ReaderTypeOK
    <3> QED BY <3>1 DEF Lost
  <2>5. \A b \in TS2MM : BytesRead(b) = written[b]
    <3>1. \A b \in TS2MM : Passed(b) BY DEF AtEnd, Passed
    <3>2. \A b \in TS2MM : Complete(b) BY <2>1, <2>4, <3>1 DEF EndIInv, FinalInv
    <3> QED BY <3>2 DEF Complete, AtLinearEnd
  <2>6. \A b \in TS2MM : delivered[b] = written[b] BY <2>3, <2>5
  <2>7. delivered \in [TS2MM -> Nat] /\ written \in [TS2MM -> Nat] BY <2>0 DEF TypeOK, ReaderTypeOK
  <2>8. delivered = [b \in TS2MM |-> delivered[b]] /\ written = [b \in TS2MM |-> written[b]]
    BY <2>7
  <2>9. [b \in TS2MM |-> delivered[b]] = [b \in TS2MM |-> written[b]] BY <2>6, Zenon
  <2> QED BY <2>8, <2>9, Zenon
<1> QED BY <1>1, Invariance, EndInvariance, PTL

-----------------------------------------------------------------------------
(* The PL trace logger                                                     *)

\* What the queues and the set of open starts hold.
Kinds == {"cu", "int", "str", "ext", "tx", "starve", "stall", "read", "write"}
Entry == [type : Kinds, id : Nat \ {0}, dev : Nat]
CuEntry == [id : Nat \ {0}, dev : Nat]
Begun == [id : Nat \ {0}, mon : Mon, type : Kinds, host : Int]
Logs ==
  [cuStarts : [AM -> Seq(CuEntry)], traceIDs : [AM -> SUBSET Kinds], amLast : [AM -> Nat],
   aimLast : [AIM -> Nat], asmLast : [ASM -> Nat], db : [Mon -> Seq(Entry)], open : SUBSET Begun,
   wrong : SUBSET {"unmatched", "backwards"}, astray : BOOLEAN]

\* The start events that entries of the queues stand for.
StartOf(e, m) == [id |-> e.id, mon |-> m, type |-> e.type, host |-> 2 * e.dev]
CuStartOf(c, a) == [id |-> c.id, mon |-> <<"am", a>>, type |-> "cu", host |-> 2 * c.dev]
PortMons == {m \in Mon : m[1] \in {"read", "write"}}

\* Open starts are told apart by their ids.
OpenInv(L) == IsFiniteSet(L.open) /\ \A s, u \in L.open : s.id = u.id => s = u

\* A start that waits in PLDB is open, unless it is that of an execution, whose
\* end is found in cuStarts; no two entries stand for one start.
KnownInv(L, t) ==
  \A m \in Mon : \A k \in 1..Len(L.db[m]) :
    /\ L.db[m][k].dev <= t /\ L.db[m][k].type \in TypesOf(m)
    /\ L.db[m][k].type # "cu" => StartOf(L.db[m][k], m) \in L.open
DistinctInv(L) ==
  \A m \in Mon : \A j, k \in 1..Len(L.db[m]) :
    j # k /\ L.db[m][j].type # "cu" /\ L.db[m][k].type # "cu" => L.db[m][j].id # L.db[m][k].id

\* An execution in cuStarts is open, and there once.
UnitInv(L, t) ==
  \A a \in AM :
    /\ \A k \in 1..Len(L.cuStarts[a]) : L.cuStarts[a][k].dev <= t /\ CuStartOf(L.cuStarts[a][k], a) \in L.open
    /\ \A j, k \in 1..Len(L.cuStarts[a]) : j # k => L.cuStarts[a][j].id # L.cuStarts[a][k].id

\* PLDB knows the one open transfer of a port and direction.
PortInv(L) ==
  \A m \in PortMons :
    /\ Len(L.db[m]) <= 1
    /\ \A s \in L.open : s.mon = m => Len(L.db[m]) = 1 /\ s = StartOf(L.db[m][1], m)

\* The last activity of a unit is not before an execution of it, nor after t.
LastInv(L, t) ==
  /\ \A a \in AM : /\ L.amLast[a] <= t
                   /\ \A k \in 1..Len(L.cuStarts[a]) : L.cuStarts[a][k].dev <= L.amLast[a]
  /\ \A p \in AIM : L.aimLast[p] <= t
  /\ \A s \in ASM : L.asmLast[s] <= t

\* What every call of the logger keeps.
CoreInv(L, t) ==
  L \in Logs /\ L.wrong = {} /\ OpenInv(L) /\ KnownInv(L, t) /\ DistinctInv(L) /\ UnitInv(L, t) /\ PortInv(L)

\* The inductive invariant of the logger.
LogIInv ==
  /\ now \in Nat /\ phase \in {"trace", "ended"}
  /\ CoreInv(log, now)
  /\ phase = "trace" => LastInv(log, now)
  /\ TraceTiesOff

\* Induction over the naturals, for sets.
LEMMA Induct ==
  ASSUME NEW S, 0 \in S, \A n \in Nat : n \in S => n + 1 \in S
  PROVE  \A n \in Nat : n \in S
<1> SUFFICES ASSUME NEW n \in Nat, n \notin S PROVE FALSE OBVIOUS
<1>1. IsWellFoundedOn(OpToRel(<, Nat), Nat) BY NatLessThanWellFounded
<1>2. PICK m \in Nat \ S : \A y \in Nat \ S : ~(<<y, m>> \in OpToRel(<, Nat)) BY <1>1, WFMin
<1>3. m # 0 /\ m - 1 \in Nat /\ m - 1 < m
  <2>1. m \in Nat /\ m # 0 OBVIOUS
  <2> QED BY <2>1
<1>4. m - 1 \notin S
  <2>1. (m - 1) + 1 = m BY <1>3
  <2> QED BY <1>2, <1>3, <2>1
<1>5. <<m - 1, m>> \in Nat \X Nat BY <1>3
<1>6. <<m - 1, m>> \in OpToRel(<, Nat) BY <1>3, <1>5 DEF OpToRel
<1> QED BY <1>2, <1>3, <1>4, <1>6

\* The values of a function on a finite set are finitely many.
LEMMA FiniteValues ==
  ASSUME NEW S, IsFiniteSet(S), NEW f, f = [x \in S |-> f[x]]
  PROVE  IsFiniteSet({f[x] : x \in S})
<1> DEFINE T == {f[x] : x \in S}
<1>1. f \in Surjection(S, T)
  <2>1. f \in [S -> T] OBVIOUS
  <2> QED BY <2>1 DEF Surjection
<1> QED BY <1>1, FS_Surjection

\* There are finitely many trace ids.
LEMMA FiniteMon == IsFiniteSet(Mon)
<1>1. IsFiniteSet({<<"am", a>> : a \in AM})
  <2> DEFINE f == [a \in AM |-> <<"am", a>>]
  <2>1. IsFiniteSet({f[a] : a \in AM}) BY FiniteValues, MonitorAssumption
  <2>2. {f[a] : a \in AM} = {<<"am", a>> : a \in AM} OBVIOUS
  <2> QED BY <2>1, <2>2
<1>2. IsFiniteSet({<<"read", a>> : a \in AIM})
  <2> DEFINE f == [a \in AIM |-> <<"read", a>>]
  <2>1. IsFiniteSet({f[a] : a \in AIM}) BY FiniteValues, MonitorAssumption
  <2>2. {f[a] : a \in AIM} = {<<"read", a>> : a \in AIM} OBVIOUS
  <2> QED BY <2>1, <2>2
<1>3. IsFiniteSet({<<"write", a>> : a \in AIM})
  <2> DEFINE f == [a \in AIM |-> <<"write", a>>]
  <2>1. IsFiniteSet({f[a] : a \in AIM}) BY FiniteValues, MonitorAssumption
  <2>2. {f[a] : a \in AIM} = {<<"write", a>> : a \in AIM} OBVIOUS
  <2> QED BY <2>1, <2>2
<1>4. IsFiniteSet({<<"asm", a>> : a \in ASM})
  <2> DEFINE f == [a \in ASM |-> <<"asm", a>>]
  <2>1. IsFiniteSet({f[a] : a \in ASM}) BY FiniteValues, MonitorAssumption
  <2>2. {f[a] : a \in ASM} = {<<"asm", a>> : a \in ASM} OBVIOUS
  <2> QED BY <2>1, <2>2
<1>5. IsFiniteSet({<<"am", a>> : a \in AM} \cup {<<"read", p>> : p \in AIM}) BY <1>1, <1>2, FS_Union
<1>6. IsFiniteSet({<<"am", a>> : a \in AM} \cup {<<"read", p>> : p \in AIM} \cup {<<"write", p>> : p \in AIM})
  BY <1>3, <1>5, FS_Union
<1> QED BY <1>4, <1>6, FS_Union DEF Mon

\* The ids in use are finitely many.
LEMMA FiniteIds ==
  ASSUME NEW L \in Logs, IsFiniteSet(L.open)
  PROVE  IsFiniteSet({s.id : s \in L.open} \cup QueueIds(L))
<1>1. IsFiniteSet({s.id : s \in L.open})
  <2> DEFINE f == [s \in L.open |-> s.id]
  <2>1. IsFiniteSet({f[s] : s \in L.open}) BY FiniteValues
  <2>2. {f[s] : s \in L.open} = {s.id : s \in L.open} OBVIOUS
  <2> QED BY <2>1, <2>2
<1>2. IsFiniteSet(UNION {{L.db[m][k].id : k \in 1..Len(L.db[m])} : m \in Mon})
  <2> DEFINE g == [m \in Mon |-> {L.db[m][k].id : k \in 1..Len(L.db[m])}]
  <2>1. ASSUME NEW m \in Mon PROVE IsFiniteSet(g[m])
    <3>1. L.db[m] \in Seq(Entry) BY DEF Logs
    <3>2. IsFiniteSet(1..Len(L.db[m])) BY <3>1, FS_Interval
    <3> DEFINE h == [k \in 1..Len(L.db[m]) |-> L.db[m][k].id]
    <3>3. IsFiniteSet({h[k] : k \in 1..Len(L.db[m])}) BY <3>2, FiniteValues
    <3>4. {h[k] : k \in 1..Len(L.db[m])} = g[m] OBVIOUS
    <3> QED BY <3>3, <3>4
  <2>2. IsFiniteSet({g[m] : m \in Mon}) BY FiniteValues, FiniteMon
  <2>3. IsFiniteSet(UNION {g[m] : m \in Mon})
    <3> HIDE DEF g
    <3>1. \A T \in {g[m] : m \in Mon} : IsFiniteSet(T) BY <2>1
    <3> QED BY <2>2, <3>1, FS_UNION
  <2>4. {g[m] : m \in Mon} = {{L.db[m][k].id : k \in 1..Len(L.db[m])} : m \in Mon} OBVIOUS
  <2> QED BY <2>3, <2>4
<1>3. IsFiniteSet(UNION {{L.cuStarts[a][k].id : k \in 1..Len(L.cuStarts[a])} : a \in AM})
  <2> DEFINE g == [a \in AM |-> {L.cuStarts[a][k].id : k \in 1..Len(L.cuStarts[a])}]
  <2>1. ASSUME NEW a \in AM PROVE IsFiniteSet(g[a])
    <3>1. L.cuStarts[a] \in Seq(CuEntry) BY DEF Logs
    <3>2. IsFiniteSet(1..Len(L.cuStarts[a])) BY <3>1, FS_Interval
    <3> DEFINE h == [k \in 1..Len(L.cuStarts[a]) |-> L.cuStarts[a][k].id]
    <3>3. IsFiniteSet({h[k] : k \in 1..Len(L.cuStarts[a])}) BY <3>2, FiniteValues
    <3>4. {h[k] : k \in 1..Len(L.cuStarts[a])} = g[a] OBVIOUS
    <3> QED BY <3>3, <3>4
  <2>2. IsFiniteSet({g[a] : a \in AM}) BY FiniteValues, MonitorAssumption
  <2>3. IsFiniteSet(UNION {g[a] : a \in AM})
    <3> HIDE DEF g
    <3>1. \A T \in {g[a] : a \in AM} : IsFiniteSet(T) BY <2>1
    <3> QED BY <2>2, <3>1, FS_UNION
  <2>4. {g[a] : a \in AM} = {{L.cuStarts[a][k].id : k \in 1..Len(L.cuStarts[a])} : a \in AM} OBVIOUS
  <2> QED BY <2>3, <2>4
<1>4. IsFiniteSet(QueueIds(L))
  <2>1. IsFiniteSet((UNION {{L.db[m][k].id : k \in 1..Len(L.db[m])} : m \in Mon})
                      \cup (UNION {{L.cuStarts[a][k].id : k \in 1..Len(L.cuStarts[a])} : a \in AM}))
    BY <1>2, <1>3, FS_Union
  <2> QED BY ONLY <2>1, Zenon DEF QueueIds
<1> QED BY <1>1, <1>4, FS_Union

\* A new id is in no event and no queue.
LEMMA NewIdFresh ==
  ASSUME NEW L \in Logs, IsFiniteSet(L.open)
  PROVE  /\ NewId(L) \in Nat \ {0}
         /\ \A s \in L.open : s.id # NewId(L)
         /\ NewId(L) \notin QueueIds(L)
<1> DEFINE used == {s.id : s \in L.open} \cup QueueIds(L)
<1>1. IsFiniteSet(used) BY FiniteIds
<1>2. PICK n : n = Cardinality(used) /\ n \in Nat BY <1>1, FS_CardinalityType
<1>3. \E i \in 1..(n + 1) : i \notin used
  <2> SUFFICES ASSUME 1..(n + 1) \subseteq used PROVE FALSE OBVIOUS
  <2> HIDE DEF used
  <2>1. Cardinality(1..(n + 1)) <= n BY <1>1, <1>2, FS_Subset
  <2>2. Cardinality(1..(n + 1)) = n + 1 BY <1>2, FS_Interval
  <2> QED BY <1>2, <2>1, <2>2
<1>4. NewId(L) = CHOOSE i \in 1..(n + 1) : i \notin used BY <1>2 DEF NewId
<1>5. NewId(L) \in 1..(n + 1) /\ NewId(L) \notin used
  <2> HIDE DEF used
  <2> QED BY <1>3, <1>4
<1>6. NewId(L) \in Nat \ {0} BY <1>2, <1>5
<1> QED BY <1>5, <1>6

\* Ids of the queues are not new ones.
LEMMA QueuedIds ==
  ASSUME NEW L
  PROVE  /\ \A m \in Mon : \A k \in 1..Len(L.db[m]) : L.db[m][k].id \in QueueIds(L)
         /\ \A a \in AM : \A k \in 1..Len(L.cuStarts[a]) : L.cuStarts[a][k].id \in QueueIds(L)
<1>1. ASSUME NEW m \in Mon, NEW k \in 1..Len(L.db[m]) PROVE L.db[m][k].id \in QueueIds(L)
  <2>1. L.db[m][k].id \in {L.db[m][j].id : j \in 1..Len(L.db[m])} OBVIOUS
  <2>2. L.db[m][k].id \in UNION {{L.db[n][j].id : j \in 1..Len(L.db[n])} : n \in Mon} BY <2>1
  <2> QED BY <2>2 DEF QueueIds
<1>2. ASSUME NEW a \in AM, NEW k \in 1..Len(L.cuStarts[a]) PROVE L.cuStarts[a][k].id \in QueueIds(L)
  <2>1. L.cuStarts[a][k].id \in {L.cuStarts[a][j].id : j \in 1..Len(L.cuStarts[a])} OBVIOUS
  <2>2. L.cuStarts[a][k].id \in UNION {{L.cuStarts[b][j].id : j \in 1..Len(L.cuStarts[b])} : b \in AM} BY <2>1
  <2> QED BY ONLY <2>2, Zenon DEF QueueIds
<1> QED BY <1>1, <1>2

\* A bounded set of naturals has a greatest element.
LEMMA MaxBounded ==
  ASSUME NEW S, NEW t \in Nat, S \subseteq 0..t, S # {}
  PROVE  MaxOf(S) \in S /\ \A y \in S : y <= MaxOf(S)
<1> DEFINE Good == {n \in Nat : \A R : R \subseteq 0..n /\ R # {} => \E x \in R : \A y \in R : y <= x}
<1>1. 0 \in Good
  <2> SUFFICES ASSUME NEW R, R \subseteq 0..0, R # {} PROVE \E x \in R : \A y \in R : y <= x OBVIOUS
  <2>1. 0..0 = {0} OBVIOUS
  <2>2. R = {0} BY <2>1
  <2> QED BY <2>2
<1>2. ASSUME NEW n \in Nat, n \in Good PROVE n + 1 \in Good
  <2> SUFFICES ASSUME NEW R, R \subseteq 0..(n + 1), R # {} PROVE \E x \in R : \A y \in R : y <= x OBVIOUS
  <2>1. CASE n + 1 \in R BY <2>1
  <2>2. CASE n + 1 \notin R
    <3>1. R \subseteq 0..n BY <2>2
    <3> QED BY <1>2, <3>1
  <2> QED BY <2>1, <2>2
<1>3. \A n \in Nat : n \in Good
  <2> HIDE DEF Good
  <2> QED BY <1>1, <1>2, Induct
<1>4. \E x \in S : \A y \in S : y <= x BY <1>3
<1> QED BY <1>4 DEF MaxOf

\* A finite set of naturals is bounded.
LEMMA FiniteBounded ==
  ASSUME NEW S, S \subseteq Nat, IsFiniteSet(S)
  PROVE  \E t \in Nat : S \subseteq 0..t
<1> DEFINE Good == {n \in Nat : \A R : R \subseteq Nat /\ IsFiniteSet(R) /\ Cardinality(R) = n => \E t \in Nat : R \subseteq 0..t}
<1>1. 0 \in Good
  <2> SUFFICES ASSUME NEW R, R \subseteq Nat, IsFiniteSet(R), Cardinality(R) = 0 PROVE \E t \in Nat : R \subseteq 0..t OBVIOUS
  <2>1. R = {} BY FS_EmptySet
  <2> QED BY <2>1
<1>2. ASSUME NEW n \in Nat, n \in Good PROVE n + 1 \in Good
  <2> SUFFICES ASSUME NEW R, R \subseteq Nat, IsFiniteSet(R), Cardinality(R) = n + 1 PROVE \E t \in Nat : R \subseteq 0..t
    OBVIOUS
  <2>1. PICK x : x \in R
    <3>1. R # {} BY FS_EmptySet
    <3> QED BY <3>1
  <2>2. IsFiniteSet(R \ {x}) /\ Cardinality(R \ {x}) = n
    <3>1. IsFiniteSet(R \ {x}) /\ Cardinality(R \ {x}) = Cardinality(R) - 1 BY <2>1, FS_RemoveElement, Zenon
    <3>2. (n + 1) - 1 = n OBVIOUS
    <3> QED BY <3>1, <3>2
  <2>3. PICK t \in Nat : R \ {x} \subseteq 0..t BY <1>2, <2>2
  <2>4. R \subseteq 0..(t + x) BY <2>1, <2>3
  <2>5. t + x \in Nat BY <2>1
  <2> QED BY <2>4, <2>5
<1>3. \A n \in Nat : n \in Good
  <2> HIDE DEF Good
  <2> QED BY <1>1, <1>2, Induct
<1>4. Cardinality(S) \in Nat BY FS_CardinalityType
<1> QED BY <1>3, <1>4

\* The loops over the monitors reach every slot.
LEMMA SlotsReach ==
  /\ Slots \in Nat
  /\ \A i \in AM \cup AIM \cup ASM : i \in Nat /\ i < Slots
<1> DEFINE S == {0} \cup AM \cup AIM \cup ASM
<1>1. IsFiniteSet(S) /\ S \subseteq Nat /\ S # {}
  <2>1. IsFiniteSet(AM \cup AIM) BY MonitorAssumption, FS_Union
  <2>2. IsFiniteSet((AM \cup AIM) \cup ASM) BY <2>1, MonitorAssumption, FS_Union
  <2>3. IsFiniteSet(((AM \cup AIM) \cup ASM) \cup {0}) BY <2>2, FS_AddElement
  <2>4. S = ((AM \cup AIM) \cup ASM) \cup {0} OBVIOUS
  <2> QED BY <2>3, <2>4, MonitorAssumption
<1>2. Slots = MaxOf(S) + 1 BY DEF Slots
<1>3. \A i \in AM \cup AIM \cup ASM : i \in S OBVIOUS
<1> HIDE DEF S
<1>4. PICK t \in Nat : S \subseteq 0..t BY <1>1, FiniteBounded
<1>5. MaxOf(S) \in S /\ \A y \in S : y <= MaxOf(S) BY <1>1, <1>4, MaxBounded
<1>6. ASSUME NEW i \in AM \cup AIM \cup ASM PROVE i \in S BY <1>3
<1>7. PICK x : x = MaxOf(S) OBVIOUS
<1>8. x \in Nat /\ Slots = x + 1 BY <1>1, <1>2, <1>5, <1>7
<1>9. ASSUME NEW i \in AM \cup AIM \cup ASM PROVE i \in Nat /\ i < Slots
  <2>1. i \in Nat /\ i <= x BY <1>1, <1>5, <1>6, <1>7
  <2> QED BY <1>8, <2>1
<1> QED BY <1>8, <1>9

-----------------------------------------------------------------------------
(* The event database: what a start, an end and a match do to the queues   *)

\* What an event leaves alone.
Aside(N, L) ==
  N.traceIDs = L.traceIDs /\ N.amLast = L.amLast /\ N.aimLast = L.aimLast /\ N.asmLast = L.asmLast

\* Times go on.
LEMMA CoreLater ==
  ASSUME NEW L, NEW t \in Nat, NEW u \in Nat, t <= u, CoreInv(L, t)
  PROVE  CoreInv(L, u)
<1>1. L \in Logs BY DEF CoreInv
<1>2. KnownInv(L, u)
  <2>1. KnownInv(L, t) BY DEF CoreInv
  <2>2. ASSUME NEW m \in Mon, NEW k \in 1..Len(L.db[m]) PROVE L.db[m][k].dev <= u
    <3>1. L.db[m] \in Seq(Entry) BY <1>1 DEF Logs
    <3>2. L.db[m][k] \in Entry BY <3>1
    <3>3. L.db[m][k].dev \in Nat BY <3>2 DEF Entry
    <3>4. L.db[m][k].dev <= t BY <2>1 DEF KnownInv
    <3> QED BY <3>3, <3>4
  <2> QED BY <2>1, <2>2 DEF KnownInv
<1>3. UnitInv(L, u)
  <2>1. UnitInv(L, t) BY DEF CoreInv
  <2>2. ASSUME NEW a \in AM, NEW k \in 1..Len(L.cuStarts[a]) PROVE L.cuStarts[a][k].dev <= u
    <3>1. L.cuStarts[a] \in Seq(CuEntry) BY <1>1 DEF Logs
    <3>2. L.cuStarts[a][k] \in CuEntry BY <3>1
    <3>3. L.cuStarts[a][k].dev \in Nat BY <3>2 DEF CuEntry
    <3>4. L.cuStarts[a][k].dev <= t BY <2>1 DEF UnitInv
    <3> QED BY <3>3, <3>4
  <2> QED BY <2>1, <2>2 DEF UnitInv
<1> QED BY <1>1, <1>2, <1>3 DEF CoreInv

\* The invariant is about the queues and the events.
LEMMA CoreAside ==
  ASSUME NEW L, NEW t, CoreInv(L, t), NEW N \in Logs,
         N.open = L.open, N.wrong = L.wrong, N.db = L.db, N.cuStarts = L.cuStarts
  PROVE  CoreInv(N, t)
BY DEF CoreInv, OpenInv, KnownInv, DistinctInv, UnitInv, PortInv

\* Types of the fields.
LEMMA LogFields ==
  ASSUME NEW L \in Logs
  PROVE  /\ L.cuStarts \in [AM -> Seq(CuEntry)] /\ L.traceIDs \in [AM -> SUBSET Kinds]
         /\ L.amLast \in [AM -> Nat] /\ L.aimLast \in [AIM -> Nat] /\ L.asmLast \in [ASM -> Nat]
         /\ L.db \in [Mon -> Seq(Entry)] /\ L.open \in SUBSET Begun /\ L.wrong \in SUBSET {"unmatched", "backwards"}
         /\ L.astray \in BOOLEAN
BY DEF Logs

\* q without its element k
Removed(q, k) == SubSeq(q, 1, k - 1) \o SubSeq(q, k + 1, Len(q))

\* An element leaves a sequence.
LEMMA RemoveOne ==
  ASSUME NEW S, NEW q \in Seq(S), NEW k \in 1..Len(q)
  PROVE  /\ Removed(q, k) \in Seq(S) /\ Len(Removed(q, k)) = Len(q) - 1
         /\ \A j \in 1..Len(Removed(q, k)) : Removed(q, k)[j] = IF j < k THEN q[j] ELSE q[j + 1]
<1> DEFINE r == Removed(q, k)
           x == SubSeq(q, 1, k - 1)
           y == SubSeq(q, k + 1, Len(q))
<1>0. Len(q) \in Nat /\ k \in Nat /\ k >= 1 /\ k <= Len(q) OBVIOUS
<1>1. x \in Seq(S) /\ Len(x) = k - 1 /\ \A j \in 1..(k - 1) : x[j] = q[j]
  <2>1. CASE k = 1 BY <2>1
  <2>2. CASE k # 1 BY <1>0, <2>2
  <2> QED BY <2>1, <2>2
<1>2. y \in Seq(S) /\ Len(y) = Len(q) - k /\ \A j \in 1..(Len(q) - k) : y[j] = q[j + k]
  <2>1. CASE k = Len(q) BY <1>0, <2>1
  <2>2. CASE k # Len(q) BY <1>0, <2>2
  <2> QED BY <2>1, <2>2
<1> HIDE DEF x, y
<1>3. r = x \o y BY DEF x, y, Removed
<1> HIDE DEF r
<1>4. /\ r \in Seq(S) /\ Len(r) = Len(x) + Len(y)
      /\ \A j \in 1..(Len(x) + Len(y)) : r[j] = IF j <= Len(x) THEN x[j] ELSE y[j - Len(x)]
  <2>1. x \in Seq(S) /\ y \in Seq(S) BY <1>1, <1>2
  <2>2. /\ x \o y \in Seq(S) /\ Len(x \o y) = Len(x) + Len(y)
        /\ \A j \in 1..(Len(x) + Len(y)) : (x \o y)[j] = IF j <= Len(x) THEN x[j] ELSE y[j - Len(x)]
    BY ONLY <2>1, ConcatProperties, Zenon
  <2> QED BY ONLY <1>3, <2>2, Zenon
<1>5. PICK n \in Nat : n = Len(q) BY <1>0
<1>6. Len(x) = k - 1 /\ Len(y) = n - k /\ k \in 1..n BY <1>0, <1>1, <1>2, <1>5
<1>7. Len(r) = n - 1 BY <1>4, <1>5, <1>6
<1>8. ASSUME NEW j \in 1..(n - 1) PROVE r[j] = IF j < k THEN q[j] ELSE q[j + 1]
  <2>1. r[j] = IF j <= k - 1 THEN x[j] ELSE y[j - (k - 1)]
    <3>1. j \in 1..((k - 1) + (n - k)) BY <1>6
    <3> QED BY <1>4, <1>6, <3>1
  <2>2. CASE j < k
    <3>1. j \in 1..(k - 1) /\ j <= k - 1 BY <1>6, <2>2
    <3> QED BY <1>1, <2>1, <2>2, <3>1
  <2>3. CASE ~(j < k)
    <3>1. j - (k - 1) \in 1..(n - k) BY <1>6, <2>3
    <3>2. y[j - (k - 1)] = q[(j - (k - 1)) + k] BY <1>2, <1>5, <3>1
    <3>3. (j - (k - 1)) + k = j + 1 BY <1>6
    <3>4. ~(j <= k - 1) BY <1>6, <2>3
    <3> QED BY <2>1, <2>3, <3>2, <3>3, <3>4
  <2> QED BY <2>2, <2>3
<1> QED BY <1>4, <1>5, <1>7, <1>8 DEF r

\* r is q without one element, which is x
Without(r, q, x) ==
  \E k \in 1..Len(q) :
    /\ q[k] = x /\ Len(r) = Len(q) - 1
    /\ \A j \in 1..Len(r) : r[j] = IF j < k THEN q[j] ELSE q[j + 1]

\* findMatchingStart without a start of the type.
LEMMA MatchNone ==
  ASSUME NEW L \in Logs, NEW m \in Mon, NEW type, Waiting(L, m, type) = {}
  PROVE  Match(L, m, type) = Unknown /\ Matched(L, m, type) = L
<1>1. FindMatchingStart(L, m, type) = [info |-> Unknown, rest |-> L.db[m]] BY DEF FindMatchingStart
<1>2. Match(L, m, type) = Unknown BY <1>1 DEF Match
<1>3. Matched(L, m, type) = [L EXCEPT !.db[m] = L.db[m]] BY <1>1 DEF Matched
<1>4. [L.db EXCEPT ![m] = L.db[m]] = L.db BY LogFields
<1>5. [L EXCEPT !.db[m] = L.db[m]] = L BY <1>4 DEF Logs
<1> QED BY <1>2, <1>3, <1>5

\* findMatchingStart with one.
LEMMA MatchOne ==
  ASSUME NEW L \in Logs, NEW m \in Mon, NEW type, Waiting(L, m, type) # {}
  PROVE  /\ Match(L, m, type) \in Entry /\ Match(L, m, type).type = type
         /\ \E k \in 1..Len(L.db[m]) : Match(L, m, type) = L.db[m][k]
         /\ Matched(L, m, type) \in Logs
         /\ Matched(L, m, type).db[m] \in Seq(Entry)
         /\ Without(Matched(L, m, type).db[m], L.db[m], Match(L, m, type))
         /\ \A n \in Mon : n # m => Matched(L, m, type).db[n] = L.db[n]
         /\ Matched(L, m, type).open = L.open /\ Matched(L, m, type).wrong = L.wrong
         /\ Matched(L, m, type).cuStarts = L.cuStarts /\ Aside(Matched(L, m, type), L)
<1> DEFINE W == Waiting(L, m, type)
           k == CHOOSE i \in W : \A j \in W : i <= j
<1>1. L.db[m] \in Seq(Entry) BY LogFields
<1>2. W \subseteq Nat /\ W # {} /\ W \subseteq 1..Len(L.db[m]) BY <1>1 DEF Waiting
<1>3. k \in W
  <2>1. IsWellFoundedOn(OpToRel(<, Nat), Nat) BY NatLessThanWellFounded
  <2>2. PICK i \in W : \A j \in W : ~(<<j, i>> \in OpToRel(<, Nat))
    <3> HIDE DEF W
    <3>1. PICK w : w \in W BY <1>2
    <3> QED BY <1>2, <2>1, <3>1, WFMin
  <2>3. ASSUME NEW j \in W PROVE i <= j
    <3>1. i \in Nat /\ j \in Nat BY <1>2
    <3>2. <<j, i>> \in Nat \X Nat BY <3>1
    <3>3. ~(j < i) BY <2>2, <3>2 DEF OpToRel
    <3> QED BY <3>1, <3>3
  <2> HIDE DEF W
  <2> QED BY <2>3
<1>4. k \in 1..Len(L.db[m]) /\ L.db[m][k].type = type BY <1>3 DEF Waiting
<1> DEFINE r == Removed(L.db[m], k)
<1>5. FindMatchingStart(L, m, type) = [info |-> L.db[m][k], rest |-> r] BY DEF FindMatchingStart, Removed
<1> HIDE DEF k, W
<1>6. /\ r \in Seq(Entry) /\ Len(r) = Len(L.db[m]) - 1
      /\ \A j \in 1..Len(r) : r[j] = IF j < k THEN L.db[m][j] ELSE L.db[m][j + 1]
  BY <1>1, <1>4, RemoveOne
<1> HIDE DEF r
<1>7. Match(L, m, type) = L.db[m][k] BY <1>5 DEF Match
<1>8. Matched(L, m, type) = [L EXCEPT !.db[m] = r] BY <1>5 DEF Matched
<1>9. [L.db EXCEPT ![m] = r] \in [Mon -> Seq(Entry)] BY <1>6, LogFields
<1>10. Matched(L, m, type) \in Logs BY <1>8, <1>9 DEF Logs
<1>11. Matched(L, m, type).db = [L.db EXCEPT ![m] = r] BY <1>8 DEF Logs
<1>12. Matched(L, m, type).db[m] = r /\ \A n \in Mon : n # m => Matched(L, m, type).db[n] = L.db[n]
  BY <1>11, LogFields
<1>13. /\ Matched(L, m, type).open = L.open /\ Matched(L, m, type).wrong = L.wrong
       /\ Matched(L, m, type).cuStarts = L.cuStarts /\ Aside(Matched(L, m, type), L)
  BY <1>8 DEF Logs, Aside
<1>14. Without(r, L.db[m], L.db[m][k]) BY <1>4, <1>6 DEF Without
<1>15. L.db[m][k] \in Entry BY <1>1, <1>4
<1> QED BY <1>4, <1>6, <1>7, <1>10, <1>12, <1>13, <1>14, <1>15

\* addEvent of a start.
LEMMA AddStartFields ==
  ASSUME NEW L \in Logs, NEW id \in Nat \ {0}, NEW m \in Mon, NEW type \in Kinds, NEW host \in Int
  PROVE  /\ AddStart(L, id, m, type, host) \in Logs
         /\ AddStart(L, id, m, type, host).open = L.open \cup {[id |-> id, mon |-> m, type |-> type, host |-> host]}
         /\ AddStart(L, id, m, type, host).wrong = L.wrong /\ AddStart(L, id, m, type, host).db = L.db
         /\ AddStart(L, id, m, type, host).cuStarts = L.cuStarts /\ Aside(AddStart(L, id, m, type, host), L)
<1> DEFINE s == [id |-> id, mon |-> m, type |-> type, host |-> host]
<1>1. s \in Begun BY DEF Begun
<1>2. AddStart(L, id, m, type, host) = [L EXCEPT !.open = L.open \cup {s}] BY DEF AddStart
<1>3. L.open \cup {s} \in SUBSET Begun BY <1>1, LogFields
<1> HIDE DEF s
<1>4. AddStart(L, id, m, type, host) \in Logs BY <1>2, <1>3 DEF Logs
<1>5. /\ AddStart(L, id, m, type, host).open = L.open \cup {s}
      /\ AddStart(L, id, m, type, host).wrong = L.wrong /\ AddStart(L, id, m, type, host).db = L.db
      /\ AddStart(L, id, m, type, host).cuStarts = L.cuStarts /\ Aside(AddStart(L, id, m, type, host), L)
  BY <1>2 DEF Logs, Aside
<1> QED BY <1>4, <1>5 DEF s

\* addEvent of an end.
LEMMA AddEndFields ==
  ASSUME NEW L \in Logs, NEW id \in Nat \ {0}, NEW m, NEW type, NEW host \in Int,
         NEW x \in L.open, x.id = id, x.mon = m, x.type = type, host >= x.host - 1, OpenInv(L)
  PROVE  /\ AddEnd(L, id, m, type, host) \in Logs
         /\ AddEnd(L, id, m, type, host).open = L.open \ {x}
         /\ AddEnd(L, id, m, type, host).wrong = L.wrong /\ AddEnd(L, id, m, type, host).db = L.db
         /\ AddEnd(L, id, m, type, host).cuStarts = L.cuStarts /\ Aside(AddEnd(L, id, m, type, host), L)
<1> DEFINE mine == {s \in L.open : s.id = id /\ s.mon = m /\ s.type = type}
<1>1. mine = {x} BY DEF OpenInv
<1>2. x \in Begun BY LogFields
<1>3. x.host \in Int BY <1>2 DEF Begun
<1>4. ~(\E s \in mine : host < s.host - 1) BY <1>1, <1>3
<1>5. AddEnd(L, id, m, type, host) =
        [L EXCEPT !.open = L.open \ mine,
                  !.wrong = L.wrong \cup (IF mine = {} THEN {"unmatched"} ELSE {})
                              \cup (IF \E s \in mine : host < s.host - 1 THEN {"backwards"} ELSE {})]
  BY DEF AddEnd
<1>6. mine # {} BY <1>1
<1> HIDE DEF mine
<1>7. AddEnd(L, id, m, type, host) = [L EXCEPT !.open = L.open \ {x}, !.wrong = L.wrong]
  <2>1. L.wrong \cup (IF mine = {} THEN {"unmatched"} ELSE {})
                \cup (IF \E s \in mine : host < s.host - 1 THEN {"backwards"} ELSE {}) = L.wrong
    BY <1>4, <1>6
  <2> QED BY <1>1, <1>5, <2>1
<1>8. L.open \ {x} \in SUBSET Begun BY LogFields
<1>9. AddEnd(L, id, m, type, host) \in Logs BY <1>7, <1>8 DEF Logs
<1>10. /\ AddEnd(L, id, m, type, host).open = L.open \ {x}
       /\ AddEnd(L, id, m, type, host).wrong = L.wrong /\ AddEnd(L, id, m, type, host).db = L.db
       /\ AddEnd(L, id, m, type, host).cuStarts = L.cuStarts /\ Aside(AddEnd(L, id, m, type, host), L)
  BY <1>7 DEF Logs, Aside
<1> QED BY <1>9, <1>10

\* The trace ids and the types of their events.
LEMMA MonKinds ==
  /\ \A a \in AM : <<"am", a>> \in Mon /\ <<"am", a>> \notin PortMons /\ TypesOf(<<"am", a>>) = {"cu"} \cup Stall
  /\ \A s \in ASM : <<"asm", s>> \in Mon /\ <<"asm", s>> \notin PortMons /\ TypesOf(<<"asm", s>>) = Flow
  /\ \A p \in AIM : /\ <<"read", p>> \in PortMons /\ TypesOf(<<"read", p>>) = {"read"}
                    /\ <<"write", p>> \in PortMons /\ TypesOf(<<"write", p>>) = {"write"}
  /\ \A m \in Mon : TypesOf(m) \subseteq Kinds /\ "unknown" \notin TypesOf(m)
  /\ \A m \in PortMons : m \in Mon /\ m[1] \in Kinds /\ m[1] # "cu" /\ m[1] # "unknown" /\ TypesOf(m) = {m[1]} /\ m[2] \in AIM
<1>1. ASSUME NEW a \in AM
      PROVE  <<"am", a>> \in Mon /\ <<"am", a>> \notin PortMons /\ TypesOf(<<"am", a>>) = {"cu"} \cup Stall
  BY DEF Mon, PortMons, TypesOf
<1>2. ASSUME NEW s \in ASM
      PROVE  <<"asm", s>> \in Mon /\ <<"asm", s>> \notin PortMons /\ TypesOf(<<"asm", s>>) = Flow
  BY DEF Mon, PortMons, TypesOf
<1>3. ASSUME NEW p \in AIM
      PROVE  /\ <<"read", p>> \in PortMons /\ TypesOf(<<"read", p>>) = {"read"}
             /\ <<"write", p>> \in PortMons /\ TypesOf(<<"write", p>>) = {"write"}
  BY DEF Mon, PortMons, TypesOf
<1>4. ASSUME NEW m \in Mon PROVE TypesOf(m) \subseteq Kinds /\ "unknown" \notin TypesOf(m)
  <2>0. /\ \A k \in Stall : k \in Kinds /\ k # "unknown"
        /\ \A k \in Flow : k \in Kinds /\ k # "unknown"
    BY KindAssumption DEF Kinds
  <2> SUFFICES ASSUME NEW k \in TypesOf(m) PROVE k \in Kinds /\ k # "unknown" OBVIOUS
  <2>1. ASSUME NEW a \in AM, m = <<"am", a>> PROVE k \in Kinds /\ k # "unknown"
    <3>1. k = "cu" \/ k \in Stall BY <1>1, <2>1
    <3> QED BY <2>0, <3>1 DEF Kinds
  <2>2. ASSUME NEW p \in AIM, m = <<"read", p>> PROVE k \in Kinds /\ k # "unknown"
    <3>1. k = "read" BY <1>3, <2>2
    <3> QED BY <3>1 DEF Kinds
  <2>3. ASSUME NEW p \in AIM, m = <<"write", p>> PROVE k \in Kinds /\ k # "unknown"
    <3>0. TypesOf(<<"write", p>>) = {"write"} BY <1>3
    <3>1. k = "write" BY <2>3, <3>0
    <3> QED BY <3>1 DEF Kinds
  <2>4. ASSUME NEW s \in ASM, m = <<"asm", s>> PROVE k \in Kinds /\ k # "unknown"
    <3>1. k \in Flow BY <1>2, <2>4
    <3> QED BY <2>0, <3>1
  <2>5. \/ \E a \in AM : m = <<"am", a>>
        \/ \E p \in AIM : m = <<"read", p>>
        \/ \E p \in AIM : m = <<"write", p>>
        \/ \E s \in ASM : m = <<"asm", s>>
    BY DEF Mon
  <2> QED BY <2>1, <2>2, <2>3, <2>4, <2>5
<1>5. ASSUME NEW m \in PortMons
      PROVE  m \in Mon /\ m[1] \in Kinds /\ m[1] # "cu" /\ m[1] # "unknown" /\ TypesOf(m) = {m[1]} /\ m[2] \in AIM
  <2>1. m \in Mon /\ m[1] \in {"read", "write"} BY DEF PortMons
  <2>2. PICK p \in AIM : m = <<"read", p>> \/ m = <<"write", p>> BY <2>1 DEF Mon
  <2>3. CASE m = <<"read", p>>
    <3>1. m[1] = "read" /\ m[2] = p BY <2>3
    <3> QED BY <1>3, <2>1, <2>3, <3>1 DEF Kinds
  <2>4. CASE m = <<"write", p>>
    <3>1. m[1] = "write" /\ m[2] = p BY <2>4
    <3> QED BY <1>3, <2>1, <2>4, <3>1 DEF Kinds
  <2> QED BY <2>2, <2>3, <2>4
<1> QED BY <1>1, <1>2, <1>3, <1>4, <1>5

\* A start that no queue has, on a unit or a stream.
LEMMA StartCore ==
  ASSUME NEW L, NEW t \in Nat, CoreInv(L, t), NEW m \in Mon, m \notin PortMons, NEW type \in Kinds, NEW host \in Int
  PROVE  /\ CoreInv(AddStart(L, NewId(L), m, type, host), t)
         /\ AddStart(L, NewId(L), m, type, host).db = L.db
         /\ AddStart(L, NewId(L), m, type, host).cuStarts = L.cuStarts
         /\ Aside(AddStart(L, NewId(L), m, type, host), L)
<1> DEFINE N == AddStart(L, NewId(L), m, type, host)
           x == [id |-> NewId(L), mon |-> m, type |-> type, host |-> host]
<1>1. L \in Logs /\ OpenInv(L) BY DEF CoreInv
<1>2. NewId(L) \in Nat \ {0} /\ \A s \in L.open : s.id # NewId(L) BY <1>1, NewIdFresh DEF OpenInv
<1>3. /\ N \in Logs /\ N.open = L.open \cup {x} /\ N.wrong = L.wrong /\ N.db = L.db
      /\ N.cuStarts = L.cuStarts /\ Aside(N, L)
  BY <1>1, <1>2, AddStartFields
<1>4. x.id = NewId(L) /\ x.mon = m OBVIOUS
<1> HIDE DEF N, x
<1>5. OpenInv(N)
  <2>1. IsFiniteSet(N.open) BY <1>1, <1>3, FS_AddElement DEF OpenInv
  <2> QED BY <1>1, <1>2, <1>3, <1>4, <2>1 DEF OpenInv
<1>6. KnownInv(N, t) BY <1>3 DEF CoreInv, KnownInv
<1>7. DistinctInv(N) BY <1>3 DEF CoreInv, DistinctInv
<1>8. UnitInv(N, t) BY <1>3 DEF CoreInv, UnitInv
<1>9. PortInv(N)
  <2>1. PortInv(L) BY DEF CoreInv
  <2>2. ASSUME NEW n \in PortMons, NEW s \in N.open, s.mon = n PROVE s \in L.open BY <1>3, <1>4, <2>2
  <2> QED BY <1>3, <2>1, <2>2 DEF PortInv
<1>10. N.wrong = {} BY <1>3 DEF CoreInv
<1>11. CoreInv(N, t) BY <1>3, <1>5, <1>6, <1>7, <1>8, <1>9, <1>10 DEF CoreInv
<1> QED BY <1>3, <1>11 DEF N

\* L with one start more, of entry e: it is open, and waits in PLDB.
Marked(N, L, m, e) ==
  /\ N \in Logs /\ e \in Entry
  /\ N.open = L.open \cup {StartOf(e, m)} /\ N.wrong = L.wrong
  /\ N.db[m] = Append(L.db[m], e) /\ \A n \in Mon : n # m => N.db[n] = L.db[n]
  /\ N.cuStarts = L.cuStarts /\ Aside(N, L)

\* What a start marked in PLDB changes.
LEMMA MarkFields ==
  ASSUME NEW L \in Logs, OpenInv(L), NEW t \in Nat, NEW m \in Mon, NEW type \in Kinds
  PROVE  Marked(MarkStart(L, m, type, t), L, m, [type |-> type, id |-> NewId(L), dev |-> t])
<1> DEFINE N == MarkStart(L, m, type, t)
           e == [type |-> type, id |-> NewId(L), dev |-> t]
           A == AddStart(L, NewId(L), m, type, 2 * t)
<1>1. NewId(L) \in Nat \ {0} BY NewIdFresh DEF OpenInv
<1>2. e \in Entry BY <1>1 DEF Entry
<1>3. /\ A \in Logs /\ A.open = L.open \cup {[id |-> NewId(L), mon |-> m, type |-> type, host |-> 2 * t]}
      /\ A.wrong = L.wrong /\ A.db = L.db /\ A.cuStarts = L.cuStarts /\ Aside(A, L)
  BY <1>1, AddStartFields
<1>4. A.open = L.open \cup {StartOf(e, m)} BY <1>3 DEF StartOf
<1>5. N = [A EXCEPT !.db[m] = Append(A.db[m], e)] BY DEF MarkStart
<1> HIDE DEF N, e, A
<1>6. Append(A.db[m], e) \in Seq(Entry) BY <1>2, <1>3, LogFields
<1> DEFINE D == [A.db EXCEPT ![m] = Append(A.db[m], e)]
<1>7. D \in [Mon -> Seq(Entry)] BY <1>3, <1>6, LogFields
<1>8. D[m] = Append(L.db[m], e) /\ \A n \in Mon : n # m => D[n] = L.db[n] BY <1>3, LogFields
<1>9. N = [A EXCEPT !.db = D] BY <1>5
<1> HIDE DEF D
<1>10. N \in Logs BY <1>3, <1>7, <1>9 DEF Logs
<1>11. N.db = D /\ N.open = A.open /\ N.wrong = A.wrong /\ N.cuStarts = A.cuStarts /\ Aside(N, A)
  BY <1>3, <1>9 DEF Logs, Aside
<1>12. Aside(N, L) BY <1>3, <1>11 DEF Aside
<1>13. Marked(N, L, m, e) BY <1>2, <1>3, <1>4, <1>8, <1>10, <1>11, <1>12 DEF Marked
<1> QED BY <1>13 DEF N, e

\* A start marked in PLDB; a port has no other.
LEMMA MarkCore ==
  ASSUME NEW L, NEW t \in Nat, CoreInv(L, t), NEW m \in Mon, NEW type \in TypesOf(m),
         m \in PortMons => L.db[m] = <<>>
  PROVE  /\ CoreInv(MarkStart(L, m, type, t), t)
         /\ MarkStart(L, m, type, t).cuStarts = L.cuStarts /\ Aside(MarkStart(L, m, type, t), L)
         /\ \A n \in Mon : n # m => MarkStart(L, m, type, t).db[n] = L.db[n]
<1> DEFINE N == MarkStart(L, m, type, t)
           e == [type |-> type, id |-> NewId(L), dev |-> t]
           x == StartOf(e, m)
<1>0. type \in Kinds BY MonKinds
<1>1. L \in Logs /\ OpenInv(L) BY DEF CoreInv
<1>2. NewId(L) \in Nat \ {0} /\ (\A s \in L.open : s.id # NewId(L)) /\ NewId(L) \notin QueueIds(L)
  BY <1>1, NewIdFresh DEF OpenInv
<1>3. /\ N \in Logs /\ e \in Entry /\ N.open = L.open \cup {x} /\ N.wrong = L.wrong
      /\ N.db[m] = Append(L.db[m], e) /\ \A n \in Mon : n # m => N.db[n] = L.db[n]
      /\ N.cuStarts = L.cuStarts /\ Aside(N, L)
  <2>1. Marked(N, L, m, e) BY <1>0, <1>1, MarkFields
  <2> HIDE DEF N, e
  <2> QED BY <2>1 DEF Marked
<1>4. x.id = NewId(L) /\ x.mon = m BY DEF StartOf
<1>5. e.dev = t /\ e.type = type /\ e.id = NewId(L) OBVIOUS
<1>6. x = StartOf(e, m) OBVIOUS
<1> HIDE DEF N, x, e
<1>7. L.db[m] \in Seq(Entry) BY <1>1, LogFields
<1>8. PICK z \in Nat : z = Len(L.db[m]) BY <1>7
<1>9. /\ Len(N.db[m]) = z + 1 /\ N.db[m][z + 1] = e
      /\ \A k \in 1..z : N.db[m][k] = L.db[m][k]
  BY <1>3, <1>7, <1>8
<1>10. \A k \in 1..z : L.db[m][k].id # NewId(L) BY <1>2, <1>8, QueuedIds
<1>11. OpenInv(N)
  <2>1. IsFiniteSet(N.open) BY <1>1, <1>3, FS_AddElement DEF OpenInv
  <2> QED BY <1>1, <1>2, <1>3, <1>4, <2>1 DEF OpenInv
<1>12. KnownInv(N, t)
  <2> SUFFICES ASSUME NEW n \in Mon, NEW k \in 1..Len(N.db[n])
               PROVE  /\ N.db[n][k].dev <= t /\ N.db[n][k].type \in TypesOf(n)
                      /\ N.db[n][k].type # "cu" => StartOf(N.db[n][k], n) \in N.open
    BY DEF KnownInv
  <2>1. KnownInv(L, t) BY DEF CoreInv
  <2>2. CASE n # m BY <1>3, <2>1, <2>2 DEF KnownInv
  <2>3. CASE n = m /\ k = z + 1 BY <1>3, <1>5, <1>6, <1>9, <2>3
  <2>4. CASE n = m /\ k # z + 1
    <3>1. k \in 1..z /\ k \in 1..Len(L.db[m]) BY <1>8, <1>9, <2>4
    <3> QED BY <1>3, <1>9, <2>1, <2>4, <3>1 DEF KnownInv
  <2> QED BY <2>2, <2>3, <2>4
<1>13. DistinctInv(N)
  <2> SUFFICES ASSUME NEW n \in Mon, NEW j \in 1..Len(N.db[n]), NEW k \in 1..Len(N.db[n]), j # k,
                      N.db[n][j].type # "cu", N.db[n][k].type # "cu"
               PROVE  N.db[n][j].id # N.db[n][k].id
    BY DEF DistinctInv
  <2>1. DistinctInv(L) BY DEF CoreInv
  <2>2. CASE n # m BY <1>3, <2>1, <2>2 DEF DistinctInv
  <2>3. CASE n = m
    <3>1. (j = z + 1 \/ j \in 1..z) /\ (k = z + 1 \/ k \in 1..z) BY <1>9, <2>3
    <3>2. CASE j = z + 1 BY <1>5, <1>9, <1>10, <2>3, <3>1, <3>2
    <3>3. CASE k = z + 1 BY <1>5, <1>9, <1>10, <2>3, <3>1, <3>3
    <3>4. CASE j \in 1..z /\ k \in 1..z
      <4>1. N.db[n][j] = L.db[m][j] /\ N.db[n][k] = L.db[m][k] BY <1>9, <2>3, <3>4
      <4>2. j \in 1..Len(L.db[m]) /\ k \in 1..Len(L.db[m]) BY <1>8, <3>4
      <4>3. L.db[m][j].type # "cu" /\ L.db[m][k].type # "cu" BY <4>1
      <4>4. L.db[m][j].id # L.db[m][k].id BY <2>1, <4>2, <4>3 DEF DistinctInv
      <4> QED BY <4>1, <4>4
    <3> QED BY <3>1, <3>2, <3>3, <3>4
  <2> QED BY <2>2, <2>3
<1>14. UnitInv(N, t) BY <1>3 DEF CoreInv, UnitInv
<1>15. PortInv(N)
  <2> SUFFICES ASSUME NEW n \in PortMons
               PROVE  /\ Len(N.db[n]) <= 1
                      /\ \A s \in N.open : s.mon = n => Len(N.db[n]) = 1 /\ s = StartOf(N.db[n][1], n)
    BY DEF PortInv
  <2>1. PortInv(L) BY DEF CoreInv
  <2>2. n \in Mon BY DEF PortMons
  <2>3. CASE n # m
    <3>1. ASSUME NEW s \in N.open, s.mon = n PROVE s \in L.open BY <1>3, <1>4, <2>3, <3>1
    <3> QED BY <1>3, <2>1, <2>2, <2>3, <3>1 DEF PortInv
  <2>4. CASE n = m
    <3>1. z = 0 BY <1>8, <2>4
    <3>2. Len(N.db[n]) = 1 /\ N.db[n][1] = e BY <1>9, <2>4, <3>1
    <3>3. ASSUME NEW s \in L.open, s.mon = n PROVE FALSE BY <1>8, <2>1, <2>4, <3>1, <3>3 DEF PortInv
    <3> QED BY <1>3, <1>6, <2>4, <3>2, <3>3
  <2> QED BY <2>3, <2>4
<1>16. N.wrong = {} BY <1>3 DEF CoreInv
<1>17. CoreInv(N, t) BY <1>3, <1>11, <1>12, <1>13, <1>14, <1>15, <1>16 DEF CoreInv
<1> QED BY <1>3, <1>17 DEF N

\* each entry of r is one of q, other than a certain x
Drops(r, q, x) ==
  \E k \in 1..Len(q) :
    /\ q[k] = x /\ Len(r) = Len(q) - 1
    /\ \A j \in 1..Len(r) : \E i \in 1..Len(q) : i # k /\ r[j] = q[i]
    /\ \A j, h \in 1..Len(r) : j # h =>
         \E i, g \in 1..Len(q) : i # g /\ r[j] = q[i] /\ r[h] = q[g]

\* A queue without one of its entries.
LEMMA WithoutFacts ==
  ASSUME NEW S, NEW q \in Seq(S), NEW r, NEW x, Without(r, q, x), Len(r) \in Nat
  PROVE  Drops(r, q, x)
<1>1. PICK k \in 1..Len(q) : /\ q[k] = x /\ Len(r) = Len(q) - 1
                             /\ \A j \in 1..Len(r) : r[j] = IF j < k THEN q[j] ELSE q[j + 1]
  BY DEF Without
<1>2. PICK n \in Nat : n = Len(q) OBVIOUS
<1> DEFINE w(j) == IF j < k THEN j ELSE j + 1
<1>3. ASSUME NEW j \in 1..Len(r) PROVE w(j) \in 1..n /\ w(j) # k /\ r[j] = q[w(j)]
  <2>1. j \in 1..(n - 1) /\ k \in 1..n BY <1>1, <1>2
  <2>2. w(j) \in 1..n /\ w(j) # k BY <2>1
  <2> QED BY <1>1, <2>2
<1>4. ASSUME NEW j \in 1..Len(r), NEW h \in 1..Len(r), j # h PROVE w(j) # w(h)
  <2>1. j \in Nat /\ h \in Nat /\ k \in Nat BY <1>1, <1>2
  <2> QED BY <1>4, <2>1
<1> HIDE DEF w
<1>5. \A j \in 1..Len(r) : \E i \in 1..Len(q) : i # k /\ r[j] = q[i] BY <1>2, <1>3
<1>6. ASSUME NEW j \in 1..Len(r), NEW h \in 1..Len(r), j # h
      PROVE  \E i, g \in 1..Len(q) : i # g /\ r[j] = q[i] /\ r[h] = q[g]
  <2>1. w(j) \in 1..Len(q) /\ w(h) \in 1..Len(q) BY <1>2, <1>3
  <2> QED BY <1>3, <1>4, <1>6, <2>1
<1> QED BY <1>1, <1>5, <1>6 DEF Drops

\* An end that names the start that findMatchingStart gave out.
LEMMA EndCore ==
  ASSUME NEW L, NEW t \in Nat, CoreInv(L, t), NEW m \in Mon, NEW type, type # "cu", Waiting(L, m, type) # {},
         NEW B \in Logs, B.open = L.open, B.wrong = L.wrong, B.cuStarts = L.cuStarts,
         B.db = Matched(L, m, type).db,
         NEW host \in Int, host >= 2 * Match(L, m, type).dev - 1
  PROVE  LET N == AddEnd(B, Match(L, m, type).id, m, type, host)
         IN  /\ CoreInv(N, t) /\ N.cuStarts = L.cuStarts /\ Aside(N, B) /\ N.db = B.db
             /\ m \in PortMons => N.db[m] = <<>>
<1> DEFINE e == Match(L, m, type)
           N == AddEnd(B, e.id, m, type, host)
           x == StartOf(e, m)
<1>1. L \in Logs /\ OpenInv(L) BY DEF CoreInv
<1>2. /\ e \in Entry /\ e.type = type /\ \E k \in 1..Len(L.db[m]) : e = L.db[m][k]
      /\ B.db[m] \in Seq(Entry) /\ Without(B.db[m], L.db[m], e)
      /\ \A n \in Mon : n # m => B.db[n] = L.db[n]
  BY <1>1, MatchOne
<1> HIDE DEF e
<1>3. x \in L.open BY <1>2 DEF CoreInv, KnownInv
<1>4. x.id = e.id /\ x.mon = m /\ x.type = type /\ x.host = 2 * e.dev BY <1>2 DEF StartOf
<1>5. e.id \in Nat \ {0} /\ e.dev \in Nat BY <1>2 DEF Entry
<1>6. OpenInv(B) BY <1>1 DEF OpenInv
<1>7. host >= x.host - 1 BY <1>4 DEF e
<1> HIDE DEF x
<1>8. /\ N \in Logs /\ N.open = L.open \ {x} /\ N.wrong = L.wrong /\ N.db = B.db
      /\ N.cuStarts = L.cuStarts /\ Aside(N, B)
  BY <1>3, <1>4, <1>5, <1>6, <1>7, AddEndFields
<1> HIDE DEF N
<1>9. PICK q, r : q = L.db[m] /\ r = B.db[m] /\ q \in Seq(Entry) /\ Len(r) \in Nat
  <2>1. L.db[m] \in Seq(Entry) /\ Len(B.db[m]) \in Nat BY <1>1, <1>2, LogFields
  <2> QED BY <2>1
<1>10. PICK k \in 1..Len(q) :
         /\ q[k] = e /\ Len(r) = Len(q) - 1
         /\ \A j \in 1..Len(r) : \E i \in 1..Len(q) : i # k /\ r[j] = q[i]
         /\ \A j, h \in 1..Len(r) : j # h =>
              \E i, g \in 1..Len(q) : i # g /\ r[j] = q[i] /\ r[h] = q[g]
  <2>1. Without(r, q, e) BY <1>2, <1>9
  <2>2. q \in Seq(Entry) /\ Len(r) \in Nat BY <1>9
  <2>3. Drops(r, q, e) BY <2>1, <2>2, WithoutFacts
  <2> QED BY <2>3 DEF Drops
<1>11. OpenInv(N)
  <2>1. IsFiniteSet(N.open) BY <1>1, <1>8, FS_RemoveElement DEF OpenInv
  <2> QED BY <1>1, <1>8, <2>1 DEF OpenInv
<1>12. KnownInv(N, t)
  <2> SUFFICES ASSUME NEW n \in Mon, NEW j \in 1..Len(N.db[n])
               PROVE  /\ N.db[n][j].dev <= t /\ N.db[n][j].type \in TypesOf(n)
                      /\ N.db[n][j].type # "cu" => StartOf(N.db[n][j], n) \in N.open
    BY DEF KnownInv
  <2>1. KnownInv(L, t) BY DEF CoreInv
  <2>2. CASE n # m
    <3>1. N.db[n] = L.db[n] BY <1>2, <1>8, <2>2
    <3>2. StartOf(N.db[n][j], n).mon = n BY DEF StartOf
    <3>3. StartOf(N.db[n][j], n) # x BY <1>4, <2>2, <3>2
    <3> QED BY <1>8, <2>1, <3>1, <3>3 DEF KnownInv
  <2>3. CASE n = m
    <3>1. N.db[n] = r /\ L.db[n] = q BY <1>8, <1>9, <2>3
    <3>2. j \in 1..Len(r) BY <3>1
    <3>3. PICK i \in 1..Len(q) : i # k /\ r[j] = q[i] BY <1>10, <3>2
    <3>4. q[i].type # "cu" => q[i].id # e.id
      <4>1. DistinctInv(L) BY DEF CoreInv
      <4>2. q[k].type # "cu" BY <1>2, <1>10
      <4>3. \A g, h \in 1..Len(q) : g # h /\ q[g].type # "cu" /\ q[h].type # "cu" => q[g].id # q[h].id
        BY <3>1, <4>1 DEF DistinctInv
      <4> QED BY <1>10, <3>3, <4>2, <4>3
    <3>5. StartOf(q[i], m).id = q[i].id BY DEF StartOf
    <3>6. q[i].type # "cu" => StartOf(q[i], m) # x BY <1>4, <3>4, <3>5
    <3>7. /\ q[i].dev <= t /\ q[i].type \in TypesOf(m)
          /\ q[i].type # "cu" => StartOf(q[i], m) \in L.open
      BY <2>1, <2>3, <3>1, <3>3 DEF KnownInv
    <3> QED BY <1>8, <2>3, <3>1, <3>3, <3>6, <3>7
  <2> QED BY <2>2, <2>3
<1>13. DistinctInv(N)
  <2> SUFFICES ASSUME NEW n \in Mon, NEW j \in 1..Len(N.db[n]), NEW h \in 1..Len(N.db[n]), j # h,
                      N.db[n][j].type # "cu", N.db[n][h].type # "cu"
               PROVE  N.db[n][j].id # N.db[n][h].id
    BY DEF DistinctInv
  <2>1. DistinctInv(L) BY DEF CoreInv
  <2>2. CASE n # m
    <3>1. N.db[n] = L.db[n] BY <1>2, <1>8, <2>2
    <3> QED BY <2>1, <3>1 DEF DistinctInv
  <2>3. CASE n = m
    <3>1. N.db[n] = r /\ L.db[n] = q BY <1>8, <1>9, <2>3
    <3>2. j \in 1..Len(r) /\ h \in 1..Len(r) BY <3>1
    <3>3. PICK i, g \in 1..Len(q) : i # g /\ r[j] = q[i] /\ r[h] = q[g] BY <1>10, <3>2
    <3>4. q[i].type # "cu" /\ q[g].type # "cu" BY <3>1, <3>3
    <3>5. q[i].id # q[g].id BY <2>1, <3>1, <3>3, <3>4 DEF DistinctInv
    <3> QED BY <3>1, <3>3, <3>5
  <2> QED BY <2>2, <2>3
<1>14. UnitInv(N, t)
  <2>1. UnitInv(L, t) BY DEF CoreInv
  <2>2. ASSUME NEW a \in AM, NEW j \in 1..Len(L.cuStarts[a]) PROVE CuStartOf(L.cuStarts[a][j], a) \in N.open
    <3>1. CuStartOf(L.cuStarts[a][j], a) \in L.open BY <2>1 DEF UnitInv
    <3>2. CuStartOf(L.cuStarts[a][j], a).type = "cu" BY DEF CuStartOf
    <3> QED BY <1>4, <1>8, <3>1, <3>2
  <2> QED BY <1>8, <2>1, <2>2 DEF UnitInv
<1>15. m \in PortMons => N.db[m] = <<>> /\ L.db[m][1] = e
  <2> SUFFICES ASSUME m \in PortMons PROVE N.db[m] = <<>> /\ L.db[m][1] = e OBVIOUS
  <2>1. Len(q) <= 1 BY <1>9 DEF CoreInv, PortInv
  <2>2. PICK n \in Nat : n = Len(q) BY <1>9
  <2>3. k \in 1..n /\ n <= 1 /\ Len(r) = n - 1 BY <1>10, <2>1, <2>2
  <2>4. k = 1 /\ Len(r) = 0 BY <2>3
  <2>5. r = <<>> BY <1>2, <1>9, <2>4
  <2> QED BY <1>8, <1>9, <1>10, <2>4, <2>5
<1>16. PortInv(N)
  <2> SUFFICES ASSUME NEW n \in PortMons
               PROVE  /\ Len(N.db[n]) <= 1
                      /\ \A s \in N.open : s.mon = n => Len(N.db[n]) = 1 /\ s = StartOf(N.db[n][1], n)
    BY DEF PortInv
  <2>1. PortInv(L) BY DEF CoreInv
  <2>2. n \in Mon BY DEF PortMons
  <2>3. CASE n # m
    <3>1. N.db[n] = L.db[n] BY <1>2, <1>8, <2>2, <2>3
    <3> QED BY <1>8, <2>1, <3>1 DEF PortInv
  <2>4. CASE n = m
    <3>1. Len(N.db[n]) = 0 BY <1>15, <2>4
    <3>2. ASSUME NEW s \in N.open, s.mon = n PROVE FALSE
      <4>1. s \in L.open /\ s # x BY <1>8
      <4>2. s = StartOf(L.db[n][1], n) BY <2>1, <3>2, <4>1 DEF PortInv
      <4>3. s = x BY <1>15, <2>4, <4>2 DEF x
      <4> QED BY <4>1, <4>3
    <3> QED BY <3>1, <3>2
  <2> QED BY <2>3, <2>4
<1>17. N.wrong = {} BY <1>8 DEF CoreInv
<1>18. CoreInv(N, t) BY <1>8, <1>11, <1>12, <1>13, <1>14, <1>16, <1>17 DEF CoreInv
<1> QED BY <1>8, <1>15, <1>18 DEF N, e

\* A start of a unit or a stream is taken from PLDB.
LEMMA TakenCore ==
  ASSUME NEW L, NEW t \in Nat, CoreInv(L, t), NEW m \in Mon, m \notin PortMons, NEW type
  PROVE  LET N == Matched(L, m, type)
         IN  CoreInv(N, t) /\ N.cuStarts = L.cuStarts /\ N.open = L.open /\ Aside(N, L)
<1> DEFINE N == Matched(L, m, type)
           e == Match(L, m, type)
<1>1. L \in Logs BY DEF CoreInv
<1>2. CASE Waiting(L, m, type) = {}
  <2>1. N = L BY <1>1, <1>2, MatchNone
  <2> QED BY <2>1 DEF Aside
<1>3. CASE Waiting(L, m, type) # {}
  <2>1. /\ N \in Logs /\ N.db[m] \in Seq(Entry) /\ Without(N.db[m], L.db[m], e)
        /\ \A n \in Mon : n # m => N.db[n] = L.db[n]
        /\ N.open = L.open /\ N.wrong = L.wrong /\ N.cuStarts = L.cuStarts /\ Aside(N, L)
    BY <1>1, <1>3, MatchOne
  <2> HIDE DEF N, e
  <2>2. PICK q, r : q = L.db[m] /\ r = N.db[m] /\ q \in Seq(Entry) /\ Len(r) \in Nat
    <3>1. L.db[m] \in Seq(Entry) /\ Len(N.db[m]) \in Nat BY <1>1, <2>1, LogFields
    <3> QED BY <3>1
  <2>3. PICK k \in 1..Len(q) :
           /\ q[k] = e /\ Len(r) = Len(q) - 1
           /\ \A j \in 1..Len(r) : \E i \in 1..Len(q) : i # k /\ r[j] = q[i]
           /\ \A j, h \in 1..Len(r) : j # h =>
                \E i, g \in 1..Len(q) : i # g /\ r[j] = q[i] /\ r[h] = q[g]
    <3>1. Without(r, q, e) BY <2>1, <2>2
    <3>2. Drops(r, q, e) BY <2>2, <3>1, WithoutFacts
    <3> QED BY <3>2 DEF Drops
  <2>4. KnownInv(N, t)
    <3> SUFFICES ASSUME NEW n \in Mon, NEW j \in 1..Len(N.db[n])
                 PROVE  /\ N.db[n][j].dev <= t /\ N.db[n][j].type \in TypesOf(n)
                        /\ N.db[n][j].type # "cu" => StartOf(N.db[n][j], n) \in N.open
      BY DEF KnownInv
    <3>1. KnownInv(L, t) BY DEF CoreInv
    <3>2. CASE n # m BY <2>1, <3>1, <3>2 DEF KnownInv
    <3>3. CASE n = m
      <4>1. N.db[n] = r /\ L.db[n] = q BY <2>2, <3>3
      <4>2. PICK i \in 1..Len(q) : r[j] = q[i] BY <2>3, <4>1
      <4>3. /\ q[i].dev <= t /\ q[i].type \in TypesOf(n)
            /\ q[i].type # "cu" => StartOf(q[i], n) \in L.open
        BY <3>1, <4>1, <4>2 DEF KnownInv
      <4> QED BY <2>1, <4>1, <4>2, <4>3
    <3> QED BY <3>2, <3>3
  <2>5. DistinctInv(N)
    <3> SUFFICES ASSUME NEW n \in Mon, NEW j \in 1..Len(N.db[n]), NEW h \in 1..Len(N.db[n]), j # h,
                        N.db[n][j].type # "cu", N.db[n][h].type # "cu"
                 PROVE  N.db[n][j].id # N.db[n][h].id
      BY DEF DistinctInv
    <3>1. DistinctInv(L) BY DEF CoreInv
    <3>2. CASE n # m
      <4>1. N.db[n] = L.db[n] BY <2>1, <3>2
      <4> QED BY <3>1, <4>1 DEF DistinctInv
    <3>3. CASE n = m
      <4>1. N.db[n] = r /\ L.db[n] = q BY <2>2, <3>3
      <4>2. j \in 1..Len(r) /\ h \in 1..Len(r) BY <4>1
      <4>3. PICK i, g \in 1..Len(q) : i # g /\ r[j] = q[i] /\ r[h] = q[g] BY <2>3, <4>2
      <4>4. q[i].type # "cu" /\ q[g].type # "cu" BY <4>1, <4>3
      <4>5. q[i].id # q[g].id BY <3>1, <4>1, <4>3, <4>4 DEF DistinctInv
      <4> QED BY <4>1, <4>3, <4>5
    <3> QED BY <3>2, <3>3
  <2>6. PortInv(N)
    <3>1. \A n \in PortMons : n # m /\ n \in Mon BY DEF PortMons
    <3>2. \A n \in PortMons : N.db[n] = L.db[n] BY <2>1, <3>1
    <3> QED BY <2>1, <3>2 DEF CoreInv, PortInv
  <2>7. OpenInv(N) /\ UnitInv(N, t) /\ N.wrong = {} BY <2>1 DEF CoreInv, OpenInv, UnitInv
  <2>8. CoreInv(N, t) BY <2>1, <2>4, <2>5, <2>6, <2>7 DEF CoreInv
  <2> QED BY <2>1, <2>8 DEF N
<1> QED BY <1>2, <1>3

\* A start and its end at once.
LEMMA PulseCore ==
  ASSUME NEW L, NEW t \in Nat, CoreInv(L, t), NEW m \in Mon, NEW type \in Kinds, NEW u \in Nat
  PROVE  /\ CoreInv(AddPulse(L, m, type, u), t) /\ AddPulse(L, m, type, u).db = L.db
         /\ AddPulse(L, m, type, u).cuStarts = L.cuStarts /\ Aside(AddPulse(L, m, type, u), L)
<1> DEFINE id == NewId(L)
           A == AddStart(L, id, m, type, 2 * u)
           N == AddEnd(A, id, m, type, 2 * u + 1)
           x == [id |-> id, mon |-> m, type |-> type, host |-> 2 * u]
<1>1. L \in Logs /\ OpenInv(L) BY DEF CoreInv
<1>2. id \in Nat \ {0} /\ \A s \in L.open : s.id # id BY <1>1, NewIdFresh DEF OpenInv
<1>3. /\ A \in Logs /\ A.open = L.open \cup {x} /\ A.wrong = L.wrong /\ A.db = L.db
      /\ A.cuStarts = L.cuStarts /\ Aside(A, L)
  BY <1>1, <1>2, AddStartFields
<1>4. x.id = id /\ x.mon = m /\ x.type = type /\ x.host = 2 * u OBVIOUS
<1>5. AddPulse(L, m, type, u) = N BY DEF AddPulse
<1> HIDE DEF A, x, id
<1>6. OpenInv(A)
  <2>1. IsFiniteSet(A.open) BY <1>1, <1>3, FS_AddElement DEF OpenInv
  <2> QED BY <1>1, <1>2, <1>3, <1>4, <2>1 DEF OpenInv
<1>7. x \in A.open /\ 2 * u + 1 >= x.host - 1 /\ 2 * u + 1 \in Int BY <1>3, <1>4
<1>8. /\ N \in Logs /\ N.open = A.open \ {x} /\ N.wrong = A.wrong /\ N.db = A.db
      /\ N.cuStarts = A.cuStarts /\ Aside(N, A)
  BY <1>2, <1>3, <1>4, <1>6, <1>7, AddEndFields
<1> HIDE DEF N
<1>9. N.open = L.open BY <1>2, <1>3, <1>4, <1>8
<1>10. CoreInv(N, t) BY <1>3, <1>8, <1>9, CoreAside
<1>11. Aside(N, L) BY <1>3, <1>8 DEF Aside
<1> QED BY <1>3, <1>5, <1>8, <1>10, <1>11

\* L without the oldest execution of unit a, and as good.
OldestEnded(N, L, a, t) ==
  /\ CoreInv(N, t) /\ Aside(N, L) /\ N.db = L.db
  /\ N.cuStarts = [L.cuStarts EXCEPT ![a] = Tail(L.cuStarts[a])]

\* addCUEndEvent ends the execution that cuStarts has had longest.
LEMMA CuEndCore ==
  ASSUME NEW L, NEW t \in Nat, CoreInv(L, t), NEW a \in AM, L.cuStarts[a] # <<>>,
         NEW u \in Nat, L.cuStarts[a][1].dev <= u
  PROVE  OldestEnded(AddCUEnd(L, a, u), L, a, t)
<1> DEFINE m == <<"am", a>>
           q == L.cuStarts[a]
           c == [L.cuStarts EXCEPT ![a] = Tail(q)]
           B == [L EXCEPT !.cuStarts = c]
           N == AddEnd(B, Head(q).id, m, "cu", 2 * u)
           x == CuStartOf(q[1], a)
<1>1. L \in Logs /\ OpenInv(L) /\ L.cuStarts \in [AM -> Seq(CuEntry)] BY LogFields DEF CoreInv
<1>2. q \in Seq(CuEntry) /\ q # <<>> BY <1>1
<1>3. AddCUEnd(L, a, u) = N BY DEF AddCUEnd
<1>4. c \in [AM -> Seq(CuEntry)] BY <1>1, <1>2
<1>5. c[a] = Tail(q) /\ \A b \in AM : b # a => c[b] = L.cuStarts[b] BY <1>1
<1>6. x.id = q[1].id /\ x.mon = m /\ x.type = "cu" /\ x.host = 2 * q[1].dev BY DEF CuStartOf
<1>7. c = [L.cuStarts EXCEPT ![a] = Tail(L.cuStarts[a])] /\ L.cuStarts[a] = q OBVIOUS
<1> HIDE DEF c, x, q
<1>8. /\ B \in Logs /\ B.open = L.open /\ B.wrong = L.wrong /\ B.db = L.db /\ B.cuStarts = c
      /\ Aside(B, L)
  BY <1>1, <1>4 DEF Logs, Aside
<1> HIDE DEF B
<1>9. PICK z \in Nat : z = Len(q) /\ 1 \in 1..z /\ Head(q) = q[1] /\ q[1] \in CuEntry BY <1>2
<1>10. q[1].id \in Nat \ {0} /\ q[1].dev \in Nat BY <1>9 DEF CuEntry
<1>11. x \in L.open
  <2>1. UnitInv(L, t) BY DEF CoreInv
  <2> QED BY <1>7, <1>9, <2>1 DEF UnitInv, x
<1>12. OpenInv(B) BY <1>1, <1>8 DEF OpenInv
<1>13. 2 * u \in Int /\ 2 * u >= x.host - 1 BY <1>6, <1>7, <1>10
<1>14. /\ N \in Logs /\ N.open = L.open \ {x} /\ N.wrong = L.wrong /\ N.db = L.db
       /\ N.cuStarts = c /\ Aside(N, L)
  <2>1. /\ N \in Logs /\ N.open = B.open \ {x} /\ N.wrong = B.wrong /\ N.db = B.db
        /\ N.cuStarts = B.cuStarts /\ Aside(N, B)
    <3>1. Head(q).id \in Nat \ {0} /\ x \in B.open /\ x.id = Head(q).id BY <1>6, <1>8, <1>9, <1>10, <1>11
    <3> QED BY ONLY <1>6, <1>8, <1>12, <1>13, <3>1, AddEndFields
  <2> HIDE DEF N
  <2> QED BY <1>8, <2>1 DEF Aside
<1> HIDE DEF N
<1>15. OpenInv(N)
  <2>1. IsFiniteSet(L.open) BY <1>1 DEF OpenInv
  <2>2. IsFiniteSet(L.open \ {x}) BY <2>1, FS_RemoveElement
  <2> QED BY <1>1, <1>14, <2>2 DEF OpenInv
<1>16. KnownInv(N, t)
  <2>1. KnownInv(L, t) BY DEF CoreInv
  <2>2. ASSUME NEW n \in Mon, NEW k \in 1..Len(L.db[n]), L.db[n][k].type # "cu"
        PROVE  StartOf(L.db[n][k], n) \in N.open
    <3>1. StartOf(L.db[n][k], n) \in L.open BY <2>1, <2>2 DEF KnownInv
    <3>2. StartOf(L.db[n][k], n).type # "cu" BY <2>2 DEF StartOf
    <3> QED BY <1>6, <1>14, <3>1, <3>2
  <2> QED BY <1>14, <2>1, <2>2 DEF KnownInv
<1>17. DistinctInv(N) BY <1>14 DEF CoreInv, DistinctInv
<1>18. UnitInv(N, t)
  <2>1. UnitInv(L, t) BY DEF CoreInv
  <2> SUFFICES ASSUME NEW b \in AM
               PROVE  /\ \A k \in 1..Len(c[b]) : c[b][k].dev <= t /\ CuStartOf(c[b][k], b) \in N.open
                      /\ \A j, k \in 1..Len(c[b]) : j # k => c[b][j].id # c[b][k].id
    BY <1>14 DEF UnitInv
  <2>2. CASE b # a
    <3>1. c[b] = L.cuStarts[b] BY <1>5, <2>2
    <3>2. ASSUME NEW k \in 1..Len(c[b]) PROVE CuStartOf(c[b][k], b) \in N.open
      <4>1. CuStartOf(c[b][k], b) \in L.open BY <2>1, <3>1 DEF UnitInv
      <4>2. CuStartOf(c[b][k], b).mon = <<"am", b>> BY DEF CuStartOf
      <4> QED BY <1>6, <1>14, <2>2, <4>1, <4>2
    <3> QED BY <2>1, <3>1, <3>2 DEF UnitInv
  <2>3. CASE b = a
    <3>1. Len(c[b]) = z - 1 /\ \A k \in 1..(z - 1) : c[b][k] = q[k + 1] BY <1>2, <1>5, <1>9, <2>3
    <3>2. /\ \A k \in 1..z : q[k].dev <= t /\ CuStartOf(q[k], a) \in L.open
          /\ \A j, k \in 1..z : j # k => q[j].id # q[k].id
      BY <1>7, <1>9, <2>1 DEF UnitInv
    <3>3. \A k \in 1..(z - 1) : k + 1 \in 1..z /\ k + 1 # 1 BY <1>9
    <3>4. ASSUME NEW k \in 1..(z - 1) PROVE c[b][k].dev <= t /\ CuStartOf(c[b][k], b) \in N.open
      <4>1. q[k + 1].dev <= t /\ CuStartOf(q[k + 1], a) \in L.open /\ q[k + 1].id # q[1].id BY <1>9, <3>2, <3>3
      <4>2. CuStartOf(q[k + 1], a).id = q[k + 1].id BY DEF CuStartOf
      <4> QED BY <1>6, <1>14, <2>3, <3>1, <4>1, <4>2
    <3>5. ASSUME NEW j \in 1..(z - 1), NEW k \in 1..(z - 1), j # k PROVE c[b][j].id # c[b][k].id
      <4>1. j + 1 # k + 1 BY <3>5
      <4> QED BY <3>1, <3>2, <3>3, <4>1
    <3> QED BY <3>1, <3>4, <3>5
  <2> QED BY <2>2, <2>3
<1>19. PortInv(N) BY <1>14 DEF CoreInv, PortInv
<1>20. N.wrong = {} BY <1>14 DEF CoreInv
<1>21. CoreInv(N, t) BY <1>14, <1>15, <1>16, <1>17, <1>18, <1>19, <1>20 DEF CoreInv
<1>22. OldestEnded(N, L, a, t) BY <1>7, <1>14, <1>21 DEF OldestEnded
<1> QED BY <1>3, <1>22

-----------------------------------------------------------------------------
(* Packets: what each call of the logger keeps                             *)

\* What the events of a unit leave alone.
Timers(N, L) == N.amLast = L.amLast /\ N.aimLast = L.aimLast /\ N.asmLast = L.asmLast

\* addCUEvent of a start.
LEMMA CuStartCore ==
  ASSUME NEW L, NEW t \in Nat, CoreInv(L, t), NEW a \in AM
  PROVE  /\ CoreInv(AddCU(L, a, TRUE, t), t) /\ Timers(AddCU(L, a, TRUE, t), L)
         /\ \A b \in AM : b # a => AddCU(L, a, TRUE, t).cuStarts[b] = L.cuStarts[b]
<1> DEFINE m == <<"am", a>>
           M == MarkStart(L, m, "cu", t)
           id == NewId(L)
           e == [type |-> "cu", id |-> id, dev |-> t]
           y == [id |-> id, dev |-> t]
           q == L.cuStarts[a]
           c == [L.cuStarts EXCEPT ![a] = Append(q, y)]
           N == [M EXCEPT !.cuStarts = c]
           R == [N EXCEPT !.traceIDs[a] = {}]
<1>1. L \in Logs /\ OpenInv(L) /\ L.cuStarts \in [AM -> Seq(CuEntry)] /\ q \in Seq(CuEntry)
  BY LogFields DEF CoreInv
<1>2. id \in Nat \ {0} /\ (\A s \in L.open : s.id # id) /\ id \notin QueueIds(L) BY <1>1, NewIdFresh DEF OpenInv
<1>3. m \in Mon /\ m \notin PortMons /\ "cu" \in TypesOf(m) /\ "cu" \in Kinds BY MonKinds DEF Kinds
<1>4. CoreInv(M, t) /\ M.cuStarts = L.cuStarts /\ Aside(M, L) BY <1>3, MarkCore
<1>5. M \in Logs /\ M.open = L.open \cup {StartOf(e, m)}
  <2>1. Marked(M, L, m, e) BY <1>1, <1>3, MarkFields
  <2> HIDE DEF M, e
  <2> QED BY <2>1 DEF Marked
<1>6. StartOf(e, m) = CuStartOf(y, a) /\ CuStartOf(y, a).id = id BY DEF StartOf, CuStartOf
<1>7. y \in CuEntry /\ y.dev = t /\ y.id = id BY <1>2 DEF CuEntry
<1>8. [M EXCEPT !.cuStarts[a] = Append(@, y)] = N BY <1>4
<1>9. AddCU(L, a, TRUE, t) = IF Len(N.cuStarts[a]) = 1 THEN R ELSE N BY <1>8 DEF AddCU
<1>10. L.cuStarts[a] = q OBVIOUS
<1> HIDE DEF m, M, id, y, e, q
<1>11. c \in [AM -> Seq(CuEntry)] BY <1>1, <1>7
<1>12. c[a] = Append(q, y) /\ \A b \in AM : b # a => c[b] = L.cuStarts[b] BY <1>1
<1> HIDE DEF c
<1>13. /\ N \in Logs /\ N.open = M.open /\ N.wrong = M.wrong /\ N.db = M.db /\ N.cuStarts = c
       /\ Aside(N, M)
  BY <1>5, <1>11 DEF Logs, Aside
<1>14. PICK z \in Nat : z = Len(q) BY <1>1
<1>15. Len(c[a]) = z + 1 /\ c[a][z + 1] = y /\ \A k \in 1..z : c[a][k] = q[k] BY <1>1, <1>12, <1>14
<1> HIDE DEF N
<1>16. UnitInv(N, t)
  <2>1. UnitInv(L, t) BY DEF CoreInv
  <2>2. L.open \subseteq N.open /\ CuStartOf(y, a) \in N.open BY <1>5, <1>6, <1>13
  <2> SUFFICES ASSUME NEW b \in AM
               PROVE  /\ \A k \in 1..Len(c[b]) : c[b][k].dev <= t /\ CuStartOf(c[b][k], b) \in N.open
                      /\ \A j, k \in 1..Len(c[b]) : j # k => c[b][j].id # c[b][k].id
    BY <1>13 DEF UnitInv
  <2>3. CASE b # a
    <3>1. c[b] = L.cuStarts[b] BY <1>12, <2>3
    <3> QED BY <2>1, <2>2, <3>1 DEF UnitInv
  <2>4. CASE b = a
    <3>1. /\ \A k \in 1..z : q[k].dev <= t /\ CuStartOf(q[k], a) \in L.open
          /\ \A j, k \in 1..z : j # k => q[j].id # q[k].id
      BY <1>10, <1>14, <2>1 DEF UnitInv
    <3>2. \A k \in 1..z : q[k].id # id BY <1>2, <1>10, <1>14, QueuedIds
    <3>3. \A k \in 1..(z + 1) : k = z + 1 \/ k \in 1..z OBVIOUS
    <3>4. ASSUME NEW k \in 1..(z + 1) PROVE c[b][k].dev <= t /\ CuStartOf(c[b][k], b) \in N.open
      <4>1. CASE k = z + 1 BY <1>7, <1>15, <2>2, <2>4, <4>1
      <4>2. CASE k \in 1..z BY <1>15, <2>2, <2>4, <3>1, <4>2
      <4> QED BY <3>3, <4>1, <4>2
    <3>5. ASSUME NEW j \in 1..(z + 1), NEW k \in 1..(z + 1), j # k PROVE c[b][j].id # c[b][k].id
      <4>1. CASE j = z + 1 BY <1>7, <1>15, <2>4, <3>2, <3>3, <3>5, <4>1
      <4>2. CASE k = z + 1 BY <1>7, <1>15, <2>4, <3>2, <3>3, <3>5, <4>2
      <4>3. CASE j \in 1..z /\ k \in 1..z BY <1>15, <2>4, <3>1, <3>5, <4>3
      <4> QED BY <3>3, <4>1, <4>2, <4>3
    <3> QED BY <1>15, <2>4, <3>4, <3>5
  <2> QED BY <2>3, <2>4
<1>17. CoreInv(N, t)
  <2>1. OpenInv(N) /\ KnownInv(N, t) /\ DistinctInv(N) /\ PortInv(N) /\ N.wrong = {}
    BY <1>4, <1>13 DEF CoreInv, OpenInv, KnownInv, DistinctInv, PortInv
  <2> QED BY <1>13, <1>16, <2>1 DEF CoreInv
<1>18. /\ R \in Logs /\ R.open = N.open /\ R.wrong = N.wrong /\ R.db = N.db /\ R.cuStarts = N.cuStarts
       /\ Timers(R, N)
  <2>1. [N.traceIDs EXCEPT ![a] = {}] \in [AM -> SUBSET Kinds] BY <1>13, LogFields
  <2> QED BY <1>13, <2>1 DEF Logs, Timers
<1> HIDE DEF R
<1>19. CoreInv(R, t) BY <1>17, <1>18, CoreAside
<1>20. Timers(N, L) /\ Timers(R, L) BY <1>4, <1>13, <1>18 DEF Timers, Aside
<1> QED BY <1>9, <1>12, <1>13, <1>17, <1>18, <1>19, <1>20

\* addCUEvent of an end.
LEMMA CuStopCore ==
  ASSUME NEW L, NEW t \in Nat, CoreInv(L, t), NEW a \in AM
  PROVE  /\ CoreInv(AddCU(L, a, FALSE, t), t) /\ Timers(AddCU(L, a, FALSE, t), L)
         /\ \A b \in AM : b # a => AddCU(L, a, FALSE, t).cuStarts[b] = L.cuStarts[b]
<1> DEFINE T == Matched(L, <<"am", a>>, "cu")
           N == AddCU(L, a, FALSE, t)
<1>1. CoreInv(T, t) /\ T.cuStarts = L.cuStarts /\ Aside(T, L)
  <2>1. <<"am", a>> \in Mon /\ <<"am", a>> \notin PortMons BY MonKinds
  <2> QED BY <2>1, TakenCore
<1>2. N = IF Match(L, <<"am", a>>, "cu").type = "unknown" \/ L.cuStarts[a] = <<>> THEN T ELSE AddCUEnd(T, a, t)
  BY DEF AddCU
<1> HIDE DEF T, N
<1>3. CASE N = T BY <1>1, <1>3 DEF Timers, Aside, N
<1>4. CASE L.cuStarts[a] # <<>> /\ N = AddCUEnd(T, a, t)
  <2>1. T \in Logs /\ UnitInv(T, t) BY <1>1 DEF CoreInv
  <2>2. T.cuStarts \in [AM -> Seq(CuEntry)] BY <2>1, LogFields
  <2>3. 1 \in 1..Len(T.cuStarts[a]) /\ T.cuStarts[a] # <<>> BY <1>1, <1>4, <2>2
  <2>4. T.cuStarts[a][1].dev <= t BY <2>1, <2>3 DEF UnitInv
  <2>5. CoreInv(N, t) /\ Aside(N, T) /\ N.cuStarts = [T.cuStarts EXCEPT ![a] = Tail(T.cuStarts[a])]
    <3>1. OldestEnded(N, T, a, t) BY <1>1, <1>4, <2>3, <2>4, CuEndCore
    <3> QED BY <3>1 DEF OldestEnded
  <2>6. \A b \in AM : b # a => N.cuStarts[b] = L.cuStarts[b] BY <1>1, <2>2, <2>5
  <2>7. Timers(N, L) BY <1>1, <2>5 DEF Timers, Aside
  <2> QED BY <2>5, <2>6, <2>7 DEF N
<1> QED BY <1>2, <1>3, <1>4

\* A start that waits is not later than now.
LEMMA MatchTime ==
  ASSUME NEW L, NEW t \in Nat, CoreInv(L, t), NEW m \in Mon, NEW type, Waiting(L, m, type) # {}
  PROVE  Match(L, m, type).dev \in Nat /\ Match(L, m, type).dev <= t
<1>1. L \in Logs /\ KnownInv(L, t) BY DEF CoreInv
<1>2. PICK k \in 1..Len(L.db[m]) : Match(L, m, type) = L.db[m][k] BY <1>1, MatchOne
<1>3. Match(L, m, type) \in Entry BY <1>1, MatchOne
<1> QED BY <1>1, <1>2, <1>3 DEF KnownInv, Entry

\* addStallEvent.
LEMMA StallCore ==
  ASSUME NEW L, NEW t \in Nat, CoreInv(L, t), NEW a \in AM, NEW k \in Stall,
         NEW host \in Int, host >= 2 * t - 1
  PROVE  /\ CoreInv(AddStall(L, a, k, host, t), t) /\ Aside(AddStall(L, a, k, host, t), L)
         /\ AddStall(L, a, k, host, t).cuStarts = L.cuStarts
<1> DEFINE m == <<"am", a>>
           N == AddStall(L, a, k, host, t)
<1>1. m \in Mon /\ m \notin PortMons /\ k \in TypesOf(m) /\ k \in Kinds BY MonKinds
<1>2. k # "cu" BY KindAssumption
<1>3. N = IF k \in L.traceIDs[a] THEN AddEnd(Matched(L, m, k), Match(L, m, k).id, m, k, host) ELSE MarkStart(L, m, k, t)
  BY DEF AddStall
<1>4. L \in Logs BY DEF CoreInv
<1> HIDE DEF m, N
<1>5. CASE k \notin L.traceIDs[a]
  <2>1. N = MarkStart(L, m, k, t) BY <1>3, <1>5
  <2> QED BY <1>1, <2>1, MarkCore DEF N
<1>6. CASE k \in L.traceIDs[a] /\ Waiting(L, m, k) = {}
  <2>1. Match(L, m, k) = Unknown /\ Matched(L, m, k) = L BY <1>1, <1>4, <1>6, MatchNone
  <2>2. N = AddEnd(L, 0, m, k, host) BY <1>3, <1>6, <2>1 DEF Unknown
  <2>3. N = AddStart(L, NewId(L), m, k, host) BY <2>2 DEF AddEnd
  <2> QED BY <1>1, <2>3, StartCore DEF N
<1>7. CASE k \in L.traceIDs[a] /\ Waiting(L, m, k) # {}
  <2> DEFINE B == Matched(L, m, k)
  <2>1. /\ B \in Logs /\ B.open = L.open /\ B.wrong = L.wrong /\ B.cuStarts = L.cuStarts /\ Aside(B, L)
    BY <1>1, <1>4, <1>7, MatchOne
  <2>2. Match(L, m, k).dev \in Nat /\ Match(L, m, k).dev <= t BY <1>1, <1>7, MatchTime
  <2>3. host >= 2 * Match(L, m, k).dev - 1 BY <2>2
  <2>4. N = AddEnd(B, Match(L, m, k).id, m, k, host) BY <1>3, <1>7
  <2>5. B.db = Matched(L, m, k).db OBVIOUS
  <2> HIDE DEF B
  <2>6. CoreInv(N, t) /\ N.cuStarts = L.cuStarts /\ Aside(N, B)
    BY <1>1, <1>2, <1>7, <2>1, <2>3, <2>4, <2>5, EndCore
  <2>7. Aside(N, L) BY <2>1, <2>6 DEF Aside
  <2> QED BY <2>6, <2>7 DEF N
<1> QED BY <1>5, <1>6, <1>7

\* addStallEvent for each kind.
LEMMA StallsCore ==
  ASSUME NEW L, NEW t \in Nat, CoreInv(L, t), NEW a \in AM, NEW ks \in SUBSET Stall,
         NEW host \in Int, host >= 2 * t - 1
  PROVE  /\ CoreInv(AddStalls(L, a, ks, host, t), t) /\ Aside(AddStalls(L, a, ks, host, t), L)
         /\ AddStalls(L, a, ks, host, t).cuStarts = L.cuStarts
<1> DEFINE A == IF "int" \in ks THEN AddStall(L, a, "int", host, t) ELSE L
           B == IF "str" \in ks THEN AddStall(A, a, "str", host, t) ELSE A
           C == IF "ext" \in ks THEN AddStall(B, a, "ext", host, t) ELSE B
<1>1. AddStalls(L, a, ks, host, t) = C BY DEF AddStalls
<1>2. CoreInv(A, t) /\ Aside(A, L) /\ A.cuStarts = L.cuStarts
  <2>1. CASE "int" \in ks BY <2>1, StallCore
  <2>2. CASE "int" \notin ks BY <2>2 DEF Aside
  <2> QED BY <2>1, <2>2
<1> HIDE DEF A
<1>3. CoreInv(B, t) /\ Aside(B, A) /\ B.cuStarts = A.cuStarts
  <2>1. CASE "str" \in ks BY <1>2, <2>1, StallCore
  <2>2. CASE "str" \notin ks BY <1>2, <2>2 DEF Aside
  <2> QED BY <2>1, <2>2
<1> HIDE DEF B
<1>4. CoreInv(C, t) /\ Aside(C, B) /\ C.cuStarts = B.cuStarts
  <2>1. CASE "ext" \in ks BY <1>3, <2>1, StallCore
  <2>2. CASE "ext" \notin ks BY <1>3, <2>2 DEF Aside
  <2> QED BY <2>1, <2>2
<1> HIDE DEF C
<1>5. Aside(C, L) BY <1>2, <1>3, <1>4 DEF Aside
<1> QED BY <1>1, <1>2, <1>3, <1>4, <1>5

\* A unit, a port or a stream is active at t.
LEMMA TouchFields ==
  ASSUME NEW L \in Logs, NEW t \in Nat
  PROVE  /\ \A p \in AIM : LET N == [L EXCEPT !.aimLast[p] = t]
                           IN  /\ N \in Logs /\ N.open = L.open /\ N.wrong = L.wrong /\ N.db = L.db
                               /\ N.cuStarts = L.cuStarts /\ N.traceIDs = L.traceIDs /\ N.amLast = L.amLast
                               /\ N.asmLast = L.asmLast /\ N.aimLast = [L.aimLast EXCEPT ![p] = t]
         /\ \A s \in ASM : \A u \in Nat :
              LET N == [L EXCEPT !.asmLast[s] = u]
              IN  /\ N \in Logs /\ N.open = L.open /\ N.wrong = L.wrong /\ N.db = L.db
                  /\ N.cuStarts = L.cuStarts /\ N.traceIDs = L.traceIDs /\ N.amLast = L.amLast
                  /\ N.aimLast = L.aimLast /\ N.asmLast = [L.asmLast EXCEPT ![s] = u]
<1>1. L.aimLast \in [AIM -> Nat] /\ L.asmLast \in [ASM -> Nat] BY LogFields
<1>2. ASSUME NEW p \in AIM
      PROVE  LET N == [L EXCEPT !.aimLast[p] = t]
             IN  /\ N \in Logs /\ N.open = L.open /\ N.wrong = L.wrong /\ N.db = L.db
                 /\ N.cuStarts = L.cuStarts /\ N.traceIDs = L.traceIDs /\ N.amLast = L.amLast
                 /\ N.asmLast = L.asmLast /\ N.aimLast = [L.aimLast EXCEPT ![p] = t]
  <2>1. [L.aimLast EXCEPT ![p] = t] \in [AIM -> Nat] BY <1>1
  <2> QED BY <2>1 DEF Logs
<1>3. ASSUME NEW s \in ASM, NEW u \in Nat
      PROVE  LET N == [L EXCEPT !.asmLast[s] = u]
             IN  /\ N \in Logs /\ N.open = L.open /\ N.wrong = L.wrong /\ N.db = L.db
                 /\ N.cuStarts = L.cuStarts /\ N.traceIDs = L.traceIDs /\ N.amLast = L.amLast
                 /\ N.aimLast = L.aimLast /\ N.asmLast = [L.asmLast EXCEPT ![s] = u]
  <2>1. [L.asmLast EXCEPT ![s] = u] \in [ASM -> Nat] BY <1>1
  <2> QED BY <2>1 DEF Logs
<1> QED BY <1>2, <1>3

\* N is L after an event at t that is not one of a unit
Ticks(N, L, t) ==
  /\ N.cuStarts = L.cuStarts /\ N.amLast = L.amLast
  /\ \A p \in AIM : N.aimLast[p] = L.aimLast[p] \/ N.aimLast[p] = t
  /\ \A s \in ASM : N.asmLast[s] = L.asmLast[s] \/ N.asmLast[s] = t

\* Such an event keeps the last activities in order.
LEMMA TicksLast ==
  ASSUME NEW L, NEW N, NEW t \in Nat, LastInv(L, t), Ticks(N, L, t)
  PROVE  LastInv(N, t)
BY DEF LastInv, Ticks

\* The last activities are not later than later times.
LEMMA LastLater ==
  ASSUME NEW L \in Logs, NEW t \in Nat, NEW u \in Nat, t <= u, LastInv(L, t)
  PROVE  LastInv(L, u)
<1>1. L.amLast \in [AM -> Nat] /\ L.aimLast \in [AIM -> Nat] /\ L.asmLast \in [ASM -> Nat] BY LogFields
<1>2. \A x \in Nat : x <= t => x <= u OBVIOUS
<1> QED BY <1>1, <1>2 DEF LastInv

\* PLDB has no other types than that of a port.
LEMMA PortWaiting ==
  ASSUME NEW L, NEW t \in Nat, CoreInv(L, t), NEW m \in PortMons
  PROVE  /\ Waiting(L, m, m[1]) = {} => L.db[m] = <<>> /\ Match(L, m, m[1]).type = "unknown" /\ Matched(L, m, m[1]) = L
         /\ Waiting(L, m, m[1]) # {} => Match(L, m, m[1]).type # "unknown"
<1>1. L \in Logs /\ m \in Mon /\ m[1] # "unknown" /\ TypesOf(m) = {m[1]} BY MonKinds DEF CoreInv
<1>2. ASSUME Waiting(L, m, m[1]) = {} PROVE L.db[m] = <<>>
  <2>1. L.db[m] \in Seq(Entry) BY <1>1, LogFields
  <2>2. ASSUME L.db[m] # <<>> PROVE FALSE
    <3>1. 1 \in 1..Len(L.db[m]) BY <2>1, <2>2
    <3>2. L.db[m][1].type \in TypesOf(m) BY <1>1, <3>1 DEF CoreInv, KnownInv
    <3>3. 1 \in Waiting(L, m, m[1]) BY <1>1, <3>1, <3>2 DEF Waiting
    <3> QED BY <1>2, <3>3
  <2> QED BY <2>2
<1>3. ASSUME Waiting(L, m, m[1]) = {} PROVE Match(L, m, m[1]).type = "unknown" /\ Matched(L, m, m[1]) = L
  BY <1>1, <1>3, MatchNone DEF Unknown
<1>4. ASSUME Waiting(L, m, m[1]) # {} PROVE Match(L, m, m[1]).type # "unknown" BY <1>1, <1>4, MatchOne
<1> QED BY <1>2, <1>3, <1>4

\* addApproximateDataTransferEvent leaves the port without an open transfer.
LEMMA ApproxTransferCore ==
  ASSUME NEW L, NEW t \in Nat, CoreInv(L, t), NEW m \in PortMons, NEW amId \in AM \cup {-1}
  PROVE  LET N == ApproxTransfer(L, m, amId)
         IN  /\ CoreInv(N, t) /\ N.cuStarts = L.cuStarts /\ Aside(N, L)
             /\ N.db[m] = <<>> /\ \A n \in Mon : n # m => N.db[n] = L.db[n]
<1> DEFINE N == ApproxTransfer(L, m, amId)
           B == Matched(L, m, m[1])
           e == Match(L, m, m[1])
<1>1. L \in Logs /\ m \in Mon /\ m[1] # "cu" BY MonKinds DEF CoreInv
<1>2. CASE Waiting(L, m, m[1]) = {}
  <2>1. N = L /\ L.db[m] = <<>> BY <1>2, PortWaiting DEF ApproxTransfer
  <2> QED BY <2>1 DEF Aside
<1>3. CASE Waiting(L, m, m[1]) # {}
  <2> DEFINE E == AddEnd(B, e.id, m, m[1], TransferEnd(L, m, amId))
  <2>1. N = [E EXCEPT !.astray = E.astray \/ amId # m[2]] BY <1>3, PortWaiting DEF ApproxTransfer
  <2>2. /\ B \in Logs /\ B.open = L.open /\ B.wrong = L.wrong /\ B.cuStarts = L.cuStarts /\ Aside(B, L)
        /\ \A n \in Mon : n # m => B.db[n] = L.db[n]
    BY <1>1, <1>3, MatchOne
  <2>3. e.dev \in Nat BY <1>1, <1>3, MatchTime
  <2>4. TransferEnd(L, m, amId) \in Int /\ TransferEnd(L, m, amId) >= 2 * e.dev - 1
    <3>1. CASE amId # -1 /\ e.dev < L.amLast[amId]
      <4>1. L.amLast[amId] \in Nat BY <1>1, <3>1, LogFields
      <4>2. TransferEnd(L, m, amId) = 2 * L.amLast[amId] BY <3>1 DEF TransferEnd
      <4> HIDE DEF e
      <4> QED BY <2>3, <3>1, <4>1, <4>2
    <3>2. CASE ~(amId # -1 /\ e.dev < L.amLast[amId])
      <4>1. TransferEnd(L, m, amId) = 2 * e.dev + 1 BY <3>2 DEF TransferEnd
      <4> HIDE DEF e
      <4> QED BY <2>3, <4>1
    <3> QED BY <3>1, <3>2
  <2>5. CoreInv(E, t) /\ E.cuStarts = L.cuStarts /\ Aside(E, B) /\ E.db = B.db /\ E.db[m] = <<>>
    <3>1. PICK B2, k, h : B2 = B /\ k = m[1] /\ h = TransferEnd(L, m, amId) OBVIOUS
    <3>2. /\ B2 \in Logs /\ B2.open = L.open /\ B2.wrong = L.wrong /\ B2.cuStarts = L.cuStarts
          /\ B2.db = Matched(L, m, k).db /\ h \in Int /\ h >= 2 * Match(L, m, k).dev - 1
          /\ k # "cu" /\ Waiting(L, m, k) # {}
      BY <1>1, <1>3, <2>2, <2>4, <3>1
    <3>3. LET R == AddEnd(B2, Match(L, m, k).id, m, k, h)
          IN  /\ CoreInv(R, t) /\ R.cuStarts = L.cuStarts /\ Aside(R, B2) /\ R.db = B2.db
              /\ m \in PortMons => R.db[m] = <<>>
      BY <1>1, <3>2, EndCore
    <3> QED BY <3>1, <3>3
  <2> HIDE DEF N, B, E
  <2>6. /\ N \in Logs /\ N.open = E.open /\ N.wrong = E.wrong /\ N.db = E.db /\ N.cuStarts = E.cuStarts
        /\ Aside(N, E)
    <3>1. E \in Logs BY <2>5 DEF CoreInv
    <3> QED BY <2>1, <3>1 DEF Logs, Aside
  <2>7. CoreInv(N, t) BY <2>5, <2>6, CoreAside
  <2>8. Aside(N, L) BY <2>2, <2>5, <2>6 DEF Aside
  <2> QED BY <2>2, <2>5, <2>6, <2>7, <2>8 DEF N
<1> QED BY <1>2, <1>3

\* Both directions of a port.
LEMMA ApproxPortCore ==
  ASSUME NEW L, NEW t \in Nat, CoreInv(L, t), NEW p \in AIM
  PROVE  LET N == ApproxPort(L, p)
         IN  /\ CoreInv(N, t) /\ N.cuStarts = L.cuStarts /\ Aside(N, L)
             /\ N.db[<<"read", p>>] = <<>> /\ N.db[<<"write", p>>] = <<>>
             /\ \A n \in Mon : n # <<"read", p>> /\ n # <<"write", p>> => N.db[n] = L.db[n]
<1> DEFINE M == ApproxTransfer(L, <<"read", p>>, CuOf[p])
           N == ApproxTransfer(M, <<"write", p>>, CuOf[p])
<1>1. CuOf[p] \in AM \cup {-1} BY CuAssumption
<1>2. PICK x, y : x = <<"read", p>> /\ y = <<"write", p>> OBVIOUS
<1>3. x \in PortMons /\ y \in PortMons /\ x \in Mon /\ y \in Mon /\ x # y BY <1>2, MonKinds
<1>4. M = ApproxTransfer(L, x, CuOf[p]) /\ N = ApproxTransfer(M, y, CuOf[p]) BY <1>2
<1>5. ApproxPort(L, p) = N BY DEF ApproxPort
<1> HIDE DEF M, N
<1>6. /\ CoreInv(M, t) /\ M.cuStarts = L.cuStarts /\ Aside(M, L)
      /\ M.db[x] = <<>> /\ \A n \in Mon : n # x => M.db[n] = L.db[n]
  BY <1>1, <1>3, <1>4, ApproxTransferCore
<1>7. /\ CoreInv(N, t) /\ N.cuStarts = M.cuStarts /\ Aside(N, M)
      /\ N.db[y] = <<>> /\ \A n \in Mon : n # y => N.db[n] = M.db[n]
  BY <1>1, <1>3, <1>4, <1>6, ApproxTransferCore
<1>8. Aside(N, L) /\ N.db[x] = <<>> /\ \A n \in Mon : n # x /\ n # y => N.db[n] = L.db[n]
  BY <1>3, <1>6, <1>7 DEF Aside
<1> QED BY <1>2, <1>5, <1>6, <1>7, <1>8

\* f is the loop of ApproxPorts for n turns
PortsTurns(f, L, ps, n) == f = [k \in 0..n |-> IF k = 0 THEN L ELSE (IF k - 1 \in ps THEN ApproxPort(f[k - 1], k - 1) ELSE f[k - 1])]

\* There is such a loop.
LEMMA PortsExists ==
  ASSUME NEW L, NEW ps, NEW z \in Nat
  PROVE  \E f : PortsTurns(f, L, ps, z)
<1> DEFINE Good == {n \in Nat : \E f : PortsTurns(f, L, ps, n)}
<1>1. 0 \in Good
  <2>1. PortsTurns([k \in 0..0 |-> L], L, ps, 0) BY DEF PortsTurns
  <2> QED BY <2>1
<1>2. ASSUME NEW n \in Nat, n \in Good PROVE n + 1 \in Good
  <2>1. PICK f : PortsTurns(f, L, ps, n) BY <1>2
  <2>2. PICK e : e = (IF (n + 1) - 1 \in ps THEN ApproxPort(f[n], (n + 1) - 1) ELSE f[n]) OBVIOUS
  <2>3. PICK h : h = [k \in 0..(n + 1) |-> IF k = n + 1 THEN e ELSE f[k]] OBVIOUS
  <2>4. ASSUME NEW k \in 0..(n + 1)
        PROVE  h[k] = IF k = 0 THEN L ELSE (IF k - 1 \in ps THEN ApproxPort(h[k - 1], k - 1) ELSE h[k - 1])
    <3>1. CASE k = n + 1
      <4>1. h[k] = e /\ h[k - 1] = f[n] /\ k # 0 BY <2>3, <3>1
      <4> QED BY <2>2, <3>1, <4>1
    <3>2. CASE k # n + 1
      <4>1. k \in 0..n BY <3>2
      <4>2. f[k] = IF k = 0 THEN L ELSE (IF k - 1 \in ps THEN ApproxPort(f[k - 1], k - 1) ELSE f[k - 1]) BY <2>1, <4>1 DEF PortsTurns
      <4>3. h[k] = f[k] BY <2>3, <3>2
      <4>4. CASE k = 0 BY <4>2, <4>3, <4>4
      <4>5. CASE k # 0
        <5>1. h[k - 1] = f[k - 1] BY <2>3, <4>1, <4>5
        <5> QED BY <4>2, <4>3, <4>5, <5>1
      <4> QED BY <4>4, <4>5
    <3> QED BY <3>1, <3>2
  <2>5. PortsTurns(h, L, ps, n + 1) BY <2>3, <2>4 DEF PortsTurns
  <2> QED BY <2>5
<1>3. \A n \in Nat : n \in Good
  <2> HIDE DEF Good
  <2> QED BY <1>1, <1>2, Induct
<1> QED BY <1>3

\* The transfers of the ports ps end.
LEMMA ApproxPortsCore ==
  ASSUME NEW L, NEW t \in Nat, CoreInv(L, t), NEW ps \in SUBSET AIM
  PROVE  LET N == ApproxPorts(L, ps)
         IN  /\ CoreInv(N, t) /\ N.cuStarts = L.cuStarts /\ Aside(N, L)
             /\ \A p \in ps : N.db[<<"read", p>>] = <<>> /\ N.db[<<"write", p>>] = <<>>
<1> DEFINE f == CHOOSE f : PortsTurns(f, L, ps, Slots)
<1>1. Slots \in Nat /\ \A p \in ps : p \in Nat /\ p < Slots BY SlotsReach
<1>2. PortsTurns(f, L, ps, Slots) BY <1>1, PortsExists
<1>3. ApproxPorts(L, ps) = f[Slots] BY DEF ApproxPorts, PortsTurns
<1> HIDE DEF f
<1>4. f[0] = L BY <1>1, <1>2 DEF PortsTurns
<1>5. ASSUME NEW n \in Nat, n < Slots
      PROVE  f[n + 1] = IF n \in ps THEN ApproxPort(f[n], n) ELSE f[n]
  <2>1. n + 1 \in 0..Slots /\ n + 1 # 0 /\ (n + 1) - 1 = n BY <1>1, <1>5
  <2> QED BY <1>2, <2>1 DEF PortsTurns
<1> DEFINE Fine(n) == /\ CoreInv(f[n], t) /\ f[n].cuStarts = L.cuStarts /\ Aside(f[n], L)
                      /\ \A p \in ps : p < n => f[n].db[<<"read", p>>] = <<>> /\ f[n].db[<<"write", p>>] = <<>>
           Good == {n \in Nat : n <= Slots => Fine(n)}
<1>6. 0 \in Good BY <1>1, <1>4 DEF Aside
<1>7. ASSUME NEW n \in Nat, n \in Good PROVE n + 1 \in Good
  <2> SUFFICES ASSUME n + 1 <= Slots PROVE Fine(n + 1) OBVIOUS
  <2>1. n < Slots /\ n <= Slots BY <1>1
  <2>2. Fine(n) BY <1>7, <2>1
  <2>3. CASE n \notin ps
    <3>1. f[n + 1] = f[n] BY <1>5, <2>1, <2>3
    <3>2. \A p \in ps : p < n + 1 => p < n BY <1>1, <2>3
    <3> QED BY <2>2, <3>1, <3>2
  <2>4. CASE n \in ps
    <3>1. PICK A, B : A = f[n] /\ B = f[n + 1] OBVIOUS
    <3>2. B = ApproxPort(A, n) BY <1>5, <2>1, <2>4, <3>1
    <3>3. CoreInv(A, t) /\ A.cuStarts = L.cuStarts /\ Aside(A, L) BY <2>2, <3>1
    <3>4. /\ CoreInv(B, t) /\ B.cuStarts = A.cuStarts /\ Aside(B, A)
          /\ B.db[<<"read", n>>] = <<>> /\ B.db[<<"write", n>>] = <<>>
          /\ \A o \in Mon : o # <<"read", n>> /\ o # <<"write", n>> => B.db[o] = A.db[o]
      BY <2>4, <3>2, <3>3, ApproxPortCore
    <3>5. Aside(B, L) BY <3>3, <3>4 DEF Aside
    <3>6. ASSUME NEW p \in ps, p < n + 1 PROVE B.db[<<"read", p>>] = <<>> /\ B.db[<<"write", p>>] = <<>>
      <4>1. CASE p = n BY <3>4, <4>1
      <4>2. CASE p # n
        <5>1. p < n BY <1>1, <3>6, <4>2
        <5>2. <<"read", p>> \in Mon /\ <<"write", p>> \in Mon BY MonKinds
        <5>3. B.db[<<"read", p>>] = A.db[<<"read", p>>] /\ B.db[<<"write", p>>] = A.db[<<"write", p>>]
          BY <3>4, <4>2, <5>2
        <5>4. A.db[<<"read", p>>] = <<>> /\ A.db[<<"write", p>>] = <<>> BY <2>2, <3>1, <5>1
        <5> QED BY <5>3, <5>4
      <4> QED BY <4>1, <4>2
    <3> QED BY <3>1, <3>3, <3>4, <3>5, <3>6
  <2> QED BY <2>3, <2>4
<1>8. \A n \in Nat : n \in Good
  <2> HIDE DEF Good
  <2> QED BY <1>6, <1>7, Induct
<1>9. Fine(Slots) BY <1>1, <1>8
<1> QED BY <1>1, <1>3, <1>9

\* A unit that has just ended.
LEMMA TieOffCore ==
  ASSUME NEW L, NEW t \in Nat, CoreInv(L, t), NEW a \in AM
  PROVE  CoreInv(TieOff(L, a, t), t) /\ TieOff(L, a, t).cuStarts = L.cuStarts /\ Aside(TieOff(L, a, t), L)
<1> DEFINE P == ApproxPorts(L, {p \in AIM : CuOf[p] = a})
           N == AddStalls(P, a, Stall \cap P.traceIDs[a], 2 * t - 1, t)
<1>1. TieOff(L, a, t) = N BY DEF TieOff
<1>2. {p \in AIM : CuOf[p] = a} \in SUBSET AIM OBVIOUS
<1>3. CoreInv(P, t) /\ P.cuStarts = L.cuStarts /\ Aside(P, L) BY <1>2, ApproxPortsCore
<1> HIDE DEF P
<1>4. Stall \cap P.traceIDs[a] \in SUBSET Stall /\ 2 * t - 1 \in Int /\ 2 * t - 1 >= 2 * t - 1 OBVIOUS
<1>5. CoreInv(N, t) /\ N.cuStarts = P.cuStarts /\ Aside(N, P) BY <1>3, <1>4, StallsCore
<1> HIDE DEF N
<1>6. Aside(N, L) BY <1>3, <1>5 DEF Aside
<1> QED BY <1>1, <1>3, <1>5, <1>6

\* addAMEvent.
LEMMA AMCore ==
  ASSUME NEW L, NEW t \in Nat, CoreInv(L, t), LastInv(L, t), NEW a \in AM,
         NEW cu \in {"none", "start", "end"}, NEW ks \in SUBSET Stall
  PROVE  CoreInv(AddAM(L, a, cu, ks, t), t) /\ LastInv(AddAM(L, a, cu, ks, t), t)
<1> DEFINE bits == ks \cup (IF cu = "none" THEN {} ELSE {"cu"})
           U == IF cu = "none" THEN L ELSE AddCU(L, a, cu = "start", t)
           S == AddStalls(U, a, ks, 2 * t, t)
           tr == [S.traceIDs EXCEPT ![a] = (S.traceIDs[a] \ bits) \cup (bits \ S.traceIDs[a])]
           am == [S.amLast EXCEPT ![a] = t]
           G == [S EXCEPT !.traceIDs = tr, !.amLast = am]
           N == IF cu # "none" /\ G.cuStarts[a] = <<>> THEN TieOff(G, a, t) ELSE G
<1>1. AddAM(L, a, cu, ks, t) = N BY DEF AddAM
<1>2. bits \subseteq Kinds
  <2>1. \A k \in Stall : k \in Kinds BY KindAssumption DEF Kinds
  <2>2. "cu" \in Kinds BY DEF Kinds
  <2> QED BY <2>1, <2>2
<1>3. CoreInv(U, t) /\ Timers(U, L) /\ \A b \in AM : b # a => U.cuStarts[b] = L.cuStarts[b]
  <2>1. CASE cu = "none" BY <2>1 DEF Timers
  <2>2. CASE cu = "start"
    <3>1. U = AddCU(L, a, TRUE, t) BY <2>2
    <3>2. /\ CoreInv(AddCU(L, a, TRUE, t), t) /\ Timers(AddCU(L, a, TRUE, t), L)
          /\ \A b \in AM : b # a => AddCU(L, a, TRUE, t).cuStarts[b] = L.cuStarts[b]
      BY CuStartCore, Zenon
    <3> HIDE DEF U
    <3> QED BY <3>1, <3>2, Zenon
  <2>3. CASE cu = "end"
    <3>1. U = AddCU(L, a, FALSE, t) BY <2>3
    <3>2. /\ CoreInv(AddCU(L, a, FALSE, t), t) /\ Timers(AddCU(L, a, FALSE, t), L)
          /\ \A b \in AM : b # a => AddCU(L, a, FALSE, t).cuStarts[b] = L.cuStarts[b]
      BY CuStopCore, Zenon
    <3> HIDE DEF U
    <3> QED BY <3>1, <3>2, Zenon
  <2> QED BY <2>1, <2>2, <2>3
<1> HIDE DEF bits, U
<1>4. CoreInv(S, t) /\ Aside(S, U) /\ S.cuStarts = U.cuStarts
  <2>1. 2 * t \in Int /\ 2 * t >= 2 * t - 1 OBVIOUS
  <2> QED BY <1>3, <2>1, StallsCore
<1> HIDE DEF S
<1>5. S \in Logs BY <1>4 DEF CoreInv
<1>6. tr \in [AM -> SUBSET Kinds] /\ am \in [AM -> Nat] BY <1>2, <1>5, LogFields
<1>7. am[a] = t /\ \A b \in AM : b # a => am[b] = S.amLast[b] BY <1>5, LogFields
<1> HIDE DEF tr, am
<1>8. /\ G \in Logs /\ G.open = S.open /\ G.wrong = S.wrong /\ G.db = S.db /\ G.cuStarts = S.cuStarts
      /\ G.amLast = am /\ G.aimLast = S.aimLast /\ G.asmLast = S.asmLast
  BY <1>5, <1>6 DEF Logs
<1> HIDE DEF G
<1>9. CoreInv(G, t) BY <1>4, <1>8, CoreAside
<1>10. LastInv(G, t)
  <2>1. G.aimLast = L.aimLast /\ G.asmLast = L.asmLast /\ S.amLast = L.amLast BY <1>3, <1>4, <1>8 DEF Timers, Aside
  <2>2. ASSUME NEW b \in AM
        PROVE  /\ G.amLast[b] <= t
               /\ \A k \in 1..Len(G.cuStarts[b]) : G.cuStarts[b][k].dev <= G.amLast[b]
    <3>1. CASE b = a
      <4>1. G.amLast[b] = t BY <1>7, <1>8, <3>1
      <4>2. UnitInv(G, t) BY <1>9 DEF CoreInv
      <4> QED BY <4>1, <4>2 DEF UnitInv
    <3>2. CASE b # a
      <4>1. G.amLast[b] = L.amLast[b] /\ G.cuStarts[b] = L.cuStarts[b] BY <1>3, <1>4, <1>7, <1>8, <2>1, <3>2
      <4> QED BY <4>1 DEF LastInv
    <3> QED BY <3>1, <3>2
  <2> QED BY <2>1, <2>2 DEF LastInv
<1>11. CoreInv(TieOff(G, a, t), t) /\ LastInv(TieOff(G, a, t), t)
  <2>1. CoreInv(TieOff(G, a, t), t) /\ TieOff(G, a, t).cuStarts = G.cuStarts /\ Aside(TieOff(G, a, t), G)
    BY <1>9, TieOffCore
  <2> QED BY <1>10, <2>1 DEF LastInv, Aside
<1> QED BY <1>1, <1>9, <1>10, <1>11

\* An end that names the start that findMatchingStart gave out, with the last
\* activity of the port already put down.
LEMMA TakenEnd ==
  ASSUME NEW L, NEW t \in Nat, CoreInv(L, t), NEW m \in Mon, NEW k, k # "cu", Waiting(L, m, k) # {},
         NEW B \in Logs, B.open = L.open, B.wrong = L.wrong, B.cuStarts = L.cuStarts, B.db = Matched(L, m, k).db,
         NEW host \in Int, host >= 2 * t - 1
  PROVE  LET N == AddEnd(B, Match(L, m, k).id, m, k, host)
         IN  /\ CoreInv(N, t) /\ N.cuStarts = L.cuStarts /\ Aside(N, B)
             /\ m \in PortMons => N.db[m] = <<>>
<1>1. Match(L, m, k).dev \in Nat /\ Match(L, m, k).dev <= t BY MatchTime
<1>2. host >= 2 * Match(L, m, k).dev - 1 BY <1>1
<1> QED BY <1>2, EndCore

\* addKernelDataTransferEvent of a start.
LEMMA TransferStartCore ==
  ASSUME NEW L, NEW t \in Nat, CoreInv(L, t), NEW m \in PortMons
  PROVE  CoreInv(AddTransferStart(L, m, t), t) /\ Ticks(AddTransferStart(L, m, t), L, t)
<1> DEFINE N == AddTransferStart(L, m, t)
<1>1. L \in Logs /\ m \in Mon /\ m[1] \in TypesOf(m) /\ m[1] # "cu" /\ m[2] \in AIM BY MonKinds DEF CoreInv
<1>2. CASE Waiting(L, m, m[1]) = {}
  <2>1. N = MarkStart(L, m, m[1], t) /\ L.db[m] = <<>> BY <1>2, PortWaiting DEF AddTransferStart
  <2>2. CoreInv(N, t) /\ N.cuStarts = L.cuStarts /\ Aside(N, L) BY <1>1, <2>1, MarkCore
  <2> QED BY <2>2 DEF Ticks, Aside
<1>3. CASE Waiting(L, m, m[1]) # {}
  <2> DEFINE B == Matched(L, m, m[1])
             E == AddEnd(B, Match(L, m, m[1]).id, m, m[1], 2 * t - 1)
             T == [E EXCEPT !.aimLast[m[2]] = t]
  <2>1. N = MarkStart(T, m, m[1], t) BY <1>3 DEF AddTransferStart
  <2>2. /\ B \in Logs /\ B.open = L.open /\ B.wrong = L.wrong /\ B.cuStarts = L.cuStarts /\ Aside(B, L)
        /\ B.db = Matched(L, m, m[1]).db
    BY <1>1, <1>3, MatchOne
  <2>3. CoreInv(E, t) /\ E.cuStarts = L.cuStarts /\ Aside(E, B) /\ E.db[m] = <<>>
    <3>1. 2 * t - 1 \in Int /\ 2 * t - 1 >= 2 * t - 1 OBVIOUS
    <3> HIDE DEF B
    <3> QED BY <1>1, <1>3, <2>2, <3>1, TakenEnd
  <2> HIDE DEF B, E
  <2>4. E \in Logs BY <2>3 DEF CoreInv
  <2>5. /\ T \in Logs /\ T.open = E.open /\ T.wrong = E.wrong /\ T.db = E.db /\ T.cuStarts = E.cuStarts
        /\ T.amLast = E.amLast /\ T.asmLast = E.asmLast /\ T.aimLast = [E.aimLast EXCEPT ![m[2]] = t]
    BY <1>1, <2>4, TouchFields
  <2> HIDE DEF T
  <2>6. CoreInv(T, t) BY <2>3, <2>5, CoreAside
  <2>7. CoreInv(N, t) /\ N.cuStarts = T.cuStarts /\ Aside(N, T) BY <1>1, <2>1, <2>3, <2>5, <2>6, MarkCore
  <2>8. E.aimLast \in [AIM -> Nat] BY <2>4, LogFields
  <2>9. N.aimLast = [E.aimLast EXCEPT ![m[2]] = t] /\ E.aimLast = L.aimLast BY <2>2, <2>3, <2>5, <2>7 DEF Aside
  <2>10. N.amLast = L.amLast /\ N.asmLast = L.asmLast /\ N.cuStarts = L.cuStarts
    BY <2>2, <2>3, <2>5, <2>7 DEF Aside
  <2> QED BY <2>7, <2>8, <2>9, <2>10 DEF Ticks
<1> QED BY <1>2, <1>3

\* addKernelDataTransferEvent of an end.
LEMMA TransferEndCore ==
  ASSUME NEW L, NEW t \in Nat, CoreInv(L, t), NEW m \in PortMons, NEW pulse \in BOOLEAN
  PROVE  CoreInv(AddTransferEnd(L, m, pulse, t), t) /\ Ticks(AddTransferEnd(L, m, pulse, t), L, t)
<1> DEFINE N == AddTransferEnd(L, m, pulse, t)
           M == Matched(L, m, m[1])
           T == [M EXCEPT !.aimLast[m[2]] = t]
           id == Match(L, m, m[1]).id
           E1 == AddEnd(T, id, m, m[1], 2 * t)
           E2 == AddEnd(T, id, m, m[1], 2 * t + 1)
<1>1. L \in Logs /\ m \in Mon /\ m[1] \in TypesOf(m) /\ m[1] # "cu" /\ m[1] \in Kinds /\ m[2] \in AIM
  BY MonKinds DEF CoreInv
<1>2. /\ M \in Logs /\ M.open = L.open /\ M.wrong = L.wrong /\ M.cuStarts = L.cuStarts /\ Aside(M, L)
  <2>1. CASE Waiting(L, m, m[1]) = {}
    <3>1. M = L BY <2>1, PortWaiting
    <3> QED BY <1>1, <3>1 DEF Aside
  <2>2. CASE Waiting(L, m, m[1]) # {} BY <1>1, <2>2, MatchOne
  <2> QED BY <2>1, <2>2
<1>3. N = IF Match(L, m, m[1]).type = "unknown" THEN AddPulse(T, m, m[1], t)
          ELSE IF ~pulse THEN E1
          ELSE IF Match(L, m, m[1]).dev = t THEN E2
          ELSE AddPulse(E1, m, m[1], t)
  BY DEF AddTransferEnd
<1>4. /\ T \in Logs /\ T.open = M.open /\ T.wrong = M.wrong /\ T.db = M.db /\ T.cuStarts = M.cuStarts
      /\ T.amLast = M.amLast /\ T.asmLast = M.asmLast /\ T.aimLast = [M.aimLast EXCEPT ![m[2]] = t]
  <2> HIDE DEF M
  <2> QED BY <1>1, <1>2, TouchFields
<1>5. M.db = Matched(L, m, m[1]).db OBVIOUS
<1>6. M = L => T.db = L.db OBVIOUS
<1>7. Waiting(L, m, m[1]) = {} => M = L BY PortWaiting
<1> HIDE DEF N, M, T, E1, E2
<1>8. ASSUME NEW R, R.cuStarts = T.cuStarts, Aside(R, T) PROVE Ticks(R, L, t)
  <2>1. M.aimLast \in [AIM -> Nat] BY <1>2, LogFields
  <2>2. R.aimLast = [M.aimLast EXCEPT ![m[2]] = t] /\ M.aimLast = L.aimLast BY <1>2, <1>4, <1>8 DEF Aside
  <2>3. R.amLast = L.amLast /\ R.asmLast = L.asmLast /\ R.cuStarts = L.cuStarts BY <1>2, <1>4, <1>8 DEF Aside
  <2> QED BY <2>1, <2>2, <2>3 DEF Ticks
<1>9. CASE Waiting(L, m, m[1]) = {}
  <2>1. N = AddPulse(T, m, m[1], t) /\ T.db = L.db BY <1>3, <1>4, <1>7, <1>9, PortWaiting
  <2>2. CoreInv(T, t) BY <1>2, <1>4, <2>1, CoreAside
  <2>3. CoreInv(N, t) /\ N.cuStarts = T.cuStarts /\ Aside(N, T) BY <1>1, <2>1, <2>2, PulseCore
  <2> QED BY <1>8, <2>3 DEF N
<1>10. CASE Waiting(L, m, m[1]) # {}
  <2>1. N \in {E1, E2, AddPulse(E1, m, m[1], t)} BY <1>3, <1>10, PortWaiting
  <2>2. CoreInv(E1, t) /\ E1.cuStarts = T.cuStarts /\ Aside(E1, T)
    <3>1. 2 * t \in Int /\ 2 * t >= 2 * t - 1 OBVIOUS
    <3> QED BY <1>1, <1>2, <1>4, <1>5, <1>10, <3>1, TakenEnd DEF E1
  <2>3. CoreInv(E2, t) /\ E2.cuStarts = T.cuStarts /\ Aside(E2, T)
    <3>1. 2 * t + 1 \in Int /\ 2 * t + 1 >= 2 * t - 1 OBVIOUS
    <3> QED BY <1>1, <1>2, <1>4, <1>5, <1>10, <3>1, TakenEnd DEF E2
  <2>4. LET P == AddPulse(E1, m, m[1], t) IN CoreInv(P, t) /\ P.cuStarts = T.cuStarts /\ Aside(P, T)
    <3>1. PICK P : P = AddPulse(E1, m, m[1], t) OBVIOUS
    <3>2. CoreInv(P, t) /\ P.cuStarts = E1.cuStarts /\ Aside(P, E1) BY <1>1, <2>2, <3>1, PulseCore
    <3>3. Aside(P, T) BY <2>2, <3>2 DEF Aside
    <3> QED BY <2>2, <3>1, <3>2, <3>3
  <2>5. CoreInv(N, t) /\ N.cuStarts = T.cuStarts /\ Aside(N, T) BY <2>1, <2>2, <2>3, <2>4
  <2> QED BY <1>8, <2>5 DEF N
<1> QED BY <1>9, <1>10

\* addASMEvent.
LEMMA ASMCore ==
  ASSUME NEW L, NEW t \in Nat, CoreInv(L, t), NEW s \in ASM, NEW k \in Flow,
         NEW isStart \in BOOLEAN, NEW isSingle \in BOOLEAN
  PROVE  CoreInv(AddASM(L, s, k, isStart, isSingle, t), t) /\ Ticks(AddASM(L, s, k, isStart, isSingle, t), L, t)
<1> DEFINE m == <<"asm", s>>
           N == AddASM(L, s, k, isStart, isSingle, t)
           M == Matched(L, m, k)
           T == [M EXCEPT !.asmLast[s] = t]
           E == AddEnd(T, Match(L, m, k).id, m, k, 2 * t)
<1>1. L \in Logs /\ m \in Mon /\ m \notin PortMons /\ k \in TypesOf(m) /\ k \in Kinds
  BY MonKinds DEF CoreInv
<1>2. k # "cu" BY KindAssumption
<1>3. N = IF isStart THEN MarkStart(L, m, k, t)
          ELSE IF isSingle \/ Match(L, m, k).type = "unknown" THEN AddPulse(T, m, k, t) ELSE E
  BY DEF AddASM
<1> HIDE DEF m, N
<1>4. CASE isStart
  <2>1. N = MarkStart(L, m, k, t) BY <1>3, <1>4
  <2>2. CoreInv(N, t) /\ N.cuStarts = L.cuStarts /\ Aside(N, L) BY <1>1, <2>1, MarkCore
  <2> QED BY <2>2 DEF Ticks, Aside, N
<1>5. CoreInv(M, t) /\ M.cuStarts = L.cuStarts /\ M.open = L.open /\ Aside(M, L) BY <1>1, TakenCore
<1>6. M.db = Matched(L, m, k).db OBVIOUS
<1> HIDE DEF M
<1>7. M \in Logs /\ M.wrong = L.wrong BY <1>5 DEF CoreInv
<1>8. /\ T \in Logs /\ T.open = M.open /\ T.wrong = M.wrong /\ T.db = M.db /\ T.cuStarts = M.cuStarts
      /\ T.amLast = M.amLast /\ T.aimLast = M.aimLast /\ T.asmLast = [M.asmLast EXCEPT ![s] = t]
  BY <1>7, TouchFields
<1> HIDE DEF T
<1>9. CoreInv(T, t) BY <1>5, <1>8, CoreAside
<1>10. ASSUME NEW R, R.cuStarts = T.cuStarts, Aside(R, T) PROVE Ticks(R, L, t)
  <2>1. M.asmLast \in [ASM -> Nat] BY <1>7, LogFields
  <2>2. R.asmLast = [M.asmLast EXCEPT ![s] = t] /\ M.asmLast = L.asmLast BY <1>5, <1>8, <1>10 DEF Aside
  <2>3. R.amLast = L.amLast /\ R.aimLast = L.aimLast /\ R.cuStarts = L.cuStarts BY <1>5, <1>8, <1>10 DEF Aside
  <2> QED BY <2>1, <2>2, <2>3 DEF Ticks
<1>11. CASE N = AddPulse(T, m, k, t)
  <2>1. CoreInv(N, t) /\ N.cuStarts = T.cuStarts /\ Aside(N, T) BY <1>1, <1>9, <1>11, PulseCore
  <2> QED BY <1>10, <2>1 DEF N
<1>12. CASE N = E /\ Match(L, m, k).type # "unknown"
  <2>1. Waiting(L, m, k) # {} BY <1>1, <1>12, MatchNone DEF Unknown
  <2>2. 2 * t \in Int /\ 2 * t >= 2 * t - 1 OBVIOUS
  <2>3. CoreInv(E, t) /\ E.cuStarts = T.cuStarts /\ Aside(E, T)
    BY <1>1, <1>2, <1>5, <1>6, <1>7, <1>8, <2>1, <2>2, TakenEnd
  <2> HIDE DEF E
  <2> QED BY <1>10, <1>12, <2>3 DEF N
<1> QED BY <1>3, <1>4, <1>11, <1>12

-----------------------------------------------------------------------------
(* endProcessTraceData: nothing is left open that PLDB knows               *)

\* The last activity on a unit is not before its oldest execution.
LEMMA CuLastBound ==
  ASSUME NEW L \in Logs, NEW t \in Nat, LastInv(L, t), NEW a \in AM
  PROVE  CuLast(L, a) \in Nat /\ L.amLast[a] <= CuLast(L, a)
<1> DEFINE S == {L.amLast[a]} \cup {L.aimLast[p] : p \in {p \in AIM : CuOf[p] = a}}
                              \cup {L.asmLast[s] : s \in {s \in ASM : CuOf[s] = a}}
<1>1. L.amLast \in [AM -> Nat] /\ L.aimLast \in [AIM -> Nat] /\ L.asmLast \in [ASM -> Nat] BY LogFields
<1>2. S \subseteq 0..t
  <2>1. L.amLast[a] \in 0..t BY <1>1 DEF LastInv
  <2>2. \A p \in AIM : L.aimLast[p] \in 0..t BY <1>1 DEF LastInv
  <2>3. \A s \in ASM : L.asmLast[s] \in 0..t BY <1>1 DEF LastInv
  <2> QED BY <2>1, <2>2, <2>3
<1>3. L.amLast[a] \in S OBVIOUS
<1>4. CuLast(L, a) = MaxOf(S) BY DEF CuLast
<1> HIDE DEF S
<1>5. MaxOf(S) \in S /\ \A y \in S : y <= MaxOf(S) BY <1>2, <1>3, MaxBounded
<1>6. PICK x : x = MaxOf(S) OBVIOUS
<1>7. x \in 0..t /\ L.amLast[a] <= x BY <1>2, <1>3, <1>5, <1>6
<1> QED BY <1>4, <1>6, <1>7

\* The oldest execution of a unit ends.
LEMMA ApproxCUEndCore ==
  ASSUME NEW L, NEW t \in Nat, CoreInv(L, t), LastInv(L, t), NEW a \in AM
  PROVE  CoreInv(ApproxCUEnd(L, a), t) /\ LastInv(ApproxCUEnd(L, a), t)
<1> DEFINE N == ApproxCUEnd(L, a)
           u == CuLast(L, a)
<1>1. L \in Logs BY DEF CoreInv
<1>2. u \in Nat /\ L.amLast[a] <= u BY <1>1, CuLastBound
<1>3. N = L \/ (L.cuStarts[a] # <<>> /\ N = AddCUEnd(L, a, u)) BY DEF ApproxCUEnd
<1> HIDE DEF N, u
<1>4. CASE N = L BY <1>4 DEF N
<1>5. CASE L.cuStarts[a] # <<>> /\ N = AddCUEnd(L, a, u)
  <2>1. L.cuStarts \in [AM -> Seq(CuEntry)] /\ L.amLast \in [AM -> Nat] BY <1>1, LogFields
  <2>2. PICK z \in Nat : z = Len(L.cuStarts[a]) /\ z > 0 BY <1>5, <2>1
  <2>3. 1 \in 1..z BY <2>2
  <2>4. L.cuStarts[a][1].dev <= L.amLast[a] /\ L.cuStarts[a][1] \in CuEntry BY <2>1, <2>2, <2>3 DEF LastInv
  <2>5. L.cuStarts[a][1].dev \in Nat /\ L.amLast[a] \in Nat BY <2>1, <2>4 DEF CuEntry
  <2>6. L.cuStarts[a][1].dev <= u BY <1>2, <2>4, <2>5
  <2>7. CoreInv(N, t) /\ Aside(N, L) /\ N.cuStarts = [L.cuStarts EXCEPT ![a] = Tail(L.cuStarts[a])]
    <3>1. OldestEnded(N, L, a, t) BY <1>2, <1>5, <2>6, CuEndCore
    <3> QED BY <3>1 DEF OldestEnded
  <2>8. LastInv(N, t)
    <3>1. N.amLast = L.amLast /\ N.aimLast = L.aimLast /\ N.asmLast = L.asmLast BY <2>7 DEF Aside
    <3>2. ASSUME NEW b \in AM, NEW k \in 1..Len(N.cuStarts[b]) PROVE N.cuStarts[b][k].dev <= N.amLast[b]
      <4>1. CASE b # a
        <5>1. N.cuStarts[b] = L.cuStarts[b] BY <2>1, <2>7, <4>1
        <5> QED BY <3>1, <5>1 DEF LastInv
      <4>2. CASE b = a
        <5>1. N.cuStarts[b] = Tail(L.cuStarts[a]) BY <2>1, <2>7, <4>2
        <5>2. L.cuStarts[a] \in Seq(CuEntry) BY <2>1
        <5>3. k \in 1..(z - 1) /\ N.cuStarts[b][k] = L.cuStarts[a][k + 1] BY <2>2, <5>1, <5>2
        <5>4. k + 1 \in 1..z BY <2>2, <5>3
        <5>5. L.cuStarts[a][k + 1].dev <= L.amLast[a] BY <2>2, <5>4 DEF LastInv
        <5> QED BY <3>1, <4>2, <5>3, <5>5
      <4> QED BY <4>1, <4>2
    <3> QED BY <3>1, <3>2 DEF LastInv
  <2> QED BY <2>7, <2>8 DEF N
<1> QED BY <1>3, <1>4, <1>5

\* f is the loop of ApproxCUEnds for n turns
UnitsTurns(f, L, n) == f = [k \in 0..n |-> IF k = 0 THEN L ELSE (IF k - 1 \in AM THEN ApproxCUEnd(f[k - 1], k - 1) ELSE f[k - 1])]

\* There is such a loop.
LEMMA UnitsExists ==
  ASSUME NEW L, NEW z \in Nat
  PROVE  \E f : UnitsTurns(f, L, z)
<1> DEFINE Good == {n \in Nat : \E f : UnitsTurns(f, L, n)}
<1>1. 0 \in Good
  <2>1. UnitsTurns([k \in 0..0 |-> L], L, 0) BY DEF UnitsTurns
  <2> QED BY <2>1
<1>2. ASSUME NEW n \in Nat, n \in Good PROVE n + 1 \in Good
  <2>1. PICK f : UnitsTurns(f, L, n) BY <1>2
  <2>2. PICK e : e = (IF (n + 1) - 1 \in AM THEN ApproxCUEnd(f[n], (n + 1) - 1) ELSE f[n]) OBVIOUS
  <2>3. PICK h : h = [k \in 0..(n + 1) |-> IF k = n + 1 THEN e ELSE f[k]] OBVIOUS
  <2>4. ASSUME NEW k \in 0..(n + 1)
        PROVE  h[k] = IF k = 0 THEN L ELSE (IF k - 1 \in AM THEN ApproxCUEnd(h[k - 1], k - 1) ELSE h[k - 1])
    <3>1. CASE k = n + 1
      <4>1. h[k] = e /\ h[k - 1] = f[n] /\ k # 0 BY <2>3, <3>1
      <4> QED BY <2>2, <3>1, <4>1
    <3>2. CASE k # n + 1
      <4>1. k \in 0..n BY <3>2
      <4>2. f[k] = IF k = 0 THEN L ELSE (IF k - 1 \in AM THEN ApproxCUEnd(f[k - 1], k - 1) ELSE f[k - 1]) BY <2>1, <4>1 DEF UnitsTurns
      <4>3. h[k] = f[k] BY <2>3, <3>2
      <4>4. CASE k = 0 BY <4>2, <4>3, <4>4
      <4>5. CASE k # 0
        <5>1. h[k - 1] = f[k - 1] BY <2>3, <4>1, <4>5
        <5> QED BY <4>2, <4>3, <4>5, <5>1
      <4> QED BY <4>4, <4>5
    <3> QED BY <3>1, <3>2
  <2>5. UnitsTurns(h, L, n + 1) BY <2>3, <2>4 DEF UnitsTurns
  <2> QED BY <2>5
<1>3. \A n \in Nat : n \in Good
  <2> HIDE DEF Good
  <2> QED BY <1>1, <1>2, Induct
<1> QED BY <1>3

\* addApproximateCUEndEvents.
LEMMA ApproxCUEndsCore ==
  ASSUME NEW L, NEW t \in Nat, CoreInv(L, t), LastInv(L, t)
  PROVE  CoreInv(ApproxCUEnds(L), t)
<1> DEFINE f == CHOOSE f : UnitsTurns(f, L, Slots)
<1>1. Slots \in Nat BY SlotsReach
<1>2. UnitsTurns(f, L, Slots) BY <1>1, UnitsExists
<1>3. ApproxCUEnds(L) = f[Slots] BY DEF ApproxCUEnds, UnitsTurns
<1> HIDE DEF f
<1>4. f[0] = L BY <1>1, <1>2 DEF UnitsTurns
<1>5. ASSUME NEW n \in Nat, n < Slots PROVE f[n + 1] = IF n \in AM THEN ApproxCUEnd(f[n], n) ELSE f[n]
  <2>1. n + 1 \in 0..Slots /\ n + 1 # 0 /\ (n + 1) - 1 = n BY <1>1, <1>5
  <2> QED BY <1>2, <2>1 DEF UnitsTurns
<1> DEFINE Good == {n \in Nat : n <= Slots => CoreInv(f[n], t) /\ LastInv(f[n], t)}
<1>6. 0 \in Good BY <1>4
<1>7. ASSUME NEW n \in Nat, n \in Good PROVE n + 1 \in Good
  <2> SUFFICES ASSUME n + 1 <= Slots PROVE CoreInv(f[n + 1], t) /\ LastInv(f[n + 1], t) OBVIOUS
  <2>1. n < Slots /\ n <= Slots BY <1>1
  <2>2. CoreInv(f[n], t) /\ LastInv(f[n], t) BY <1>7, <2>1
  <2>3. CASE n \notin AM BY <1>5, <2>1, <2>2, <2>3
  <2>4. CASE n \in AM
    <3>1. f[n + 1] = ApproxCUEnd(f[n], n) BY <1>5, <2>1, <2>4
    <3> QED BY <2>2, <2>4, <3>1, ApproxCUEndCore
  <2> QED BY <2>3, <2>4
<1>8. \A n \in Nat : n \in Good
  <2> HIDE DEF Good
  <2> QED BY <1>6, <1>7, Induct
<1> QED BY <1>1, <1>3, <1>8

\* f is the loop of ApproxStream over the queue q for n turns
EndsTurns(f, L, s, q, n) == f = [k \in 0..n |-> IF k = 0 THEN L ELSE AddStreamEnd(f[k - 1], s, q[k])]

\* There is such a loop.
LEMMA EndsExists ==
  ASSUME NEW L, NEW s, NEW q, NEW z \in Nat
  PROVE  \E f : EndsTurns(f, L, s, q, z)
<1> DEFINE Good == {n \in Nat : \E f : EndsTurns(f, L, s, q, n)}
<1>1. 0 \in Good
  <2>1. EndsTurns([k \in 0..0 |-> L], L, s, q, 0) BY DEF EndsTurns
  <2> QED BY <2>1
<1>2. ASSUME NEW n \in Nat, n \in Good PROVE n + 1 \in Good
  <2>1. PICK f : EndsTurns(f, L, s, q, n) BY <1>2
  <2>2. PICK e : e = AddStreamEnd(f[n], s, q[(n + 1)]) OBVIOUS
  <2>3. PICK h : h = [k \in 0..(n + 1) |-> IF k = n + 1 THEN e ELSE f[k]] OBVIOUS
  <2>4. ASSUME NEW k \in 0..(n + 1)
        PROVE  h[k] = IF k = 0 THEN L ELSE AddStreamEnd(h[k - 1], s, q[k])
    <3>1. CASE k = n + 1
      <4>1. h[k] = e /\ h[k - 1] = f[n] /\ k # 0 BY <2>3, <3>1
      <4> QED BY <2>2, <3>1, <4>1
    <3>2. CASE k # n + 1
      <4>1. k \in 0..n BY <3>2
      <4>2. f[k] = IF k = 0 THEN L ELSE AddStreamEnd(f[k - 1], s, q[k]) BY <2>1, <4>1 DEF EndsTurns
      <4>3. h[k] = f[k] BY <2>3, <3>2
      <4>4. CASE k = 0 BY <4>2, <4>3, <4>4
      <4>5. CASE k # 0
        <5>1. h[k - 1] = f[k - 1] BY <2>3, <4>1, <4>5
        <5> QED BY <4>2, <4>3, <4>5, <5>1
      <4> QED BY <4>4, <4>5
    <3> QED BY <3>1, <3>2
  <2>5. EndsTurns(h, L, s, q, n + 1) BY <2>3, <2>4 DEF EndsTurns
  <2> QED BY <2>5
<1>3. \A n \in Nat : n \in Good
  <2> HIDE DEF Good
  <2> QED BY <1>1, <1>2, Induct
<1> QED BY <1>3

\* An approximate end of a stream event is not before its start.
LEMMA StreamEndBound ==
  ASSUME NEW L \in Logs, NEW s \in ASM, NEW d \in Nat
  PROVE  /\ StreamEnd(L, s, d) \in Nat /\ d <= StreamEnd(L, s, d)
         /\ CuOf[s] = -1 => StreamEnd(L, s, d) = d
         /\ CuOf[s] # -1 => L.amLast[CuOf[s]] \in Nat /\ StreamEnd(L, s, d) <= d + L.amLast[CuOf[s]]
<1>1. CuOf[s] \in AM \cup {-1} BY CuAssumption
<1>2. CASE CuOf[s] = -1 BY <1>2 DEF StreamEnd
<1>3. CASE CuOf[s] # -1
  <2>1. L.amLast[CuOf[s]] \in Nat BY <1>1, <1>3, LogFields
  <2>2. StreamEnd(L, s, d) = IF d < L.amLast[CuOf[s]] THEN L.amLast[CuOf[s]] ELSE d BY <1>3 DEF StreamEnd
  <2> QED BY <1>3, <2>1, <2>2
<1> QED BY <1>2, <1>3

\* addApproximateStreamEndEvent ends what PLDB knows of a stream.
LEMMA ApproxStreamCore ==
  ASSUME NEW L, NEW t \in Nat, CoreInv(L, t), NEW s \in ASM
  PROVE  LET N == ApproxStream(L, s)
         IN  /\ CoreInv(N, t) /\ N.db[<<"asm", s>>] = <<>>
             /\ \A n \in Mon : n # <<"asm", s>> => N.db[n] = L.db[n]
<1> DEFINE m == <<"asm", s>>
           q == L.db[m]
           f == CHOOSE f : EndsTurns(f, L, s, q, Len(q))
           ends == {StreamEnd(L, s, q[k].dev) : k \in 1..Len(q)}
           last == IF ends = {} THEN 0 ELSE MaxOf(ends)
           R == f[Len(q)]
           D == [R.db EXCEPT ![m] = <<>>]
           A == [R.asmLast EXCEPT ![s] = last]
           N == [R EXCEPT !.db = D, !.asmLast = A]
           Ended(n) == {StartOf(q[j], m) : j \in 1..n}
<1>1. L \in Logs /\ OpenInv(L) /\ m \in Mon /\ m \notin PortMons /\ TypesOf(m) = Flow BY MonKinds DEF CoreInv
<1>2. q \in Seq(Entry) BY <1>1, LogFields
<1>3. PICK z \in Nat : z = Len(q) BY <1>2
<1>4. EndsTurns(f, L, s, q, z)
  <2>1. EndsTurns(f, L, s, q, Len(q)) BY <1>3, EndsExists
  <2> QED BY <1>3, <2>1
<1>5. ApproxStream(L, s) = N BY DEF ApproxStream, EndsTurns
<1>6. q = L.db[m] /\ m = <<"asm", s>> OBVIOUS
<1> HIDE DEF f, m, q
<1>7. ASSUME NEW k \in 1..z
      PROVE  /\ q[k] \in Entry /\ q[k].id \in Nat \ {0} /\ q[k].dev \in Nat /\ q[k].dev <= t
             /\ q[k].type # "cu" /\ StartOf(q[k], m) \in L.open
  <2>1. KnownInv(L, t) BY DEF CoreInv
  <2>2. q[k] \in Entry BY <1>2, <1>3
  <2>3. q[k].dev <= t /\ q[k].type \in Flow BY <1>1, <1>3, <1>6, <2>1 DEF KnownInv
  <2>4. q[k].type # "cu" BY <2>3, KindAssumption
  <2>5. StartOf(q[k], m) \in L.open BY <1>1, <1>3, <1>6, <2>1, <2>4 DEF KnownInv
  <2> QED BY <2>2, <2>3, <2>4, <2>5 DEF Entry
<1>8. ASSUME NEW j \in 1..z, NEW k \in 1..z, j # k PROVE StartOf(q[j], m) # StartOf(q[k], m)
  <2>1. DistinctInv(L) BY DEF CoreInv
  <2>2. q[j].id # q[k].id BY <1>1, <1>3, <1>6, <1>7, <1>8, <2>1 DEF DistinctInv
  <2>3. StartOf(q[j], m).id = q[j].id /\ StartOf(q[k], m).id = q[k].id BY DEF StartOf
  <2> QED BY <2>2, <2>3
<1>9. f[0] = L /\ \A k \in 1..z : f[k] = AddStreamEnd(f[k - 1], s, q[k])
  <2>1. 0 \in 0..z /\ \A k \in 1..z : k \in 0..z /\ k # 0 OBVIOUS
  <2> QED BY <1>4, <2>1 DEF EndsTurns
<1> DEFINE Fine(n) == /\ f[n] \in Logs /\ f[n].open = L.open \ Ended(n) /\ f[n].wrong = L.wrong
                      /\ f[n].db = L.db /\ f[n].cuStarts = L.cuStarts /\ Aside(f[n], L) /\ OpenInv(f[n])
           Good == {n \in Nat : n <= z => Fine(n)}
<1>10. 0 \in Good
  <2>1. Ended(0) = {} OBVIOUS
  <2> HIDE DEF Ended
  <2> QED BY <1>1, <1>9, <2>1 DEF Aside
<1>11. ASSUME NEW n \in Nat, n \in Good PROVE n + 1 \in Good
  <2> SUFFICES ASSUME n + 1 <= z PROVE Fine(n + 1) OBVIOUS
  <2>1. n <= z /\ n + 1 \in 1..z /\ (n + 1) - 1 = n OBVIOUS
  <2>2. Fine(n) BY <1>11, <2>1
  <2>3. PICK P, M, e : P = f[n] /\ M = f[n + 1] /\ e = q[n + 1] OBVIOUS
  <2> DEFINE x == StartOf(e, m)
             h == IF StreamEnd(P, s, e.dev) > e.dev THEN 2 * StreamEnd(P, s, e.dev) ELSE 2 * e.dev + 1
  <2>4. M = AddEnd(P, e.id, m, e.type, h) BY <1>6, <1>9, <2>1, <2>3 DEF AddStreamEnd
  <2>5. x \in L.open /\ e.id \in Nat \ {0} /\ e.dev \in Nat BY <1>7, <2>1, <2>3
  <2>6. x \notin Ended(n)
    <3>1. \A j \in 1..n : j \in 1..z /\ j # n + 1 BY <2>1
    <3> QED BY <1>8, <2>1, <2>3, <3>1
  <2>7. Ended(n + 1) = Ended(n) \cup {x}
    <3>1. 1..(n + 1) = (1..n) \cup {n + 1} OBVIOUS
    <3> QED BY <2>3, <3>1
  <2>8. x.id = e.id /\ x.mon = m /\ x.type = e.type /\ x.host = 2 * e.dev BY DEF StartOf
  <2> HIDE DEF x, Ended
  <2>9. P \in Logs /\ OpenInv(P) /\ x \in P.open BY <2>2, <2>3, <2>5, <2>6
  <2>10. StreamEnd(P, s, e.dev) \in Nat BY <2>5, <2>9, StreamEndBound
  <2>11. h \in Int /\ h >= x.host - 1
    <3>1. PICK v \in Nat : v = StreamEnd(P, s, e.dev) BY <2>10
    <3>2. h = IF v > e.dev THEN 2 * v ELSE 2 * e.dev + 1 BY <3>1
    <3> HIDE DEF h
    <3> QED BY <2>5, <2>8, <3>2
  <2> HIDE DEF h
  <2>12. /\ M \in Logs /\ M.open = P.open \ {x} /\ M.wrong = P.wrong /\ M.db = P.db
         /\ M.cuStarts = P.cuStarts /\ Aside(M, P)
    BY <2>4, <2>5, <2>8, <2>9, <2>11, AddEndFields
  <2>13. OpenInv(M)
    <3>1. IsFiniteSet(P.open) BY <2>9 DEF OpenInv
    <3>2. IsFiniteSet(P.open \ {x}) BY <3>1, FS_RemoveElement
    <3> QED BY <2>9, <2>12, <3>2 DEF OpenInv
  <2>14. M.open = L.open \ Ended(n + 1) BY <2>2, <2>3, <2>7, <2>12
  <2>15. Aside(M, L) BY <2>2, <2>3, <2>12 DEF Aside
  <2> QED BY <2>2, <2>3, <2>12, <2>13, <2>14, <2>15
<1>12. \A n \in Nat : n \in Good
  <2> HIDE DEF Good
  <2> QED BY <1>10, <1>11, Induct
<1>13. /\ R \in Logs /\ R.open = L.open \ Ended(z) /\ R.wrong = L.wrong
       /\ R.db = L.db /\ R.cuStarts = L.cuStarts /\ Aside(R, L) /\ OpenInv(R)
  <2>1. Fine(z) BY <1>12
  <2> QED BY <1>3, <2>1
<1>14. last \in Nat
  <2>1. CASE ends = {} BY <2>1
  <2>2. CASE ends # {}
    <3>1. \E u \in Nat : ends \subseteq 0..u
      <4>1. CASE CuOf[s] = -1
        <5>1. ASSUME NEW k \in 1..z PROVE StreamEnd(L, s, q[k].dev) \in 0..t
          <6>1. StreamEnd(L, s, q[k].dev) = q[k].dev BY <1>1, <1>7, <4>1, StreamEndBound
          <6> QED BY <1>7, <6>1
        <5> QED BY <1>3, <5>1
      <4>2. CASE CuOf[s] # -1
        <5>1. PICK v \in Nat : v = L.amLast[CuOf[s]]
          <6>1. 0 \in Nat OBVIOUS
          <6> QED BY <1>1, <4>2, <6>1, StreamEndBound
        <5>2. ASSUME NEW k \in 1..z PROVE StreamEnd(L, s, q[k].dev) \in 0..(t + v)
          <6>1. StreamEnd(L, s, q[k].dev) \in Nat /\ StreamEnd(L, s, q[k].dev) <= q[k].dev + v
            BY <1>1, <1>7, <4>2, <5>1, StreamEndBound
          <6>2. q[k].dev \in Nat /\ q[k].dev <= t BY <1>7
          <6> QED BY <6>1, <6>2
        <5>3. t + v \in Nat OBVIOUS
        <5> QED BY <1>3, <5>2, <5>3
      <4> QED BY <4>1, <4>2
    <3> HIDE DEF ends
    <3>2. MaxOf(ends) \in ends BY <2>2, <3>1, MaxBounded
    <3>3. PICK x : x = MaxOf(ends) OBVIOUS
    <3>4. PICK u \in Nat : ends \subseteq 0..u BY <3>1
    <3>5. x \in 0..u BY <3>2, <3>3, <3>4
    <3>6. x \in Nat BY <3>5
    <3> QED BY <2>2, <3>3, <3>6
  <2> QED BY <2>1, <2>2
<1> HIDE DEF last, R
<1>15. D \in [Mon -> Seq(Entry)] /\ A \in [ASM -> Nat] BY <1>1, <1>13, <1>14, LogFields
<1>16. D[m] = <<>> /\ \A n \in Mon : n # m => D[n] = L.db[n] BY <1>1, <1>13, LogFields
<1> HIDE DEF D, A
<1>17. /\ N \in Logs /\ N.open = R.open /\ N.wrong = R.wrong /\ N.db = D /\ N.cuStarts = R.cuStarts
  BY <1>13, <1>15 DEF Logs
<1> HIDE DEF N
<1>18. N.open \subseteq L.open /\ \A y \in L.open : y.mon # m => y \in N.open
  <2>1. \A j \in 1..z : StartOf(q[j], m).mon = m BY DEF StartOf
  <2> QED BY <1>13, <1>17, <2>1
<1>19. KnownInv(N, t)
  <2>1. KnownInv(L, t) BY DEF CoreInv
  <2> SUFFICES ASSUME NEW n \in Mon, NEW k \in 1..Len(N.db[n])
               PROVE  /\ N.db[n][k].dev <= t /\ N.db[n][k].type \in TypesOf(n)
                      /\ N.db[n][k].type # "cu" => StartOf(N.db[n][k], n) \in N.open
    BY DEF KnownInv
  <2>2. n # m
    <3>1. ASSUME n = m PROVE FALSE
      <4>1. N.db[n] = <<>> BY <1>16, <1>17, <3>1
      <4> QED BY <4>1
    <3> QED BY <3>1
  <2>3. N.db[n] = L.db[n] BY <1>16, <1>17, <2>2
  <2>4. StartOf(N.db[n][k], n).mon = n BY DEF StartOf
  <2> QED BY <1>18, <2>1, <2>2, <2>3, <2>4 DEF KnownInv
<1>20. DistinctInv(N)
  <2>1. DistinctInv(L) BY DEF CoreInv
  <2>2. \A n \in Mon : N.db[n] = <<>> \/ N.db[n] = L.db[n] BY <1>16, <1>17
  <2>3. ASSUME NEW n \in Mon, NEW j \in 1..Len(N.db[n]) PROVE N.db[n] = L.db[n]
    <3>1. ASSUME N.db[n] = <<>> PROVE FALSE BY <3>1
    <3> QED BY <2>2, <3>1
  <2> QED BY <2>1, <2>3 DEF DistinctInv
<1>21. UnitInv(N, t)
  <2>1. UnitInv(L, t) BY DEF CoreInv
  <2>2. ASSUME NEW a \in AM, NEW k \in 1..Len(L.cuStarts[a]) PROVE CuStartOf(L.cuStarts[a][k], a) \in N.open
    <3>1. CuStartOf(L.cuStarts[a][k], a) \in L.open BY <2>1 DEF UnitInv
    <3>2. CuStartOf(L.cuStarts[a][k], a).mon = <<"am", a>> BY DEF CuStartOf
    <3>3. <<"am", a>> # <<"asm", s>> OBVIOUS
    <3> QED BY <1>6, <1>18, <3>1, <3>2, <3>3
  <2> QED BY <1>13, <1>17, <2>1, <2>2 DEF UnitInv
<1>22. PortInv(N)
  <2>1. PortInv(L) BY DEF CoreInv
  <2>2. \A n \in PortMons : N.db[n] = L.db[n] BY <1>1, <1>16, <1>17 DEF PortMons
  <2> QED BY <1>18, <2>1, <2>2 DEF PortInv
<1>23. OpenInv(N) /\ N.wrong = {} BY <1>13, <1>17 DEF OpenInv, CoreInv
<1>24. CoreInv(N, t) BY <1>17, <1>19, <1>20, <1>21, <1>22, <1>23 DEF CoreInv
<1> QED BY <1>5, <1>6, <1>16, <1>17, <1>24

\* f is the loop of ApproxStreams for n turns
StreamsTurns(f, L, n) == f = [k \in 0..n |-> IF k = 0 THEN L ELSE (IF k - 1 \in ASM /\ k - 1 < NumUserASM THEN ApproxStream(f[k - 1], k - 1) ELSE f[k - 1])]

\* There is such a loop.
LEMMA StreamsExists ==
  ASSUME NEW L, NEW z \in Nat
  PROVE  \E f : StreamsTurns(f, L, z)
<1> DEFINE Good == {n \in Nat : \E f : StreamsTurns(f, L, n)}
<1>1. 0 \in Good
  <2>1. StreamsTurns([k \in 0..0 |-> L], L, 0) BY DEF StreamsTurns
  <2> QED BY <2>1
<1>2. ASSUME NEW n \in Nat, n \in Good PROVE n + 1 \in Good
  <2>1. PICK f : StreamsTurns(f, L, n) BY <1>2
  <2>2. PICK e : e = (IF (n + 1) - 1 \in ASM /\ (n + 1) - 1 < NumUserASM THEN ApproxStream(f[n], (n + 1) - 1) ELSE f[n]) OBVIOUS
  <2>3. PICK h : h = [k \in 0..(n + 1) |-> IF k = n + 1 THEN e ELSE f[k]] OBVIOUS
  <2>4. ASSUME NEW k \in 0..(n + 1)
        PROVE  h[k] = IF k = 0 THEN L ELSE (IF k - 1 \in ASM /\ k - 1 < NumUserASM THEN ApproxStream(h[k - 1], k - 1) ELSE h[k - 1])
    <3>1. CASE k = n + 1
      <4>1. h[k] = e /\ h[k - 1] = f[n] /\ k # 0 BY <2>3, <3>1
      <4> QED BY <2>2, <3>1, <4>1
    <3>2. CASE k # n + 1
      <4>1. k \in 0..n BY <3>2
      <4>2. f[k] = IF k = 0 THEN L ELSE (IF k - 1 \in ASM /\ k - 1 < NumUserASM THEN ApproxStream(f[k - 1], k - 1) ELSE f[k - 1]) BY <2>1, <4>1 DEF StreamsTurns
      <4>3. h[k] = f[k] BY <2>3, <3>2
      <4>4. CASE k = 0 BY <4>2, <4>3, <4>4
      <4>5. CASE k # 0
        <5>1. h[k - 1] = f[k - 1] BY <2>3, <4>1, <4>5
        <5> QED BY <4>2, <4>3, <4>5, <5>1
      <4> QED BY <4>4, <4>5
    <3> QED BY <3>1, <3>2
  <2>5. StreamsTurns(h, L, n + 1) BY <2>3, <2>4 DEF StreamsTurns
  <2> QED BY <2>5
<1>3. \A n \in Nat : n \in Good
  <2> HIDE DEF Good
  <2> QED BY <1>1, <1>2, Induct
<1> QED BY <1>3

\* addApproximateStreamEndEvents.
LEMMA ApproxStreamsCore ==
  ASSUME NEW L, NEW t \in Nat, CoreInv(L, t)
  PROVE  LET N == ApproxStreams(L)
         IN  /\ CoreInv(N, t) /\ \A m \in PortMons : N.db[m] = L.db[m]
             /\ \A s \in ASM : s < NumUserASM => N.db[<<"asm", s>>] = <<>>
<1> DEFINE f == CHOOSE f : StreamsTurns(f, L, Slots)
<1>1. Slots \in Nat /\ \A s \in ASM : s \in Nat /\ s < Slots BY SlotsReach
<1>2. StreamsTurns(f, L, Slots) BY <1>1, StreamsExists
<1>3. ApproxStreams(L) = f[Slots] BY DEF ApproxStreams, StreamsTurns
<1> HIDE DEF f
<1>4. f[0] = L BY <1>1, <1>2 DEF StreamsTurns
<1>5. ASSUME NEW n \in Nat, n < Slots
      PROVE  f[n + 1] = IF n \in ASM /\ n < NumUserASM THEN ApproxStream(f[n], n) ELSE f[n]
  <2>1. n + 1 \in 0..Slots /\ n + 1 # 0 /\ (n + 1) - 1 = n BY <1>1, <1>5
  <2> QED BY <1>2, <2>1 DEF StreamsTurns
<1> DEFINE Fine(n) == /\ CoreInv(f[n], t) /\ \A m \in PortMons : f[n].db[m] = L.db[m]
                      /\ \A s \in ASM : s < NumUserASM /\ s < n => f[n].db[<<"asm", s>>] = <<>>
           Good == {n \in Nat : n <= Slots => Fine(n)}
<1>6. 0 \in Good BY <1>1, <1>4
<1>7. ASSUME NEW n \in Nat, n \in Good PROVE n + 1 \in Good
  <2> SUFFICES ASSUME n + 1 <= Slots PROVE Fine(n + 1) OBVIOUS
  <2>1. n < Slots /\ n <= Slots BY <1>1
  <2>2. Fine(n) BY <1>7, <2>1
  <2>3. CASE ~(n \in ASM /\ n < NumUserASM)
    <3>1. f[n + 1] = f[n] BY <1>5, <2>1, <2>3
    <3>2. \A s \in ASM : s < NumUserASM /\ s < n + 1 => s < n BY <1>1, <2>3
    <3> QED BY <2>2, <3>1, <3>2
  <2>4. CASE n \in ASM /\ n < NumUserASM
    <3>1. PICK A, B : A = f[n] /\ B = f[n + 1] OBVIOUS
    <3>2. B = ApproxStream(A, n) BY <1>5, <2>1, <2>4, <3>1
    <3>3. CoreInv(A, t) BY <2>2, <3>1
    <3>4. /\ CoreInv(B, t) /\ B.db[<<"asm", n>>] = <<>>
          /\ \A o \in Mon : o # <<"asm", n>> => B.db[o] = A.db[o]
      BY <2>4, <3>2, <3>3, ApproxStreamCore
    <3>5. ASSUME NEW m \in PortMons PROVE B.db[m] = L.db[m]
      <4>1. m \in Mon /\ m # <<"asm", n>> BY <2>4, MonKinds
      <4>2. A.db[m] = L.db[m] BY <2>2, <3>1
      <4> QED BY <3>4, <4>1, <4>2
    <3>6. ASSUME NEW s \in ASM, s < NumUserASM, s < n + 1 PROVE B.db[<<"asm", s>>] = <<>>
      <4>1. CASE s = n BY <3>4, <4>1
      <4>2. CASE s # n
        <5>1. s < n BY <1>1, <3>6, <4>2
        <5>2. <<"asm", s>> \in Mon BY MonKinds
        <5>3. <<"asm", s>> # <<"asm", n>> BY <4>2
        <5>4. B.db[<<"asm", s>>] = A.db[<<"asm", s>>] BY <3>4, <5>2, <5>3
        <5>5. A.db[<<"asm", s>>] = <<>> BY <2>2, <3>1, <3>6, <5>1
        <5> QED BY <5>4, <5>5
      <4> QED BY <4>1, <4>2
    <3> QED BY <3>1, <3>4, <3>5, <3>6
  <2> QED BY <2>3, <2>4
<1>8. \A n \in Nat : n \in Good
  <2> HIDE DEF Good
  <2> QED BY <1>6, <1>7, Induct
<1>9. Fine(Slots) BY <1>1, <1>8
<1> QED BY <1>1, <1>3, <1>9

\* endProcessTraceData.
LEMMA EndProcessCore ==
  ASSUME NEW L, NEW t \in Nat, CoreInv(L, t), LastInv(L, t)
  PROVE  /\ CoreInv(EndProcess(L), t) /\ Transfers(EndProcess(L)) = {}
         /\ \A s \in ASM : s < NumUserASM => EndProcess(L).db[<<"asm", s>>] = <<>>
<1> DEFINE U == ApproxCUEnds(L)
           P == ApproxPorts(U, AIM)
           N == ApproxStreams(P)
<1>1. EndProcess(L) = N BY DEF EndProcess
<1>2. CoreInv(U, t) BY ApproxCUEndsCore
<1> HIDE DEF U
<1>3. /\ CoreInv(P, t)
      /\ \A p \in AIM : P.db[<<"read", p>>] = <<>> /\ P.db[<<"write", p>>] = <<>>
  <2>1. AIM \in SUBSET AIM OBVIOUS
  <2> QED BY <1>2, <2>1, ApproxPortsCore
<1> HIDE DEF P
<1>4. /\ CoreInv(N, t) /\ \A m \in PortMons : N.db[m] = P.db[m]
      /\ \A s \in ASM : s < NumUserASM => N.db[<<"asm", s>>] = <<>>
  BY <1>3, ApproxStreamsCore
<1> HIDE DEF N
<1>5. ASSUME NEW s \in N.open, s.mon[1] \in {"read", "write"} PROVE FALSE
  <2>1. N \in Logs /\ PortInv(N) BY <1>4 DEF CoreInv
  <2>2. s \in Begun BY <2>1, LogFields
  <2>3. PICK m : m = s.mon OBVIOUS
  <2>4. m \in Mon /\ m \in PortMons BY <1>5, <2>2, <2>3 DEF Begun, PortMons
  <2>5. PICK p \in AIM : m = <<"read", p>> \/ m = <<"write", p>>
    <3>1. m \in Mon /\ m[1] \in {"read", "write"} BY <2>4 DEF PortMons
    <3> QED BY <3>1 DEF Mon
  <2>6. N.db[m] = <<>> BY <1>3, <1>4, <2>4, <2>5
  <2>7. Len(N.db[m]) = 1 BY <2>1, <2>3, <2>4 DEF PortInv
  <2> QED BY <2>6, <2>7
<1>6. Transfers(N) = {} BY <1>5 DEF Transfers
<1> QED BY <1>1, <1>4, <1>6

-----------------------------------------------------------------------------
(* The logger keeps its invariant                                          *)

\* At first nothing waits.
LEMMA LogInitIInv == LogInit => LogIInv
<1> SUFFICES ASSUME LogInit PROVE LogIInv OBVIOUS
<1> DEFINE D == [m \in Mon |-> <<>>]
<1>1. log = NewLogger(D, {}, {}) /\ now = 1 /\ phase = "trace" BY DEF LogInit
<1>2. PICK L : L = NewLogger(D, {}, {}) OBVIOUS
<1>3. <<>> \in Seq(Entry) /\ <<>> \in Seq(CuEntry) OBVIOUS
<1>4. D \in [Mon -> Seq(Entry)] BY <1>3
<1>5. L \in Logs BY <1>2, <1>3, <1>4 DEF NewLogger, Logs
<1>6. /\ L.open = {} /\ L.wrong = {} /\ \A m \in Mon : L.db[m] = <<>>
      /\ \A a \in AM : L.cuStarts[a] = <<>> /\ L.amLast[a] = 0
      /\ (\A p \in AIM : L.aimLast[p] = 0) /\ \A s \in ASM : L.asmLast[s] = 0
  BY <1>2 DEF NewLogger
<1>7. IsFiniteSet(L.open) BY <1>6, FS_EmptySet
<1>8. CoreInv(L, 1)
  <2>1. OpenInv(L) BY <1>6, <1>7 DEF OpenInv
  <2>2. KnownInv(L, 1) /\ DistinctInv(L) BY <1>6 DEF KnownInv, DistinctInv
  <2>3. UnitInv(L, 1) BY <1>6 DEF UnitInv
  <2>4. PortInv(L) BY <1>6 DEF PortInv, PortMons
  <2> QED BY <1>5, <1>6, <2>1, <2>2, <2>3, <2>4 DEF CoreInv
<1>9. LastInv(L, 1) BY <1>6 DEF LastInv
<1> QED BY <1>1, <1>2, <1>8, <1>9 DEF LogIInv, TraceTiesOff

\* A packet keeps the invariant.
LEMMA PacketKeeps ==
  ASSUME LogIInv, NEW L, NEW t \in Nat, Packet(L), now' = t, CoreInv(L, t), LastInv(L, t)
  PROVE  LogIInv'
<1>1. phase' = "trace" /\ log' = L BY DEF Packet, LogIInv
<1>2. TraceTiesOff' BY <1>1 DEF TraceTiesOff
<1> QED BY <1>1, <1>2 DEF LogIInv

\* The times of packets.
LEMMA PacketTime ==
  ASSUME LogIInv, phase = "trace", NEW t \in Times
  PROVE  t \in Nat /\ CoreInv(log, t) /\ LastInv(log, t)
<1>1. t \in Nat /\ now \in Nat /\ now <= t BY DEF Times, LogIInv
<1>2. CoreInv(log, now) /\ LastInv(log, now) /\ log \in Logs BY DEF LogIInv, CoreInv
<1> QED BY <1>1, <1>2, CoreLater, LastLater

\* Every step of the logger keeps the invariant.
LEMMA LogNextIInv == LogIInv /\ [LogNext]_logVars => LogIInv'
<1> SUFFICES ASSUME LogIInv, [LogNext]_logVars PROVE LogIInv' OBVIOUS
<1>1. CASE AMPacket
  <2>1. PICK a \in AM, cu \in {"none", "start", "end"}, ks \in SUBSET Stall, t \in Times :
          Packet(AddAM(log, a, cu, ks, t)) /\ now' = t
    BY <1>1 DEF AMPacket
  <2>2. phase = "trace" BY <2>1 DEF Packet
  <2>3. t \in Nat /\ CoreInv(log, t) /\ LastInv(log, t) BY <2>2, PacketTime
  <2>4. PICK L : L = AddAM(log, a, cu, ks, t) OBVIOUS
  <2>5. CoreInv(L, t) /\ LastInv(L, t) BY <2>3, <2>4, AMCore
  <2>6. Packet(L) /\ now' = t BY <2>1, <2>4
  <2> QED BY <2>3, <2>5, <2>6, PacketKeeps
<1>2. CASE AIMPacket
  <2>1. PICK p \in AIM, dir \in {"read", "write"}, t \in Times :
          /\ \/ Packet(AddTransferStart(log, <<dir, p>>, t))
             \/ \E pulse \in BOOLEAN : Packet(AddTransferEnd(log, <<dir, p>>, pulse, t))
          /\ now' = t
    BY <1>2 DEF AIMPacket
  <2>2. phase = "trace" BY <2>1 DEF Packet
  <2>3. t \in Nat /\ CoreInv(log, t) /\ LastInv(log, t) BY <2>2, PacketTime
  <2>4. PICK m : m = <<dir, p>> OBVIOUS
  <2>5. m \in PortMons BY <2>4, MonKinds
  <2>6. PICK L : Packet(L) /\ (L = AddTransferStart(log, m, t)
                                \/ \E pulse \in BOOLEAN : L = AddTransferEnd(log, m, pulse, t))
    BY <2>1, <2>4
  <2>7. CoreInv(L, t) /\ Ticks(L, log, t) BY <2>3, <2>5, <2>6, TransferStartCore, TransferEndCore
  <2>8. LastInv(L, t) BY <2>3, <2>7, TicksLast
  <2> QED BY <2>1, <2>3, <2>6, <2>7, <2>8, PacketKeeps
<1>3. CASE ASMPacket
  <2>1. PICK s \in ASM, k \in Flow, isStart \in BOOLEAN, isSingle \in BOOLEAN, t \in Times :
          Packet(AddASM(log, s, k, isStart, isSingle, t)) /\ now' = t
    BY <1>3 DEF ASMPacket
  <2>2. phase = "trace" BY <2>1 DEF Packet
  <2>3. t \in Nat /\ CoreInv(log, t) /\ LastInv(log, t) BY <2>2, PacketTime
  <2>4. PICK L : L = AddASM(log, s, k, isStart, isSingle, t) OBVIOUS
  <2>5. CoreInv(L, t) /\ Ticks(L, log, t) BY <2>3, <2>4, ASMCore
  <2>6. LastInv(L, t) BY <2>3, <2>5, TicksLast
  <2>7. Packet(L) /\ now' = t BY <2>1, <2>4
  <2> QED BY <2>3, <2>5, <2>6, <2>7, PacketKeeps
<1>4. CASE TraceEnds
  <2>1. /\ phase = "trace" /\ phase' = "ended" /\ log' = EndProcess(log) /\ now' = now BY <1>4 DEF TraceEnds
  <2>2. now \in Nat /\ CoreInv(log, now) /\ LastInv(log, now) BY <2>1 DEF LogIInv
  <2>3. /\ CoreInv(log', now) /\ Transfers(log') = {}
        /\ \A s \in ASM : s < NumUserASM => log'.db[<<"asm", s>>] = <<>>
    BY <2>1, <2>2, EndProcessCore
  <2>4. TraceTiesOff' BY <2>1, <2>3 DEF TraceTiesOff, Transfers
  <2> QED BY <2>1, <2>2, <2>3, <2>4 DEF LogIInv
<1>5. CASE Reload
  <2>1. /\ phase' = "trace" /\ log' = NewLogger(log.db, log.open, log.wrong) /\ now' = now BY <1>5 DEF Reload
  <2>2. now \in Nat /\ CoreInv(log, now) /\ log \in Logs BY DEF LogIInv, CoreInv
  <2>3. PICK L : L = NewLogger(log.db, log.open, log.wrong) OBVIOUS
  <2>4. <<>> \in Seq(CuEntry) OBVIOUS
  <2>5. L \in Logs BY <2>2, <2>3, <2>4, LogFields DEF NewLogger, Logs
  <2>6. /\ L.open = log.open /\ L.wrong = log.wrong /\ L.db = log.db
        /\ \A a \in AM : L.cuStarts[a] = <<>> /\ L.amLast[a] = 0
        /\ (\A p \in AIM : L.aimLast[p] = 0) /\ \A s \in ASM : L.asmLast[s] = 0
    BY <2>3 DEF NewLogger
  <2>7. UnitInv(L, now) BY <2>6 DEF UnitInv
  <2>8. OpenInv(L) /\ KnownInv(L, now) /\ DistinctInv(L) /\ PortInv(L) /\ L.wrong = {}
    BY <2>2, <2>6 DEF CoreInv, OpenInv, KnownInv, DistinctInv, PortInv
  <2>9. CoreInv(L, now) BY <2>5, <2>7, <2>8 DEF CoreInv
  <2>10. LastInv(L, now) BY <2>2, <2>6 DEF LastInv
  <2> QED BY <2>1, <2>2, <2>3, <2>9, <2>10 DEF LogIInv, TraceTiesOff
<1>6. CASE UNCHANGED logVars
  BY <1>6 DEF logVars, LogIInv, TraceTiesOff, Transfers
<1> QED BY <1>1, <1>2, <1>3, <1>4, <1>5, <1>6 DEF LogNext

\* The invariant says that events pair up.
LEMMA LogIInvPairs == LogIInv => EventsPaired
<1> SUFFICES ASSUME LogIInv PROVE EventsPaired OBVIOUS
<1>1. CoreInv(log, now) /\ TraceTiesOff BY DEF LogIInv
<1>2. EndsOnce /\ NeverBackwards BY <1>1 DEF CoreInv, EndsOnce, NeverBackwards
<1>3. OneOpenTransfer
  <2> SUFFICES ASSUME NEW p \in AIM, NEW dir \in {"read", "write"}
               PROVE  LET mine == {s \in log.open : s.mon = <<dir, p>>}
                      IN  /\ Cardinality(mine) <= 1
                          /\ {s.id : s \in mine} = {log.db[<<dir, p>>][k].id : k \in 1..Len(log.db[<<dir, p>>])}
    BY DEF OneOpenTransfer
  <2>1. PICK m : m = <<dir, p>> OBVIOUS
  <2>2. m \in PortMons /\ m \in Mon /\ m[1] # "cu" /\ TypesOf(m) = {m[1]} BY <2>1, MonKinds
  <2> DEFINE mine == {s \in log.open : s.mon = m}
             ids == {log.db[m][k].id : k \in 1..Len(log.db[m])}
  <2>3. log \in Logs /\ PortInv(log) /\ KnownInv(log, now) BY <1>1 DEF CoreInv
  <2>4. log.db[m] \in Seq(Entry) /\ Len(log.db[m]) <= 1 BY <2>2, <2>3, LogFields DEF PortInv
  <2>5. CASE log.db[m] = <<>>
    <3>1. mine = {} BY <2>2, <2>3, <2>5 DEF PortInv
    <3>2. ids = {} BY <2>5
    <3>3. Cardinality({}) = 0 BY FS_EmptySet
    <3>4. Cardinality(mine) <= 1 BY <3>1, <3>3
    <3>5. {s.id : s \in mine} = ids BY <3>1, <3>2
    <3> QED BY <2>1, <3>4, <3>5
  <2>6. CASE log.db[m] # <<>>
    <3>1. PICK q \in Seq(Entry) : q = log.db[m] BY <2>4
    <3>2. q # <<>> /\ Len(q) <= 1 BY <2>4, <2>6, <3>1
    <3>3. Len(q) \in Nat /\ Len(q) # 0 BY <3>2, EmptySeq
    <3>4. \A n \in Nat : n # 0 /\ n <= 1 => n = 1 OBVIOUS
    <3>5. Len(q) = 1 BY <3>2, <3>3, <3>4
    <3>6. Len(log.db[m]) = 1 BY <3>1, <3>5
    <3> DEFINE x == StartOf(log.db[m][1], m)
    <3>7. 1 \in 1..Len(log.db[m]) BY <3>6
    <3>8. x \in log.open BY <2>2, <2>3, <3>7 DEF KnownInv
    <3>9. x.mon = m /\ x.id = log.db[m][1].id BY DEF StartOf
    <3> HIDE DEF x
    <3>10. mine = {x} BY <2>2, <2>3, <3>8, <3>9 DEF PortInv, x
    <3>11. ids = {log.db[m][1].id} BY <3>6
    <3>12. Cardinality({x}) = 1 BY FS_Singleton
    <3>13. \A n : n = 1 => n <= 1 OBVIOUS
    <3>14. Cardinality(mine) = 1 BY <3>10, <3>12, Zenon
    <3>15. Cardinality(mine) <= 1 BY <3>13, <3>14, Zenon
    <3>16. {s.id : s \in mine} = ids BY <3>9, <3>10, <3>11
    <3> QED BY <2>1, <3>15, <3>16
  <2> QED BY <2>5, <2>6
<1> QED BY <1>1, <1>2, <1>3 DEF EventsPaired

\* Start and end events of the PL trace pair up whatever packets are dropped, for
\* any monitors, any times and any number of events that wait: no end names a
\* start that has ended or was made for another trace id, none lies before its
\* start, a port has one open transfer, and endProcessTraceData leaves no transfer
\* open.  The monitor that an approximate end carries is not part of it.
THEOREM EventsPairUp == LogSpec => []EventsPaired
<1>1. LogInit => LogIInv BY LogInitIInv
<1>2. LogIInv /\ [LogNext]_logVars => LogIInv' BY LogNextIInv
<1>3. LogIInv => EventsPaired BY LogIInvPairs
<1> QED BY <1>1, <1>2, <1>3, PTL DEF LogSpec

=============================================================================
