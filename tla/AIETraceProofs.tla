--------------------------- MODULE AIETraceProofs ---------------------------
(***************************************************************************)
(* Theorems of AIETracePlugin for every number of streams, every size of   *)
(* buffers, chunks, packets and bursts and every number of updates: what   *)
(* the offload threads, the flushes and the timer thread never do, that    *)
(* the trace streams keep the promise of TraceStream, and that the search  *)
(* for the end of the trace finds it.                                      *)
(***************************************************************************)
EXTENDS AIETracePlugin, WellFoundedInduction, TLAPS

-----------------------------------------------------------------------------
(* The inductive invariant                                                 *)

\* the timer thread runs only while pollCtrl keeps it or it is being joined,
\* and then the entry and its resources are there
PollInv ==
  /\ ~usedFreed
  /\ poller # "none" => pollCtrl \/ main = "joinPoll"
  /\ pollCtrl \/ main = "joinPoll" => entry = "valid" /\ ~freed
  /\ main = "timeline" => ~pollCtrl /\ ~freed
  /\ main = "joinPoll" => ~pollCtrl
  /\ main \in {"modules", "offloader", "wait", "read", "full", "flushed"} /\ kind # "flush" => ~pollCtrl
  /\ main \in {"timeline", "start", "endPoll", "joinPoll", "modules", "offloader", "wait",
               "read", "full", "flushed"} => entry = "valid"

\* flushAll is done with offloader o, but for the report of a full buffer
Passed(o) ==
  \/ main \in {"offloader", "wait", "read"} /\ cur = "GMIO" /\ o = "PLIO"
  \/ main = "full" /\ (o = cur \/ o = "PLIO")
  \/ main = "flushed"

\* who runs the reader of offloader o, and what its status says of its thread
CtrlOK(o) ==
  /\ traceContinuous[o] <=> thread[o] # "none"
  /\ call[o].pc # "idle" =>
       /\ o \in made
       /\ \/ thread[o] = "pass" /\ ~call[o].final
          \/ thread[o] = "final" /\ call[o].final
          \/ thread[o] = "none" /\ main = "read" /\ cur = o /\ call[o].final
  /\ offloadStatus[o] = "STOPPED" <=> thread[o] = "done"
  /\ offloadStatus[o] = "STOPPING" => main = "wait" /\ cur = o
  /\ thread[o] \in {"loop", "pass"} => offloadStatus[o] \in {"RUNNING", "STOPPING"}
  /\ thread[o] \in {"final", "finish"} => offloadStatus[o] = "STOPPING"
  /\ thread[o] \in {"loop", "pass", "final", "finish"} => o \in made /\ entry = "valid"
  /\ thread[o] \in {"finish", "done"} => ~bufferInitialized[o]
  /\ main \in {"timeline", "start"} => thread[o] = "none"
  /\ main = "wait" /\ cur = o => thread[o] # "none" /\ o \in made
  /\ main = "read" /\ cur = o => thread[o] = "none" /\ o \in made
  /\ main = "full" /\ cur = o => o \in made
  /\ Passed(o) /\ o \in made => thread[o] \in {"none", "done"}

CtrlInv == \A o \in Off : CtrlOK(o)

\* the reader has taken the count of stream s and not yet logged it
AtSync(s) == call[s[1]].pc = "sync" /\ call[s[1]].i = s[2]

\* no read of offloader o has been a final one
NotFinal(o) == thread[o] \in {"loop", "pass"}

\* what the cursors of a buffer say of the words logged
StreamOK(s) ==
  /\ bd[s].isFull <=> logged[s] = BufSz[s[1]]
  /\ bd[s].isFull => bd[s].offloadDone
  /\ logged[s] <= written[s]
  /\ bufferInitialized[s[1]] => bd[s].bufId /\ (bd[s].offloadDone => bd[s].isFull)
  /\ AtSync(s) => ~bd[s].offloadDone
  /\ s[1] = "GMIO" => logged[s] = bd[s].offset /\ (AtSync(s) => bd[s].usedSz <= BufSz["GMIO"])
  /\ s[1] = "PLIO" =>
       /\ bd[s].usedSz <= WholePackets(WordCount(s, ~NotFinal("PLIO")))
       /\ AtSync(s) => logged[s] = bd[s].offset /\ bd[s].offset <= bd[s].usedSz
       /\ ~AtSync(s) /\ ~bd[s].offloadDone => logged[s] = bd[s].usedSz
  /\ main \in {"timeline", "start"} => bd[s].usedSz = 0

StreamInv ==
  \A s \in Stream : written[s] <= BufSz[s[1]] /\ (s[1] \in made => StreamOK(s))

\* the end of a file that ends at n after the chunks c
End(c, n) == IF c = <<>> THEN n ELSE c[Len(c)].to

\* the chunks in AIEDB continue the file up to the last word logged
LogOK(s) ==
  /\ s[1] \in made => Continue(aiedb[s], file[s]) /\ logged[s] = End(aiedb[s], file[s])
  /\ s[1] \notin made \/ entry # "valid" => aiedb[s] = <<>>

LogInv == badFile = {} /\ \A s \in Stream : LogOK(s)

\* the file is behind the words logged, and more so when AIEDB holds chunks
Behind(s) ==
  /\ s[1] \in made => file[s] <= logged[s]
  /\ aiedb[s] # <<>> => file[s] < logged[s]

\* the first writer of a stream stands behind what it has written
PlaceOK(s) ==
  /\ s[1] \in made => writers[s] # <<>>
  /\ writers[s] = <<>> => file[s] = 0
  /\ file[s] = 0 => hole[s] = 0
  /\ file[s] > 0 => writers[s][1] = hole[s] + file[s]
  /\ Len(writers[s]) <= 1 => hole[s] = 0 /\ (writers[s] # <<>> /\ file[s] = 0 => writers[s][1] = 0)

PlaceInv == \A s \in Stream : PlaceOK(s) /\ Behind(s)

\* the final read of stream s is still to log what the flush owes
ToCome(s) ==
  \/ NotFinal(s[1])
  \/ thread[s[1]] = "none" /\ main \in {"offloader", "wait", "read", "full"}
       /\ cur = "PLIO" /\ s[1] = "GMIO"
  \/ thread[s[1]] = "none" /\ main = "offloader" /\ cur = s[1]
  \/ /\ call[s[1]].pc # "idle" /\ call[s[1]].final /\ call[s[1]].i <= s[2]
     /\ AtSync(s) => bd[s].usedSz >= owed[s]

OwedOK(s) ==
  owed[s] # -1 =>
    /\ main \in {"offloader", "wait", "read", "full", "flushed"} /\ s[1] \in made
    /\ owed[s] \in Nat /\ owed[s] <= WholePackets(written[s])
    /\ owed[s] <= logged[s] \/ (bufferInitialized[s[1]] /\ ToCome(s))

OwedInv == \A s \in Stream : OwedOK(s)

\* flushAll has looked for full buffers of offloader o
Checked(o) ==
  \/ main \in {"offloader", "wait", "read", "full"} /\ cur = "GMIO" /\ o = "PLIO"
  \/ main = "flushed"

\* the user was told of full buffers only, and of all that were looked at
WarnOK(o) ==
  /\ o \in warned => \E s \in StreamsOf(o) : bd[s].isFull
  /\ Checked(o) => kind = "flush" \/ o \in warned \/ \A s \in StreamsOf(o) : ~bd[s].isFull

WarnInv ==
  /\ \A o \in made : WarnOK(o)
  /\ \A o \in Off : ~mEnCircularBuf[o]

IInv == TypeOK /\ PollInv /\ CtrlInv /\ StreamInv /\ LogInv /\ PlaceInv /\ OwedInv /\ WarnInv

-----------------------------------------------------------------------------
(* Facts on the operators                                                  *)

\* A stream is an offloader and a number of one of its streams.
LEMMA StreamFacts ==
  /\ \A s \in Stream : s[1] \in Off /\ s[2] \in 1..NumStream[s[1]] /\ s = <<s[1], s[2]>>
  /\ \A o \in Off : \A i \in 1..NumStream[o] : <<o, i>> \in Stream
BY StreamAssumption DEF Stream

\* The stream the reader is at.
LEMMA CurrentType ==
  ASSUME OffloadTypeOK, NEW o \in Off
  PROVE  Current(o) \in Stream /\ Current(o)[1] = o /\ Current(o)[2] = call[o].i
BY StreamFacts DEF OffloadTypeOK, Current

\* Rounding down to a multiple of k takes less than k away.
LEMMA RoundDown ==
  ASSUME NEW n \in Nat, NEW k \in Nat \ {0}
  PROVE  n - (n % k) \in Nat /\ n - (n % k) <= n /\ n < n - (n % k) + k
<1>1. n % k \in Nat /\ n % k < k /\ n % k <= n BY SMT
<1> QED BY <1>1

\* It is monotonic.
LEMMA RoundMonotonic ==
  ASSUME NEW m \in Nat, NEW n \in Nat, m <= n, NEW k \in Nat \ {0}
  PROVE  m - (m % k) <= n - (n % k)
<1> DEFINE a == m \div k
           b == n \div k
<1>1. a \in Nat /\ m % k \in Nat /\ m = a * k + (m % k) BY SMT
<1>2. b \in Nat /\ n % k \in Nat /\ n % k < k /\ n = b * k + (n % k) BY SMT
<1> HIDE DEF a, b
<1>3. a <= b
  <2> SUFFICES ASSUME b + 1 <= a PROVE FALSE BY <1>1, <1>2
  <2>1. (b + 1) * k <= a * k BY <1>1, <1>2
  <2>2. (b + 1) * k = b * k + k BY <1>2
  <2>3. a * k \in Nat /\ b * k \in Nat BY <1>1, <1>2
  <2> QED BY <2>1, <2>2, <2>3, <1>1, <1>2
<1>4. a * k <= b * k BY <1>1, <1>2, <1>3
<1>5. a * k \in Nat /\ b * k \in Nat BY <1>1, <1>2
<1> QED BY <1>1, <1>2, <1>4, <1>5

\* The words a count stands for.
LEMMA WholeType ==
  ASSUME NEW n \in Nat
  PROVE  WholePackets(n) \in Nat /\ WholePackets(n) <= n /\ n < WholePackets(n) + PacketWords
BY RoundDown, SizeAssumption DEF WholePackets

\* What a reader may take of n words written, and of no fewer later on.
LEMMA CountMonotonic ==
  ASSUME OffloadTypeOK, NEW s \in Stream, NEW final \in BOOLEAN
  PROVE  /\ WordCount(s, final) \in Nat /\ WordCount(s, final) <= written[s]
         /\ WordCount(s, FALSE) <= WordCount(s, TRUE)
<1>1. written[s] \in Nat BY DEF OffloadTypeOK
<1>2. written[s] - (written[s] % BurstLen) \in Nat /\ written[s] - (written[s] % BurstLen) <= written[s]
  BY <1>1, RoundDown, SizeAssumption
<1> QED BY <1>1, <1>2 DEF WordCount

-----------------------------------------------------------------------------
(* What the steps of the readers change                                    *)

\* stream s of offloader o is the one its reader is at
At(o, s) == s = Current(o) /\ s[1] = o /\ s[2] = call[o].i

\* only the buffer of stream s changes
OnlyBuffer(s) == bd' \in [Stream -> BufferInfo] /\ \A t \in Stream : t # s => bd'[t] = bd[t]

\* the reader of offloader o goes on to sync
GoesToSync(o) ==
  /\ call'[o].pc = "sync" /\ call'[o].i = call[o].i /\ call'[o].final = call[o].final
  /\ \A x \in Off : x # o => call'[x] = call[x]

\* it goes on to the next stream, or returns
GoesOn(o) ==
  /\ \/ /\ call[o].i < NumStream[o]
        /\ call'[o].pc = "read" /\ call'[o].i = call[o].i + 1 /\ call'[o].final = call[o].final
     \/ call[o].i >= NumStream[o] /\ call'[o].pc = "idle" /\ call'[o].i = 1 /\ ~call'[o].final
  /\ \A x \in Off : x # o => call'[x] = call[x]

CallType == [Off -> [pc : {"idle", "read", "sync"}, i : Nat, final : BOOLEAN]]

\* The reader that goes on stays in range of the streams.
LEMMA GoesOnType ==
  ASSUME OffloadTypeOK, NEW o \in Off, call' = [call EXCEPT ![o] = NextStream(o)]
  PROVE  GoesOn(o) /\ call' \in CallType /\ \A x \in Off : call'[x].i \in 1..NumStream[x]
<1>1. /\ call \in CallType /\ \A x \in Off : call[x].i \in 1..NumStream[x]
      /\ \A x \in Off : NumStream[x] \in Nat \ {0}
  BY StreamAssumption DEF OffloadTypeOK, CallType
<1>2. PICK r \in [pc : {"idle", "read", "sync"}, i : Nat, final : BOOLEAN] : r = call[o]
  BY <1>1 DEF CallType
<1>3. CASE call[o].i < NumStream[o]
  <2>1. call' = [call EXCEPT ![o] = [r EXCEPT !.pc = "read", !.i = @ + 1]]
    BY <1>2, <1>3 DEF NextStream
  <2> DEFINE q == [r EXCEPT !.pc = "read", !.i = @ + 1]
  <2>2. /\ q \in [pc : {"idle", "read", "sync"}, i : Nat, final : BOOLEAN]
        /\ q.pc = "read" /\ q.i = r.i + 1 /\ q.final = r.final
    <3>1. r.i + 1 \in Nat OBVIOUS
    <3>2. PICK k \in Nat : k = r.i + 1 BY <3>1
    <3>3. q = [r EXCEPT !.pc = "read", !.i = k] BY <3>2
    <3> QED BY <3>2, <3>3
  <2> HIDE DEF q
  <2>3. call'[o] = q /\ (\A x \in Off : x # o => call'[x] = call[x]) /\ call' \in CallType
    BY <2>1, <2>2, <1>1 DEF CallType, q
  <2>4. r.i + 1 \in 1..NumStream[o] BY <1>1, <1>2, <1>3
  <2>5. \A x \in Off : call'[x].i \in 1..NumStream[x] BY <1>1, <2>2, <2>3, <2>4
  <2> QED BY <1>2, <1>3, <2>2, <2>3, <2>5 DEF GoesOn
<1>4. CASE ~(call[o].i < NumStream[o])
  <2>1. call' = [call EXCEPT ![o] = [pc |-> "idle", i |-> 1, final |-> FALSE]]
    BY <1>4 DEF NextStream, CallIdle
  <2> DEFINE q == [pc |-> "idle", i |-> 1, final |-> FALSE]
  <2>6. q \in [pc : {"idle", "read", "sync"}, i : Nat, final : BOOLEAN] OBVIOUS
  <2> HIDE DEF q
  <2>2. call' \in CallType BY <2>1, <2>6, <1>1 DEF CallType, q
  <2> USE DEF q
  <2>3. /\ call'[o] = [pc |-> "idle", i |-> 1, final |-> FALSE]
        /\ \A x \in Off : x # o => call'[x] = call[x]
    BY <2>1, <1>1 DEF CallType
  <2>4. call[o].i >= NumStream[o] BY <1>1, <1>4
  <2>5. \A x \in Off : call'[x].i \in 1..NumStream[x] BY <1>1, <2>3
  <2> QED BY <2>2, <2>3, <2>4, <2>5 DEF GoesOn
<1> QED BY <1>3, <1>4

\* The reader that goes to sync stays at its stream.
LEMMA SyncType ==
  ASSUME OffloadTypeOK, NEW o \in Off, call' = [call EXCEPT ![o].pc = "sync"]
  PROVE  GoesToSync(o) /\ call' \in CallType /\ \A x \in Off : call'[x].i \in 1..NumStream[x]
<1>1. call \in CallType /\ \A x \in Off : call[x].i \in 1..NumStream[x]
  BY DEF OffloadTypeOK, CallType
<1>2. PICK r \in [pc : {"idle", "read", "sync"}, i : Nat, final : BOOLEAN] : r = call[o]
  BY <1>1 DEF CallType
<1> DEFINE q == [r EXCEPT !.pc = "sync"]
<1>3. call' = [call EXCEPT ![o] = q] BY <1>2
<1>4. /\ q \in [pc : {"idle", "read", "sync"}, i : Nat, final : BOOLEAN]
      /\ q.pc = "sync" /\ q.i = r.i /\ q.final = r.final
  OBVIOUS
<1> HIDE DEF q
<1>5. call'[o] = q /\ (\A x \in Off : x # o => call'[x] = call[x]) /\ call' \in CallType
  BY <1>1, <1>3, <1>4 DEF CallType
<1>6. \A x \in Off : call'[x].i \in 1..NumStream[x] BY <1>1, <1>2, <1>4, <1>5
<1> QED BY <1>2, <1>4, <1>5, <1>6 DEF GoesToSync

\* readTracePLIO takes the count of its stream.
LEMMA ReadPLIOEffect ==
  ASSUME OffloadTypeOK, ReadPLIO
  PROVE  \E s \in Stream :
           /\ At("PLIO", s) /\ OnlyBuffer(s) /\ GoesToSync("PLIO")
           /\ bd'[s].offset = bd[s].usedSz
           /\ bd'[s].usedSz = WholePackets(WordCount(s, call["PLIO"].final))
           /\ bd'[s].bufId = bd[s].bufId /\ bd'[s].isFull = bd[s].isFull
           /\ ~bd[s].offloadDone /\ ~bd'[s].offloadDone
           /\ call["PLIO"].pc = "read"
           /\ dmaOn' \in [Stream -> BOOLEAN]
<1>0. "PLIO" \in Off BY DEF Off
<1>1. PICK s \in Stream : At("PLIO", s) BY <1>0, CurrentType DEF At
<1>2. PICK u \in Nat : u = WholePackets(WordCount(s, call["PLIO"].final))
  BY <1>0, CountMonotonic, WholeType DEF OffloadTypeOK
<1>3. PICK r \in BufferInfo : r = bd[s] BY DEF OffloadTypeOK
<1>4. r.usedSz \in Nat BY DEF BufferInfo
<1> DEFINE q == [r EXCEPT !.offset = r.usedSz, !.usedSz = u]
<1>5. bd' = [bd EXCEPT ![s] = q] BY <1>1, <1>2, <1>3 DEF ReadPLIO, At
<1>6. q \in BufferInfo /\ q.bufId = r.bufId /\ q.usedSz = u /\ q.offset = r.usedSz
      /\ q.isFull = r.isFull /\ q.offloadDone = r.offloadDone
  BY <1>4 DEF BufferInfo
<1> HIDE DEF q
<1>7. bd'[s] = q /\ OnlyBuffer(s) BY <1>5, <1>6 DEF OnlyBuffer, OffloadTypeOK
<1>8. GoesToSync("PLIO") BY <1>0, SyncType DEF ReadPLIO
<1>9. dmaOn' \in [Stream -> BOOLEAN] /\ call["PLIO"].pc = "read" /\ ~bd[s].offloadDone
  BY <1>1 DEF ReadPLIO, OffloadTypeOK, At
<1> QED BY <1>1, <1>2, <1>3, <1>6, <1>7, <1>8, <1>9

\* readTraceGMIO takes one chunk, or all that is left.
LEMMA ReadGMIOEffect ==
  ASSUME OffloadTypeOK, ReadGMIO
  PROVE  \E s \in Stream :
           /\ At("GMIO", s) /\ OnlyBuffer(s) /\ GoesToSync("GMIO")
           /\ bd'[s].usedSz <= BufSz["GMIO"]
           /\ call["GMIO"].final => bd'[s].usedSz = BufSz["GMIO"]
           /\ bd'[s].offset = bd[s].offset
           /\ bd'[s].bufId = bd[s].bufId /\ bd'[s].isFull = bd[s].isFull
           /\ ~bd[s].offloadDone /\ ~bd'[s].offloadDone
           /\ call["GMIO"].pc = "read"
<1>0. "GMIO" \in Off /\ BufSz["GMIO"] \in Nat /\ ChunkSz \in Nat BY SizeAssumption DEF Off
<1>1. PICK s \in Stream : At("GMIO", s) BY <1>0, CurrentType DEF At
<1>3. PICK r \in BufferInfo : r = bd[s] BY DEF OffloadTypeOK
<1>4. r.offset \in Nat BY DEF BufferInfo
<1>2. PICK u \in Nat : /\ u = IF call["GMIO"].final \/ r.offset + ChunkSz > BufSz["GMIO"]
                              THEN BufSz["GMIO"] ELSE r.offset + ChunkSz
                       /\ u <= BufSz["GMIO"]
  BY <1>0, <1>4
<1> DEFINE q == [r EXCEPT !.usedSz = u]
<1>5. bd' = [bd EXCEPT ![s] = q] BY <1>1, <1>2, <1>3 DEF ReadGMIO, At
<1>6. q \in BufferInfo /\ q.bufId = r.bufId /\ q.usedSz = u /\ q.offset = r.offset
      /\ q.isFull = r.isFull /\ q.offloadDone = r.offloadDone
  BY DEF BufferInfo
<1> HIDE DEF q
<1>7. bd'[s] = q /\ OnlyBuffer(s) BY <1>5, <1>6 DEF OnlyBuffer, OffloadTypeOK
<1>8. GoesToSync("GMIO") BY <1>0, SyncType DEF ReadGMIO
<1>9. call["GMIO"].pc = "read" /\ ~bd[s].offloadDone BY <1>1 DEF ReadGMIO, At
<1> QED BY <1>1, <1>2, <1>3, <1>6, <1>7, <1>8, <1>9

\* What searchWrittenBytes finds lies in the chunk and was written.
LEMMA WrittenInType ==
  ASSUME OffloadTypeOK, NEW s \in Stream, NEW from \in Nat, NEW to \in Nat, from < to
  PROVE  /\ WrittenIn(s, from, to) \in Nat /\ from + WrittenIn(s, from, to) <= to
         /\ WrittenIn(s, from, to) # 0 => from + WrittenIn(s, from, to) <= written[s]
         /\ \A k \in Nat : k <= written[s] /\ k <= to => k <= from + WrittenIn(s, from, to)
<1>1. written[s] \in Nat BY DEF OffloadTypeOK
<1> QED BY <1>1 DEF WrittenIn

\* the chunk [from, from + n) is logged for stream s
Logs(s, from, n) ==
  /\ logged' = [logged EXCEPT ![s] = from + n]
  /\ aiedb' = [aiedb EXCEPT ![s] = IF n = 0 THEN @ ELSE Append(@, [from |-> from, to |-> from + n])]

\* syncAndLog that finds new words.
LEMMA SyncAndLogEffect ==
  ASSUME OffloadTypeOK, NEW o \in Off, SyncAndLog(o)
  PROVE  \E s \in Stream : \E n \in Nat :
           /\ At(o, s) /\ OnlyBuffer(s) /\ GoesOn(o) /\ Logs(s, bd[s].offset, n)
           /\ call[o].pc = "sync" /\ bd[s].offset < bd[s].usedSz
           /\ o = "PLIO" => n = bd[s].usedSz - bd[s].offset
           /\ o = "GMIO" => n = WrittenIn(s, bd[s].offset, bd[s].usedSz)
           /\ bd'[s].bufId = bd[s].bufId /\ bd'[s].usedSz = bd[s].usedSz
           /\ bd'[s].offset = IF o = "GMIO" THEN bd[s].offset + n ELSE bd[s].offset
           /\ bd'[s].isFull <=> bd[s].isFull \/ bd[s].offset + n >= BufSz[o]
           /\ bd'[s].offloadDone <=> bd[s].offloadDone \/ bd[s].offset + n >= BufSz[o]
<1>1. PICK s \in Stream : At(o, s) BY CurrentType DEF At
<1>2. PICK r \in BufferInfo : r = bd[s] BY DEF OffloadTypeOK
<1>3. r.offset \in Nat /\ r.usedSz \in Nat /\ r.offset < r.usedSz
  BY <1>1, <1>2 DEF BufferInfo, SyncAndLog, At
<1>4. PICK n \in Nat : n = IF o = "PLIO" THEN r.usedSz - r.offset
                           ELSE WrittenIn(s, r.offset, r.usedSz)
  BY <1>3, WrittenInType
<1>5. PICK full \in BOOLEAN : full <=> r.offset + n >= BufSz[o] OBVIOUS
<1>6. PICK a \in Nat : a = IF o = "GMIO" THEN r.offset + n ELSE r.offset BY <1>3
<1>7. r.isFull \in BOOLEAN /\ r.offloadDone \in BOOLEAN BY DEF BufferInfo
<1>8. PICK f \in BOOLEAN, d \in BOOLEAN :
        (f <=> r.isFull \/ full) /\ (d <=> r.offloadDone \/ full)
  BY <1>7
<1> DEFINE q == [r EXCEPT !.isFull = f, !.offloadDone = d, !.offset = a]
<1>9. bd' = [bd EXCEPT ![s] = q]
  <2>1. bd' = AfterLog(s, n) /\ s[1] = o BY <1>1, <1>2, <1>4 DEF SyncAndLog, At
  <2>2. AfterLog(s, n) = [bd EXCEPT ![s] = [r EXCEPT
            !.isFull = r.isFull \/ r.offset + n >= BufSz[o],
            !.offloadDone = r.offloadDone \/ r.offset + n >= BufSz[o],
            !.offset = IF o = "GMIO" THEN r.offset + n ELSE r.offset]]
    BY <1>2, <2>1 DEF AfterLog
  <2>3. (r.isFull \/ r.offset + n >= BufSz[o]) = f BY <1>5, <1>7, <1>8
  <2>4. (r.offloadDone \/ r.offset + n >= BufSz[o]) = d BY <1>5, <1>7, <1>8
  <2> QED BY <2>1, <2>2, <2>3, <2>4, <1>6
<1>10. q \in BufferInfo /\ q.bufId = r.bufId /\ q.usedSz = r.usedSz /\ q.offset = a
       /\ q.isFull = f /\ q.offloadDone = d
  BY DEF BufferInfo
<1> HIDE DEF q
<1>11. bd'[s] = q /\ OnlyBuffer(s) BY <1>9, <1>10 DEF OnlyBuffer, OffloadTypeOK
<1>12. GoesOn(o) BY GoesOnType DEF SyncAndLog
<1>13. call[o].pc = "sync" BY DEF SyncAndLog
<1>14. Logs(s, r.offset, n) BY <1>1, <1>2, <1>4 DEF SyncAndLog, LogChunk, Logs, At
<1>15. /\ bd'[s].isFull <=> bd[s].isFull \/ bd[s].offset + n >= BufSz[o]
       /\ bd'[s].offloadDone <=> bd[s].offloadDone \/ bd[s].offset + n >= BufSz[o]
  BY <1>2, <1>5, <1>8, <1>10, <1>11
<1>16. /\ o = "PLIO" => n = bd[s].usedSz - bd[s].offset
       /\ o = "GMIO" => n = WrittenIn(s, bd[s].offset, bd[s].usedSz)
  BY <1>2, <1>4
<1>17. /\ bd'[s].bufId = bd[s].bufId /\ bd'[s].usedSz = bd[s].usedSz
       /\ bd'[s].offset = IF o = "GMIO" THEN bd[s].offset + n ELSE bd[s].offset
       /\ bd[s].offset < bd[s].usedSz
  BY <1>2, <1>3, <1>6, <1>10, <1>11
<1> QED BY <1>1, <1>2, <1>11, <1>12, <1>13, <1>14, <1>15, <1>16, <1>17

\* syncAndLog that finds nothing new, or no buffer any more.
LEMMA SyncNothingEffect ==
  ASSUME OffloadTypeOK, NEW o \in Off, SyncNothing(o)
  PROVE  \E s \in Stream :
           /\ At(o, s) /\ GoesOn(o) /\ call[o].pc = "sync" /\ OnlyBuffer(s)
           /\ \/ bd[s].offset >= bd[s].usedSz /\ bd' = bd
              \/ /\ ~bd[s].bufId /\ bd'[s].offloadDone
                 /\ bd'[s].bufId = bd[s].bufId /\ bd'[s].usedSz = bd[s].usedSz
                 /\ bd'[s].offset = bd[s].offset /\ bd'[s].isFull = bd[s].isFull
<1>1. PICK s \in Stream : At(o, s) BY CurrentType DEF At
<1>2. PICK r \in BufferInfo : r = bd[s] BY DEF OffloadTypeOK
<1>3. GoesOn(o) BY GoesOnType DEF SyncNothing
<1>4. call[o].pc = "sync" BY DEF SyncNothing
<1>5. CASE bd[s].offset >= bd[s].usedSz /\ bd' = bd
  BY <1>1, <1>3, <1>4, <1>5 DEF OnlyBuffer, OffloadTypeOK
<1>6. CASE ~bd[s].bufId /\ bd' = [bd EXCEPT ![s].offloadDone = TRUE]
  <2> DEFINE q == [r EXCEPT !.offloadDone = TRUE]
  <2>1. bd' = [bd EXCEPT ![s] = q] BY <1>6, <1>2
  <2>2. q \in BufferInfo /\ q.bufId = r.bufId /\ q.usedSz = r.usedSz /\ q.offset = r.offset
        /\ q.isFull = r.isFull /\ q.offloadDone
    BY DEF BufferInfo
  <2> HIDE DEF q
  <2>3. bd'[s] = q /\ OnlyBuffer(s) BY <2>1, <2>2 DEF OnlyBuffer, OffloadTypeOK
  <2> QED BY <1>1, <1>2, <1>3, <1>4, <1>6, <2>2, <2>3
<1> QED BY <1>1, <1>5, <1>6 DEF SyncNothing, At

\* endReadTrace drops the buffers of its offloader.
LEMMA EndReadTraceEffect ==
  ASSUME OffloadTypeOK, NEW o \in Off, EndReadTrace(o)
  PROVE  /\ bd' \in [Stream -> BufferInfo] /\ dmaOn' \in [Stream -> BOOLEAN]
         /\ bufferInitialized' \in [Off -> BOOLEAN] /\ ~bufferInitialized'[o]
         /\ \A x \in Off : x # o => (bufferInitialized'[x] <=> bufferInitialized[x])
         /\ \A s \in Stream :
              /\ s[1] # o => bd'[s] = bd[s]
              /\ bd'[s].usedSz = bd[s].usedSz /\ bd'[s].offset = bd[s].offset
              /\ bd'[s].isFull = bd[s].isFull /\ bd'[s].offloadDone = bd[s].offloadDone
<1>1. ASSUME NEW s \in Stream
      PROVE  /\ bd'[s] \in BufferInfo
             /\ s[1] # o => bd'[s] = bd[s]
             /\ bd'[s].usedSz = bd[s].usedSz /\ bd'[s].offset = bd[s].offset
             /\ bd'[s].isFull = bd[s].isFull /\ bd'[s].offloadDone = bd[s].offloadDone
  <2>1. PICK r \in BufferInfo : r = bd[s] BY DEF OffloadTypeOK
  <2>2. bd'[s] = IF s[1] = o THEN [r EXCEPT !.bufId = FALSE] ELSE r BY <2>1 DEF EndReadTrace
  <2> DEFINE q == [r EXCEPT !.bufId = FALSE]
  <2>3. q \in BufferInfo /\ q.usedSz = r.usedSz /\ q.offset = r.offset
        /\ q.isFull = r.isFull /\ q.offloadDone = r.offloadDone
    BY DEF BufferInfo
  <2> HIDE DEF q
  <2>4. CASE s[1] = o
    <3>1. bd'[s] = q BY <2>2, <2>4 DEF q
    <3> QED BY <3>1, <2>1, <2>3, <2>4
  <2>5. CASE s[1] # o BY <2>1, <2>2, <2>5
  <2> QED BY <2>4, <2>5
<1> DEFINE F(s) == IF s[1] = o THEN [bd[s] EXCEPT !.bufId = FALSE] ELSE bd[s]
<1>2. bd' = [s \in Stream |-> F(s)] BY DEF EndReadTrace
<1>3. bd' \in [Stream -> BufferInfo]
  <2>1. \A s \in Stream : F(s) \in BufferInfo BY <1>1, <1>2
  <2> HIDE DEF F
  <2> QED BY <1>2, <2>1
<1>4. dmaOn' \in [Stream -> BOOLEAN] /\ bufferInitialized' \in [Off -> BOOLEAN]
  BY DEF EndReadTrace, OffloadTypeOK
<1>5. /\ ~bufferInitialized'[o]
      /\ \A x \in Off : x # o => (bufferInitialized'[x] <=> bufferInitialized[x])
  BY DEF EndReadTrace, OffloadTypeOK
<1> QED BY <1>1, <1>3, <1>4, <1>5

\* the writers of a design, which has the streams of its offloaders
Creates(isPLIO, isGMIO) ==
  /\ CreateTraceWriters(isPLIO, isGMIO)
  /\ \A o \in made' : (o = "PLIO" /\ isPLIO) \/ (o = "GMIO" /\ isGMIO)

\* initReadTrace after the constructors: empty buffers, none of them reused.
LEMMA ConfigureEffect ==
  ASSUME TypeOK, UpdateConfigures
  PROVE  /\ made' \subseteq Off /\ build' = build
         /\ traceContinuous' = [o \in Off |-> FALSE] /\ mEnCircularBuf' = [o \in Off |-> FALSE]
         /\ bufferInitialized' \in [Off -> BOOLEAN] /\ offloadStatus' = [o \in Off |-> "IDLE"]
         /\ bd' \in [Stream -> BufferInfo] /\ dmaOn' \in [Stream -> BOOLEAN]
         /\ thread' = [o \in Off |-> "none"] /\ call' = [o \in Off |-> CallIdle]
         /\ written' = [s \in Stream |-> 0] /\ logged' = [s \in Stream |-> 0]
         /\ main = "idle" /\ entry # "valid" /\ main' \in {"idle", "timeline"}
         /\ entry' \in {"valid", "invalid"} /\ (main' = "timeline" => entry' = "valid")
         /\ updates' = updates + 1 /\ continuous' \in BOOLEAN
         /\ configuredOnePlioPartition' \in BOOLEAN
         /\ \E isPLIO, isGMIO \in BOOLEAN : Creates(isPLIO, isGMIO)
         /\ warned' = {} /\ ~freed' /\ ~pollCtrl'
         /\ UNCHANGED <<aiedb, kind, cur, poller, usedFreed, owed>>
         /\ \A s \in Stream : s[1] \in made' =>
              /\ bd'[s].usedSz = 0 /\ bd'[s].offset = 0 /\ ~bd'[s].isFull /\ ~bd'[s].offloadDone
              /\ bufferInitialized'[s[1]] => bd'[s].bufId
<1>1. PICK isPLIO, isGMIO, opt \in BOOLEAN :
        /\ CreateTraceWriters(isPLIO, isGMIO)
        /\ Construct(Made(isPLIO, isGMIO))
        /\ configuredOnePlioPartition' = (configuredOnePlioPartition \/ isPLIO)
        /\ continuous' = opt
        /\ \E failed \in SUBSET {s \in Stream : s[1] \in Made(isPLIO, isGMIO)} :
             /\ InitReadTrace(Made(isPLIO, isGMIO), failed, Reuse)
             /\ entry' = IF failed = {} THEN "valid" ELSE "invalid"
             /\ main' = IF failed = {} THEN "timeline" ELSE "idle"
  BY DEF UpdateConfigures
<1> DEFINE os == Made(isPLIO, isGMIO)
<1>2. os \subseteq Off BY DEF Made
<1> HIDE DEF os
<1>3. PICK failed \in SUBSET Stream :
        /\ InitReadTrace(os, failed, Reuse)
        /\ entry' = IF failed = {} THEN "valid" ELSE "invalid"
        /\ main' = IF failed = {} THEN "timeline" ELSE "idle"
  BY <1>1 DEF os
<1>4. /\ made' = os /\ traceContinuous' = [o \in Off |-> FALSE]
      /\ offloadStatus' = [o \in Off |-> "IDLE"] /\ thread' = [o \in Off |-> "none"]
      /\ call' = [o \in Off |-> CallIdle]
  BY <1>1 DEF Construct, os
<1>5. /\ continuous' \in BOOLEAN /\ configuredOnePlioPartition' \in BOOLEAN
      /\ \E p, g \in BOOLEAN : Creates(p, g)
  BY <1>1 DEF Creates, Construct, Made
<1>6. /\ entry' \in {"valid", "invalid"} /\ main' \in {"idle", "timeline"}
      /\ (main' = "timeline" => entry' = "valid")
  BY <1>3
<1>7. mEnCircularBuf' = [o \in Off |-> FALSE]
  BY <1>3, <1>4 DEF InitReadTrace, CheckCircularBufferSupport
<1>8. bufferInitialized' \in [Off -> BOOLEAN] BY <1>3 DEF InitReadTrace
<1>9. written' = [s \in Stream |-> 0] /\ logged' = [s \in Stream |-> 0] BY <1>3 DEF InitReadTrace
<1> DEFINE started(s) == s[1] \in os /\ \A f \in failed : f[1] = s[1] => s[2] < f[2]
           F(s) == IF s[1] \in os THEN [NewBuffer EXCEPT !.bufId = started(s)] ELSE bd[s]
<1>10. dmaOn' = [s \in Stream |-> started(s)] /\ bd' = [s \in Stream |-> F(s)]
  BY <1>3 DEF InitReadTrace
<1>11. dmaOn' \in [Stream -> BOOLEAN] BY <1>10
<1>12. ASSUME NEW s \in Stream
       PROVE  /\ F(s) \in BufferInfo
              /\ s[1] \in os => /\ F(s).usedSz = 0 /\ F(s).offset = 0
                                /\ ~F(s).isFull /\ ~F(s).offloadDone
                                /\ F(s).bufId <=> started(s)
  <2>1. PICK b \in BOOLEAN : b = started(s) OBVIOUS
  <2>2. CASE s[1] \in os
    <3>1. F(s) = [bufId |-> b, usedSz |-> 0, offset |-> 0, isFull |-> FALSE, offloadDone |-> FALSE]
      BY <2>1, <2>2 DEF NewBuffer
    <3> HIDE DEF F, started
    <3>2. F(s).bufId = b /\ F(s).usedSz = 0 /\ F(s).offset = 0 /\ F(s).isFull = FALSE
          /\ F(s).offloadDone = FALSE /\ F(s) \in BufferInfo
      BY <3>1 DEF BufferInfo
    <3> QED BY <2>1, <3>2
  <2>3. CASE s[1] \notin os BY <2>3 DEF TypeOK, OffloadTypeOK
  <2> QED BY <2>2, <2>3
<1>13. ASSUME NEW s \in Stream, s[1] \in os, bufferInitialized'[s[1]] PROVE started(s)
  <2>1. s[1] \in Off BY StreamFacts
  <2>2. \A f \in failed : f[1] # s[1] BY <1>3, <1>13, <2>1 DEF InitReadTrace
  <2> QED BY <1>13, <2>2
<1> HIDE DEF F, started
<1>14. bd' \in [Stream -> BufferInfo] /\ \A s \in Stream : bd'[s] = F(s) BY <1>10, <1>12
<1>15. \A s \in Stream : s[1] \in made' =>
         /\ bd'[s].usedSz = 0 /\ bd'[s].offset = 0 /\ ~bd'[s].isFull /\ ~bd'[s].offloadDone
         /\ bufferInitialized'[s[1]] => bd'[s].bufId
  BY <1>4, <1>12, <1>13, <1>14
<1>16. /\ build' = build /\ warned' = {} /\ ~freed' /\ ~pollCtrl'
       /\ UNCHANGED <<aiedb, kind, cur, poller, usedFreed, owed>>
       /\ main = "idle" /\ entry # "valid" /\ updates' = updates + 1
  BY DEF UpdateConfigures, UpdateBegins
<1>17. made' \subseteq Off BY <1>2, <1>4
<1> QED BY <1>4, <1>5, <1>6, <1>7, <1>8, <1>9, <1>11, <1>14, <1>15, <1>16, <1>17

\* createTraceWriters keeps the types and empties the files of the streams
\* that the new design has.
LEMMA CreateEffect ==
  ASSUME TypeOK, NEW isPLIO \in BOOLEAN, NEW isGMIO \in BOOLEAN, CreateTraceWriters(isPLIO, isGMIO)
  PROVE  /\ writers' \in [Stream -> Seq(Nat)] /\ file' \in [Stream -> Nat] /\ hole' \in [Stream -> Nat]
         /\ badFile' = badFile
         /\ \A s \in Stream :
              IF (s[1] = "PLIO" /\ isPLIO) \/ (s[1] = "GMIO" /\ isGMIO)
              THEN writers'[s] = Append(writers[s], 0) /\ file'[s] = 0 /\ hole'[s] = 0
              ELSE writers'[s] = writers[s] /\ file'[s] = file[s] /\ hole'[s] = hole[s]
<1> DEFINE has(s) == IF s[1] = "PLIO" THEN isPLIO ELSE isGMIO
           F(s) == IF has(s) THEN Append(writers[s], 0) ELSE writers[s]
           G(s) == IF has(s) THEN 0 ELSE file[s]
           H(s) == IF has(s) THEN 0 ELSE hole[s]
<1>1. /\ writers' = [s \in Stream |-> F(s)] /\ file' = [s \in Stream |-> G(s)]
      /\ hole' = [s \in Stream |-> H(s)] /\ badFile' = badFile
  BY DEF CreateTraceWriters
<1>2. ASSUME NEW s \in Stream PROVE F(s) \in Seq(Nat) /\ G(s) \in Nat /\ H(s) \in Nat
  <2>1. writers[s] \in Seq(Nat) /\ file[s] \in Nat /\ hole[s] \in Nat BY DEF TypeOK
  <2>2. Append(writers[s], 0) \in Seq(Nat) BY <2>1
  <2> QED BY <2>1, <2>2
<1>3. ASSUME NEW s \in Stream
      PROVE  has(s) <=> (s[1] = "PLIO" /\ isPLIO) \/ (s[1] = "GMIO" /\ isGMIO)
  <2>1. s[1] \in {"PLIO", "GMIO"} BY StreamFacts DEF Off
  <2> QED BY <2>1
<1> HIDE DEF has
<1>4. \A s \in Stream : writers'[s] = F(s) /\ file'[s] = G(s) /\ hole'[s] = H(s) BY <1>1
<1>5. /\ writers' \in [Stream -> Seq(Nat)] /\ file' \in [Stream -> Nat] /\ hole' \in [Stream -> Nat]
  <2> HIDE DEF F, G, H
  <2> QED BY <1>1, <1>2
<1> QED BY <1>1, <1>3, <1>4, <1>5

\* The first writer of a stream with chunks in AIEDB takes them all, and
\* stands behind them afterwards.
LEMMA WriteEffect ==
  ASSUME TypeOK, LogInv, PlaceInv, WriteTraceEvents
  PROVE  /\ writers' \in [Stream -> Seq(Nat)] /\ file' \in [Stream -> Nat] /\ hole' \in [Stream -> Nat]
         /\ \A s \in Stream : aiedb'[s] = <<>>
         /\ \A s \in Stream :
              IF aiedb[s] = <<>>
              THEN writers'[s] = writers[s] /\ file'[s] = file[s] /\ hole'[s] = hole[s]
              ELSE /\ writers[s] # <<>> /\ Len(writers'[s]) = Len(writers[s])
                   /\ writers'[s][1] = writers[s][1] + (logged[s] - file[s])
                   /\ file'[s] = logged[s] /\ file[s] < logged[s]
                   /\ hole'[s] = IF file[s] = 0 THEN writers[s][1] ELSE hole[s]
<1> DEFINE F(s) == IF aiedb[s] = <<>> THEN writers[s] ELSE [writers[s] EXCEPT ![1] = @ + Words(aiedb[s])]
           G(s) == IF aiedb[s] = <<>> THEN file[s] ELSE aiedb[s][Len(aiedb[s])].to
           H(s) == IF aiedb[s] # <<>> /\ file[s] = 0 THEN writers[s][1] ELSE hole[s]
<1>1. /\ writers' = [s \in Stream |-> F(s)] /\ file' = [s \in Stream |-> G(s)]
      /\ hole' = [s \in Stream |-> H(s)] /\ aiedb' = [s \in Stream |-> <<>>]
  BY DEF WriteTraceEvents
<1>2. ASSUME NEW s \in Stream
      PROVE  writers[s] \in Seq(Nat) /\ file[s] \in Nat /\ hole[s] \in Nat /\ logged[s] \in Nat
  BY DEF TypeOK, OffloadTypeOK
<1>3. ASSUME NEW s \in Stream, aiedb[s] # <<>>
      PROVE  /\ writers[s] # <<>> /\ file[s] < logged[s] /\ aiedb[s][Len(aiedb[s])].to = logged[s]
             /\ Words(aiedb[s]) = logged[s] - file[s]
  <2>1. s[1] \in made BY <1>3 DEF LogInv, LogOK
  <2>2. writers[s] # <<>> /\ file[s] < logged[s] BY <1>3, <2>1 DEF PlaceInv, PlaceOK, Behind
  <2>3. Continue(aiedb[s], file[s]) /\ logged[s] = End(aiedb[s], file[s])
    BY <2>1 DEF LogInv, LogOK
  <2>4. aiedb[s][Len(aiedb[s])].to = logged[s] BY <1>3, <2>3 DEF End
  <2>5. aiedb[s][1].from = file[s]
    <3> DEFINE C == [from : Nat, to : Nat]
    <3>1. aiedb[s] \in Seq(C) BY DEF TypeOK, OffloadTypeOK
    <3> HIDE DEF C
    <3>2. PICK c \in Seq(C) : c = aiedb[s] /\ c # <<>> BY <1>3, <3>1
    <3>3. 1 \in 1..Len(c) BY <3>2
    <3> QED BY <2>3, <3>2, <3>3 DEF Continue
  <2> QED BY <2>2, <2>4, <2>5 DEF Words
<1>4. ASSUME NEW s \in Stream
      PROVE  /\ F(s) \in Seq(Nat) /\ G(s) \in Nat /\ H(s) \in Nat
             /\ aiedb[s] # <<>> => /\ Len(F(s)) = Len(writers[s])
                                   /\ F(s)[1] = writers[s][1] + (logged[s] - file[s])
                                   /\ G(s) = logged[s]
  <2>1. CASE aiedb[s] = <<>> BY <1>2, <2>1
  <2>2. CASE aiedb[s] # <<>>
    <3>1. PICK w \in Seq(Nat) : w = writers[s] /\ w # <<>> BY <1>2, <1>3, <2>2
    <3>2. 1 \in 1..Len(w) /\ w[1] \in Nat BY <3>1
    <3>3. PICK d \in Nat : d = logged[s] - file[s]
      <4>1. file[s] < logged[s] /\ file[s] \in Nat /\ logged[s] \in Nat BY <1>2, <1>3, <2>2
      <4>2. logged[s] - file[s] \in Nat BY <4>1
      <4> QED BY <4>2
    <3>4. F(s) = [w EXCEPT ![1] = @ + d] BY <1>3, <2>2, <3>1, <3>3
    <3>5. w[1] + d \in Nat BY <3>2
    <3>6. /\ [w EXCEPT ![1] = @ + d] \in Seq(Nat) /\ Len([w EXCEPT ![1] = @ + d]) = Len(w)
          /\ [w EXCEPT ![1] = @ + d][1] = w[1] + d
      BY <3>2, <3>5
    <3>7. G(s) = logged[s] /\ H(s) \in Nat BY <1>2, <1>3, <2>2, <3>1, <3>2
    <3> QED BY <1>2, <3>1, <3>3, <3>4, <3>6, <3>7
  <2> QED BY <2>1, <2>2
<1>5. \A s \in Stream : writers'[s] = F(s) /\ file'[s] = G(s) /\ hole'[s] = H(s) /\ aiedb'[s] = <<>>
  BY <1>1
<1>6. /\ writers' \in [Stream -> Seq(Nat)] /\ file' \in [Stream -> Nat] /\ hole' \in [Stream -> Nat]
  <2>1. \A s \in Stream : F(s) \in Seq(Nat) /\ G(s) \in Nat /\ H(s) \in Nat BY <1>4
  <2> HIDE DEF F, G, H
  <2> QED BY <1>1, <2>1
<1> QED BY <1>3, <1>4, <1>5, <1>6

-----------------------------------------------------------------------------
(* The initial states                                                      *)

\* Before the first update the invariant holds.
LEMMA InitIInv == Init => IInv
<1> SUFFICES ASSUME Init PROVE IInv OBVIOUS
<1> USE DEF Init, OffloadInit
<1>0. CallIdle.pc = "idle" /\ CallIdle.i = 1 /\ CallIdle.final = FALSE
      /\ CallIdle \in [pc : {"idle", "read", "sync"}, i : Nat, final : BOOLEAN]
  BY DEF CallIdle
<1>1. NewBuffer \in BufferInfo BY DEF NewBuffer, BufferInfo
<1>2. OffloadTypeOK
  <2>1. \A o \in Off : call[o].i \in 1..NumStream[o] BY <1>0, StreamAssumption
  <2>2. call \in [Off -> [pc : {"idle", "read", "sync"}, i : Nat, final : BOOLEAN]] BY <1>0
  <2>3. bd \in [Stream -> BufferInfo] BY <1>1
  <2>4. aiedb \in [Stream -> Seq([from : Nat, to : Nat])] OBVIOUS
  <2> QED BY <2>1, <2>2, <2>3, <2>4 DEF OffloadTypeOK
<1>3. TypeOK
  <2>1. owed \in [Stream -> Int] OBVIOUS
  <2>2. file \in [Stream -> Nat] /\ hole \in [Stream -> Nat] /\ writers \in [Stream -> Seq(Nat)] OBVIOUS
  <2> QED BY <1>2, <2>1, <2>2 DEF TypeOK, Off
<1>4. PollInv BY DEF PollInv
<1>5. CtrlInv BY <1>0 DEF CtrlInv, CtrlOK, Passed
<1>6. StreamInv BY StreamFacts, SizeAssumption DEF StreamInv
<1>7. LogInv BY DEF LogInv, LogOK
<1>8. OwedInv BY DEF OwedInv, OwedOK
<1>9. WarnInv BY DEF WarnInv
<1>10. PlaceInv BY DEF PlaceInv, PlaceOK, Behind
<1> QED BY <1>10, <1>3, <1>4, <1>5, <1>6, <1>7, <1>8, <1>9 DEF IInv

-----------------------------------------------------------------------------
(* Types                                                                   *)

\* The steps of the readers, the offload threads and the DMA keep the types.
LEMMA OffloaderType ==
  ASSUME TypeOK, OffloaderStep
  PROVE  TypeOK'
<1> USE DEF objVars, dmaVars, logVars
<1>0. OffloadTypeOK BY DEF TypeOK
<1> SUFFICES OffloadTypeOK' BY DEF TypeOK, OffloaderStep, pluginVars, pollVars, fileVars
<1>1. ASSUME ReadPLIO PROVE OffloadTypeOK'
  <2>1. bd' \in [Stream -> BufferInfo] /\ dmaOn' \in [Stream -> BOOLEAN]
    BY <1>0, <1>1, ReadPLIOEffect DEF OnlyBuffer
  <2>2. call' \in CallType /\ \A x \in Off : call'[x].i \in 1..NumStream[x]
    BY <1>0, <1>1, SyncType DEF ReadPLIO, Off
  <2> QED BY <1>0, <1>1, <2>1, <2>2 DEF ReadPLIO, OffloadTypeOK, CallType
<1>2. ASSUME ReadGMIO PROVE OffloadTypeOK'
  <2>1. bd' \in [Stream -> BufferInfo] BY <1>0, <1>2, ReadGMIOEffect DEF OnlyBuffer
  <2>2. call' \in CallType /\ \A x \in Off : call'[x].i \in 1..NumStream[x]
    BY <1>0, <1>2, SyncType DEF ReadGMIO, Off
  <2> QED BY <1>0, <1>2, <2>1, <2>2 DEF ReadGMIO, OffloadTypeOK, CallType
<1>3. ASSUME NEW o \in Off, SkipStream(o) PROVE OffloadTypeOK'
  <2>1. call' \in CallType /\ \A x \in Off : call'[x].i \in 1..NumStream[x]
    BY <1>0, <1>3, GoesOnType DEF SkipStream
  <2> QED BY <1>0, <1>3, <2>1 DEF SkipStream, OffloadTypeOK, CallType
<1>4. ASSUME NEW o \in Off, SyncNothing(o) PROVE OffloadTypeOK'
  <2>1. bd' \in [Stream -> BufferInfo] BY <1>0, <1>4, SyncNothingEffect DEF OnlyBuffer
  <2>2. call' \in CallType /\ \A x \in Off : call'[x].i \in 1..NumStream[x]
    BY <1>0, <1>4, GoesOnType DEF SyncNothing
  <2> QED BY <1>0, <1>4, <2>1, <2>2 DEF SyncNothing, OffloadTypeOK, CallType
<1>5. ASSUME NEW o \in Off, SyncAndLog(o) PROVE OffloadTypeOK'
  <2>1. PICK s \in Stream, n \in Nat : Logs(s, bd[s].offset, n) /\ OnlyBuffer(s)
    BY <1>0, <1>5, SyncAndLogEffect
  <2>2. call' \in CallType /\ \A x \in Off : call'[x].i \in 1..NumStream[x]
    BY <1>0, <1>5, GoesOnType DEF SyncAndLog
  <2>3. PICK a \in Nat : a = bd[s].offset BY <1>0 DEF OffloadTypeOK, BufferInfo
  <2>4. logged' \in [Stream -> Nat] BY <1>0, <2>1, <2>3 DEF Logs, OffloadTypeOK
  <2>5. aiedb' \in [Stream -> Seq([from : Nat, to : Nat])]
    <3>0. a + n \in Nat OBVIOUS
    <3>1. PICK c \in [from : Nat, to : Nat] : c = [from |-> a, to |-> a + n] BY <3>0
    <3>2. aiedb[s] \in Seq([from : Nat, to : Nat]) BY <1>0 DEF OffloadTypeOK
    <3>3. Append(aiedb[s], c) \in Seq([from : Nat, to : Nat]) BY <3>2
    <3>4. PICK q \in Seq([from : Nat, to : Nat]) : aiedb' = [aiedb EXCEPT ![s] = q]
      BY <2>1, <2>3, <3>1, <3>2, <3>3 DEF Logs
    <3> QED BY <3>4, <1>0 DEF OffloadTypeOK
  <2> QED BY <1>0, <1>5, <2>1, <2>2, <2>4, <2>5 DEF SyncAndLog, OffloadTypeOK, CallType, OnlyBuffer
<1>6. ASSUME NEW o \in Off, OtRead(o) PROVE OffloadTypeOK'
  <2>1. PICK f \in BOOLEAN : f = (offloadStatus[o] # "RUNNING") OBVIOUS
  <2>2. PICK q \in [pc : {"idle", "read", "sync"}, i : Nat, final : BOOLEAN] :
          q = [pc |-> "read", i |-> 1, final |-> f]
    OBVIOUS
  <2>3. call' = [call EXCEPT ![o] = q] BY <1>6, <2>1, <2>2 DEF OtRead, CallRead
  <2>4. call' \in CallType /\ call'[o] = q /\ \A x \in Off : x # o => call'[x] = call[x]
    BY <1>0, <2>3 DEF OffloadTypeOK, CallType
  <2>5. q.i = 1 BY <2>2
  <2>6. \A x \in Off : call'[x].i \in 1..NumStream[x]
    <3>1. \A x \in Off : 1 \in 1..NumStream[x] BY StreamAssumption
    <3> QED BY <1>0, <2>4, <2>5, <3>1 DEF OffloadTypeOK
  <2>7. thread' \in [Off -> {"none", "loop", "pass", "final", "finish", "done"}]
    BY <1>0, <1>6 DEF OtRead, OffloadTypeOK
  <2> QED BY <1>0, <1>6, <2>4, <2>6, <2>7 DEF OtRead, OffloadTypeOK, CallType
<1>7. ASSUME NEW o \in Off, OtPassed(o) PROVE OffloadTypeOK'
  BY <1>0, <1>7 DEF OtPassed, OffloadTypeOK
<1>8. ASSUME NEW o \in Off, OtEnd(o) PROVE OffloadTypeOK'
  <2>1. /\ bd' \in [Stream -> BufferInfo] /\ dmaOn' \in [Stream -> BOOLEAN]
        /\ bufferInitialized' \in [Off -> BOOLEAN]
    BY <1>0, <1>8, EndReadTraceEffect DEF OtEnd
  <2> QED BY <1>0, <1>8, <2>1 DEF OtEnd, OffloadTypeOK
<1>9. ASSUME NEW o \in Off, OtFinish(o) PROVE OffloadTypeOK'
  BY <1>0, <1>9 DEF OtFinish, OffloadTypeOK
<1>10. ASSUME NEW s \in Stream, DmaWrite(s) PROVE OffloadTypeOK'
  BY <1>0, <1>10 DEF DmaWrite, OffloadTypeOK
<1> QED
  BY <1>1, <1>2, <1>3, <1>4, <1>5, <1>6, <1>7, <1>8, <1>9, <1>10
     DEF OffloaderStep, ReadStep, OtStep

\* Every step keeps the types.
LEMMA TypeStep ==
  ASSUME TypeOK, LogInv, PlaceInv, [Next]_vars
  PROVE  TypeOK'
<1> USE DEF objVars, dmaVars, logVars, offloadVars, pluginVars, pollVars, fileVars
<1>0. OffloadTypeOK BY DEF TypeOK
<1>a. CallIdle \in [pc : {"idle", "read", "sync"}, i : Nat, final : BOOLEAN] /\ CallIdle.i = 1
  BY DEF CallIdle
<1>b. \A x \in Off : 1 \in 1..NumStream[x] BY StreamAssumption
<1>1. ASSUME UpdateRefused PROVE TypeOK'
  <2>1. OffloadTypeOK' BY <1>0, <1>1 DEF UpdateRefused, OffloadTypeOK
  <2>2. updates' \in Nat BY <1>1 DEF UpdateRefused, UpdateBegins, TypeOK
  <2>3. entry' \in {"none", "invalid", "valid"} BY <1>1 DEF UpdateRefused
  <2> QED BY <1>1, <2>1, <2>2, <2>3 DEF UpdateRefused, TypeOK
<1>2. ASSUME UpdateNoInstance PROVE TypeOK'
  <2>1. OffloadTypeOK' BY <1>0, <1>2, <1>a, <1>b DEF UpdateNoInstance, Construct, OffloadTypeOK
  <2>2. updates' \in Nat BY <1>2 DEF UpdateNoInstance, UpdateBegins, TypeOK
  <2>3. /\ writers' \in [Stream -> Seq(Nat)] /\ file' \in [Stream -> Nat] /\ hole' \in [Stream -> Nat]
        /\ badFile' = badFile
    BY <1>2, CreateEffect DEF UpdateNoInstance
  <2> QED BY <1>2, <2>1, <2>2, <2>3 DEF UpdateNoInstance, TypeOK
<1>3. ASSUME UpdateConfigures PROVE TypeOK'
  <2>1. OffloadTypeOK'
    <3>1. call' \in [Off -> [pc : {"idle", "read", "sync"}, i : Nat, final : BOOLEAN]]
          /\ \A x \in Off : call'[x].i \in 1..NumStream[x]
      BY <1>3, <1>a, <1>b, ConfigureEffect
    <3>2. /\ build' = build /\ made' \subseteq Off /\ aiedb' = aiedb
          /\ bufferInitialized' \in [Off -> BOOLEAN] /\ bd' \in [Stream -> BufferInfo]
          /\ dmaOn' \in [Stream -> BOOLEAN]
      BY <1>3, ConfigureEffect
    <3>3. traceContinuous' \in [Off -> BOOLEAN] /\ mEnCircularBuf' \in [Off -> BOOLEAN]
      BY <1>3, ConfigureEffect
    <3>4. /\ offloadStatus' \in [Off -> {"IDLE", "RUNNING", "STOPPING", "STOPPED"}]
          /\ thread' \in [Off -> {"none", "loop", "pass", "final", "finish", "done"}]
          /\ written' \in [Stream -> Nat] /\ logged' \in [Stream -> Nat]
      BY <1>3, ConfigureEffect
    <3> QED BY <1>0, <3>1, <3>2, <3>3, <3>4 DEF OffloadTypeOK
  <2>2. /\ main' \in {"idle", "timeline"} /\ entry' \in {"valid", "invalid"}
        /\ continuous' \in BOOLEAN
        /\ configuredOnePlioPartition' \in BOOLEAN /\ freed' \in BOOLEAN /\ pollCtrl' \in BOOLEAN
        /\ warned' \subseteq Off
        /\ UNCHANGED <<kind, cur, poller, usedFreed, owed>>
    BY <1>3, ConfigureEffect DEF UpdateConfigures
  <2>3. updates' \in Nat BY <1>3, ConfigureEffect DEF TypeOK
  <2>4. /\ writers' \in [Stream -> Seq(Nat)] /\ file' \in [Stream -> Nat] /\ hole' \in [Stream -> Nat]
        /\ badFile' = badFile
    BY <1>3, ConfigureEffect, CreateEffect DEF Creates
  <2> QED BY <2>1, <2>2, <2>3, <2>4 DEF TypeOK
<1>4. ASSUME UpdateTimeline PROVE TypeOK'
  BY <1>4 DEF UpdateTimeline, TypeOK, OffloadTypeOK
<1>5. ASSUME UpdateStarts PROVE TypeOK'
  <2>1. OffloadTypeOK'
    <3>1. /\ traceContinuous' \in [Off -> BOOLEAN]
          /\ offloadStatus' \in [Off -> {"IDLE", "RUNNING", "STOPPING", "STOPPED"}]
          /\ thread' \in [Off -> {"none", "loop", "pass", "final", "finish", "done"}]
      <4>1. CASE continuous
        <5>1. StartOffload BY <1>5, <4>1 DEF UpdateStarts
        <5> QED BY <5>1, <1>0 DEF StartOffload, OffloadTypeOK
      <4>2. CASE ~continuous BY <1>5, <4>2, <1>0 DEF UpdateStarts, OffloadTypeOK
      <4> QED BY <4>1, <4>2
    <3> QED BY <1>0, <1>5, <3>1 DEF UpdateStarts, OffloadTypeOK
  <2> QED BY <1>5, <2>1 DEF UpdateStarts, TypeOK
<1>6. ASSUME PollStep PROVE TypeOK'
  <2>1. OffloadTypeOK'
    BY <1>0, <1>6 DEF PollStep, PollCheck, PollEnough, PollTimers, OffloadTypeOK
  <2>2. poller' \in {"none", "run", "poll", "done"} /\ usedFreed' \in BOOLEAN
    BY <1>6 DEF PollStep, PollCheck, PollEnough, PollTimers, TypeOK
  <2>3. UNCHANGED <<main, kind, cur, entry, continuous, configuredOnePlioPartition, updates,
                    pollCtrl, freed, owed, writers, file, hole, badFile, warned>>
    BY <1>6 DEF PollStep, PollCheck, PollEnough, PollTimers
  <2> QED BY <2>1, <2>2, <2>3 DEF TypeOK
<1>7. ASSUME FlushBegins PROVE TypeOK' BY <1>7 DEF FlushBegins, TypeOK, OffloadTypeOK
<1>8. ASSUME EndPoll PROVE TypeOK'
  <2>1. OffloadTypeOK' BY <1>0, <1>8 DEF EndPoll, OffloadTypeOK
  <2>2. main' \in {"joinPoll", "modules"} /\ pollCtrl' \in BOOLEAN BY <1>8 DEF EndPoll
  <2> QED BY <1>8, <2>1, <2>2 DEF EndPoll, TypeOK
<1>9. ASSUME JoinPoll PROVE TypeOK' BY <1>9 DEF JoinPoll, TypeOK, OffloadTypeOK
<1>10. ASSUME FlushModules PROVE TypeOK'
  <2>1. OffloadTypeOK' BY <1>0, <1>10 DEF FlushModules, OffloadTypeOK
  <2>2. \A s \in Stream : WholePackets(written[s]) \in Nat BY <1>0, WholeType DEF OffloadTypeOK
  <2>3. owed' \in [Stream -> Int]
    <3> DEFINE F(s) == IF s[1] \in made /\ bufferInitialized[s[1]] THEN WholePackets(written[s]) ELSE -1
    <3>1. owed' = [s \in Stream |-> F(s)] BY <1>10 DEF FlushModules
    <3>2. \A s \in Stream : F(s) \in Int BY <2>2
    <3> HIDE DEF F
    <3> QED BY <3>1, <3>2
  <2>4. cur' \in Off BY <1>10 DEF FlushModules, Off
  <2> QED BY <1>10, <2>1, <2>3, <2>4 DEF FlushModules, TypeOK
<1>11. ASSUME FlushSkip PROVE TypeOK'
  BY <1>11 DEF FlushSkip, NextOffloader, TypeOK, OffloadTypeOK, Off
<1>12. ASSUME FlushStop PROVE TypeOK'
  BY <1>12 DEF FlushStop, StopOffload, TypeOK, OffloadTypeOK
<1>13. ASSUME FlushRead PROVE TypeOK'
  <2>1. PICK o \in Off : o = cur BY DEF TypeOK
  <2>2. PICK q \in [pc : {"idle", "read", "sync"}, i : Nat, final : BOOLEAN] :
          q = [pc |-> "read", i |-> 1, final |-> TRUE]
    OBVIOUS
  <2>3. call' = [call EXCEPT ![o] = q] BY <1>13, <2>1, <2>2 DEF FlushRead, CallRead
  <2>4. call' \in CallType /\ call'[o] = q /\ \A x \in Off : x # o => call'[x] = call[x]
    BY <1>0, <2>3 DEF OffloadTypeOK, CallType
  <2>5. q.i = 1 BY <2>2
  <2>6. \A x \in Off : call'[x].i \in 1..NumStream[x] BY <1>0, <2>4, <2>5, <1>b DEF OffloadTypeOK
  <2>7. OffloadTypeOK' BY <1>0, <1>13, <2>4, <2>6 DEF FlushRead, OffloadTypeOK, CallType
  <2> QED BY <1>13, <2>7 DEF FlushRead, TypeOK
<1>14. ASSUME FlushEndRead PROVE TypeOK'
  <2>1. /\ bd' \in [Stream -> BufferInfo] /\ dmaOn' \in [Stream -> BOOLEAN]
        /\ bufferInitialized' \in [Off -> BOOLEAN]
    BY <1>0, <1>14, EndReadTraceEffect DEF FlushEndRead, TypeOK
  <2>2. OffloadTypeOK' BY <1>0, <1>14, <2>1 DEF FlushEndRead, OffloadTypeOK
  <2> QED BY <1>14, <2>2 DEF FlushEndRead, TypeOK
<1>15. ASSUME FlushWaited PROVE TypeOK' BY <1>15 DEF FlushWaited, TypeOK, OffloadTypeOK
<1>16. ASSUME FlushCheckFull PROVE TypeOK'
  <2>1. OffloadTypeOK' BY <1>0, <1>16 DEF FlushCheckFull, OffloadTypeOK
  <2>2. warned' \subseteq Off BY <1>16 DEF FlushCheckFull, TypeOK
  <2>3. main' \in {"offloader", "flushed"} /\ cur' \in Off
    BY <1>16 DEF FlushCheckFull, NextOffloader, TypeOK, Off
  <2> QED BY <1>16, <2>1, <2>2, <2>3 DEF FlushCheckFull, TypeOK
<1>c. ASSUME WriteTraceEvents
      PROVE  /\ aiedb' \in [Stream -> Seq([from : Nat, to : Nat])]
             /\ writers' \in [Stream -> Seq(Nat)] /\ file' \in [Stream -> Nat]
             /\ hole' \in [Stream -> Nat] /\ badFile' \subseteq Stream
  <2>1. badFile' \subseteq Stream BY <1>c DEF WriteTraceEvents, TypeOK
  <2>2. aiedb' \in [Stream -> Seq([from : Nat, to : Nat])] BY <1>c DEF WriteTraceEvents
  <2> QED BY <1>c, <2>1, <2>2, WriteEffect
<1>17. ASSUME FlushReturns PROVE TypeOK'
  <2>1. owed' \in [Stream -> Int] BY <1>17 DEF FlushReturns
  <2>2. /\ aiedb' \in [Stream -> Seq([from : Nat, to : Nat])]
        /\ writers' \in [Stream -> Seq(Nat)] /\ file' \in [Stream -> Nat]
        /\ hole' \in [Stream -> Nat] /\ badFile' \subseteq Stream
    <3>1. CASE kind = "flush" BY <1>17, <3>1 DEF FlushReturns, TypeOK, OffloadTypeOK
    <3>2. CASE kind # "flush" BY <1>17, <3>2, <1>c DEF FlushReturns
    <3> QED BY <3>1, <3>2
  <2>3. OffloadTypeOK' BY <1>0, <1>17, <2>2 DEF FlushReturns, OffloadTypeOK
  <2> QED BY <1>17, <2>1, <2>2, <2>3 DEF FlushReturns, TypeOK
<1>18. ASSUME WriteOnly PROVE TypeOK'
  <2>1. OffloadTypeOK' BY <1>0, <1>18, <1>c DEF WriteOnly, OffloadTypeOK
  <2> QED BY <1>18, <2>1, <1>c DEF WriteOnly, TypeOK
<1>19. ASSUME Gone \/ UNCHANGED vars PROVE TypeOK'
  BY <1>19 DEF Gone, vars, TypeOK, OffloadTypeOK
<1>20. ASSUME OffloaderStep PROVE TypeOK' BY <1>20, OffloaderType
<1> QED
  BY <1>1, <1>2, <1>3, <1>4, <1>5, <1>6, <1>7, <1>8, <1>9, <1>10, <1>11, <1>12, <1>13, <1>14,
     <1>15, <1>16, <1>17, <1>18, <1>19, <1>20
     DEF Next, Update, FlushStep

-----------------------------------------------------------------------------
(* The timer thread                                                        *)

\* Every step keeps what is known of the timer thread.
LEMMA PollInvStep ==
  ASSUME TypeOK, PollInv, [Next]_vars
  PROVE  PollInv'
<1> USE DEF pluginVars, pollVars
<1>1. ASSUME UpdateRefused PROVE PollInv' BY <1>1 DEF UpdateRefused, UpdateBegins, PollInv
<1>2. ASSUME UpdateNoInstance PROVE PollInv' BY <1>2 DEF UpdateNoInstance, UpdateBegins, PollInv
<1>3. ASSUME UpdateConfigures PROVE PollInv'
  <2>1. /\ main = "idle" /\ entry # "valid" /\ main' \in {"idle", "timeline"}
        /\ (main' = "timeline" => entry' = "valid") /\ ~freed' /\ ~pollCtrl'
        /\ UNCHANGED <<poller, usedFreed>>
    BY <1>3, ConfigureEffect
  <2> QED BY <2>1 DEF PollInv
<1>4. ASSUME UpdateTimeline PROVE PollInv' BY <1>4 DEF UpdateTimeline, PollInv
<1>5. ASSUME UpdateStarts PROVE PollInv' BY <1>5 DEF UpdateStarts, PollInv
<1>6. ASSUME PollCheck \/ PollEnough PROVE PollInv' BY <1>6 DEF PollCheck, PollEnough, PollInv
<1>7. ASSUME PollTimers PROVE PollInv' BY <1>7 DEF PollTimers, PollInv
<1>8. ASSUME FlushBegins PROVE PollInv' BY <1>8 DEF FlushBegins, PollInv
<1>9. ASSUME EndPoll PROVE PollInv' BY <1>9 DEF EndPoll, PollInv, TypeOK
<1>10. ASSUME JoinPoll PROVE PollInv' BY <1>10 DEF JoinPoll, PollInv
<1>11. ASSUME FlushModules \/ FlushStop \/ FlushRead \/ FlushEndRead \/ FlushWaited PROVE PollInv'
  <2>1. /\ UNCHANGED <<entry, kind, poller, pollCtrl, freed, usedFreed>>
        /\ main \in {"modules", "offloader", "read", "wait"}
        /\ main' \in {"offloader", "read", "wait", "full"}
    BY <1>11 DEF FlushModules, FlushStop, FlushRead, FlushEndRead, FlushWaited
  <2> QED BY <2>1 DEF PollInv
<1>12. ASSUME FlushSkip \/ FlushCheckFull PROVE PollInv'
  BY <1>12 DEF FlushSkip, FlushCheckFull, NextOffloader, PollInv
<1>13. ASSUME FlushReturns PROVE PollInv' BY <1>13 DEF FlushReturns, PollInv
<1>14. ASSUME WriteOnly PROVE PollInv' BY <1>14 DEF WriteOnly, PollInv
<1>15. ASSUME Gone \/ UNCHANGED vars PROVE PollInv' BY <1>15 DEF Gone, vars, PollInv
<1>16. ASSUME OffloaderStep PROVE PollInv' BY <1>16 DEF OffloaderStep, PollInv
<1> QED
  BY <1>1, <1>2, <1>3, <1>4, <1>5, <1>6, <1>7, <1>8, <1>9, <1>10, <1>11, <1>12, <1>13, <1>14,
     <1>15, <1>16
     DEF Next, Update, PollStep, FlushStep

-----------------------------------------------------------------------------
(* The threads and their calls                                             *)

\* A step that changes neither the offloaders nor where flushAll is.
LEMMA CtrlFrame ==
  ASSUME CtrlInv, NEW o \in Off,
         UNCHANGED <<made, traceContinuous, offloadStatus, thread, call, bufferInitialized, cur>>,
         entry = "valid" => entry' = "valid",
         main' \in {"timeline", "start"} => main \in {"timeline", "start"},
         main' \in {"offloader", "wait", "read", "full", "flushed"} => main' = main,
         main = "read" \/ main = "wait" => main' = main
  PROVE  CtrlOK(o)'
BY DEF CtrlInv, CtrlOK, Passed

\* Every step of the plugin keeps what is known of the threads.
LEMMA CtrlPluginStep ==
  ASSUME TypeOK, PollInv, CtrlInv, [Next]_vars, ~OffloaderStep, NEW o \in Off
  PROVE  CtrlOK(o)'
<1> USE DEF objVars, dmaVars, logVars, offloadVars, pluginVars, pollVars, fileVars
<1>0. CallIdle.pc = "idle" BY DEF CallIdle
<1>t. cur \in Off /\ OffloadTypeOK BY DEF TypeOK
<1>1. ASSUME UpdateRefused PROVE CtrlOK(o)'
  BY <1>1, CtrlFrame DEF UpdateRefused, UpdateBegins
<1>2. ASSUME UpdateNoInstance PROVE CtrlOK(o)'
  <2>1. /\ traceContinuous'[o] = FALSE /\ offloadStatus'[o] = "IDLE" /\ thread'[o] = "none"
        /\ call'[o] = CallIdle /\ main = "idle" /\ main' = "idle"
    BY <1>2 DEF UpdateNoInstance, UpdateBegins, Construct
  <2> QED BY <1>0, <2>1 DEF CtrlOK, Passed
<1>3. ASSUME UpdateConfigures PROVE CtrlOK(o)'
  <2>1. /\ traceContinuous'[o] = FALSE /\ offloadStatus'[o] = "IDLE" /\ thread'[o] = "none"
        /\ call'[o] = CallIdle /\ main' \in {"idle", "timeline"}
    BY <1>3, ConfigureEffect
  <2> QED BY <1>0, <2>1 DEF CtrlOK, Passed
<1>4. ASSUME UpdateTimeline PROVE CtrlOK(o)' BY <1>4, CtrlFrame DEF UpdateTimeline
<1>5. ASSUME UpdateStarts PROVE CtrlOK(o)'
  <2>1. /\ main = "start" /\ main' = "idle" /\ UNCHANGED <<made, bufferInitialized, call, entry>>
        /\ entry = "valid"
    BY <1>5 DEF UpdateStarts, PollInv
  <2>2. thread[o] = "none" BY <2>1 DEF CtrlInv, CtrlOK
  <2>3. \/ UNCHANGED <<traceContinuous, offloadStatus, thread>>
        \/ /\ traceContinuous'[o] <=> o \in made
           /\ offloadStatus'[o] = IF o \in made THEN "RUNNING" ELSE offloadStatus[o]
           /\ thread'[o] = IF o \in made THEN "loop" ELSE thread[o]
    BY <1>5 DEF UpdateStarts, StartOffload
  <2> QED BY <2>1, <2>2, <2>3 DEF CtrlInv, CtrlOK, Passed
<1>6. ASSUME PollStep PROVE CtrlOK(o)'
  BY <1>6, CtrlFrame DEF PollStep, PollCheck, PollEnough, PollTimers
<1>7. ASSUME FlushBegins \/ EndPoll \/ JoinPoll PROVE CtrlOK(o)'
  BY <1>7, CtrlFrame DEF FlushBegins, EndPoll, JoinPoll
<1>8. ASSUME FlushModules PROVE CtrlOK(o)'
  BY <1>8 DEF FlushModules, CtrlInv, CtrlOK, Passed
<1>9. ASSUME FlushSkip PROVE CtrlOK(o)'
  BY <1>9, <1>t DEF FlushSkip, NextOffloader, CtrlInv, CtrlOK, Passed, Off
<1>10. ASSUME FlushStop PROVE CtrlOK(o)'
  <2>1. /\ main = "offloader" /\ main' = "wait" /\ cur \in made /\ thread[cur] # "none"
        /\ UNCHANGED <<made, traceContinuous, thread, call, bufferInitialized, cur, entry>>
    BY <1>10, <1>t DEF FlushStop, CtrlInv, CtrlOK
  <2>2. offloadStatus'[o] = IF o = cur /\ offloadStatus[o] # "STOPPED" THEN "STOPPING"
                            ELSE offloadStatus[o]
    BY <1>10, <1>t DEF FlushStop, StopOffload, OffloadTypeOK
  <2> QED BY <1>t, <2>1, <2>2 DEF CtrlInv, CtrlOK, Passed
<1>11. ASSUME FlushRead PROVE CtrlOK(o)'
  <2>1. /\ main = "offloader" /\ main' = "read" /\ cur \in made /\ thread[cur] = "none"
        /\ UNCHANGED <<made, traceContinuous, offloadStatus, thread, bufferInitialized, cur, entry>>
    BY <1>11, <1>t DEF FlushRead, CtrlInv, CtrlOK
  <2>2. /\ call'[cur] = [pc |-> "read", i |-> 1, final |-> TRUE]
        /\ \A x \in Off : x # cur => call'[x] = call[x]
    BY <1>11, <1>t DEF FlushRead, CallRead, OffloadTypeOK
  <2>3. call'[cur].final = TRUE BY <2>2
  <2> QED BY <1>t, <2>1, <2>2, <2>3 DEF CtrlInv, CtrlOK, Passed
<1>12. ASSUME FlushEndRead PROVE CtrlOK(o)'
  <2>1. /\ main = "read" /\ main' = "full" /\ call[cur].pc = "idle"
        /\ UNCHANGED <<made, traceContinuous, offloadStatus, thread, call, cur, entry>>
    BY <1>12 DEF FlushEndRead
  <2>2. bufferInitialized'[o] => bufferInitialized[o]
    BY <1>12, <1>t, EndReadTraceEffect DEF FlushEndRead
  <2> QED BY <1>t, <2>1, <2>2 DEF CtrlInv, CtrlOK, Passed, Off
<1>13. ASSUME FlushWaited PROVE CtrlOK(o)'
  BY <1>13, <1>t DEF FlushWaited, CtrlInv, CtrlOK, Passed, Off
<1>14. ASSUME FlushCheckFull PROVE CtrlOK(o)'
  BY <1>14, <1>t DEF FlushCheckFull, NextOffloader, CtrlInv, CtrlOK, Passed, Off
<1>15. ASSUME FlushReturns PROVE CtrlOK(o)'
  <2>1. /\ main = "flushed" /\ main' \in {"idle", "gone"}
        /\ UNCHANGED <<traceContinuous, offloadStatus, thread, call, bufferInitialized, cur>>
        /\ kind = "flush" => UNCHANGED <<made, entry>>
    BY <1>15 DEF FlushReturns
  <2>2. o \in made => thread[o] \in {"none", "done"} BY <2>1 DEF CtrlInv, CtrlOK, Passed
  <2>3. call[o].pc = "idle" BY <2>1, <2>2 DEF CtrlInv, CtrlOK
  <2>4. thread[o] \in {"none", "done"} BY <2>2, <1>t DEF CtrlInv, CtrlOK, OffloadTypeOK
  <2> QED BY <2>1, <2>3, <2>4 DEF CtrlInv, CtrlOK, Passed
<1>16. ASSUME WriteOnly PROVE CtrlOK(o)'
  <2>1. /\ main = "idle" /\ main' = "gone" /\ entry # "valid"
        /\ UNCHANGED <<traceContinuous, offloadStatus, thread, call, bufferInitialized, cur>>
    BY <1>16 DEF WriteOnly
  <2>2. thread[o] \in {"none", "done"} BY <2>1, <1>t DEF CtrlInv, CtrlOK, OffloadTypeOK
  <2>3. call[o].pc = "idle" BY <2>1, <2>2 DEF CtrlInv, CtrlOK
  <2> QED BY <2>1, <2>2, <2>3 DEF CtrlInv, CtrlOK, Passed
<1>17. ASSUME Gone \/ UNCHANGED vars PROVE CtrlOK(o)' BY <1>17, CtrlFrame DEF Gone, vars
<1> QED
  BY <1>1, <1>2, <1>3, <1>4, <1>5, <1>6, <1>7, <1>8, <1>9, <1>10, <1>11, <1>12, <1>13, <1>14,
     <1>15, <1>16, <1>17
     DEF Next, Update, FlushStep

\* So does every step of the readers, the offload threads and the DMA.
LEMMA CtrlOffloadStep ==
  ASSUME TypeOK, CtrlInv, OffloaderStep, NEW o \in Off
  PROVE  CtrlOK(o)'
<1> USE DEF objVars, dmaVars, logVars
<1>t. OffloadTypeOK BY DEF TypeOK
<1>u. UNCHANGED <<main, cur, entry>> BY DEF OffloaderStep, pluginVars
<1>1. ASSUME NEW x \in Off, call[x].pc # "idle", GoesOn(x) \/ GoesToSync(x),
             UNCHANGED <<made, traceContinuous, offloadStatus, thread, bufferInitialized>>
      PROVE  CtrlOK(o)'
  <2>1. call'[o] = call[o] \/ (o = x /\ (call'[o].pc = "idle" \/ call'[o].final = call[o].final))
    BY <1>1 DEF GoesOn, GoesToSync
  <2> QED BY <1>1, <1>u, <2>1 DEF CtrlInv, CtrlOK, Passed
<1>2. ASSUME ReadPLIO PROVE CtrlOK(o)'
  BY <1>1, <1>2, <1>t, ReadPLIOEffect DEF ReadPLIO, Off
<1>3. ASSUME ReadGMIO PROVE CtrlOK(o)'
  BY <1>1, <1>3, <1>t, ReadGMIOEffect DEF ReadGMIO, Off
<1>4. ASSUME NEW x \in Off, SkipStream(x) PROVE CtrlOK(o)'
  BY <1>1, <1>4, <1>t, GoesOnType DEF SkipStream
<1>5. ASSUME NEW x \in Off, SyncNothing(x) PROVE CtrlOK(o)'
  BY <1>1, <1>5, <1>t, GoesOnType DEF SyncNothing
<1>6. ASSUME NEW x \in Off, SyncAndLog(x) PROVE CtrlOK(o)'
  BY <1>1, <1>6, <1>t, GoesOnType DEF SyncAndLog
<1>7. ASSUME NEW x \in Off, OtRead(x) PROVE CtrlOK(o)'
  <2>1. /\ thread[x] = "loop" /\ call[x].pc = "idle"
        /\ UNCHANGED <<made, traceContinuous, offloadStatus, bufferInitialized>>
    BY <1>7 DEF OtRead, CallRead
  <2>2. /\ \A y \in Off : y # x => call'[y] = call[y] /\ thread'[y] = thread[y]
        /\ thread'[x] = IF offloadStatus[x] = "RUNNING" THEN "pass" ELSE "final"
    BY <1>7, <1>t DEF OtRead, CallRead, OffloadTypeOK
  <2>3. call'[x].final <=> offloadStatus[x] # "RUNNING"
    <3>1. PICK f \in BOOLEAN : f = (offloadStatus[x] # "RUNNING") OBVIOUS
    <3>2. call'[x] = [pc |-> "read", i |-> 1, final |-> f]
      BY <1>7, <1>t, <3>1 DEF OtRead, CallRead, OffloadTypeOK
    <3>3. call'[x].final = f BY <3>2
    <3> QED BY <3>1, <3>3
  <2>4. offloadStatus[x] \in {"RUNNING", "STOPPING"} /\ x \in made
    BY <2>1 DEF CtrlInv, CtrlOK
  <2> QED BY <1>u, <2>1, <2>2, <2>3, <2>4 DEF CtrlInv, CtrlOK, Passed
<1>8. ASSUME NEW x \in Off, OtPassed(x) PROVE CtrlOK(o)'
  <2>1. /\ thread[x] = "pass" /\ call[x].pc = "idle"
        /\ UNCHANGED <<made, traceContinuous, offloadStatus, bufferInitialized, call>>
        /\ \A y \in Off : thread'[y] = IF y = x THEN "loop" ELSE thread[y]
    BY <1>8, <1>t DEF OtPassed, OffloadTypeOK
  <2> QED BY <1>u, <2>1 DEF CtrlInv, CtrlOK, Passed
<1>9. ASSUME NEW x \in Off, OtEnd(x) PROVE CtrlOK(o)'
  <2>1. /\ thread[x] = "final" /\ call[x].pc = "idle"
        /\ UNCHANGED <<made, traceContinuous, offloadStatus, call>>
        /\ \A y \in Off : thread'[y] = IF y = x THEN "finish" ELSE thread[y]
    BY <1>9, <1>t DEF OtEnd, OffloadTypeOK
  <2>2. ~bufferInitialized'[x] /\ \A y \in Off : y # x => (bufferInitialized'[y] <=> bufferInitialized[y])
    BY <1>9, <1>t, EndReadTraceEffect DEF OtEnd
  <2> QED BY <1>u, <2>1, <2>2 DEF CtrlInv, CtrlOK, Passed
<1>10. ASSUME NEW x \in Off, OtFinish(x) PROVE CtrlOK(o)'
  <2>1. /\ thread[x] = "finish" /\ UNCHANGED <<made, traceContinuous, bufferInitialized, call>>
        /\ \A y \in Off : thread'[y] = IF y = x THEN "done" ELSE thread[y]
        /\ \A y \in Off : offloadStatus'[y] = IF y = x THEN "STOPPED" ELSE offloadStatus[y]
    BY <1>10, <1>t DEF OtFinish, OffloadTypeOK
  <2> QED BY <1>u, <2>1 DEF CtrlInv, CtrlOK, Passed
<1>11. ASSUME NEW s \in Stream, DmaWrite(s) PROVE CtrlOK(o)'
  BY <1>11, <1>u DEF DmaWrite, CtrlInv, CtrlOK, Passed
<1> QED
  BY <1>2, <1>3, <1>4, <1>5, <1>6, <1>7, <1>8, <1>9, <1>10, <1>11
     DEF OffloaderStep, ReadStep, OtStep

\* Every step keeps what is known of the threads.
LEMMA CtrlStep ==
  ASSUME TypeOK, PollInv, CtrlInv, [Next]_vars
  PROVE  CtrlInv'
BY CtrlPluginStep, CtrlOffloadStep DEF CtrlInv

-----------------------------------------------------------------------------
(* The cursors of the buffers                                              *)

\* What a reader may take never becomes less, and a final read takes no less
\* than an ordinary one.
LEMMA CountGrows ==
  ASSUME OffloadTypeOK, OffloadTypeOK', NEW s \in Stream, written[s] <= written'[s],
         NEW f \in BOOLEAN, NEW g \in BOOLEAN, f => g
  PROVE  /\ WholePackets(WordCount(s, f)) <= WholePackets(WordCount(s, g)')
         /\ WholePackets(WordCount(s, f)) \in Nat /\ WholePackets(WordCount(s, g)') \in Nat
<1> DEFINE m == written[s]
           n == written'[s]
<1>1. m \in Nat /\ n \in Nat /\ m <= n BY DEF OffloadTypeOK
<1> HIDE DEF m, n
<1>2. /\ m - (m % BurstLen) \in Nat /\ n - (n % BurstLen) \in Nat /\ m - (m % BurstLen) <= m
      /\ m - (m % BurstLen) <= n - (n % BurstLen)
  BY <1>1, RoundDown, RoundMonotonic, SizeAssumption
<1>3. /\ WordCount(s, f) = IF Version2 /\ ~f THEN m - (m % BurstLen) ELSE m
      /\ WordCount(s, g)' = IF Version2 /\ ~g THEN n - (n % BurstLen) ELSE n
  BY DEF WordCount, m, n
<1>4. PICK a \in Nat : a = WordCount(s, f) BY <1>1, <1>2, <1>3
<1>5. PICK b \in Nat : b = WordCount(s, g)' BY <1>1, <1>2, <1>3
<1>6. a <= b BY <1>1, <1>2, <1>3, <1>4, <1>5
<1>7. WholePackets(a) <= WholePackets(b) BY <1>6, RoundMonotonic, SizeAssumption DEF WholePackets
<1>8. WholePackets(a) \in Nat /\ WholePackets(b) \in Nat BY WholeType
<1> QED BY <1>4, <1>5, <1>7, <1>8

\* the part of the cursors that neither the DMA nor the plugin changes
SameBuffer(s) ==
  /\ logged'[s] = logged[s] /\ written[s] <= written'[s]
  /\ bd'[s].usedSz = bd[s].usedSz /\ bd'[s].offset = bd[s].offset
  /\ (bd'[s].isFull <=> bd[s].isFull) /\ (bd'[s].offloadDone <=> bd[s].offloadDone)
  /\ bufferInitialized'[s[1]] => bufferInitialized[s[1]] /\ (bd[s].bufId => bd'[s].bufId)

\* A step that logs nothing for stream s and does not begin to read it.
LEMMA StreamKept ==
  ASSUME TypeOK, TypeOK', NEW s \in Stream, StreamOK(s), SameBuffer(s),
         NotFinal(s[1])' => NotFinal(s[1]) \/ bd[s].usedSz = 0,
         AtSync(s)' <=> AtSync(s),
         main' \in {"timeline", "start"} => main \in {"timeline", "start"}
  PROVE  StreamOK(s)'
<1>0. OffloadTypeOK /\ OffloadTypeOK' BY DEF TypeOK
<1>1. logged[s] \in Nat /\ written[s] \in Nat /\ written'[s] \in Nat BY <1>0 DEF OffloadTypeOK
<1>2. bd[s].usedSz \in Nat BY <1>0 DEF OffloadTypeOK, BufferInfo
<1>3. ASSUME s[1] = "PLIO"
      PROVE  bd'[s].usedSz <= WholePackets(WordCount(s, ~NotFinal("PLIO")))'
  <2>1. PICK f \in BOOLEAN : f = ~NotFinal("PLIO") BY DEF NotFinal
  <2>2. PICK g \in BOOLEAN : g = (~NotFinal("PLIO"))' BY DEF NotFinal
  <2>3. bd[s].usedSz <= WholePackets(WordCount(s, f)) BY <1>3, <2>1 DEF StreamOK
  <2>4. WholePackets(WordCount(s, g)') \in Nat BY <1>0, <2>2, CountGrows DEF SameBuffer
  <2>5. bd[s].usedSz <= WholePackets(WordCount(s, g)')
    <3>1. CASE f => g
      <4>1. /\ WholePackets(WordCount(s, f)) <= WholePackets(WordCount(s, g)')
            /\ WholePackets(WordCount(s, f)) \in Nat
        BY <1>0, <3>1, CountGrows DEF SameBuffer
      <4> QED BY <1>2, <2>3, <2>4, <4>1
    <3>2. CASE ~(f => g)
      <4>1. ~NotFinal("PLIO") /\ NotFinal("PLIO")' BY <2>1, <2>2, <3>2 DEF NotFinal
      <4>2. bd[s].usedSz = 0 BY <1>3, <4>1
      <4> QED BY <2>4, <4>2
    <3> QED BY <3>1, <3>2
  <2>6. WholePackets(WordCount(s, ~NotFinal("PLIO")))' = WholePackets(WordCount(s, g)')
    BY <2>2 DEF WordCount, WholePackets
  <2> QED BY <2>5, <2>6 DEF SameBuffer
<1>4. logged'[s] <= written'[s] BY <1>1 DEF StreamOK, SameBuffer
<1> QED BY <1>3, <1>4 DEF StreamOK, SameBuffer

\* stream s is well kept
BufferOK(s) == written[s] <= BufSz[s[1]] /\ (s[1] \in made => StreamOK(s))

\* A step that changes neither the streams nor the threads.
LEMMA StreamFrame ==
  ASSUME TypeOK, TypeOK', NEW s \in Stream, BufferOK(s),
         UNCHANGED <<bd, logged, written, bufferInitialized, thread>>,
         made' = {} \/ made' = made,
         call'[s[1]] = call[s[1]] \/ ~(call[s[1]].pc = "sync" \/ call'[s[1]].pc = "sync"),
         main' \in {"timeline", "start"} => main \in {"timeline", "start"}
  PROVE  BufferOK(s)'
<1>1. written[s] \in Nat BY DEF TypeOK, OffloadTypeOK
<1>2. SameBuffer(s) BY <1>1 DEF SameBuffer
<1>3. AtSync(s)' <=> AtSync(s) BY DEF AtSync
<1>4. NotFinal(s[1])' => NotFinal(s[1]) BY DEF NotFinal
<1> QED BY <1>2, <1>3, <1>4, StreamKept DEF BufferOK

\* Every step of the plugin keeps the cursors.
LEMMA StreamPluginStep ==
  ASSUME TypeOK, TypeOK', PollInv, CtrlInv, [Next]_vars, ~OffloaderStep,
         NEW s \in Stream, BufferOK(s)
  PROVE  BufferOK(s)'
<1> USE DEF objVars, dmaVars, logVars, offloadVars, pluginVars, pollVars, fileVars
<1>t. cur \in Off /\ OffloadTypeOK /\ OffloadTypeOK' /\ s[1] \in Off BY StreamFacts DEF TypeOK
<1>n. written[s] \in Nat BY <1>t DEF OffloadTypeOK
<1>1. ASSUME UpdateRefused PROVE BufferOK(s)'
  BY <1>1, StreamFrame DEF UpdateRefused, UpdateBegins
<1>2. ASSUME UpdateNoInstance PROVE BufferOK(s)'
  BY <1>2 DEF UpdateNoInstance, Construct, BufferOK
<1>3. ASSUME UpdateConfigures PROVE BufferOK(s)'
  <2>1. /\ written'[s] = 0 /\ logged'[s] = 0 /\ thread'[s[1]] = "none" /\ call'[s[1]] = CallIdle
        /\ s[1] \in made' =>
             /\ bd'[s].usedSz = 0 /\ bd'[s].offset = 0 /\ ~bd'[s].isFull /\ ~bd'[s].offloadDone
             /\ bufferInitialized'[s[1]] => bd'[s].bufId
    BY <1>3, <1>t, ConfigureEffect
  <2>2. BufSz[s[1]] \in Nat \ {0} BY <1>t, SizeAssumption
  <2>3. ~AtSync(s)' BY <2>1 DEF AtSync, CallIdle
  <2>4. ASSUME s[1] = "PLIO" PROVE 0 <= WholePackets(WordCount(s, ~NotFinal("PLIO")))'
    <3>1. PICK g \in BOOLEAN : g = (~NotFinal("PLIO"))' BY DEF NotFinal
    <3>2. WordCount(s, g)' \in Nat
      <4>1. written'[s] - (written'[s] % BurstLen) \in Nat BY <2>1, RoundDown, SizeAssumption
      <4> QED BY <2>1, <4>1 DEF WordCount
    <3>3. WholePackets(WordCount(s, g)') \in Nat BY <3>2, WholeType
    <3>4. WholePackets(WordCount(s, ~NotFinal("PLIO")))' = WholePackets(WordCount(s, g)')
      BY <3>1 DEF WordCount, WholePackets
    <3> QED BY <3>3, <3>4
  <2> QED BY <2>1, <2>2, <2>3, <2>4 DEF BufferOK, StreamOK
<1>4. ASSUME UpdateTimeline PROVE BufferOK(s)' BY <1>4, StreamFrame DEF UpdateTimeline
<1>5. ASSUME UpdateStarts PROVE BufferOK(s)'
  <2>1. /\ main = "start" /\ main' = "idle"
        /\ UNCHANGED <<made, bd, logged, written, bufferInitialized, call>>
    BY <1>5 DEF UpdateStarts
  <2>2. SameBuffer(s) BY <1>n, <2>1 DEF SameBuffer
  <2>3. AtSync(s)' <=> AtSync(s) BY <2>1 DEF AtSync
  <2>4. s[1] \in made => bd[s].usedSz = 0 BY <2>1 DEF BufferOK, StreamOK
  <2> QED BY <2>1, <2>2, <2>3, <2>4, StreamKept DEF BufferOK
<1>6. ASSUME PollStep PROVE BufferOK(s)'
  BY <1>6, StreamFrame DEF PollStep, PollCheck, PollEnough, PollTimers
<1>7. ASSUME FlushBegins \/ EndPoll \/ JoinPoll \/ FlushModules \/ FlushWaited PROVE BufferOK(s)'
  BY <1>7, StreamFrame DEF FlushBegins, EndPoll, JoinPoll, FlushModules, FlushWaited
<1>8. ASSUME FlushSkip \/ FlushCheckFull PROVE BufferOK(s)'
  BY <1>8, StreamFrame DEF FlushSkip, FlushCheckFull, NextOffloader
<1>9. ASSUME FlushStop PROVE BufferOK(s)' BY <1>9, StreamFrame DEF FlushStop
<1>10. ASSUME FlushRead PROVE BufferOK(s)'
  <2>1. /\ call[cur].pc = "idle" /\ call'[cur] = [pc |-> "read", i |-> 1, final |-> TRUE]
        /\ \A x \in Off : x # cur => call'[x] = call[x]
    BY <1>10, <1>t DEF FlushRead, CallRead, OffloadTypeOK
  <2>2. call'[cur].pc = "read" BY <2>1
  <2>3. call'[s[1]] = call[s[1]] \/ ~(call[s[1]].pc = "sync" \/ call'[s[1]].pc = "sync")
    BY <1>t, <2>1, <2>2
  <2> QED BY <1>10, <2>3, StreamFrame DEF FlushRead
<1>11. ASSUME FlushEndRead PROVE BufferOK(s)'
  <2>1. main = "read" /\ main' = "full" /\ UNCHANGED <<made, thread, call, logged, written>>
    BY <1>11 DEF FlushEndRead
  <2>2. SameBuffer(s)
    <3>1. EndReadTrace(cur) BY <1>11 DEF FlushEndRead
    <3> QED BY <1>n, <1>t, <2>1, <3>1, EndReadTraceEffect DEF SameBuffer
  <2>3. AtSync(s)' <=> AtSync(s) BY <2>1 DEF AtSync
  <2>4. NotFinal(s[1])' => NotFinal(s[1]) BY <2>1 DEF NotFinal
  <2> QED BY <2>1, <2>2, <2>3, <2>4, StreamKept DEF BufferOK
<1>12. ASSUME FlushReturns PROVE BufferOK(s)' BY <1>12, StreamFrame DEF FlushReturns
<1>13. ASSUME WriteOnly PROVE BufferOK(s)' BY <1>13, StreamFrame DEF WriteOnly
<1>14. ASSUME Gone \/ UNCHANGED vars PROVE BufferOK(s)' BY <1>14, StreamFrame DEF Gone, vars
<1> QED
  BY <1>1, <1>2, <1>3, <1>4, <1>5, <1>6, <1>7, <1>8, <1>9, <1>10, <1>11, <1>12, <1>13, <1>14
     DEF Next, Update, FlushStep

\* A step of the reader of one stream keeps the cursors of the others.
LEMMA StreamOther ==
  ASSUME TypeOK, TypeOK', NEW x \in Off, NEW t \in Stream, At(x, t),
         GoesOn(x) \/ GoesToSync(x), OnlyBuffer(t),
         UNCHANGED <<main, made, thread, bufferInitialized, written>>,
         NEW s \in Stream, s # t, BufferOK(s), logged'[s] = logged[s]
  PROVE  BufferOK(s)'
<1>1. written[s] \in Nat BY DEF TypeOK, OffloadTypeOK
<1>2. bd'[s] = bd[s] BY DEF OnlyBuffer
<1>3. SameBuffer(s) BY <1>1, <1>2 DEF SameBuffer
<1>4. s[1] \in Off /\ (s[1] = x => s[2] # call[x].i) BY StreamFacts DEF At
<1>5. AtSync(s)' <=> AtSync(s) BY <1>4 DEF AtSync, GoesOn, GoesToSync
<1>6. NotFinal(s[1])' => NotFinal(s[1]) BY DEF NotFinal
<1> QED BY <1>3, <1>5, <1>6, StreamKept DEF BufferOK

\* Every step of the readers, the offload threads and the DMA keeps them.
LEMMA StreamOffloadStep ==
  ASSUME TypeOK, TypeOK', CtrlInv, OffloaderStep, NEW s \in Stream, BufferOK(s)
  PROVE  BufferOK(s)'
<1> USE DEF objVars, dmaVars, logVars
<1>t. OffloadTypeOK /\ OffloadTypeOK' /\ s[1] \in Off BY StreamFacts DEF TypeOK
<1>n. /\ written[s] \in Nat /\ logged[s] \in Nat /\ written'[s] \in Nat
      /\ bd[s].usedSz \in Nat /\ bd[s].offset \in Nat /\ bd'[s].usedSz \in Nat /\ bd'[s].offset \in Nat
      /\ BufSz[s[1]] \in Nat \ {0}
  BY <1>t, SizeAssumption DEF OffloadTypeOK, BufferInfo
<1>u. UNCHANGED main BY DEF OffloaderStep, pluginVars
<1>m. \A x \in Off : call[x].pc # "idle" => main \notin {"timeline", "start"}
  BY DEF CtrlInv, CtrlOK
<1>1. ASSUME ReadPLIO PROVE BufferOK(s)'
  <2>1. PICK t \in Stream :
           /\ At("PLIO", t) /\ OnlyBuffer(t) /\ GoesToSync("PLIO")
           /\ bd'[t].offset = bd[t].usedSz
           /\ bd'[t].usedSz = WholePackets(WordCount(t, call["PLIO"].final))
           /\ bd'[t].bufId = bd[t].bufId /\ bd'[t].isFull = bd[t].isFull
           /\ ~bd[t].offloadDone /\ ~bd'[t].offloadDone
           /\ call["PLIO"].pc = "read"
    BY <1>1, <1>t, ReadPLIOEffect
  <2>2. UNCHANGED <<made, thread, bufferInitialized, written, logged>> BY <1>1 DEF ReadPLIO
  <2>3. CASE s # t BY <1>u, <2>1, <2>2, <2>3, StreamOther DEF Off
  <2>4. CASE s = t
    <3>1. /\ s[1] = "PLIO" /\ ~AtSync(s) /\ AtSync(s)'
          /\ "PLIO" \in made /\ main \notin {"timeline", "start"}
      BY <1>m, <2>1, <2>4 DEF At, AtSync, GoesToSync, Off, CtrlInv, CtrlOK
    <3>2. /\ logged[s] = bd[s].usedSz /\ StreamOK(s)
          /\ bd[s].usedSz <= WholePackets(WordCount(s, ~NotFinal("PLIO")))
      BY <2>1, <2>4, <3>1 DEF BufferOK, StreamOK
    <3>3. PICK f \in BOOLEAN : f = ~NotFinal("PLIO") BY DEF NotFinal
    <3>4. call["PLIO"].final = f
      <4>1. call["PLIO"].final \in BOOLEAN BY <1>t DEF OffloadTypeOK, Off
      <4>2. call["PLIO"].final <=> ~NotFinal("PLIO")
        BY <2>1 DEF CtrlInv, CtrlOK, NotFinal, Off
      <4> QED BY <3>3, <4>1, <4>2
    <3>5. bd'[s].usedSz = WholePackets(WordCount(s, f)) BY <2>1, <2>4, <3>4
    <3>6. bd[s].usedSz <= bd'[s].usedSz BY <3>2, <3>3, <3>5
    <3>7. bd'[s].usedSz <= WholePackets(WordCount(s, ~NotFinal("PLIO")))'
      <4>1. WholePackets(WordCount(s, ~NotFinal("PLIO")))' = WholePackets(WordCount(s, f))
        BY <2>2, <3>3 DEF NotFinal, WordCount, WholePackets
      <4> QED BY <1>n, <3>5, <4>1
    <3>8. logged'[s] = bd'[s].offset /\ bd'[s].offset <= bd'[s].usedSz
      BY <2>1, <2>2, <2>4, <3>2, <3>6
    <3> QED BY <1>u, <2>1, <2>2, <2>4, <3>1, <3>2, <3>7, <3>8 DEF BufferOK, StreamOK
  <2> QED BY <2>3, <2>4
<1>2. ASSUME ReadGMIO PROVE BufferOK(s)'
  <2>1. PICK t \in Stream :
           /\ At("GMIO", t) /\ OnlyBuffer(t) /\ GoesToSync("GMIO")
           /\ bd'[t].usedSz <= BufSz["GMIO"] /\ bd'[t].offset = bd[t].offset
           /\ bd'[t].bufId = bd[t].bufId /\ bd'[t].isFull = bd[t].isFull
           /\ ~bd[t].offloadDone /\ ~bd'[t].offloadDone
           /\ call["GMIO"].pc = "read"
    BY <1>2, <1>t, ReadGMIOEffect
  <2>2. UNCHANGED <<made, thread, bufferInitialized, written, logged>> BY <1>2 DEF ReadGMIO
  <2>3. CASE s # t BY <1>u, <2>1, <2>2, <2>3, StreamOther DEF Off
  <2>4. CASE s = t
    <3>1. /\ s[1] = "GMIO" /\ "GMIO" \in made /\ main \notin {"timeline", "start"}
      BY <1>m, <2>1, <2>4 DEF At, Off, CtrlInv, CtrlOK
    <3> QED BY <1>u, <2>1, <2>2, <2>4, <3>1 DEF BufferOK, StreamOK
  <2> QED BY <2>3, <2>4
<1>3. ASSUME NEW x \in Off, SkipStream(x) PROVE BufferOK(s)'
  <2>1. UNCHANGED <<made, thread, bufferInitialized, written, logged, bd>> /\ call[x].pc = "read"
    BY <1>3 DEF SkipStream
  <2>2. GoesOn(x) BY <1>3, <1>t, GoesOnType DEF SkipStream
  <2>3. call'[s[1]] = call[s[1]] \/ ~(call[s[1]].pc = "sync" \/ call'[s[1]].pc = "sync")
    BY <1>t, <2>1, <2>2 DEF GoesOn
  <2> QED BY <1>u, <2>1, <2>3, StreamFrame
<1>4. ASSUME NEW x \in Off, SyncNothing(x) PROVE BufferOK(s)'
  <2>1. PICK t \in Stream :
           /\ At(x, t) /\ GoesOn(x) /\ call[x].pc = "sync" /\ OnlyBuffer(t)
           /\ \/ bd[t].offset >= bd[t].usedSz /\ bd' = bd
              \/ /\ ~bd[t].bufId /\ bd'[t].offloadDone
                 /\ bd'[t].bufId = bd[t].bufId /\ bd'[t].usedSz = bd[t].usedSz
                 /\ bd'[t].offset = bd[t].offset /\ bd'[t].isFull = bd[t].isFull
    BY <1>4, <1>t, SyncNothingEffect
  <2>2. UNCHANGED <<made, thread, bufferInitialized, written, logged>> BY <1>4 DEF SyncNothing
  <2>3. CASE s # t BY <1>u, <2>1, <2>2, <2>3, StreamOther
  <2>4. CASE s = t
    <3>1. s[1] = x /\ AtSync(s) /\ ~AtSync(s)' /\ s[1] \in made /\ main \notin {"timeline", "start"}
      BY <1>m, <2>1, <2>4 DEF At, AtSync, GoesOn, CtrlInv, CtrlOK
    <3>2. StreamOK(s) /\ ~bd[s].offloadDone BY <3>1 DEF BufferOK, StreamOK
    <3>3. s[1] = "PLIO" =>
            WholePackets(WordCount(s, ~NotFinal("PLIO")))' = WholePackets(WordCount(s, ~NotFinal("PLIO")))
      BY <2>2 DEF NotFinal, WordCount, WholePackets
    <3>4. CASE bd[s].offset >= bd[s].usedSz /\ bd' = bd
      <4>1. s[1] = "PLIO" => logged[s] = bd[s].usedSz BY <1>n, <3>1, <3>2, <3>4 DEF StreamOK
      <4> QED BY <1>u, <2>2, <3>1, <3>2, <3>3, <3>4, <4>1 DEF BufferOK, StreamOK
    <3>5. CASE /\ ~bd[s].bufId /\ bd'[s].offloadDone
               /\ bd'[s].bufId = bd[s].bufId /\ bd'[s].usedSz = bd[s].usedSz
               /\ bd'[s].offset = bd[s].offset /\ bd'[s].isFull = bd[s].isFull
      BY <1>u, <2>2, <3>1, <3>2, <3>3, <3>5 DEF BufferOK, StreamOK
    <3> QED BY <2>1, <2>4, <3>4, <3>5
  <2> QED BY <2>3, <2>4
<1>5. ASSUME NEW x \in Off, SyncAndLog(x) PROVE BufferOK(s)'
  <2>1. PICK t \in Stream, n \in Nat :
           /\ At(x, t) /\ OnlyBuffer(t) /\ GoesOn(x) /\ Logs(t, bd[t].offset, n)
           /\ call[x].pc = "sync" /\ bd[t].offset < bd[t].usedSz
           /\ x = "PLIO" => n = bd[t].usedSz - bd[t].offset
           /\ x = "GMIO" => n = WrittenIn(t, bd[t].offset, bd[t].usedSz)
           /\ bd'[t].bufId = bd[t].bufId /\ bd'[t].usedSz = bd[t].usedSz
           /\ bd'[t].offset = IF x = "GMIO" THEN bd[t].offset + n ELSE bd[t].offset
           /\ bd'[t].isFull <=> bd[t].isFull \/ bd[t].offset + n >= BufSz[x]
           /\ bd'[t].offloadDone <=> bd[t].offloadDone \/ bd[t].offset + n >= BufSz[x]
    BY <1>5, <1>t, SyncAndLogEffect
  <2>2. UNCHANGED <<made, thread, bufferInitialized, written>> BY <1>5 DEF SyncAndLog
  <2>3. CASE s # t
    <3>1. logged'[s] = logged[s] BY <1>t, <2>1, <2>3 DEF Logs, OffloadTypeOK
    <3> QED BY <1>u, <2>1, <2>2, <2>3, <3>1, StreamOther
  <2>4. CASE s = t
    <3>1. s[1] = x /\ AtSync(s) /\ ~AtSync(s)' /\ s[1] \in made /\ main \notin {"timeline", "start"}
      BY <1>m, <2>1, <2>4 DEF At, AtSync, GoesOn, CtrlInv, CtrlOK
    <3>2. /\ StreamOK(s) /\ ~bd[s].offloadDone /\ ~bd[s].isFull /\ logged[s] = bd[s].offset
          /\ written[s] <= BufSz[s[1]]
      BY <3>1, StreamFacts DEF BufferOK, StreamOK, Off
    <3>3. s[1] = "PLIO" =>
            WholePackets(WordCount(s, ~NotFinal("PLIO")))' = WholePackets(WordCount(s, ~NotFinal("PLIO")))
      BY <2>2 DEF NotFinal, WordCount, WholePackets
    <3>4. logged'[s] = bd[s].offset + n BY <1>t, <2>1, <2>4 DEF Logs, OffloadTypeOK
    <3>5. bd[s].offset + n <= written[s]
      <4>1. CASE x = "PLIO"
        <5>1. PICK f \in BOOLEAN : f = ~NotFinal("PLIO") BY DEF NotFinal
        <5>2. bd[s].usedSz <= WholePackets(WordCount(s, f)) BY <3>1, <3>2, <4>1, <5>1 DEF StreamOK
        <5>3. WordCount(s, f) \in Nat /\ WordCount(s, f) <= written[s] BY <1>t, CountMonotonic
        <5>4. WholePackets(WordCount(s, f)) \in Nat /\ WholePackets(WordCount(s, f)) <= WordCount(s, f)
          BY <5>3, WholeType
        <5> QED BY <1>n, <2>1, <2>4, <4>1, <5>2, <5>3, <5>4
      <4>2. CASE x = "GMIO"
        <5>1. n = WrittenIn(s, bd[s].offset, bd[s].usedSz) /\ bd[s].offset < bd[s].usedSz
          BY <2>1, <2>4, <4>2
        <5>2. n # 0 => bd[s].offset + n <= written[s] BY <1>n, <1>t, <5>1, WrittenInType
        <5>3. bd[s].offset <= written[s] BY <3>2 DEF StreamOK
        <5> QED BY <1>n, <5>2, <5>3
      <4> QED BY <4>1, <4>2 DEF Off
    <3>6. bd'[s].isFull <=> logged'[s] = BufSz[s[1]]
      BY <1>n, <2>1, <2>4, <3>1, <3>2, <3>4, <3>5
    <3>7. bd'[s].offloadDone <=> bd'[s].isFull BY <2>1, <2>4, <3>2
    <3>8. s[1] = "PLIO" => logged'[s] = bd'[s].usedSz BY <1>n, <2>1, <2>4, <3>1, <3>4
    <3>9. s[1] = "GMIO" => logged'[s] = bd'[s].offset BY <2>1, <2>4, <3>1, <3>4
    <3>10. bufferInitialized'[s[1]] => bd'[s].bufId BY <2>1, <2>2, <2>4, <3>2 DEF StreamOK
    <3>11. s[1] = "PLIO" => bd'[s].usedSz <= WholePackets(WordCount(s, ~NotFinal("PLIO")))'
      BY <2>1, <2>4, <3>2, <3>3 DEF StreamOK
    <3> QED
      BY <1>u, <2>2, <3>1, <3>2, <3>4, <3>5, <3>6, <3>7, <3>8, <3>9, <3>10, <3>11
         DEF BufferOK, StreamOK
  <2> QED BY <2>3, <2>4
<1>6. ASSUME NEW x \in Off, OtRead(x) PROVE BufferOK(s)'
  <2>1. /\ UNCHANGED <<made, bd, logged, written, bufferInitialized>>
        /\ call[x].pc = "idle" /\ thread[x] = "loop"
    BY <1>6 DEF OtRead, CallRead
  <2>2. /\ \A y \in Off : y # x => call'[y] = call[y] /\ thread'[y] = thread[y]
        /\ call'[x] = [pc |-> "read", i |-> 1, final |-> offloadStatus[x] # "RUNNING"]
    BY <1>6, <1>t DEF OtRead, CallRead, OffloadTypeOK
  <2>3. call'[x].pc = "read" BY <2>2
  <2>4. AtSync(s)' <=> AtSync(s) BY <1>t, <2>1, <2>2, <2>3 DEF AtSync
  <2>5. NotFinal(s[1])' => NotFinal(s[1]) BY <1>t, <2>1, <2>2 DEF NotFinal
  <2>6. SameBuffer(s) BY <1>n, <2>1 DEF SameBuffer
  <2> QED BY <1>u, <2>1, <2>4, <2>5, <2>6, StreamKept DEF BufferOK
<1>7. ASSUME NEW x \in Off, OtPassed(x) \/ OtFinish(x) PROVE BufferOK(s)'
  <2>1. /\ UNCHANGED <<made, bd, logged, written, bufferInitialized, call>>
        /\ thread[x] \in {"pass", "finish"}
        /\ \A y \in Off : thread'[y] = IF y = x THEN (IF thread[x] = "pass" THEN "loop" ELSE "done")
                                       ELSE thread[y]
    BY <1>7, <1>t DEF OtPassed, OtFinish, OffloadTypeOK
  <2>2. AtSync(s)' <=> AtSync(s) BY <2>1 DEF AtSync
  <2>3. NotFinal(s[1])' => NotFinal(s[1]) BY <1>t, <2>1 DEF NotFinal
  <2>4. SameBuffer(s) BY <1>n, <2>1 DEF SameBuffer
  <2> QED BY <1>u, <2>1, <2>2, <2>3, <2>4, StreamKept DEF BufferOK
<1>8. ASSUME NEW x \in Off, OtEnd(x) PROVE BufferOK(s)'
  <2>1. /\ UNCHANGED <<made, logged, written, call>>
        /\ \A y \in Off : thread'[y] = IF y = x THEN "finish" ELSE thread[y]
    BY <1>8, <1>t DEF OtEnd, OffloadTypeOK
  <2>2. AtSync(s)' <=> AtSync(s) BY <2>1 DEF AtSync
  <2>3. NotFinal(s[1])' => NotFinal(s[1]) BY <1>t, <2>1 DEF NotFinal
  <2>4. SameBuffer(s)
    <3>1. EndReadTrace(x) BY <1>8 DEF OtEnd
    <3> QED BY <1>n, <1>t, <2>1, <3>1, EndReadTraceEffect DEF SameBuffer
  <2> QED BY <1>u, <2>1, <2>2, <2>3, <2>4, StreamKept DEF BufferOK
<1>9. ASSUME NEW t \in Stream, DmaWrite(t) PROVE BufferOK(s)'
  <2>1. /\ UNCHANGED <<made, bd, logged, bufferInitialized, call, thread>>
        /\ written[t] < BufSz[t[1]]
        /\ written'[s] = IF s = t THEN written[s] + 1 ELSE written[s]
    BY <1>9, <1>t DEF DmaWrite, OffloadTypeOK
  <2>2. AtSync(s)' <=> AtSync(s) BY <2>1 DEF AtSync
  <2>3. NotFinal(s[1])' => NotFinal(s[1]) BY <2>1 DEF NotFinal
  <2>4. SameBuffer(s) BY <1>n, <2>1 DEF SameBuffer
  <2>5. written'[s] <= BufSz[s[1]] BY <1>n, <2>1 DEF BufferOK
  <2> QED BY <1>u, <2>1, <2>2, <2>3, <2>4, <2>5, StreamKept DEF BufferOK
<1> QED
  BY <1>1, <1>2, <1>3, <1>4, <1>5, <1>6, <1>7, <1>8, <1>9 DEF OffloaderStep, ReadStep, OtStep

\* Every step keeps the cursors.
LEMMA StreamStep ==
  ASSUME TypeOK, TypeOK', PollInv, CtrlInv, StreamInv, [Next]_vars
  PROVE  StreamInv'
<1>1. ASSUME NEW s \in Stream PROVE BufferOK(s)'
  BY StreamPluginStep, StreamOffloadStep DEF StreamInv, BufferOK
<1> QED BY <1>1 DEF StreamInv, BufferOK

-----------------------------------------------------------------------------
(* The chunks and the files                                                *)

\* A chunk that begins at the end of the others continues them.
LEMMA ContinueAppend ==
  ASSUME NEW c \in Seq([from : Nat, to : Nat]), NEW e \in [from : Nat, to : Nat], NEW n \in Nat,
         Continue(c, n), e.from = End(c, n)
  PROVE  Continue(Append(c, e), n) /\ End(Append(c, e), n) = e.to
<1> DEFINE C == [from : Nat, to : Nat]
           d == Append(c, e)
<1>0. c \in Seq(C) /\ e \in C OBVIOUS
<1> HIDE DEF C
<1>1. Len(d) = Len(c) + 1 /\ Len(c) \in Nat /\ d[Len(c) + 1] = e /\ d # <<>> BY <1>0
<1>2. \A k \in 1..Len(c) : d[k] = c[k] BY <1>0
<1> HIDE DEF d
<1>3. ASSUME NEW k \in 1..Len(d) PROVE d[k].from = IF k = 1 THEN n ELSE d[k - 1].to
  <2>1. CASE k \in 1..Len(c)
    <3>1. c[k].from = IF k = 1 THEN n ELSE c[k - 1].to BY <2>1 DEF Continue
    <3>2. k # 1 => k - 1 \in 1..Len(c) BY <1>1, <2>1
    <3> QED BY <2>1, <1>2, <3>1, <3>2
  <2>2. CASE k \notin 1..Len(c)
    <3>1. k = Len(c) + 1 BY <1>1, <2>2
    <3>2. CASE c = <<>> BY <1>1, <3>1, <3>2 DEF End
    <3>3. CASE c # <<>>
      <4>1. Len(c) \in 1..Len(c) /\ k # 1 /\ k - 1 = Len(c) BY <1>0, <1>1, <3>1, <3>3
      <4> QED BY <1>1, <1>2, <3>1, <3>3, <4>1 DEF End
    <3> QED BY <3>2, <3>3
  <2> QED BY <2>1, <2>2
<1>4. End(d, n) = e.to BY <1>1 DEF End
<1>5. Continue(d, n) BY <1>3 DEF Continue
<1> QED BY <1>4, <1>5 DEF d

\* A step that logs nothing and writes no file.
LEMMA LogFrame ==
  ASSUME LogInv, UNCHANGED <<aiedb, logged, file, badFile, made>>, entry = "valid" => entry' = "valid"
  PROVE  LogInv'
<1>1. ASSUME NEW s \in Stream PROVE LogOK(s)' BY DEF LogInv, LogOK
<1> QED BY <1>1 DEF LogInv

\* The writers find chunks that continue their files.
LEMMA LogWrite ==
  ASSUME LogInv, WriteTraceEvents, made' = {}
  PROVE  LogInv'
<1>1. ASSUME NEW s \in Stream PROVE Continue(aiedb[s], file[s])
  <2>1. CASE s[1] \in made BY <2>1 DEF LogInv, LogOK
  <2>2. CASE s[1] \notin made
    <3>1. aiedb[s] = <<>> BY <2>2 DEF LogInv, LogOK
    <3> QED BY <3>1 DEF Continue
  <2> QED BY <2>1, <2>2
<1>2. badFile' = {} BY <1>1 DEF WriteTraceEvents, LogInv
<1>3. \A s \in Stream : LogOK(s)' BY DEF WriteTraceEvents, LogOK
<1> QED BY <1>2, <1>3 DEF LogInv

\* Every step keeps the chunks in AIEDB in order.
LEMMA LogStep ==
  ASSUME TypeOK, PollInv, CtrlInv, StreamInv, LogInv, [Next]_vars
  PROVE  LogInv'
<1> USE DEF objVars, dmaVars, logVars, offloadVars, pluginVars, pollVars, fileVars
<1>t. OffloadTypeOK BY DEF TypeOK
<1>1. ASSUME UpdateRefused PROVE LogInv' BY <1>1, LogFrame DEF UpdateRefused, UpdateBegins
<1>2. ASSUME UpdateNoInstance PROVE LogInv'
  <2>1. made' = {} /\ UNCHANGED <<aiedb, badFile>> /\ entry # "valid"
    BY <1>2 DEF UpdateNoInstance, UpdateBegins, Construct, CreateTraceWriters
  <2> QED BY <2>1 DEF LogInv, LogOK
<1>3. ASSUME UpdateConfigures PROVE LogInv'
  <2>0. PICK p, g \in BOOLEAN : Creates(p, g) BY <1>3, ConfigureEffect
  <2>1. /\ \A s \in Stream : s[1] \in made' => file'[s] = 0
        /\ logged' = [s \in Stream |-> 0] /\ UNCHANGED <<aiedb, badFile>> /\ entry # "valid"
    BY <1>3, <2>0, ConfigureEffect, CreateEffect DEF Creates
  <2>2. \A s \in Stream : aiedb[s] = <<>> BY <2>1 DEF LogInv, LogOK
  <2>3. \A s \in Stream : LogOK(s)' BY <2>1, <2>2 DEF LogOK, Continue, End
  <2> QED BY <2>1, <2>3 DEF LogInv
<1>4. ASSUME UpdateTimeline \/ UpdateStarts PROVE LogInv'
  BY <1>4, LogFrame DEF UpdateTimeline, UpdateStarts
<1>5. ASSUME PollStep PROVE LogInv'
  BY <1>5, LogFrame DEF PollStep, PollCheck, PollEnough, PollTimers
<1>6. ASSUME FlushBegins \/ EndPoll \/ JoinPoll \/ FlushModules \/ FlushSkip PROVE LogInv'
  BY <1>6, LogFrame DEF FlushBegins, EndPoll, JoinPoll, FlushModules, FlushSkip
<1>7. ASSUME FlushStop \/ FlushRead \/ FlushEndRead \/ FlushWaited \/ FlushCheckFull PROVE LogInv'
  BY <1>7, LogFrame DEF FlushStop, FlushRead, FlushEndRead, FlushWaited, FlushCheckFull
<1>8. ASSUME FlushReturns PROVE LogInv'
  <2>1. CASE kind = "flush" BY <1>8, <2>1, LogFrame DEF FlushReturns
  <2>2. CASE kind # "flush" BY <1>8, <2>2, LogWrite DEF FlushReturns
  <2> QED BY <2>1, <2>2
<1>9. ASSUME WriteOnly PROVE LogInv' BY <1>9, LogWrite DEF WriteOnly
<1>10. ASSUME Gone \/ UNCHANGED vars PROVE LogInv' BY <1>10, LogFrame DEF Gone, vars
<1>11. ASSUME NEW x \in Off, SyncAndLog(x), UNCHANGED <<entry, file, badFile>> PROVE LogInv'
  <2>1. PICK t \in Stream, n \in Nat : /\ At(x, t) /\ Logs(t, bd[t].offset, n) /\ call[x].pc = "sync"
    BY <1>11, <1>t, SyncAndLogEffect
  <2>2. made' = made BY <1>11 DEF SyncAndLog
  <2>3. t[1] \in made /\ entry = "valid" /\ t[1] \in Off
    BY <2>1, StreamFacts DEF At, CtrlInv, CtrlOK, PollInv
  <2>4. PICK a \in Nat : a = bd[t].offset BY <1>t DEF OffloadTypeOK, BufferInfo
  <2>5. logged[t] = a /\ LogOK(t)
    <3>1. StreamOK(t) /\ AtSync(t) BY <2>1, <2>3 DEF StreamInv, At, AtSync
    <3> QED BY <2>3, <2>4, <3>1 DEF StreamOK, LogInv, Off
  <2>6. ASSUME NEW s \in Stream PROVE LogOK(s)'
    <3>1. CASE s # t
      <4>1. logged'[s] = logged[s] /\ aiedb'[s] = aiedb[s]
        BY <1>t, <2>1, <3>1 DEF Logs, OffloadTypeOK
      <4> QED BY <1>11, <2>2, <4>1 DEF LogInv, LogOK
    <3>2. CASE s = t
      <4>0. /\ logged'[t] = a + n
            /\ aiedb'[t] = IF n = 0 THEN aiedb[t] ELSE Append(aiedb[t], [from |-> a, to |-> a + n])
        BY <1>t, <2>1, <2>4 DEF Logs, OffloadTypeOK
      <4>1. CASE n = 0
        <5>1. a + n = a BY <4>1
        <5>2. logged'[t] = logged[t] /\ aiedb'[t] = aiedb[t] BY <4>0, <4>1, <5>1, <2>5
        <5> QED BY <1>11, <2>2, <2>5, <3>2, <5>2 DEF LogOK
      <4>2. CASE n # 0
        <5>1. a + n \in Nat OBVIOUS
        <5>2. PICK e \in [from : Nat, to : Nat] : e = [from |-> a, to |-> a + n] BY <5>1
        <5>3. e.from = a /\ e.to = a + n BY <5>2
        <5>4. aiedb[t] \in Seq([from : Nat, to : Nat]) /\ file[t] \in Nat
          BY DEF TypeOK, OffloadTypeOK
        <5>5. Continue(aiedb[t], file[t]) /\ e.from = End(aiedb[t], file[t])
          BY <2>3, <2>5, <5>3 DEF LogOK
        <5>6. /\ Continue(Append(aiedb[t], e), file[t]) /\ End(Append(aiedb[t], e), file[t]) = a + n
          BY <5>3, <5>4, <5>5, ContinueAppend
        <5>7. aiedb'[t] = Append(aiedb[t], e) /\ file'[t] = file[t] BY <1>11, <4>0, <4>2, <5>2
        <5>8. Continue(aiedb'[t], file'[t]) /\ logged'[t] = End(aiedb'[t], file'[t])
          BY <4>0, <5>6, <5>7
        <5> QED BY <1>11, <2>2, <2>3, <3>2, <5>8 DEF LogOK
      <4> QED BY <4>1, <4>2
    <3> QED BY <3>1, <3>2
  <2> QED BY <1>11, <2>6 DEF LogInv
<1>12. ASSUME OffloaderStep PROVE LogInv'
  <2>0. UNCHANGED <<entry, file, badFile>> BY <1>12 DEF OffloaderStep
  <2>1. CASE \E x \in Off : SyncAndLog(x) BY <1>11, <2>0, <2>1
  <2>2. CASE \/ \E x \in Off : ReadStep(x) /\ ~SyncAndLog(x)
             \/ \E x \in Off : OtStep(x)
             \/ \E s \in Stream : DmaWrite(s)
    <3>1. UNCHANGED <<aiedb, logged, made>>
      BY <2>2 DEF ReadStep, ReadPLIO, ReadGMIO, SkipStream, SyncNothing, OtStep, OtRead, OtPassed,
                  OtEnd, OtFinish, DmaWrite
    <3> QED BY <2>0, <3>1, LogFrame
  <2> QED BY <1>12, <2>1, <2>2 DEF OffloaderStep
<1> QED
  BY <1>1, <1>2, <1>3, <1>4, <1>5, <1>6, <1>7, <1>8, <1>9, <1>10, <1>12 DEF Next, Update, FlushStep

\* A step that logs nothing, writes no file and makes no writer.
LEMMA PlaceFrame ==
  ASSUME PlaceInv, UNCHANGED <<aiedb, logged, writers, file, hole>>, made' \subseteq made
  PROVE  PlaceInv'
<1>1. ASSUME NEW s \in Stream PROVE (PlaceOK(s) /\ Behind(s))'
  BY DEF PlaceInv, PlaceOK, Behind
<1> QED BY <1>1 DEF PlaceInv

\* New writers come behind the old ones and empty the file.
LEMMA PlaceCreate ==
  ASSUME TypeOK, PlaceInv, NEW isPLIO \in BOOLEAN, NEW isGMIO \in BOOLEAN, Creates(isPLIO, isGMIO),
         \A s \in Stream : aiedb[s] = <<>>, aiedb' = aiedb,
         \A s \in Stream : s[1] \in made' => logged'[s] = 0
  PROVE  PlaceInv'
<1>1. CreateTraceWriters(isPLIO, isGMIO) BY DEF Creates
<1>2. ASSUME NEW s \in Stream PROVE (PlaceOK(s) /\ Behind(s))'
  <2>1. PICK w \in Seq(Nat) : w = writers[s] BY DEF TypeOK
  <2>2. CASE (s[1] = "PLIO" /\ isPLIO) \/ (s[1] = "GMIO" /\ isGMIO)
    <3>1. writers'[s] = Append(w, 0) /\ file'[s] = 0 /\ hole'[s] = 0 BY <1>1, <2>1, <2>2, CreateEffect
    <3>2. Append(w, 0) # <<>> /\ (Len(Append(w, 0)) <= 1 => Append(w, 0)[1] = 0) BY <2>1
    <3> QED BY <3>1, <3>2 DEF PlaceOK, Behind
  <2>3. CASE ~((s[1] = "PLIO" /\ isPLIO) \/ (s[1] = "GMIO" /\ isGMIO))
    <3>1. writers'[s] = writers[s] /\ file'[s] = file[s] /\ hole'[s] = hole[s]
      BY <1>1, <2>3, CreateEffect
    <3>2. s[1] \notin made' BY <2>3 DEF Creates
    <3> QED BY <3>1, <3>2 DEF PlaceInv, PlaceOK, Behind
  <2> QED BY <2>2, <2>3
<1> QED BY <1>2 DEF PlaceInv

\* The writers stand behind what they wrote.
LEMMA PlaceWrite ==
  ASSUME TypeOK, LogInv, PlaceInv, WriteTraceEvents, made' = {}
  PROVE  PlaceInv'
<1>1. ASSUME NEW s \in Stream PROVE (PlaceOK(s) /\ Behind(s))'
  <2>0. /\ file[s] \in Nat /\ hole[s] \in Nat /\ logged[s] \in Nat
        /\ PlaceOK(s) /\ writers[s] \in Seq(Nat) /\ aiedb'[s] = <<>> /\ s[1] \notin made'
    BY WriteEffect DEF TypeOK, OffloadTypeOK, PlaceInv
  <2>1. CASE aiedb[s] = <<>>
    <3>1. writers'[s] = writers[s] /\ file'[s] = file[s] /\ hole'[s] = hole[s] BY <2>1, WriteEffect
    <3> QED BY <2>0, <3>1 DEF PlaceOK, Behind
  <2>2. CASE aiedb[s] # <<>>
    <3>1. /\ writers[s] # <<>> /\ Len(writers'[s]) = Len(writers[s])
          /\ writers'[s][1] = writers[s][1] + (logged[s] - file[s])
          /\ file'[s] = logged[s] /\ file[s] < logged[s]
          /\ hole'[s] = IF file[s] = 0 THEN writers[s][1] ELSE hole[s]
          /\ writers' \in [Stream -> Seq(Nat)]
      BY <2>2, WriteEffect
    <3>2. PICK a \in Nat : a = writers[s][1]
      <4>1. PICK w \in Seq(Nat) : w = writers[s] /\ w # <<>> BY <2>0, <3>1
      <4>2. w[1] \in Nat BY <4>1
      <4> QED BY <4>1, <4>2
    <3>3. writers'[s][1] = hole'[s] + file'[s]
      <4>1. CASE file[s] = 0 BY <2>0, <3>1, <3>2, <4>1
      <4>2. CASE file[s] # 0
        <5>1. a = hole[s] + file[s] BY <2>0, <3>2, <4>2 DEF PlaceOK
        <5> QED BY <2>0, <3>1, <3>2, <4>2, <5>1
      <4> QED BY <4>1, <4>2
    <3>4. file'[s] > 0 /\ file'[s] # 0 BY <2>0, <3>1
    <3>5. Len(writers'[s]) <= 1 => hole'[s] = 0 BY <2>0, <3>1 DEF PlaceOK
    <3>6. writers'[s] # <<>>
      <4>1. PICK w \in Seq(Nat) : w = writers'[s] BY <3>1
      <4>2. PICK v \in Seq(Nat) : v = writers[s] /\ v # <<>> BY <2>0, <3>1
      <4>3. Len(v) # 0 /\ Len(w) = Len(v) BY <3>1, <4>1, <4>2
      <4>4. w # <<>> BY <4>3
      <4> QED BY <4>1, <4>4
    <3> QED BY <2>0, <3>3, <3>4, <3>5, <3>6 DEF PlaceOK, Behind
  <2> QED BY <2>1, <2>2
<1> QED BY <1>1 DEF PlaceInv

\* Every step keeps the places of the writers.
LEMMA PlaceStep ==
  ASSUME TypeOK, PollInv, CtrlInv, StreamInv, LogInv, PlaceInv, [Next]_vars
  PROVE  PlaceInv'
<1> USE DEF objVars, dmaVars, logVars, offloadVars, pluginVars, pollVars, fileVars
<1>t. OffloadTypeOK BY DEF TypeOK
<1>1. ASSUME UpdateRefused PROVE PlaceInv' BY <1>1, PlaceFrame DEF UpdateRefused
<1>2. ASSUME UpdateNoInstance PROVE PlaceInv'
  <2>1. made' = {} /\ UNCHANGED aiedb /\ entry # "valid"
    BY <1>2 DEF UpdateNoInstance, UpdateBegins, Construct
  <2>2. \A s \in Stream : aiedb[s] = <<>> BY <2>1 DEF LogInv, LogOK
  <2>3. PICK p, g \in BOOLEAN : Creates(p, g) BY <1>2, <2>1 DEF UpdateNoInstance, Creates
  <2> QED BY <2>1, <2>2, <2>3, PlaceCreate
<1>3. ASSUME UpdateConfigures PROVE PlaceInv'
  <2>1. PICK p, g \in BOOLEAN : Creates(p, g) BY <1>3, ConfigureEffect
  <2>2. logged' = [s \in Stream |-> 0] /\ UNCHANGED aiedb /\ entry # "valid" BY <1>3, ConfigureEffect
  <2>3. \A s \in Stream : aiedb[s] = <<>> BY <2>2 DEF LogInv, LogOK
  <2> QED BY <2>1, <2>2, <2>3, PlaceCreate
<1>4. ASSUME UpdateTimeline \/ UpdateStarts PROVE PlaceInv'
  BY <1>4, PlaceFrame DEF UpdateTimeline, UpdateStarts
<1>5. ASSUME PollStep PROVE PlaceInv'
  BY <1>5, PlaceFrame DEF PollStep, PollCheck, PollEnough, PollTimers
<1>6. ASSUME FlushBegins \/ EndPoll \/ JoinPoll \/ FlushModules \/ FlushSkip PROVE PlaceInv'
  BY <1>6, PlaceFrame DEF FlushBegins, EndPoll, JoinPoll, FlushModules, FlushSkip
<1>7. ASSUME FlushStop \/ FlushRead \/ FlushEndRead \/ FlushWaited \/ FlushCheckFull PROVE PlaceInv'
  BY <1>7, PlaceFrame DEF FlushStop, FlushRead, FlushEndRead, FlushWaited, FlushCheckFull
<1>8. ASSUME FlushReturns PROVE PlaceInv'
  <2>1. CASE kind = "flush" BY <1>8, <2>1, PlaceFrame DEF FlushReturns
  <2>2. CASE kind # "flush" BY <1>8, <2>2, PlaceWrite DEF FlushReturns
  <2> QED BY <2>1, <2>2
<1>9. ASSUME WriteOnly PROVE PlaceInv' BY <1>9, PlaceWrite DEF WriteOnly
<1>10. ASSUME Gone \/ UNCHANGED vars PROVE PlaceInv' BY <1>10, PlaceFrame DEF Gone, vars
<1>11. ASSUME NEW x \in Off, SyncAndLog(x), UNCHANGED <<writers, file, hole>> PROVE PlaceInv'
  <2>1. PICK t \in Stream, n \in Nat : /\ At(x, t) /\ Logs(t, bd[t].offset, n) /\ call[x].pc = "sync"
    BY <1>11, <1>t, SyncAndLogEffect
  <2>2. made' = made BY <1>11 DEF SyncAndLog
  <2>3. t[1] \in made /\ t[1] \in Off BY <2>1, StreamFacts DEF At, CtrlInv, CtrlOK
  <2>4. PICK a \in Nat : a = bd[t].offset BY <1>t DEF OffloadTypeOK, BufferInfo
  <2>5. logged[t] = a
    <3>1. StreamOK(t) /\ AtSync(t) BY <2>1, <2>3 DEF StreamInv, At, AtSync
    <3> QED BY <2>3, <2>4, <3>1 DEF StreamOK, Off
  <2>6. ASSUME NEW s \in Stream PROVE (PlaceOK(s) /\ Behind(s))'
    <3>1. PlaceOK(s)' BY <1>11, <2>2 DEF PlaceInv, PlaceOK
    <3>2. CASE s # t
      <4>1. logged'[s] = logged[s] /\ aiedb'[s] = aiedb[s]
        BY <1>t, <2>1, <3>2 DEF Logs, OffloadTypeOK
      <4> QED BY <1>11, <2>2, <3>1, <4>1 DEF PlaceInv, Behind
    <3>3. CASE s = t
      <4>1. /\ logged'[t] = a + n /\ (n = 0 => aiedb'[t] = aiedb[t]) /\ file'[t] = file[t]
        BY <1>11, <1>t, <2>1, <2>4 DEF Logs, OffloadTypeOK
      <4>2. file[t] \in Nat /\ file[t] <= a /\ (aiedb[t] # <<>> => file[t] < a)
        BY <2>3, <2>5 DEF TypeOK, PlaceInv, Behind
      <4>3. file[t] <= a + n /\ (n # 0 \/ file[t] < a => file[t] < a + n) BY <4>2
      <4>4. file'[t] <= logged'[t] /\ (aiedb'[t] # <<>> => file'[t] < logged'[t])
        BY <4>1, <4>2, <4>3
      <4> QED BY <3>1, <3>3, <4>4 DEF Behind
    <3> QED BY <3>2, <3>3
  <2> QED BY <2>6 DEF PlaceInv
<1>12. ASSUME OffloaderStep PROVE PlaceInv'
  <2>0. UNCHANGED <<writers, file, hole>> BY <1>12 DEF OffloaderStep
  <2>1. CASE \E x \in Off : SyncAndLog(x) BY <1>11, <2>0, <2>1
  <2>2. CASE \/ \E x \in Off : ReadStep(x) /\ ~SyncAndLog(x)
             \/ \E x \in Off : OtStep(x)
             \/ \E s \in Stream : DmaWrite(s)
    <3>1. UNCHANGED <<aiedb, logged, made>>
      BY <2>2 DEF ReadStep, ReadPLIO, ReadGMIO, SkipStream, SyncNothing, OtStep, OtRead, OtPassed,
                  OtEnd, OtFinish, DmaWrite
    <3> QED BY <2>0, <3>1, PlaceFrame
  <2> QED BY <1>12, <2>1, <2>2 DEF OffloaderStep
<1> QED
  BY <1>1, <1>2, <1>3, <1>4, <1>5, <1>6, <1>7, <1>8, <1>9, <1>10, <1>12 DEF Next, Update, FlushStep

-----------------------------------------------------------------------------
(* What a flush owes                                                       *)

\* the words that the flush owes of stream s are not all logged
Pending(s) == owed[s] # -1 /\ ~(owed[s] <= logged[s])

\* A step that neither asks nor answers keeps the debt, when what is not
\* logged is still to come.
LEMMA OwedKept ==
  ASSUME TypeOK, TypeOK', NEW s \in Stream, OwedOK(s), owed'[s] = owed[s], made' = made,
         main \in {"offloader", "wait", "read", "full", "flushed"} =>
           main' \in {"offloader", "wait", "read", "full", "flushed"},
         written[s] <= written'[s], logged[s] <= logged'[s],
         Pending(s) => owed[s] <= logged'[s] \/ (bufferInitialized'[s[1]] /\ ToCome(s)')
  PROVE  OwedOK(s)'
<1> SUFFICES ASSUME owed[s] # -1 PROVE OwedOK(s)' BY DEF OwedOK
<1>1. /\ written[s] \in Nat /\ written'[s] \in Nat /\ logged[s] \in Nat /\ logged'[s] \in Nat
  BY DEF TypeOK, OffloadTypeOK
<1>2. owed[s] \in Nat /\ owed[s] <= WholePackets(written[s]) BY DEF OwedOK
<1>3. WholePackets(written[s]) <= WholePackets(written'[s])
  BY <1>1, RoundMonotonic, SizeAssumption DEF WholePackets
<1>4. WholePackets(written[s]) \in Nat /\ WholePackets(written'[s]) \in Nat BY <1>1, WholeType
<1>5. owed[s] <= WholePackets(written'[s]) BY <1>2, <1>3, <1>4
<1>6. WholePackets(written[s])' = WholePackets(written'[s]) BY DEF WholePackets
<1>7. owed[s] <= logged[s] => owed[s] <= logged'[s] BY <1>1, <1>2
<1>8. owed[s] <= logged'[s] \/ (bufferInitialized'[s[1]] /\ ToCome(s)') BY <1>7 DEF Pending
<1> QED BY <1>2, <1>5, <1>6, <1>8 DEF OwedOK

\* The buffers of an offloader that owes something are not done with.
LEMMA PendingOpen ==
  ASSUME TypeOK, StreamInv, NEW s \in Stream, OwedOK(s), Pending(s)
  PROVE  /\ bufferInitialized[s[1]] /\ ToCome(s) /\ s[1] \in made /\ StreamOK(s)
         /\ bd[s].bufId /\ ~bd[s].offloadDone
         /\ owed[s] \in Nat /\ owed[s] <= WholePackets(written[s]) /\ owed[s] <= written[s]
         /\ owed[s] <= BufSz[s[1]]
<1>1. /\ bufferInitialized[s[1]] /\ ToCome(s) /\ s[1] \in made
      /\ owed[s] \in Nat /\ owed[s] <= WholePackets(written[s])
  BY DEF OwedOK, Pending
<1>2. written[s] \in Nat /\ written[s] <= BufSz[s[1]] /\ BufSz[s[1]] \in Nat /\ StreamOK(s)
  BY <1>1, StreamFacts, SizeAssumption DEF StreamInv, TypeOK, OffloadTypeOK
<1>3. WholePackets(written[s]) \in Nat /\ WholePackets(written[s]) <= written[s] BY <1>2, WholeType
<1>4. owed[s] <= written[s] /\ owed[s] <= BufSz[s[1]] BY <1>1, <1>2, <1>3
<1>5. bd[s].bufId /\ (bd[s].offloadDone => logged[s] = BufSz[s[1]]) BY <1>1, <1>2 DEF StreamOK
<1>6. ~bd[s].offloadDone BY <1>4, <1>5 DEF Pending
<1> QED BY <1>1, <1>2, <1>4, <1>5, <1>6

\* A step that changes nothing the debt depends on.
LEMMA OwedFrame ==
  ASSUME TypeOK, TypeOK', NEW s \in Stream, OwedOK(s),
         UNCHANGED <<owed, made, main, cur, written, logged, bd, bufferInitialized, thread, call>>
  PROVE  OwedOK(s)'
<1>1. written[s] \in Nat /\ logged[s] \in Nat BY DEF TypeOK, OffloadTypeOK
<1>2. ToCome(s)' <=> ToCome(s) BY DEF ToCome, NotFinal, AtSync
<1>3. Pending(s) => bufferInitialized[s[1]] /\ ToCome(s) BY DEF Pending, OwedOK
<1> QED BY <1>1, <1>2, <1>3, OwedKept

\* Every step of the plugin keeps the debt, or asks or answers.
LEMMA OwedPluginStep ==
  ASSUME TypeOK, TypeOK', CtrlInv, StreamInv, [Next]_vars, ~OffloaderStep,
         NEW s \in Stream, OwedOK(s)
  PROVE  OwedOK(s)'
<1> USE DEF objVars, dmaVars, logVars, offloadVars, pluginVars, pollVars, fileVars
<1>t. cur \in Off /\ OffloadTypeOK /\ s[1] \in Off BY StreamFacts DEF TypeOK
<1>n. written[s] \in Nat /\ logged[s] \in Nat BY <1>t DEF OffloadTypeOK
<1>c. CtrlOK(s[1]) BY <1>t DEF CtrlInv
<1>p. Pending(s) => bufferInitialized[s[1]] /\ ToCome(s) /\ s[1] \in made BY DEF Pending, OwedOK
<1>0. ASSUME main \notin {"offloader", "wait", "read", "full", "flushed"}, owed' = owed
      PROVE  OwedOK(s)'
  BY <1>0 DEF OwedOK
<1>1. ASSUME Update PROVE OwedOK(s)'
  BY <1>1, <1>0, ConfigureEffect
     DEF Update, UpdateRefused, UpdateNoInstance, UpdateBegins, UpdateTimeline, UpdateStarts
<1>2. ASSUME FlushBegins \/ EndPoll \/ JoinPoll \/ WriteOnly PROVE OwedOK(s)'
  BY <1>2, <1>0 DEF FlushBegins, EndPoll, JoinPoll, WriteOnly
<1>3. ASSUME PollStep \/ Gone \/ UNCHANGED vars PROVE OwedOK(s)'
  BY <1>3, OwedFrame DEF PollStep, PollCheck, PollEnough, PollTimers, Gone, vars
<1>4. ASSUME FlushModules PROVE OwedOK(s)'
  <2>1. /\ main = "modules" /\ main' = "offloader" /\ cur' = "PLIO"
        /\ UNCHANGED <<made, written, logged, bd, bufferInitialized, thread, call>>
        /\ owed'[s] = IF s[1] \in made /\ bufferInitialized[s[1]] THEN WholePackets(written[s]) ELSE -1
    BY <1>4 DEF FlushModules
  <2>2. CASE owed'[s] = -1 BY <2>2 DEF OwedOK
  <2>3. CASE owed'[s] # -1
    <3>1. s[1] \in made /\ bufferInitialized[s[1]] /\ owed'[s] = WholePackets(written[s])
      BY <2>1, <2>3
    <3>2. owed'[s] \in Nat BY <1>n, <3>1, WholeType
    <3>3. thread[s[1]] \in {"none", "loop", "pass"}
      BY <1>c, <1>t, <2>1, <3>1 DEF CtrlOK, OffloadTypeOK
    <3>4. ToCome(s)' BY <1>t, <2>1, <3>3 DEF ToCome, NotFinal, Off
    <3>5. WholePackets(written[s])' = WholePackets(written[s]) BY <2>1 DEF WholePackets
    <3> QED BY <2>1, <3>1, <3>2, <3>4, <3>5 DEF OwedOK
  <2> QED BY <2>2, <2>3
<1>5. ASSUME UNCHANGED <<owed, made, written, logged, bd, thread>>,
             main \in {"offloader", "read", "wait", "full"},
             main' \in {"offloader", "read", "wait", "full", "flushed"},
             Pending(s) => bufferInitialized'[s[1]] /\ ToCome(s)'
      PROVE  OwedOK(s)'
  BY <1>5, <1>n, OwedKept
<1>6. ASSUME FlushSkip PROVE OwedOK(s)'
  <2>1. /\ main = "offloader" /\ cur \notin made
        /\ UNCHANGED <<owed, made, written, logged, bd, bufferInitialized, thread, call>>
        /\ IF cur = "PLIO" THEN cur' = "GMIO" /\ main' = "offloader" ELSE cur' = cur /\ main' = "flushed"
    BY <1>6 DEF FlushSkip, NextOffloader
  <2>2. Pending(s) => bufferInitialized'[s[1]] /\ ToCome(s)'
    BY <1>c, <1>p, <1>t, <2>1 DEF ToCome, NotFinal, AtSync, CtrlOK, Passed, Off
  <2> QED BY <1>5, <2>1, <2>2
<1>7. ASSUME FlushStop PROVE OwedOK(s)'
  <2>1. /\ main = "offloader" /\ main' = "wait" /\ traceContinuous[cur]
        /\ UNCHANGED <<owed, made, written, logged, bd, bufferInitialized, thread, call, cur>>
    BY <1>7 DEF FlushStop
  <2>2. Pending(s) => bufferInitialized'[s[1]] /\ ToCome(s)'
    BY <1>c, <1>p, <1>t, <2>1 DEF ToCome, NotFinal, AtSync, CtrlOK, Off
  <2> QED BY <1>5, <2>1, <2>2
<1>8. ASSUME FlushRead PROVE OwedOK(s)'
  <2>1. /\ main = "offloader" /\ main' = "read"
        /\ UNCHANGED <<owed, made, written, logged, bd, bufferInitialized, thread, cur>>
        /\ call'[cur] = [pc |-> "read", i |-> 1, final |-> TRUE]
        /\ \A x \in Off : x # cur => call'[x] = call[x]
    BY <1>8, <1>t DEF FlushRead, CallRead, OffloadTypeOK
  <2>2. call'[cur].pc = "read" /\ call'[cur].i = 1 /\ call'[cur].final = TRUE BY <2>1
  <2>3. s[2] \in Nat /\ 1 <= s[2] BY StreamFacts, StreamAssumption
  <2>4. Pending(s) => bufferInitialized'[s[1]] /\ ToCome(s)'
    <3>1. CASE s[1] = cur
      BY <1>p, <2>1, <2>2, <2>3, <3>1 DEF ToCome, AtSync
    <3>2. CASE s[1] # cur
      BY <1>p, <1>t, <2>1, <3>2 DEF ToCome, NotFinal, AtSync
    <3> QED BY <3>1, <3>2
  <2> QED BY <1>5, <2>1, <2>4
<1>9. ASSUME FlushEndRead PROVE OwedOK(s)'
  <2>1. /\ main = "read" /\ main' = "full" /\ call[cur].pc = "idle"
        /\ UNCHANGED <<owed, made, written, logged, thread, call, cur>>
    BY <1>9 DEF FlushEndRead
  <2>2. /\ s[1] # cur => bd'[s] = bd[s] /\ (bufferInitialized'[s[1]] <=> bufferInitialized[s[1]])
    BY <1>9, <1>t, EndReadTraceEffect DEF FlushEndRead
  <2>3. Pending(s) => bufferInitialized'[s[1]] /\ ToCome(s)'
    <3>1. CASE s[1] = cur
      <4>1. ~ToCome(s) BY <1>c, <2>1, <3>1 DEF ToCome, NotFinal, CtrlOK
      <4> QED BY <1>p, <4>1
    <3>2. CASE s[1] # cur
      BY <1>p, <2>1, <2>2, <3>2 DEF ToCome, NotFinal, AtSync
    <3> QED BY <3>1, <3>2
  <2> QED BY <1>n, <2>1, <2>3, OwedKept
<1>10. ASSUME FlushWaited PROVE OwedOK(s)'
  <2>1. /\ main = "wait" /\ main' = "full" /\ offloadStatus[cur] = "STOPPED"
        /\ UNCHANGED <<owed, made, written, logged, bd, bufferInitialized, thread, call, cur>>
    BY <1>10 DEF FlushWaited
  <2>2. Pending(s) => bufferInitialized'[s[1]] /\ ToCome(s)'
    BY <1>p, <2>1 DEF ToCome, NotFinal, AtSync
  <2> QED BY <1>5, <2>1, <2>2
<1>11. ASSUME FlushCheckFull PROVE OwedOK(s)'
  <2>1. /\ main = "full"
        /\ UNCHANGED <<owed, made, written, logged, bd, bufferInitialized, thread, call>>
        /\ IF cur = "PLIO" THEN cur' = "GMIO" /\ main' = "offloader" ELSE cur' = cur /\ main' = "flushed"
    BY <1>11 DEF FlushCheckFull, NextOffloader
  <2>2. Pending(s) => bufferInitialized'[s[1]] /\ ToCome(s)'
    BY <1>c, <1>p, <1>t, <2>1 DEF ToCome, NotFinal, AtSync, CtrlOK, Passed, Off
  <2> QED BY <1>5, <2>1, <2>2
<1>12. ASSUME FlushReturns PROVE OwedOK(s)' BY <1>12 DEF FlushReturns, OwedOK
<1> QED
  BY <1>1, <1>2, <1>3, <1>4, <1>6, <1>7, <1>8, <1>9, <1>10, <1>11, <1>12 DEF Next, FlushStep

\* The final read of another stream is still to come after a step of the
\* reader.
LEMMA ToComeOther ==
  ASSUME TypeOK, NEW x \in Off, NEW t \in Stream, At(x, t),
         GoesOn(x) \/ GoesToSync(x), OnlyBuffer(t), UNCHANGED <<main, cur, thread, owed>>,
         NEW s \in Stream, s # t, ToCome(s)
  PROVE  ToCome(s)'
<1>1. bd'[s] = bd[s] BY DEF OnlyBuffer
<1>0. OffloadTypeOK BY DEF TypeOK
<1>2. /\ s[1] \in Off /\ s[2] \in Nat
      /\ (s[1] = x => s[2] # call[x].i) /\ call[x].i \in Nat
      /\ NumStream[x] \in Nat /\ (s[1] = x => s[2] <= NumStream[x])
  <2>1. /\ s[1] \in Off /\ s[2] \in 1..NumStream[s[1]] /\ s = <<s[1], s[2]>> /\ t = <<t[1], t[2]>>
    BY StreamFacts
  <2>2. NumStream[s[1]] \in Nat /\ NumStream[x] \in Nat BY <2>1, StreamAssumption
  <2>3. s[1] = x => s[2] # call[x].i BY <2>1 DEF At
  <2>4. call[x].i \in Nat BY <1>0 DEF OffloadTypeOK
  <2> QED BY <2>1, <2>2, <2>3, <2>4
<1>3. CASE s[1] # x
  <2>1. call'[s[1]] = call[s[1]] BY <1>2, <1>3 DEF GoesOn, GoesToSync
  <2> QED BY <1>1, <2>1 DEF ToCome, NotFinal, AtSync
<1>4. CASE s[1] = x /\ call[x].pc # "idle" /\ call[x].final /\ call[x].i <= s[2]
  <2>1. call[x].i < s[2] BY <1>2, <1>4
  <2>2. /\ call'[x].pc # "idle" /\ call'[x].final /\ call'[x].i <= s[2]
        /\ call'[x].pc = "sync" => call'[x].i # s[2]
    <3>1. CASE GoesToSync(x)
      <4>1. call'[x].pc = "sync" /\ call'[x].i = call[x].i /\ call'[x].final = call[x].final
        BY <3>1 DEF GoesToSync
      <4> QED BY <1>2, <1>4, <2>1, <4>1
    <3>2. CASE GoesOn(x)
      <4>1. ~(call[x].i >= NumStream[x]) BY <1>2, <1>4, <2>1
      <4>2. call'[x].pc = "read" /\ call'[x].i = call[x].i + 1 /\ call'[x].final = call[x].final
        BY <3>2, <4>1 DEF GoesOn
      <4>3. call'[x].i <= s[2] BY <1>2, <2>1, <4>2
      <4> QED BY <1>4, <4>2, <4>3
    <3> QED BY <3>1, <3>2
  <2> QED BY <1>4, <2>2 DEF ToCome, AtSync
<1>5. CASE s[1] = x /\ ~(call[x].pc # "idle" /\ call[x].final /\ call[x].i <= s[2])
  BY <1>5 DEF ToCome, NotFinal
<1> QED BY <1>3, <1>4, <1>5

\* Every step of the readers, the offload threads and the DMA keeps the debt.
LEMMA OwedOffloadStep ==
  ASSUME TypeOK, TypeOK', CtrlInv, StreamInv, OffloaderStep, NEW s \in Stream, OwedOK(s)
  PROVE  OwedOK(s)'
<1> USE DEF objVars, dmaVars, logVars
<1>t. OffloadTypeOK /\ s[1] \in Off BY StreamFacts DEF TypeOK
<1>n. /\ written[s] \in Nat /\ logged[s] \in Nat /\ bd[s].offset \in Nat /\ bd[s].usedSz \in Nat
      /\ bd'[s].usedSz \in Nat
  BY <1>t DEF OffloadTypeOK, BufferInfo, TypeOK
<1>c. CtrlOK(s[1]) BY <1>t DEF CtrlInv
<1>u. UNCHANGED <<main, cur, owed>> BY DEF OffloaderStep, pluginVars
<1>p. ASSUME Pending(s)
      PROVE  /\ bufferInitialized[s[1]] /\ ToCome(s) /\ s[1] \in made /\ StreamOK(s)
             /\ bd[s].bufId /\ ~bd[s].offloadDone
             /\ owed[s] \in Nat /\ owed[s] <= WholePackets(written[s]) /\ owed[s] <= written[s]
             /\ owed[s] <= BufSz[s[1]]
  BY <1>p, PendingOpen
<1>1. ASSUME UNCHANGED <<made, bufferInitialized, written, logged>>, Pending(s) => ToCome(s)'
      PROVE  OwedOK(s)'
  BY <1>1, <1>n, <1>p, <1>u, OwedKept
\* a step that leaves the thread where it is, while the reader has no debt
<1>2. ASSUME thread' = thread, ToCome(s),
             ~(call[s[1]].pc # "idle" /\ call[s[1]].final /\ call[s[1]].i <= s[2])
      PROVE  ToCome(s)'
  BY <1>2, <1>u DEF ToCome, NotFinal
<1>3. ASSUME ReadPLIO PROVE OwedOK(s)'
  <2>1. PICK t \in Stream :
           /\ At("PLIO", t) /\ OnlyBuffer(t) /\ GoesToSync("PLIO")
           /\ bd'[t].usedSz = WholePackets(WordCount(t, call["PLIO"].final))
           /\ call["PLIO"].pc = "read"
    BY <1>3, <1>t, ReadPLIOEffect
  <2>2. UNCHANGED <<made, thread, bufferInitialized, written, logged>> BY <1>3 DEF ReadPLIO
  <2>3. ASSUME Pending(s) PROVE ToCome(s)'
    <3>1. CASE s # t BY <1>p, <1>u, <2>1, <2>2, <2>3, <3>1, ToComeOther DEF Off
    <3>2. CASE s = t /\ call["PLIO"].final
      <4>1. call["PLIO"].final = TRUE BY <1>t, <3>2 DEF OffloadTypeOK, Off
      <4>2. WordCount(s, TRUE) = written[s] BY DEF WordCount
      <4>3. bd'[s].usedSz = WholePackets(written[s]) BY <2>1, <3>2, <4>1, <4>2
      <4>4. bd'[s].usedSz >= owed[s] BY <1>n, <1>p, <2>3, <4>3
      <4>5. s[1] = "PLIO" /\ s[2] = call["PLIO"].i /\ s[2] \in Nat
        BY <2>1, <3>2, StreamFacts, StreamAssumption DEF At
      <4>6. /\ call'["PLIO"].pc = "sync" /\ call'["PLIO"].i = call["PLIO"].i
            /\ call'["PLIO"].final = call["PLIO"].final
        BY <2>1 DEF GoesToSync
      <4>7. /\ call'[s[1]].pc # "idle" /\ call'[s[1]].final /\ call'[s[1]].i <= s[2]
            /\ bd'[s].usedSz >= owed'[s]
        BY <1>u, <4>1, <4>4, <4>5, <4>6
      <4> QED BY <4>7 DEF ToCome
    <3>3. CASE s = t /\ ~call["PLIO"].final
      BY <1>2, <1>p, <2>1, <2>2, <2>3, <3>3 DEF At
    <3> QED BY <3>1, <3>2, <3>3
  <2> QED BY <1>1, <2>2, <2>3
<1>4. ASSUME ReadGMIO PROVE OwedOK(s)'
  <2>1. PICK t \in Stream :
           /\ At("GMIO", t) /\ OnlyBuffer(t) /\ GoesToSync("GMIO")
           /\ call["GMIO"].final => bd'[t].usedSz = BufSz["GMIO"]
           /\ call["GMIO"].pc = "read"
    BY <1>4, <1>t, ReadGMIOEffect
  <2>2. UNCHANGED <<made, thread, bufferInitialized, written, logged>> BY <1>4 DEF ReadGMIO
  <2>3. ASSUME Pending(s) PROVE ToCome(s)'
    <3>1. CASE s # t BY <1>p, <1>u, <2>1, <2>2, <2>3, <3>1, ToComeOther DEF Off
    <3>2. CASE s = t /\ call["GMIO"].final
      <4>1. s[1] = "GMIO" /\ s[2] = call["GMIO"].i /\ s[2] \in Nat
        BY <2>1, <3>2, StreamFacts, StreamAssumption DEF At
      <4>2. bd'[s].usedSz >= owed[s] BY <1>n, <1>p, <2>1, <2>3, <3>2, <4>1
      <4>3. /\ call'["GMIO"].pc = "sync" /\ call'["GMIO"].i = call["GMIO"].i
            /\ call'["GMIO"].final = call["GMIO"].final
        BY <2>1 DEF GoesToSync
      <4>4. /\ call'[s[1]].pc # "idle" /\ call'[s[1]].final /\ call'[s[1]].i <= s[2]
            /\ bd'[s].usedSz >= owed'[s]
        BY <1>u, <3>2, <4>1, <4>2, <4>3
      <4> QED BY <4>4 DEF ToCome
    <3>3. CASE s = t /\ ~call["GMIO"].final
      BY <1>2, <1>p, <2>1, <2>2, <2>3, <3>3 DEF At
    <3> QED BY <3>1, <3>2, <3>3
  <2> QED BY <1>1, <2>2, <2>3
<1>5. ASSUME NEW x \in Off, SkipStream(x) PROVE OwedOK(s)'
  <2>1. PICK t \in Stream : At(x, t) BY <1>t, CurrentType DEF At
  <2>2. /\ UNCHANGED <<made, thread, bufferInitialized, written, logged, bd>> /\ bd[t].offloadDone
    BY <1>5, <2>1 DEF SkipStream, At
  <2>3. GoesOn(x) /\ OnlyBuffer(t)
    BY <1>5, <1>t, <2>2, GoesOnType DEF SkipStream, OnlyBuffer, OffloadTypeOK
  <2>4. Pending(s) => ToCome(s)'
    BY <1>p, <1>u, <2>1, <2>2, <2>3, ToComeOther
  <2> QED BY <1>1, <2>2, <2>4
<1>6. ASSUME NEW x \in Off, SyncNothing(x) PROVE OwedOK(s)'
  <2>1. PICK t \in Stream :
           /\ At(x, t) /\ GoesOn(x) /\ call[x].pc = "sync" /\ OnlyBuffer(t)
           /\ bd[t].offset >= bd[t].usedSz \/ ~bd[t].bufId
    BY <1>6, <1>t, SyncNothingEffect
  <2>2. UNCHANGED <<made, thread, bufferInitialized, written, logged>> BY <1>6 DEF SyncNothing
  <2>3. ASSUME Pending(s) PROVE ToCome(s)'
    <3>1. CASE s # t BY <1>p, <1>u, <2>1, <2>2, <2>3, <3>1, ToComeOther
    <3>2. CASE s = t
      <4>1. bd[s].offset >= bd[s].usedSz /\ AtSync(s) BY <1>p, <2>1, <2>3, <3>2 DEF At, AtSync
      <4>2. logged[s] = bd[s].offset BY <1>p, <1>t, <2>3, <4>1 DEF StreamOK, Off
      <4>3. ~(bd[s].usedSz >= owed[s]) BY <1>n, <1>p, <2>3, <4>1, <4>2 DEF Pending
      <4>4. /\ ToCome(s)
            /\ ~(call[s[1]].pc # "idle" /\ call[s[1]].final /\ call[s[1]].i <= s[2])
        <5>1. NotFinal(s[1]) \/ thread[s[1]] = "none" BY <1>p, <2>3, <4>1, <4>3 DEF ToCome
        <5>2. ToCome(s) BY <1>p, <2>3
        <5>3. NotFinal(s[1]) => ~call[s[1]].final
          BY <1>c, <2>1, <3>2 DEF CtrlOK, NotFinal, At
        <5>4. ~NotFinal(s[1]) => FALSE
          BY <1>c, <2>1, <3>2, <4>1, <4>3, <5>1, <5>2 DEF ToCome, CtrlOK, At, NotFinal
        <5> QED BY <5>2, <5>3, <5>4
      <4> QED BY <1>2, <2>2, <4>4
    <3> QED BY <3>1, <3>2
  <2> QED BY <1>1, <2>2, <2>3
<1>7. ASSUME NEW x \in Off, SyncAndLog(x) PROVE OwedOK(s)'
  <2>1. PICK t \in Stream, n \in Nat :
           /\ At(x, t) /\ OnlyBuffer(t) /\ GoesOn(x) /\ Logs(t, bd[t].offset, n)
           /\ call[x].pc = "sync" /\ bd[t].offset < bd[t].usedSz
           /\ x = "PLIO" => n = bd[t].usedSz - bd[t].offset
           /\ x = "GMIO" => n = WrittenIn(t, bd[t].offset, bd[t].usedSz)
    BY <1>7, <1>t, SyncAndLogEffect
  <2>2. UNCHANGED <<made, thread, bufferInitialized, written>> BY <1>7 DEF SyncAndLog
  <2>3. CASE s # t
    <3>1. logged'[s] = logged[s] BY <1>t, <2>1, <2>3 DEF Logs, OffloadTypeOK
    <3>2. Pending(s) => bufferInitialized'[s[1]] /\ ToCome(s)'
      BY <1>p, <1>u, <2>1, <2>2, <2>3, ToComeOther
    <3> QED BY <1>n, <1>u, <2>2, <3>1, <3>2, OwedKept
  <2>4. CASE s = t
    <3>1. s[1] = x /\ AtSync(s) /\ s[1] \in made BY <2>1, <2>4 DEF At, AtSync, CtrlInv, CtrlOK
    <3>2. logged[s] = bd[s].offset BY <1>t, <3>1 DEF StreamInv, StreamOK, Off
    <3>3. logged'[s] = bd[s].offset + n BY <1>t, <2>1, <2>4 DEF Logs, OffloadTypeOK
    <3>4. logged[s] <= logged'[s] BY <1>n, <3>2, <3>3
    <3>5. ASSUME Pending(s) PROVE owed[s] <= logged'[s] \/ (bufferInitialized'[s[1]] /\ ToCome(s)')
      <4>1. CASE bd[s].usedSz >= owed[s]
        <5>1. CASE x = "PLIO" BY <1>n, <1>p, <2>1, <2>4, <3>3, <3>5, <4>1, <5>1
        <5>2. CASE x = "GMIO"
          BY <1>n, <1>p, <1>t, <2>1, <2>4, <3>3, <3>5, <4>1, <5>2, WrittenInType
        <5> QED BY <5>1, <5>2 DEF Off
      <4>2. CASE ~(bd[s].usedSz >= owed[s])
        <5>1. NotFinal(s[1]) \/ thread[s[1]] = "none" BY <1>p, <3>1, <3>5, <4>2 DEF ToCome
        <5>2. ToCome(s) /\ bufferInitialized[s[1]] BY <1>p, <3>5
        <5>3. NotFinal(s[1])
          BY <1>c, <2>1, <2>4, <3>1, <4>2, <5>1, <5>2 DEF ToCome, CtrlOK, At, NotFinal
        <5>4. ToCome(s)' BY <2>2, <5>3 DEF ToCome, NotFinal
        <5> QED BY <2>2, <5>2, <5>4
      <4> QED BY <4>1, <4>2
    <3> QED BY <1>n, <1>u, <2>2, <3>4, <3>5, OwedKept
  <2> QED BY <2>3, <2>4
<1>8. ASSUME NEW x \in Off, OtRead(x) PROVE OwedOK(s)'
  <2>1. /\ UNCHANGED <<made, bd, logged, written, bufferInitialized>> /\ thread[x] = "loop"
    BY <1>8 DEF OtRead
  <2>2. /\ \A y \in Off : y # x => call'[y] = call[y] /\ thread'[y] = thread[y]
        /\ thread'[x] = IF offloadStatus[x] = "RUNNING" THEN "pass" ELSE "final"
    BY <1>8, <1>t DEF OtRead, CallRead, OffloadTypeOK
  <2>3. /\ call'[x].pc = "read" /\ call'[x].i = 1
        /\ offloadStatus[x] # "RUNNING" => call'[x].final
    <3>1. PICK f \in BOOLEAN : f = (offloadStatus[x] # "RUNNING") OBVIOUS
    <3>2. call'[x] = [pc |-> "read", i |-> 1, final |-> f]
      BY <1>8, <1>t, <3>1 DEF OtRead, CallRead, OffloadTypeOK
    <3>3. call'[x].pc = "read" /\ call'[x].i = 1 /\ call'[x].final = f BY <3>2
    <3> QED BY <3>1, <3>3
  <2>4. s[2] \in Nat /\ 1 <= s[2] BY StreamFacts, StreamAssumption
  <2>5. ASSUME Pending(s) PROVE ToCome(s)'
    <3>1. CASE s[1] = x BY <2>2, <2>3, <2>4, <3>1 DEF ToCome, NotFinal, AtSync
    <3>2. CASE s[1] # x BY <1>p, <1>t, <1>u, <2>1, <2>2, <2>5, <3>2 DEF ToCome, NotFinal, AtSync
    <3> QED BY <3>1, <3>2
  <2> QED BY <1>1, <2>1, <2>5
<1>9. ASSUME NEW x \in Off, OtPassed(x) PROVE OwedOK(s)'
  <2>1. /\ UNCHANGED <<made, bd, logged, written, bufferInitialized, call>> /\ thread[x] = "pass"
        /\ \A y \in Off : thread'[y] = IF y = x THEN "loop" ELSE thread[y]
    BY <1>9, <1>t DEF OtPassed, OffloadTypeOK
  <2>2. Pending(s) => ToCome(s)' BY <1>p, <1>t, <1>u, <2>1 DEF ToCome, NotFinal, AtSync
  <2> QED BY <1>1, <2>1, <2>2
<1>10. ASSUME NEW x \in Off, OtEnd(x) PROVE OwedOK(s)'
  <2>1. /\ UNCHANGED <<made, logged, written, call>> /\ thread[x] = "final" /\ call[x].pc = "idle"
        /\ \A y \in Off : thread'[y] = IF y = x THEN "finish" ELSE thread[y]
    BY <1>10, <1>t DEF OtEnd, OffloadTypeOK
  <2>2. s[1] # x => bd'[s] = bd[s] /\ (bufferInitialized'[s[1]] <=> bufferInitialized[s[1]])
    BY <1>10, <1>t, EndReadTraceEffect DEF OtEnd
  <2>3. ASSUME Pending(s) PROVE bufferInitialized'[s[1]] /\ ToCome(s)'
    <3>1. s[1] # x BY <1>p, <2>1, <2>3 DEF ToCome, NotFinal
    <3> QED BY <1>p, <1>t, <1>u, <2>1, <2>2, <2>3, <3>1 DEF ToCome, NotFinal, AtSync
  <2> QED BY <1>n, <1>u, <2>1, <2>3, OwedKept
<1>11. ASSUME NEW x \in Off, OtFinish(x) PROVE OwedOK(s)'
  <2>1. /\ UNCHANGED <<made, bd, logged, written, bufferInitialized, call>> /\ thread[x] = "finish"
        /\ \A y \in Off : thread'[y] = IF y = x THEN "done" ELSE thread[y]
    BY <1>11, <1>t DEF OtFinish, OffloadTypeOK
  <2>2. ASSUME Pending(s) PROVE ToCome(s)'
    <3>1. s[1] # x BY <1>c, <1>p, <2>1, <2>2 DEF CtrlOK
    <3> QED BY <1>p, <1>t, <1>u, <2>1, <2>2, <3>1 DEF ToCome, NotFinal, AtSync
  <2> QED BY <1>1, <2>1, <2>2
<1>12. ASSUME NEW t \in Stream, DmaWrite(t) PROVE OwedOK(s)'
  <2>1. /\ UNCHANGED <<made, bd, logged, bufferInitialized, call, thread>>
        /\ written'[s] = IF s = t THEN written[s] + 1 ELSE written[s]
    BY <1>12, <1>t DEF DmaWrite, OffloadTypeOK
  <2>2. Pending(s) => bufferInitialized'[s[1]] /\ ToCome(s)'
    BY <1>p, <1>u, <2>1 DEF ToCome, NotFinal, AtSync
  <2> QED BY <1>n, <1>u, <2>1, <2>2, OwedKept
<1> QED
  BY <1>3, <1>4, <1>5, <1>6, <1>7, <1>8, <1>9, <1>10, <1>11, <1>12
     DEF OffloaderStep, ReadStep, OtStep

\* Every step keeps what a flush owes, or asks or answers.
LEMMA OwedStep ==
  ASSUME TypeOK, TypeOK', CtrlInv, StreamInv, OwedInv, [Next]_vars
  PROVE  OwedInv'
BY OwedPluginStep, OwedOffloadStep DEF OwedInv

-----------------------------------------------------------------------------
(* The report of full buffers                                              *)

\* flushAll has no reader at an offloader that it has looked at.
LEMMA CheckedIdle ==
  ASSUME TypeOK, CtrlInv, NEW o \in made, Checked(o)
  PROVE  o \in Off /\ call[o].pc = "idle"
<1>1. o \in Off /\ CtrlOK(o) BY DEF TypeOK, OffloadTypeOK, CtrlInv
<1>2. Passed(o) BY DEF Checked, Passed
<1> QED BY <1>1, <1>2 DEF CtrlOK, Checked

\* A reader may fill the buffer of a stream; it empties none, and leaves
\* those of an offloader alone whose reader is idle.
LEMMA FullKept ==
  ASSUME TypeOK, OffloaderStep, NEW s \in Stream
  PROVE  /\ bd[s].isFull => bd'[s].isFull
         /\ call[s[1]].pc = "idle" => (bd'[s].isFull <=> bd[s].isFull)
<1> USE DEF objVars, dmaVars, logVars
<1>t. OffloadTypeOK BY DEF TypeOK
<1>1. CASE bd' = bd BY <1>1
<1>2. CASE ReadPLIO
  <2>1. PICK t \in Stream :
           /\ At("PLIO", t) /\ OnlyBuffer(t) /\ bd'[t].isFull = bd[t].isFull
    BY <1>2, <1>t, ReadPLIOEffect
  <2> QED BY <2>1 DEF OnlyBuffer
<1>3. CASE ReadGMIO
  <2>1. PICK t \in Stream :
           /\ At("GMIO", t) /\ OnlyBuffer(t) /\ bd'[t].isFull = bd[t].isFull
    BY <1>3, <1>t, ReadGMIOEffect
  <2> QED BY <2>1 DEF OnlyBuffer
<1>4. ASSUME NEW x \in Off, SyncNothing(x)
      PROVE  (bd'[s].isFull <=> bd[s].isFull)
  <2>1. PICK t \in Stream : OnlyBuffer(t) /\ (bd' = bd \/ bd'[t].isFull = bd[t].isFull)
    BY <1>4, <1>t, SyncNothingEffect
  <2> QED BY <2>1 DEF OnlyBuffer
<1>5. ASSUME NEW x \in Off, SyncAndLog(x)
      PROVE  /\ bd[s].isFull => bd'[s].isFull
             /\ call[s[1]].pc = "idle" => (bd'[s].isFull <=> bd[s].isFull)
  <2>1. PICK t \in Stream :
           /\ At(x, t) /\ OnlyBuffer(t) /\ call[x].pc = "sync"
           /\ bd[t].isFull => bd'[t].isFull
    BY <1>5, <1>t, SyncAndLogEffect
  <2>2. s # t => bd'[s] = bd[s] BY <2>1 DEF OnlyBuffer
  <2>3. s = t => call[s[1]].pc = "sync" BY <2>1 DEF At
  <2> QED BY <2>1, <2>2, <2>3
<1>6. ASSUME NEW x \in Off, EndReadTrace(x)
      PROVE  (bd'[s].isFull <=> bd[s].isFull)
  BY <1>6, <1>t, EndReadTraceEffect
<1>7. ASSUME NEW x \in Off, ReadStep(x) \/ OtStep(x)
      PROVE  \/ bd' = bd \/ ReadPLIO \/ ReadGMIO \/ SyncNothing(x) \/ SyncAndLog(x) \/ EndReadTrace(x)
  BY <1>7 DEF ReadStep, SkipStream, OtStep, OtRead, OtPassed, OtEnd, OtFinish
<1>8. ASSUME NEW u \in Stream, DmaWrite(u) PROVE bd' = bd BY <1>8 DEF DmaWrite
<1> QED BY <1>1, <1>2, <1>3, <1>4, <1>5, <1>6, <1>7, <1>8 DEF OffloaderStep

\* The readers, the offload threads and the DMA make and drop no offloader.
LEMMA OffloaderObjects ==
  ASSUME OffloaderStep
  PROVE  UNCHANGED objVars
BY DEF OffloaderStep, ReadStep, ReadPLIO, ReadGMIO, SkipStream, SyncNothing, SyncAndLog,
       OtStep, OtRead, OtPassed, OtEnd, OtFinish, DmaWrite

\* A step that leaves the buffers and the reports alone and looks at nothing
\* keeps what is known of an offloader.
LEMMA WarnFrame ==
  ASSUME NEW o \in made, WarnOK(o), warned' = warned,
         \A s \in Stream : bd'[s].isFull <=> bd[s].isFull,
         Checked(o)' => Checked(o) /\ kind' = kind
  PROVE  WarnOK(o)'
BY DEF WarnOK, StreamsOf

\* Every step keeps the reports right.
LEMMA WarnStep ==
  ASSUME TypeOK, CtrlInv, WarnInv, Next
  PROVE  WarnInv'
<1> USE DEF objVars, dmaVars, logVars, offloadVars, pluginVars, pollVars, fileVars
<1>c. ASSUME made' = {}, mEnCircularBuf' = mEnCircularBuf PROVE WarnInv'
  BY <1>c DEF WarnInv
<1>f. ASSUME made' = made, mEnCircularBuf' = mEnCircularBuf, warned' = warned, bd' = bd,
             \A o \in made : Checked(o)' => Checked(o) /\ kind' = kind
      PROVE  WarnInv'
  BY <1>f, WarnFrame DEF WarnInv
<1>1. CASE UpdateRefused
  BY <1>1, <1>f DEF UpdateRefused, UpdateBegins, Checked
<1>2. CASE UpdateNoInstance
  BY <1>2, <1>c DEF UpdateNoInstance, Construct
<1>3. CASE UpdateConfigures
  <2>1. /\ warned' = {} /\ main' \in {"idle", "timeline"} /\ mEnCircularBuf' = [o \in Off |-> FALSE]
    BY <1>3, ConfigureEffect
  <2> QED BY <2>1 DEF WarnInv, WarnOK, Checked
<1>4. CASE UpdateTimeline BY <1>4, <1>f DEF UpdateTimeline, Checked
<1>5. CASE UpdateStarts BY <1>5, <1>f DEF UpdateStarts, Checked
<1>6. CASE PollStep BY <1>6, <1>f DEF PollStep, PollCheck, PollEnough, PollTimers, Checked
<1>7. CASE FlushBegins BY <1>7, <1>f DEF FlushBegins, Checked
<1>8. CASE EndPoll BY <1>8, <1>f DEF EndPoll, Checked
<1>9. CASE JoinPoll BY <1>9, <1>f DEF JoinPoll, Checked
<1>10. CASE FlushModules BY <1>10, <1>f DEF FlushModules, Checked
<1>o. made \subseteq {"PLIO", "GMIO"} /\ cur \in {"PLIO", "GMIO"} BY DEF TypeOK, OffloadTypeOK, Off
<1>11. CASE FlushSkip BY <1>11, <1>f, <1>o DEF FlushSkip, Checked, NextOffloader
<1>12. CASE FlushStop BY <1>12, <1>f DEF FlushStop, Checked
<1>13. CASE FlushRead BY <1>13, <1>f DEF FlushRead, Checked
<1>14. CASE FlushEndRead
  <2>1. /\ UNCHANGED <<made, mEnCircularBuf, warned, cur, kind>> /\ EndReadTrace(cur)
        /\ main = "read" /\ main' = "full" /\ cur \in Off
    BY <1>14 DEF FlushEndRead, TypeOK
  <2>2. \A s \in Stream : bd'[s].isFull <=> bd[s].isFull
    BY <2>1, EndReadTraceEffect DEF TypeOK
  <2>3. \A o \in made : Checked(o)' => Checked(o) BY <2>1 DEF Checked
  <2>4. ASSUME NEW o \in made PROVE WarnOK(o)' BY <2>1, <2>2, <2>3, <2>4, WarnFrame DEF WarnInv
  <2> QED BY <2>1, <2>4 DEF WarnInv
<1>15. CASE FlushWaited BY <1>15, <1>f DEF FlushWaited, Checked
<1>16. CASE FlushCheckFull
  <2>1. /\ UNCHANGED <<made, mEnCircularBuf, bd, kind>> /\ main = "full"
        /\ warned' = warned \cup {o \in {cur} : kind # "flush" /\ \E s \in StreamsOf(o) : bd[s].isFull}
        /\ IF cur = "PLIO" THEN cur' = "GMIO" /\ main' = "offloader" ELSE cur' = cur /\ main' = "flushed"
    BY <1>16 DEF FlushCheckFull, NextOffloader
  <2>2. ASSUME NEW o \in made PROVE WarnOK(o)'
    <3>1. WarnOK(o) BY DEF WarnInv
    <3>2. CASE o = cur BY <2>1, <3>1, <3>2 DEF WarnOK
    <3>3. CASE o # cur
      <4>1. o \in warned' <=> o \in warned BY <2>1, <3>3
      <4>2. Checked(o)' => Checked(o) BY <1>o, <2>1, <3>3 DEF Checked
      <4> QED BY <2>1, <3>1, <4>1, <4>2 DEF WarnOK
    <3> QED BY <3>2, <3>3
  <2> QED BY <2>1, <2>2 DEF WarnInv
<1>17. CASE FlushReturns
  <2>1. CASE kind = "flush" BY <1>17, <1>f, <2>1 DEF FlushReturns, Checked
  <2>2. CASE kind # "flush" BY <1>17, <1>c, <2>2 DEF FlushReturns
  <2> QED BY <2>1, <2>2
<1>18. CASE WriteOnly BY <1>18, <1>c DEF WriteOnly
<1>19. CASE Gone BY <1>19, <1>f DEF Gone, vars, Checked
<1>20. CASE OffloaderStep
  <2>1. UNCHANGED <<made, mEnCircularBuf, warned, main, cur, kind>>
    BY <1>20, OffloaderObjects DEF OffloaderStep
  <2>2. ASSUME NEW o \in made PROVE WarnOK(o)'
    <3>1. WarnOK(o) /\ o \in Off BY DEF WarnInv, TypeOK, OffloadTypeOK
    <3>2. \A s \in StreamsOf(o) : s \in Stream /\ s[1] = o BY DEF StreamsOf
    <3>3. \A s \in StreamsOf(o) : bd[s].isFull => bd'[s].isFull BY <1>20, <3>2, FullKept
    <3>4. Checked(o) => \A s \in StreamsOf(o) : bd'[s].isFull <=> bd[s].isFull
      BY <1>20, <3>2, FullKept, CheckedIdle
    <3>5. Checked(o)' <=> Checked(o) BY <2>1 DEF Checked
    <3> QED BY <2>1, <3>1, <3>3, <3>4, <3>5 DEF WarnOK
  <2> QED BY <2>1, <2>2 DEF WarnInv
<1> QED
  BY <1>1, <1>2, <1>3, <1>4, <1>5, <1>6, <1>7, <1>8, <1>9, <1>10, <1>11, <1>12, <1>13, <1>14,
     <1>15, <1>16, <1>17, <1>18, <1>19, <1>20 DEF Next, Update, FlushStep

-----------------------------------------------------------------------------
(* What holds of every behaviour                                           *)

\* Every reachable state satisfies the inductive invariant.
THEOREM Invariance == Spec => []IInv
<1>1. IInv /\ [Next]_vars => IInv'
  <2> SUFFICES ASSUME IInv, [Next]_vars PROVE IInv' OBVIOUS
  <2>1. TypeOK /\ PollInv /\ CtrlInv /\ StreamInv /\ LogInv /\ PlaceInv /\ OwedInv /\ WarnInv BY DEF IInv
  <2>2. TypeOK' BY <2>1, TypeStep
  <2>3. PollInv' /\ CtrlInv' /\ LogInv' /\ PlaceInv'
    BY <2>1, PollInvStep, CtrlStep, LogStep, PlaceStep
  <2>4. StreamInv' /\ OwedInv' BY <2>1, <2>2, StreamStep, OwedStep
  <2>5. WarnInv'
    <3>1. CASE Next BY <2>1, <3>1, WarnStep
    <3>2. CASE UNCHANGED vars
      BY <2>1, <3>2 DEF vars, offloadVars, objVars, pluginVars, WarnInv, WarnOK, Checked
    <3> QED BY <3>1, <3>2
  <2> QED BY <2>2, <2>3, <2>4, <2>5 DEF IInv
<1> QED BY <1>1, InitIInv, PTL DEF Spec

\* Every variable of the AIE trace plugin and its offloaders keeps its type,
\* for every number of streams and every size of a buffer: the cursors of
\* BufferInfo among them, which the readers move.
THEOREM TypeCorrect == Spec => []TypeOK
BY Invariance, PTL DEF IInv

\* The thread of pollAIETimers never uses freed resources or an erased
\* entry: endPollforDevice joins it before freeResources and the erasure.
THEOREM PollerIsSafe == Spec => []PollerSafe
<1>1. IInv => PollerSafe BY DEF IInv, PollInv, PollerSafe
<1> QED BY <1>1, Invariance, PTL

\* In every trace file the chunks continue each other, over any number of
\* flushes and of designs loaded one after the other, and a file that only
\* one AIETraceWriter was made for has nothing before them; a file that was
\* emptied for a later design may begin with a hole, as long as what its
\* first writer had written before.
THEOREM FilesAreContiguous == Spec => []FilesContiguous
<1>1. IInv => FilesContiguous BY DEF IInv, LogInv, PlaceInv, PlaceOK, FilesContiguous
<1> QED BY <1>1, Invariance, PTL

\* No offloader reuses its buffer: checkCircularBufferSupport is called before
\* setContinuousTrace, whatever the options are.  The branches for reused
\* buffers, which AIETraceOffload leaves out, are not reached.
THEOREM NeverReused == Spec => [](\A o \in Off : ~mEnCircularBuf[o])
<1>1. IInv => \A o \in Off : ~mEnCircularBuf[o] BY DEF IInv, WarnInv
<1> QED BY <1>1, Invariance, PTL

\* A flush that reports tells of exactly the offloaders that filled a
\* buffer, in whichever pass of whichever thread it filled.
THEOREM FullIsReported == Spec => []FullReported
<1>1. IInv => FullReported
  <2> SUFFICES ASSUME IInv PROVE FullReported OBVIOUS
  <2>0. TypeOK /\ StreamInv /\ WarnInv BY DEF IInv
  <2>1. ASSUME main = "flushed", kind # "flush", NEW o \in made
        PROVE  (o \in warned) <=> \E s \in StreamsOf(o) : logged[s] = BufSz[o]
    <3>1. WarnOK(o) /\ Checked(o) BY <2>0, <2>1 DEF WarnInv, Checked
    <3>2. (o \in warned) <=> \E s \in StreamsOf(o) : bd[s].isFull BY <2>1, <3>1 DEF WarnOK
    <3>3. ASSUME NEW s \in StreamsOf(o) PROVE bd[s].isFull <=> logged[s] = BufSz[o]
      <4>1. s \in Stream /\ s[1] = o BY DEF StreamsOf
      <4> QED BY <2>0, <2>1, <4>1 DEF StreamInv, StreamOK
    <3> QED BY <3>2, <3>3
  <2> QED BY <2>1 DEF FullReported
<1> QED BY <1>1, Invariance, PTL

-----------------------------------------------------------------------------
(* The streams keep the promise of TraceStream                             *)

\* A flush that is over owes nothing that is not logged.
LEMMA NothingPending ==
  ASSUME IInv, main = "flushed", NEW s \in Stream, owed[s] # -1
  PROVE  owed[s] <= logged[s]
<1>1. TypeOK /\ CtrlInv /\ OwedOK(s) BY DEF IInv, OwedInv
<1>2. s[1] \in made /\ s[1] \in Off BY <1>1, StreamFacts DEF OwedOK
<1>3. call[s[1]].pc = "idle" BY <1>1, <1>2, CheckedIdle DEF Checked
<1>4. ~NotFinal(s[1]) BY <1>1, <1>2 DEF CtrlInv, CtrlOK, Passed, NotFinal
<1>5. ~ToCome(s) BY <1>3, <1>4 DEF ToCome
<1> QED BY <1>1, <1>5 DEF OwedOK

\* What a reader logs are words that are written, each once and in order.
LEMMA ReaderDelivers ==
  ASSUME IInv, IInv', NEW x \in Off, SyncAndLog(x), OffloaderStep, NEW s \in Stream
  PROVE  Promise!Same(s) \/ Promise!Deliver(s)
<1>1. TypeOK /\ CtrlInv /\ StreamInv /\ OffloadTypeOK /\ TypeOK' /\ OffloadTypeOK' /\ StreamInv'
  BY DEF IInv, TypeOK
<1>2. PICK t \in Stream : \E n \in Nat :
         At(x, t) /\ Logs(t, bd[t].offset, n) /\ call[x].pc = "sync"
  BY <1>1, SyncAndLogEffect
<1>3. PICK n \in Nat : logged' = [logged EXCEPT ![t] = bd[t].offset + n] BY <1>2 DEF Logs
<1>4. UNCHANGED <<written, owed, made>>
  BY DEF SyncAndLog, OffloaderStep, dmaVars, objVars
<1>5. CASE s # t
  <2>1. logged'[s] = logged[s] BY <1>1, <1>3, <1>5 DEF OffloadTypeOK
  <2> QED BY <1>4, <2>1 DEF Promise!Same
<1>6. CASE s = t
  <2>1. s[1] = x /\ AtSync(s) BY <1>2, <1>6 DEF At, AtSync
  <2>2. x \in made BY <1>1, <1>2 DEF CtrlInv, CtrlOK
  <2>3. StreamOK(s) BY <1>1, <2>1, <2>2 DEF StreamInv
  <2>4. logged[s] = bd[s].offset BY <2>1, <2>3 DEF StreamOK, Off
  <2>5. logged'[s] = logged[s] + n BY <1>1, <1>3, <1>6, <2>4 DEF OffloadTypeOK
  <2>6. logged'[s] <= written[s] BY <1>1, <1>4, <2>1, <2>2 DEF StreamInv, StreamOK
  <2>7. logged[s] \in Nat /\ logged'[s] \in Nat BY <1>1 DEF OffloadTypeOK
  <2>8. logged'[s] = logged[s] \/ logged'[s] > logged[s] BY <2>5, <2>7
  <2> QED BY <1>4, <2>6, <2>8 DEF Promise!Same, Promise!Deliver
<1> QED BY <1>5, <1>6

\* Every step of the plugin, of an offload thread or of the DMA is a step of
\* the abstract streams.
LEMMA PromiseStep ==
  ASSUME IInv, IInv', Next
  PROVE  Promise!Next
<1> USE DEF objVars, dmaVars, logVars, offloadVars, pluginVars, pollVars, fileVars
<1>0. TypeOK /\ OffloadTypeOK BY DEF IInv, TypeOK
<1> SUFFICES ASSUME NEW s \in Stream
             PROVE  \/ Promise!Same(s) \/ Promise!Write(s) \/ Promise!Deliver(s)
                    \/ Promise!Ask(s) \/ Promise!Answer(s) \/ Promise!Restart(s)
  BY DEF Promise!Next
<1>i. main \in {"idle", "modules"} => owed[s] = -1 BY DEF IInv, OwedInv, OwedOK
<1>s. ASSUME UNCHANGED <<written, logged, owed>> PROVE Promise!Same(s) BY <1>s DEF Promise!Same
<1>1. CASE UpdateRefused BY <1>1, <1>s DEF UpdateRefused
<1>2. CASE UpdateNoInstance BY <1>2, <1>s DEF UpdateNoInstance
<1>3. CASE UpdateConfigures
  <2>1. /\ main = "idle" /\ owed' = owed
        /\ written' = [t \in Stream |-> 0] /\ logged' = [t \in Stream |-> 0]
    BY <1>0, <1>3, ConfigureEffect DEF UpdateConfigures
  <2> QED BY <1>i, <2>1 DEF Promise!Restart
<1>4. CASE UpdateTimeline BY <1>4, <1>s DEF UpdateTimeline
<1>5. CASE UpdateStarts BY <1>5, <1>s DEF UpdateStarts
<1>6. CASE PollStep BY <1>6, <1>s DEF PollStep, PollCheck, PollEnough, PollTimers
<1>7. CASE FlushBegins BY <1>7, <1>s DEF FlushBegins
<1>8. CASE EndPoll BY <1>8, <1>s DEF EndPoll
<1>9. CASE JoinPoll BY <1>9, <1>s DEF JoinPoll
<1>10. CASE FlushModules
  <2>1. /\ main = "modules" /\ UNCHANGED <<written, logged>>
        /\ owed'[s] = IF s[1] \in made /\ bufferInitialized[s[1]]
                      THEN WholePackets(written[s]) ELSE -1
    BY <1>10 DEF FlushModules
  <2>2. written[s] \in Nat BY <1>0 DEF OffloadTypeOK
  <2>3. /\ WholePackets(written[s]) \in 0..written[s]
        /\ written[s] < WholePackets(written[s]) + PacketWords
    BY <2>2, WholeType
  <2>4. CASE s[1] \in made /\ bufferInitialized[s[1]]
    BY <1>i, <2>1, <2>3, <2>4 DEF Promise!Ask
  <2>5. CASE ~(s[1] \in made /\ bufferInitialized[s[1]])
    BY <1>i, <2>1, <2>5 DEF Promise!Same
  <2> QED BY <2>4, <2>5
<1>11. CASE FlushSkip BY <1>11, <1>s DEF FlushSkip
<1>12. CASE FlushStop BY <1>12, <1>s DEF FlushStop
<1>13. CASE FlushRead BY <1>13, <1>s DEF FlushRead
<1>14. CASE FlushEndRead BY <1>14, <1>s DEF FlushEndRead
<1>15. CASE FlushWaited BY <1>15, <1>s DEF FlushWaited
<1>16. CASE FlushCheckFull BY <1>16, <1>s DEF FlushCheckFull
<1>17. CASE FlushReturns
  <2>1. /\ main = "flushed" /\ UNCHANGED <<written, logged>> /\ owed'[s] = -1
    BY <1>17 DEF FlushReturns
  <2>2. CASE owed[s] = -1 BY <2>1, <2>2 DEF Promise!Same
  <2>3. CASE owed[s] # -1 BY <2>1, <2>3, NothingPending DEF Promise!Answer
  <2> QED BY <2>2, <2>3
<1>18. CASE WriteOnly BY <1>18, <1>s DEF WriteOnly
<1>19. CASE Gone BY <1>19, <1>s DEF Gone, vars
<1>20. CASE OffloaderStep
  <2>1. owed' = owed BY <1>20 DEF OffloaderStep
  <2>2. ASSUME NEW x \in Off, SyncAndLog(x) PROVE Promise!Same(s) \/ Promise!Deliver(s)
    BY <1>20, <2>2, ReaderDelivers
  <2>3. ASSUME NEW t \in Stream, DmaWrite(t) PROVE Promise!Same(s) \/ Promise!Write(s)
    <3>1. logged' = logged /\ written' = [written EXCEPT ![t] = @ + 1] BY <2>3 DEF DmaWrite
    <3>2. written \in [Stream -> Nat] BY <1>0 DEF OffloadTypeOK
    <3>3. CASE s = t
      <4>1. written'[s] = written[s] + 1 /\ written[s] \in Nat BY <3>1, <3>2, <3>3
      <4>2. written'[s] > written[s] BY <4>1
      <4> QED BY <2>1, <3>1, <4>2 DEF Promise!Write
    <3>4. CASE s # t
      <4>1. written'[s] = written[s] BY <3>1, <3>2, <3>4
      <4> QED BY <2>1, <3>1, <4>1 DEF Promise!Same
    <3> QED BY <3>3, <3>4
  <2>4. ASSUME NEW x \in Off, ReadStep(x) \/ OtStep(x), ~SyncAndLog(x)
        PROVE  UNCHANGED <<written, logged>>
    BY <2>4 DEF ReadStep, ReadPLIO, ReadGMIO, SkipStream, SyncNothing, OtStep, OtRead, OtPassed,
                OtEnd, OtFinish
  <2> QED BY <1>20, <1>s, <2>1, <2>2, <2>3, <2>4 DEF OffloaderStep
<1> QED
  BY <1>1, <1>2, <1>3, <1>4, <1>5, <1>6, <1>7, <1>8, <1>9, <1>10, <1>11, <1>12, <1>13, <1>14,
     <1>15, <1>16, <1>17, <1>18, <1>19, <1>20 DEF Next, Update, FlushStep

\* The AIE trace offloaders keep the promise of TraceStream: every word is
\* delivered once and in order, and a flush that has returned has delivered
\* every whole packet that was written when it was asked for.
THEOREM StreamsKeepTheirPromise == Spec => StreamsKeepPromise
<1>1. Init => Promise!Init BY DEF Init, OffloadInit, Promise!Init
<1>2. IInv /\ IInv' /\ [Next]_vars => [Promise!Next]_(Promise!vars)
  <2>1. ASSUME UNCHANGED vars PROVE UNCHANGED Promise!vars
    BY <2>1 DEF vars, offloadVars, dmaVars, logVars, Promise!vars
  <2> QED BY <2>1, PromiseStep
<1> QED BY <1>1, <1>2, Invariance, PTL DEF Spec, StreamsKeepPromise, Promise!Spec

-----------------------------------------------------------------------------
(* searchWrittenBytes                                                      *)

\* A set of naturals that is not empty has a smallest element.
LEMMA Smallest ==
  ASSUME NEW T, T \subseteq Nat, T # {}
  PROVE  \E m \in T : \A k \in T : m <= k
<1>1. IsWellFoundedOn(OpToRel(<, Nat), Nat) BY NatLessThanWellFounded
<1>2. PICK m \in T : \A y \in T : ~(<<y, m>> \in OpToRel(<, Nat)) BY <1>1, WFMin
<1>3. \A y \in T : y \in Nat /\ m \in Nat /\ ~(y < m)
  <2> SUFFICES ASSUME NEW y \in T PROVE y \in Nat /\ m \in Nat /\ ~(y < m) OBVIOUS
  <2>1. y \in Nat /\ m \in Nat BY <1>2
  <2>2. <<y, m>> \in Nat \X Nat BY <2>1
  <2> QED BY <1>2, <2>1, <2>2 DEF OpToRel
<1>4. \A y \in T : m <= y BY <1>3
<1> QED BY <1>2, <1>4

\* the states of its loop, and one turn of it
Loop(n) == [low : 0..n, high : -1..(n - 1), boundary : 0..n]
Mid(v) == v.low + ((v.high - v.low) \div 2)
Turn(words, v) ==
  IF words[Mid(v)] = 0 THEN [v EXCEPT !.high = Mid(v) - 1, !.boundary = Mid(v)]
  ELSE [v EXCEPT !.low = Mid(v) + 1]
Searches(f, words, n) ==
  f = [v \in Loop(n) |-> IF v.low > v.high THEN v.boundary ELSE f[Turn(words, v)]]

\* the words up to e are trace, those behind are zero
TraceTo(words, n, e) == \A k \in 0..(n - 1) : words[k] = 0 <=> e <= k

\* what the loop ends with
Found(v, e) == IF v.low > v.high \/ v.high < e THEN v.boundary ELSE IF e <= v.low THEN v.low ELSE e

\* A turn stays within the words, has fewer left to look at and finds the same.
LEMMA TurnIs ==
  ASSUME NEW n \in Nat, NEW e \in Nat, NEW words, TraceTo(words, n, e), NEW v \in Loop(n), v.low <= v.high
  PROVE  /\ Turn(words, v) \in Loop(n)
         /\ Turn(words, v).high - Turn(words, v).low < v.high - v.low
         /\ Found(Turn(words, v), e) = Found(v, e)
<1>1. PICK low \in 0..n, high \in -1..(n - 1), boundary \in 0..n :
        v = [low |-> low, high |-> high, boundary |-> boundary]
  BY DEF Loop
<1>2. v.low = low /\ v.high = high /\ v.boundary = boundary /\ low <= high BY <1>1
<1>3. PICK mid : mid = Mid(v) OBVIOUS
<1>4. mid = low + ((high - low) \div 2) BY <1>2, <1>3 DEF Mid
<1>5. mid \in 0..(n - 1) /\ low <= mid /\ mid <= high BY <1>1, <1>2, <1>4
<1>6. CASE words[mid] = 0
  <2>1. e <= mid BY <1>5, <1>6 DEF TraceTo
  <2>2. Turn(words, v) = [low |-> low, high |-> mid - 1, boundary |-> mid] BY <1>1, <1>3, <1>6 DEF Turn
  <2>3. Turn(words, v) \in Loop(n) BY <1>1, <1>5, <2>2 DEF Loop
  <2>4. PICK t : t = Turn(words, v) OBVIOUS
  <2>5. t.low = low /\ t.high = mid - 1 /\ t.boundary = mid BY <2>2, <2>4
  <2>6. t.high - t.low < v.high - v.low BY <1>1, <1>2, <1>5, <2>5
  <2>7. Found(t, e) = Found(v, e) BY <1>1, <1>2, <1>5, <2>1, <2>5 DEF Found
  <2> QED BY <2>3, <2>4, <2>6, <2>7
<1>7. CASE words[mid] # 0
  <2>1. mid < e BY <1>5, <1>7 DEF TraceTo
  <2>2. Turn(words, v) = [low |-> mid + 1, high |-> high, boundary |-> boundary] BY <1>1, <1>3, <1>7 DEF Turn
  <2>3. Turn(words, v) \in Loop(n) BY <1>1, <1>5, <2>2 DEF Loop
  <2>4. PICK t : t = Turn(words, v) OBVIOUS
  <2>5. t.low = mid + 1 /\ t.high = high /\ t.boundary = boundary BY <2>2, <2>4
  <2>6. t.high - t.low < v.high - v.low BY <1>1, <1>2, <1>5, <2>5
  <2>7. Found(t, e) = Found(v, e) BY <1>1, <1>2, <1>5, <2>1, <2>5 DEF Found
  <2> QED BY <2>3, <2>4, <2>6, <2>7
<1> QED BY <1>6, <1>7

\* There is such a loop.
LEMMA LoopExists ==
  ASSUME NEW n \in Nat, NEW e \in Nat, NEW words, TraceTo(words, n, e)
  PROVE  \E f : Searches(f, words, n)
<1>1. PICK f : f = [v \in Loop(n) |-> Found(v, e)] OBVIOUS
<1>2. ASSUME NEW v \in Loop(n)
      PROVE  Found(v, e) = IF v.low > v.high THEN v.boundary ELSE f[Turn(words, v)]
  <2>1. v.low \in Int /\ v.high \in Int BY DEF Loop
  <2>2. CASE v.low > v.high BY <2>2 DEF Found
  <2>3. CASE ~(v.low > v.high)
    <3>1. v.low <= v.high BY <2>1, <2>3
    <3>2. PICK t : t = Turn(words, v) OBVIOUS
    <3>3. t \in Loop(n) /\ Found(t, e) = Found(v, e) BY <3>1, <3>2, TurnIs
    <3> QED BY <1>1, <2>3, <3>2, <3>3
  <2> QED BY <2>2, <2>3
<1>3. f = [v \in Loop(n) |-> IF v.low > v.high THEN v.boundary ELSE f[Turn(words, v)]] BY <1>1, <1>2
<1> QED BY <1>3 DEF Searches

\* And any such loop ends with that.
LEMMA LoopFinds ==
  ASSUME NEW n \in Nat, NEW e \in Nat, NEW words, TraceTo(words, n, e), NEW f, Searches(f, words, n),
         NEW v \in Loop(n)
  PROVE  f[v] = Found(v, e)
<1> DEFINE Left(u) == u.high - u.low + n + 1
           Bad == {u \in Loop(n) : f[u] # Found(u, e)}
           T == {Left(u) : u \in Bad}
<1>1. \A u \in Loop(n) : u.low \in Int /\ u.high \in Int /\ Left(u) \in Nat BY DEF Loop
<1>2. SUFFICES ASSUME v \in Bad PROVE FALSE OBVIOUS
<1>3. T \subseteq Nat /\ T # {} BY <1>1, <1>2
<1>4. PICK m \in T : \A k \in T : m <= k
  <2> HIDE DEF T
  <2> QED BY <1>3, Smallest
<1>5. PICK u \in Bad : m = Left(u) OBVIOUS
<1>6. f[u] = IF u.low > u.high THEN u.boundary ELSE f[Turn(words, u)] BY <1>5 DEF Searches
<1>7. u.low <= u.high
  <2> SUFFICES ASSUME u.low > u.high PROVE FALSE BY <1>1, <1>5
  <2> QED BY <1>5, <1>6 DEF Found
<1>8. PICK t : t = Turn(words, u) OBVIOUS
<1>9. t \in Loop(n) /\ t.high - t.low < u.high - u.low /\ Found(t, e) = Found(u, e)
  BY <1>5, <1>7, <1>8, TurnIs
<1>10. f[u] = f[t]
  <2>1. ~(u.low > u.high) BY <1>1, <1>5, <1>7
  <2> QED BY <1>6, <1>8, <2>1
<1>11. t \in Bad BY <1>5, <1>9, <1>10
<1>12. Left(t) \in T BY <1>11
<1>13. m <= Left(t) BY <1>4, <1>12
<1> QED BY <1>1, <1>5, <1>9, <1>13

\* searchWrittenBytes finds the end of the trace among n words.
LEMMA SearchIs ==
  ASSUME NEW n \in Nat, NEW e \in 0..n, NEW words, TraceTo(words, n, e)
  PROVE  SearchWrittenBytes(words, n) = e
<1>1. \E f : Searches(f, words, n) BY LoopExists
<1>2. PICK f : f = CHOOSE g : Searches(g, words, n) OBVIOUS
<1>3. Searches(f, words, n) BY <1>1, <1>2
<1>4. PICK v : v = [low |-> 0, high |-> n - 1, boundary |-> n] OBVIOUS
<1>5. SearchWrittenBytes(words, n) = f[v]
  BY <1>2, <1>4, Zenon DEF SearchWrittenBytes, Searches, Loop, Turn, Mid
<1>6. v \in Loop(n) /\ v.low = 0 /\ v.high = n - 1 /\ v.boundary = n BY <1>4 DEF Loop
<1>7. f[v] = Found(v, e) BY <1>3, <1>6, LoopFinds
<1>8. Found(v, e) = e BY <1>6 DEF Found
<1> QED BY <1>5, <1>7, <1>8

\* What the search finds in a chunk is what the model logs of it.
LEMMA SearchImplies == OffloadTypeOK => SearchFindsEnd
<1> SUFFICES ASSUME OffloadTypeOK, NEW s \in Stream, NEW to \in 0..BufSz[s[1]], NEW from \in 0..to
             PROVE  SearchWrittenBytes([k \in 0..(to - from - 1) |-> IF from + k < written[s] THEN 1 ELSE 0], to - from)
                      = WrittenIn(s, from, to)
  BY DEF SearchFindsEnd
<1>1. written[s] \in Nat BY DEF OffloadTypeOK
<1>2. to \in Nat /\ from \in Nat /\ from <= to
  <2>1. s[1] \in Off BY DEF Stream
  <2>2. BufSz[s[1]] \in Nat BY <2>1, SizeAssumption
  <2> QED BY <2>2
<1>3. PICK n \in Nat : n = to - from BY <1>2
<1>4. PICK words : words = [k \in 0..(n - 1) |-> IF from + k < written[s] THEN 1 ELSE 0] OBVIOUS
<1>5. PICK e \in 0..n : e = WrittenIn(s, from, to) BY <1>1, <1>2, <1>3 DEF WrittenIn
<1>6. ASSUME NEW k \in 0..(n - 1) PROVE words[k] = 0 <=> e <= k
  BY <1>1, <1>2, <1>3, <1>4, <1>5 DEF WrittenIn
<1>7. TraceTo(words, n, e) BY <1>6 DEF TraceTo
<1>8. SearchWrittenBytes(words, n) = e BY <1>7, SearchIs
<1> QED BY <1>3, <1>4, <1>5, <1>8

\* searchWrittenBytes finds by bisection how much of a chunk is written, for buffers
\* of every size and chunks that begin and end anywhere.
THEOREM SearchFinds == Spec => []SearchFindsEnd
<1>1. TypeOK => SearchFindsEnd BY SearchImplies DEF TypeOK
<1> QED BY <1>1, TypeCorrect, PTL
=============================================================================
