------------------------- MODULE TraceWritingProofs -------------------------
(***************************************************************************)
(* Theorems of TraceWriting for every number of devices, every threshold   *)
(* and every number of events.                                             *)
(***************************************************************************)
EXTENDS TraceWriting, FiniteSetTheorems, TLAPS

-----------------------------------------------------------------------------
(* The inductive invariant                                                 *)

Writing == (\E d \in Devices : pt[d] = "write") \/ wt \in {"write", "finalWrite"}
             \/ main \in {"write", "dumpWrite"}

\* the mutex is locked exactly while a thread runs the writers, and its
\* holder is in range of the list it took
LockInv ==
  /\ OneWriter
  /\ mtx_writer_list => Writing
  /\ mtx_writer_list => pass.last <= Len(writers)
  /\ pass.pc = "move" => mtx_writer_list /\ pass.i <= pass.last
  /\ mtx_writer_list /\ ~pass.new => wt = "finalWrite" \/ main = "write"

\* all processing has ended
Quiet == \A d \in Devices : pt[d] \in {"none", "off"}

\* what a thread knows of the others when the program ends
EndInv ==
  /\ main \in {"join", "try", "write", "ended", "destroyed"} => Quiet
  /\ stop_writer_thread => main \in {"join", "ended", "destroyed", "terminated"}
  /\ wt \in {"final", "finalWrite", "done"} => stop_writer_thread
  /\ wt = "joined" => main \in {"ended", "destroyed", "terminated"}
  /\ main \in {"spawn", "load", "dump", "dumpWrite"} => HasWriter(target)
  /\ main \in {"load", "dump", "dumpWrite"} => pt[target] \in {"none", "off"}

\* the events of a device are numbered up to added
NumberInv ==
  \A d \in Devices : events[d] \subseteq 1..added[d] /\ ends[d] \subseteq 1..added[d]

\* the devices that have had events, or any processing, have a writer
WriterInv ==
  /\ Len(fileNum) = Len(writers)
  /\ \A d \in Devices : pt[d] # "none" \/ added[d] # 0 => HasWriter(d)
  /\ \A k \in 1..Len(writers) : fileNum[k] # 0

\* every line is of an event that was added, in a file that its writer opened
LineInv ==
  /\ \A r \in written :
       /\ r.ev \in 1..added[r.dev]
       /\ r.by \in 1..Len(writers) /\ writers[r.by] = r.dev
       /\ r.file <= fileNum[r.by] /\ r.file # 0
  /\ \A k \in 1..Len(writers) : \A n \in 1..fileNum[k] : <<writers[k], n>> \in opened

DataInv == NumberInv /\ WriterInv /\ LineInv /\ OnceEach

\* a device whose only writer has its first file still open has all its
\* XCLBIN_END events in the database, unless the final write has taken its
\* last events
EndPhase == Quiet /\ main \in {"join", "write", "ended", "destroyed", "terminated"}
EndsKept(d) == ends[d] \subseteq events[d] \/ (events[d] = {} /\ EndPhase)

ConfigInv ==
  /\ FirstFileRight
  /\ \A k \in 1..Len(writers) : SoleWriter(writers[k]) /\ fileNum[k] <= 1 => EndsKept(writers[k])

\* nothing is left in the database for the writers that a final pass has run
FinalInv ==
  /\ wt = "finalWrite" \/ main = "write" =>
       /\ pass.last = Len(writers)
       /\ \A k \in 1..(pass.i - 1) : k <= Len(writers) => events[writers[k]] = {}
  /\ wt = "done" => \A d \in Devices : events[d] = {}
  /\ main = "ended" /\ ~Joinable => \A d \in Devices : events[d] = {}

IInv == TypeOK /\ LockInv /\ EndInv /\ DataInv /\ ConfigInv /\ FinalInv

-----------------------------------------------------------------------------
(* The initial states                                                      *)

\* The state before the first device is loaded satisfies the invariant.
LEMMA InitIInv == Init => IInv
<1> SUFFICES ASSUME Init PROVE IInv OBVIOUS
<1>1. 1 \in Devices BY WritingAssumption DEF Devices
<1>2. TypeOK
  <2>1. writers \in Seq(Devices) /\ fileNum \in Seq(Nat) BY DEF Init
  <2>2. pass \in Pass BY DEF Init, Pass
  <2> QED BY <1>1, <2>1, <2>2 DEF Init, TypeOK
<1>3. LockInv BY DEF Init, LockInv, OneWriter
<1>4. EndInv BY DEF Init, EndInv, Quiet
<1>5. DataInv
  BY WritingAssumption DEF Init, DataInv, NumberInv, WriterInv, LineInv, OnceEach, Devices
<1>6. ConfigInv BY DEF Init, ConfigInv, FirstFileRight, SoleWriter
<1>7. FinalInv BY DEF Init, FinalInv
<1> QED BY <1>2, <1>3, <1>4, <1>5, <1>6, <1>7 DEF IInv

-----------------------------------------------------------------------------
(* Facts on the operators                                                  *)

\* The loop that a new holder of the mutex begins is well typed.
LEMMA LockType ==
  ASSUME TypeOK, NEW new \in BOOLEAN
  PROVE  [new |-> new, i |-> 1, last |-> Len(writers), pc |-> "next"]
           \in Pass
<1>1. Len(writers) \in Nat BY DEF TypeOK
<1> QED BY <1>1 DEF Pass

\* What the loop changes when it goes on.
LEMMA PassStep ==
  ASSUME NEW p \in Pass
  PROVE  /\ [p EXCEPT !.i = @ + 1] \in Pass
         /\ [p EXCEPT !.pc = "move"] \in Pass
         /\ [p EXCEPT !.i = @ + 1, !.pc = "next"] \in Pass
<1>1. p.i + 1 \in Nat \ {0} /\ p = [new |-> p.new, i |-> p.i, last |-> p.last, pc |-> p.pc]
  BY DEF Pass
<1>2. [p EXCEPT !.i = @ + 1] = [new |-> p.new, i |-> p.i + 1, last |-> p.last, pc |-> p.pc]
  BY <1>1
<1>3. [p EXCEPT !.pc = "move"] = [new |-> p.new, i |-> p.i, last |-> p.last, pc |-> "move"]
  BY <1>1
<1>4. /\ [p EXCEPT !.i = @ + 1, !.pc = "next"] = [[p EXCEPT !.i = @ + 1] EXCEPT !.pc = "next"]
      /\ [[p EXCEPT !.i = @ + 1] EXCEPT !.pc = "next"]
           = [new |-> p.new, i |-> p.i + 1, last |-> p.last, pc |-> "next"]
  <2>1. [p EXCEPT !.i = @ + 1, !.pc = "next"] = [[p EXCEPT !.i = @ + 1] EXCEPT !.pc = "next"]
    BY DEF Pass
  <2>2. [[new |-> p.new, i |-> p.i + 1, last |-> p.last, pc |-> p.pc] EXCEPT !.pc = "next"]
           = [new |-> p.new, i |-> p.i + 1, last |-> p.last, pc |-> "next"]
    OBVIOUS
  <2> QED BY <2>1, <2>2, <1>2
<1>5. p.new \in BOOLEAN /\ p.last \in Nat /\ p.pc \in {"next", "move"} /\ p.i \in Nat \ {0}
  BY DEF Pass
<1> QED BY <1>1, <1>2, <1>3, <1>4, <1>5 DEF Pass

\* The holder of the mutex that is about to move events is at a writer of
\* the list, and the list names a device.
LEMMA WriterType ==
  ASSUME TypeOK, LockInv, pass.pc = "move"
  PROVE  /\ WriterOf \in Devices /\ pass.i \in 1..Len(writers)
<1>1. pass.i \in Nat \ {0} /\ pass.last \in Nat /\ Len(writers) \in Nat BY DEF TypeOK, Pass
<1>2. pass.i <= pass.last /\ pass.last <= Len(writers) BY DEF LockInv
<1>3. pass.i \in 1..Len(writers) BY <1>1, <1>2
<1> QED BY <1>3 DEF TypeOK, WriterOf

\* A final pass over all the writers leaves the database empty.
LEMMA PassEmpties ==
  ASSUME TypeOK, NumberInv, WriterInv, FinalInv, wt = "finalWrite" \/ main = "write", pass.i > pass.last
  PROVE  \A d \in Devices : events[d] = {}
<1> SUFFICES ASSUME NEW d \in Devices, events[d] # {} PROVE FALSE OBVIOUS
<1>1. PICK k \in 1..Len(writers) : writers[k] = d
  <2>1. added[d] # 0 BY DEF NumberInv
  <2> QED BY <2>1 DEF WriterInv, HasWriter
<1>2. pass.i \in Nat /\ Len(writers) \in Nat /\ pass.last = Len(writers)
  BY DEF TypeOK, Pass, FinalInv
<1>3. k \in 1..(pass.i - 1) /\ k <= Len(writers) BY <1>2
<1> QED BY <1>1, <1>3 DEF FinalInv

\* configIndex is a natural number when the events moved are finite.
LEMMA ConfigType ==
  ASSUME NEW n \in Nat, NEW es \in SUBSET (1..n), NEW e
  PROVE  ConfigIndex(es, e) \in Nat
<1>1. IsFiniteSet(1..n) BY FS_Interval
<1>2. {x \in es : x < e} \subseteq 1..n OBVIOUS
<1>3. IsFiniteSet({x \in es : x < e}) BY <1>1, <1>2, FS_Subset
<1> QED BY <1>3, FS_CardinalityType DEF ConfigIndex

\* a line of writer k of device w; every event that the writer takes has
\* one, unless the first configuration has no PL binary; no event has two
LineType(r) == r \in [dev : Devices, by : Nat, file : Nat, ev : Nat, config : Nat]
LineIs(k, w, r) ==
  /\ r.dev = w /\ r.by = k /\ r.file = fileNum[k] /\ r.ev \in events[w] \ ends[w]
  /\ r.config = ConfigIndex(events[w] \cap ends[w], r.ev)
LinesEach(k, w) ==
  w \notin NoPlFirst =>
    \A e \in events[w] \ ends[w] :
      \E r \in Lines(k) : r.dev = w /\ r.by = k /\ r.file = fileNum[k] /\ r.ev = e
LinesDiffer(k) == \A r, s \in Lines(k) : r.ev = s.ev => r = s

\* What a writer writes: a line for each event of its device that is not an
\* XCLBIN_END.
LEMMA LinesFacts ==
  ASSUME TypeOK, DataInv, NEW k \in 1..Len(writers), NEW w \in Devices, w = writers[k]
  PROVE  (\A r \in Lines(k) : LineType(r) /\ LineIs(k, w, r)) /\ LinesEach(k, w) /\ LinesDiffer(k)
<1> DEFINE es == IF w \in NoPlFirst THEN {} ELSE events[w] \ ends[w]
           L(e) == [dev |-> w, by |-> k, file |-> fileNum[k], ev |-> e,
                    config |-> ConfigIndex(events[w] \cap ends[w], e)]
<1>1. /\ added[w] \in Nat /\ events[w] \subseteq Nat /\ k \in Nat
      /\ Len(fileNum) = Len(writers) /\ fileNum \in Seq(Nat)
  BY DEF TypeOK, DataInv, WriterInv
<1>2. fileNum[k] \in Nat BY <1>1
<1>3. events[w] \cap ends[w] \subseteq 1..added[w] BY DEF DataInv, NumberInv
<1>4. \A e \in events[w] : ConfigIndex(events[w] \cap ends[w], e) \in Nat
  BY <1>1, <1>3, ConfigType
<1>5. Lines(k) = {L(e) : e \in es} BY DEF Lines
<1>6. \A e \in es : e \in events[w] \ ends[w] OBVIOUS
<1>7. w \notin NoPlFirst => es = events[w] \ ends[w] OBVIOUS
<1> HIDE DEF es
<1>8. \A e \in es : L(e) \in [dev : Devices, by : Nat, file : Nat, ev : Nat, config : Nat]
  BY <1>1, <1>2, <1>4, <1>6
<1>9. \A e : L(e).dev = w /\ L(e).by = k /\ L(e).file = fileNum[k] /\ L(e).ev = e
             /\ L(e).config = ConfigIndex(events[w] \cap ends[w], e)
  OBVIOUS
<1> HIDE DEF L
<1>10. \A r \in Lines(k) : \E e \in es : r = L(e) BY <1>5
<1>11. ASSUME NEW r \in Lines(k)
       PROVE  /\ r \in [dev : Devices, by : Nat, file : Nat, ev : Nat, config : Nat]
              /\ r.dev = w /\ r.by = k /\ r.file = fileNum[k] /\ r.ev \in events[w] \ ends[w]
              /\ r.config = ConfigIndex(events[w] \cap ends[w], r.ev)
  <2>1. PICK e \in es : r = L(e) BY <1>10
  <2>2. L(e) \in [dev : Devices, by : Nat, file : Nat, ev : Nat, config : Nat] BY <1>8
  <2>3. /\ L(e).dev = w /\ L(e).by = k /\ L(e).file = fileNum[k] /\ L(e).ev = e
        /\ L(e).config = ConfigIndex(events[w] \cap ends[w], e)
    BY <1>9
  <2>4. e \in events[w] \ ends[w] BY <1>6
  <2> QED BY <2>1, <2>2, <2>3, <2>4
<1>12. ASSUME w \notin NoPlFirst, NEW e \in events[w] \ ends[w]
       PROVE  \E r \in Lines(k) : r.dev = w /\ r.by = k /\ r.file = fileNum[k] /\ r.ev = e
  <2>1. L(e) \in Lines(k) BY <1>5, <1>7, <1>12
  <2> QED BY <2>1, <1>9
<1>13. ASSUME NEW r \in Lines(k), NEW s \in Lines(k), r.ev = s.ev PROVE r = s
  <2>1. PICK e \in es : r = L(e) BY <1>10
  <2>2. PICK f \in es : s = L(f) BY <1>10
  <2>3. e = f BY <1>13, <2>1, <2>2, <1>9
  <2> QED BY <2>1, <2>2, <2>3
<1>14. \A r \in Lines(k) : LineType(r) /\ LineIs(k, w, r) BY <1>11 DEF LineType, LineIs
<1>15. LinesEach(k, w) BY <1>12 DEF LinesEach
<1>16. LinesDiffer(k) BY <1>13 DEF LinesDiffer
<1> QED BY <1>14, <1>15, <1>16

\* What a writer changes when it moves the events of its device.
LEMMA WriteFacts ==
  ASSUME TypeOK, LockInv, DataInv, WriteEvents
  PROVE  \E k \in 1..Len(writers), w \in Devices :
           /\ k = pass.i /\ w = writers[k]
           /\ \A x \in Devices : events'[x] = IF x = w THEN {} ELSE events[x]
           /\ fileNum' \in Seq(Nat) /\ Len(fileNum') = Len(writers)
           /\ \A j \in 1..Len(writers) :
                /\ fileNum[j] \in Nat \ {0}
                /\ fileNum'[j] = IF j = k /\ pass.new THEN fileNum[j] + 1 ELSE fileNum[j]
           /\ written' = written \cup Lines(k) /\ opened \subseteq opened'
           /\ pass.new => <<w, fileNum[k] + 1>> \in opened'
           /\ UNCHANGED <<main, pt, wt, writers, ends, added>>
<1>1. pass.i \in 1..Len(writers) /\ WriterOf \in Devices /\ WriterOf = writers[pass.i]
  BY WriterType DEF WriteEvents, WriterOf
<1>2. PICK k \in 1..Len(writers), w \in Devices : k = pass.i /\ w = writers[k] /\ w = WriterOf
  BY <1>1
<1>3. /\ Len(fileNum) = Len(writers) /\ fileNum \in Seq(Nat)
      /\ \A j \in 1..Len(writers) : fileNum[j] \in Nat \ {0}
  BY DEF TypeOK, DataInv, WriterInv
<1>4. fileNum' = IF pass.new THEN [fileNum EXCEPT ![k] = fileNum[k] + 1] ELSE fileNum
  BY <1>2 DEF WriteEvents, SwitchFiles, StaysInFile
<1>5. /\ fileNum' \in Seq(Nat) /\ Len(fileNum') = Len(writers)
      /\ \A j \in 1..Len(writers) :
           fileNum'[j] = IF j = k /\ pass.new THEN fileNum[j] + 1 ELSE fileNum[j]
  <2>1. fileNum[k] + 1 \in Nat /\ k \in 1..Len(fileNum) BY <1>3
  <2>2. CASE pass.new
    <3>1. fileNum' = [fileNum EXCEPT ![k] = fileNum[k] + 1] BY <1>4, <2>2
    <3>2. fileNum' \in Seq(Nat) /\ Len(fileNum') = Len(fileNum) BY <1>3, <2>1, <3>1
    <3>3. DOMAIN fileNum = 1..Len(writers) BY <1>3
    <3>4. \A j \in 1..Len(writers) : fileNum'[j] = IF j = k THEN fileNum[k] + 1 ELSE fileNum[j]
      BY <3>1, <3>3
    <3> QED BY <1>3, <2>2, <3>2, <3>4
  <2>3. CASE ~pass.new BY <1>3, <1>4, <2>3
  <2> QED BY <2>2, <2>3
<1>6. opened \subseteq opened' /\ (pass.new => <<w, fileNum[k] + 1>> \in opened')
  BY <1>2 DEF WriteEvents, SwitchFiles, StaysInFile
<1>7. \A x \in Devices : events'[x] = IF x = w THEN {} ELSE events[x]
  BY <1>2 DEF WriteEvents, TypeOK
<1>8. written' = written \cup Lines(k) /\ UNCHANGED <<main, pt, wt, writers, ends, added>>
  BY <1>2 DEF WriteEvents
<1> QED BY <1>2, <1>3, <1>5, <1>6, <1>7, <1>8

-----------------------------------------------------------------------------
(* Types                                                                   *)

\* Every step keeps the types.
LEMMA TypeStep ==
  IInv /\ [Next]_vars => TypeOK'
<1> SUFFICES ASSUME IInv, [Next]_vars PROVE TypeOK'
  OBVIOUS
<1> USE DEF dbVars, fileVars, lockVars, flagVars, optVars
<1>1. ASSUME NEW d \in Devices, CreateWriters(d) PROVE TypeOK'
  <2>1. writers' \in Seq(Devices) /\ fileNum' \in Seq(Nat) BY <1>1 DEF IInv, TypeOK, CreateWriters
  <2>2. gone' \subseteq written' BY <1>1 DEF IInv, TypeOK, CreateWriters, LinesIn
  <2>3. opened' \subseteq Devices \X Nat BY <1>1 DEF IInv, TypeOK, CreateWriters
  <2>4. main' \in {"spawn", "load", "reload", "terminated"} BY <1>1 DEF CreateWriters, Prepare
  <2> QED BY <1>1, <2>1, <2>2, <2>3, <2>4 DEF IInv, TypeOK, CreateWriters
<1>2. ASSUME StartedBefore PROVE TypeOK'
  BY <1>2 DEF IInv, TypeOK, StartedBefore, Prepare
<1>3. ASSUME StartWriteThread PROVE TypeOK'
  BY <1>3 DEF IInv, TypeOK, StartWriteThread, Joinable, Prepare
<1>4. ASSUME StartOffload PROVE TypeOK'
  BY <1>4 DEF IInv, TypeOK, StartOffload
<1>5. ASSUME NEW d \in Devices, Reload(d) PROVE TypeOK'
  BY <1>5 DEF IInv, TypeOK, Reload
<1>6. ASSUME ReloadSame PROVE TypeOK'
  BY <1>6 DEF IInv, TypeOK, ReloadSame
<1>7. ASSUME MarkXclbinEnd PROVE TypeOK'
  BY <1>7 DEF IInv, TypeOK, MarkXclbinEnd
<1>8. ASSUME MarkDump PROVE TypeOK'
  <2>1. CASE mtx_writer_list BY <1>8, <2>1 DEF IInv, TypeOK, MarkDump
  <2>2. CASE ~mtx_writer_list
    <3>1. pass' \in Pass /\ mtx_writer_list' \in BOOLEAN
      BY <1>8, <2>2, LockType DEF IInv, MarkDump, Lock
    <3> QED BY <1>8, <2>2, <3>1 DEF IInv, TypeOK, MarkDump
  <2> QED BY <2>1, <2>2
<1>9. ASSUME MarkDumped PROVE TypeOK'
  BY <1>9 DEF IInv, TypeOK, MarkDumped, Unlock
<1>10. ASSUME NEW d \in Devices, AddEvent(d) PROVE TypeOK'
  BY <1>10 DEF IInv, TypeOK, AddEvent, Alive
<1>11. ASSUME NEW d \in Devices, DumpTrace(d) PROVE TypeOK'
  <2>1. pass' \in Pass /\ mtx_writer_list' \in BOOLEAN
    <3>1. CASE mtx_writer_list BY <1>11, <3>1 DEF IInv, TypeOK, DumpTrace
    <3>2. CASE ~mtx_writer_list BY <1>11, <3>2, LockType DEF IInv, DumpTrace, Lock
    <3> QED BY <3>1, <3>2
  <2>2. pt' \in [Devices -> {"none", "idle", "run", "dump", "write", "off"}]
    BY <1>11 DEF IInv, TypeOK, DumpTrace
  <2> QED BY <1>11, <2>1, <2>2 DEF IInv, TypeOK, DumpTrace
<1>12. ASSUME NEW d \in Devices, DumpDone(d) PROVE TypeOK'
  <2>1. pt' \in [Devices -> {"none", "idle", "run", "dump", "write", "off"}]
    BY <1>12 DEF IInv, TypeOK, DumpDone
  <2>2. mtx_writer_list' \in BOOLEAN /\ pass' = pass BY <1>12 DEF DumpDone, Unlock
  <2> QED BY <1>12, <2>1, <2>2 DEF IInv, TypeOK, DumpDone
<1>13. ASSUME WriteCheck PROVE TypeOK'
  <2>1. pass' \in Pass
    <3>1. pass \in Pass BY DEF IInv, TypeOK
    <3> QED BY <1>13, <3>1, PassStep DEF WriteCheck
  <2> QED BY <1>13, <2>1 DEF IInv, TypeOK, WriteCheck
<1>14. ASSUME WriteEvents PROVE TypeOK'
  <2>0. PICK k \in 1..Len(writers), w \in Devices :
          /\ k = pass.i /\ w = writers[k] /\ fileNum' \in Seq(Nat)
          /\ fileNum[k] \in Nat /\ written' = written \cup Lines(k)
    BY <1>14, WriteFacts DEF IInv
  <2>1. WriterOf \in Devices BY <2>0 DEF WriterOf
  <2>2. written' \subseteq [dev : Devices, by : Nat, file : Nat, ev : Nat, config : Nat]
    <3>1. Lines(k) \subseteq [dev : Devices, by : Nat, file : Nat, ev : Nat, config : Nat]
      <4>1. TypeOK /\ DataInv BY DEF IInv
      <4>2. \A r \in Lines(k) : LineType(r) BY <2>0, <4>1, LinesFacts
      <4> QED BY <4>2 DEF LineType
    <3> QED BY <2>0, <3>1 DEF IInv, TypeOK
  <2>3. events' \in [Devices -> SUBSET Nat]
    BY <1>14, <2>1 DEF WriteEvents, IInv, TypeOK
  <2>4. gone' \subseteq written'
    BY <1>14 DEF WriteEvents, SwitchFiles, StaysInFile, Exposed, LinesIn, IInv, TypeOK
  <2>5. opened' \subseteq Devices \X Nat
    <3>1. <<writers[k], fileNum[k] + 1>> \in Devices \X Nat BY <2>0
    <3> QED BY <1>14, <2>0, <3>1 DEF WriteEvents, SwitchFiles, StaysInFile, IInv, TypeOK
  <2>6. pass' \in Pass
    <3>1. pass \in Pass BY DEF IInv, TypeOK
    <3> QED BY <1>14, <3>1, PassStep DEF WriteEvents
  <2> QED BY <1>14, <2>0, <2>2, <2>3, <2>4, <2>5, <2>6 DEF WriteEvents, IInv, TypeOK
<1>15. ASSUME WtStart PROVE TypeOK'
  BY <1>15 DEF IInv, TypeOK, WtStart, Alive
<1>16. ASSUME WtWake PROVE TypeOK'
  BY <1>16 DEF IInv, TypeOK, WtWake, Alive
<1>17. ASSUME WtTry PROVE TypeOK'
  <2>1. CASE mtx_writer_list BY <1>17, <2>1 DEF IInv, TypeOK, WtTry
  <2>2. CASE ~mtx_writer_list
    <3>1. pass' \in Pass /\ mtx_writer_list' \in BOOLEAN
      BY <1>17, <2>2, LockType DEF IInv, WtTry, Lock
    <3> QED BY <1>17, <2>2, <3>1 DEF IInv, TypeOK, WtTry
  <2> QED BY <2>1, <2>2
<1>18. ASSUME WtFinal PROVE TypeOK'
  <2>1. pass' \in Pass /\ mtx_writer_list' \in BOOLEAN
    BY <1>18, LockType DEF IInv, WtFinal, Lock
  <2> QED BY <1>18, <2>1 DEF IInv, TypeOK, WtFinal
<1>19. ASSUME WtDone PROVE TypeOK'
  BY <1>19 DEF IInv, TypeOK, WtDone, Unlock, Alive
<1>20. ASSUME BeginEnd PROVE TypeOK'
  BY <1>20 DEF IInv, TypeOK, BeginEnd
<1>21. ASSUME NEW d \in Devices, FlushRead(d) PROVE TypeOK'
  BY <1>21 DEF IInv, TypeOK, FlushRead, FlushAt
<1>22. ASSUME NEW d \in Devices, FlushDone(d) PROVE TypeOK'
  BY <1>22 DEF IInv, TypeOK, FlushDone, FlushAt
<1>23. ASSUME EndWriteStop PROVE TypeOK'
  BY <1>23 DEF IInv, TypeOK, EndWriteStop, Flushed
<1>24. ASSUME EndWriteJoin PROVE TypeOK'
  BY <1>24 DEF IInv, TypeOK, EndWriteJoin
<1>25. ASSUME EndWriteInactive PROVE TypeOK'
  BY <1>25 DEF IInv, TypeOK, EndWriteInactive, Flushed
<1>26. ASSUME EndWriteTry PROVE TypeOK'
  <2>1. CASE mtx_writer_list BY <1>26, <2>1 DEF IInv, TypeOK, EndWriteTry
  <2>2. CASE ~mtx_writer_list
    BY <1>26, <2>2, LockType DEF IInv, TypeOK, EndWriteTry, Lock
  <2> QED BY <2>1, <2>2
<1>27. ASSUME EndWriteDone PROVE TypeOK'
  BY <1>27 DEF IInv, TypeOK, EndWriteDone, Unlock
<1>28. ASSUME Destroy PROVE TypeOK'
  BY <1>28 DEF IInv, TypeOK, Destroy, Joinable
<1>29. ASSUME Gone PROVE TypeOK'
  BY <1>29 DEF IInv, TypeOK, Gone, vars
<1>30. ASSUME UNCHANGED vars PROVE TypeOK'
  BY <1>30 DEF IInv, TypeOK, vars
<1>31. ASSUME WriterOnly PROVE TypeOK'
  BY <1>31 DEF IInv, TypeOK, WriterOnly
<1>32. ASSUME NEW d \in Devices, LoadDevice(d) PROVE TypeOK'
  BY <1>32 DEF IInv, TypeOK, LoadDevice
<1> QED
  BY <1>1, <1>2, <1>3, <1>4, <1>5, <1>6, <1>7, <1>8, <1>9, <1>10, <1>11, <1>12, <1>13, <1>14, <1>15, <1>16, <1>17, <1>18, <1>19, <1>20, <1>21, <1>22, <1>23, <1>24, <1>25, <1>26, <1>27, <1>28, <1>29, <1>30, <1>31, <1>32
     DEF Next, Load, Loading, Process, Write, WtStep, Flush, EndWrite

-----------------------------------------------------------------------------
(* The lock                                                                *)

\* Every step keeps the writers with the holder of the mutex.
LEMMA LockStep ==
  IInv /\ [Next]_vars => LockInv'
<1> SUFFICES ASSUME IInv, [Next]_vars PROVE LockInv'
  OBVIOUS
<1> USE DEF dbVars, fileVars, lockVars, flagVars, optVars
<1>1. ASSUME NEW d \in Devices, CreateWriters(d) PROVE LockInv'
  <2>1. pass' = pass /\ mtx_writer_list' = mtx_writer_list /\ pt' = pt /\ wt' = wt
        /\ main = "run" /\ main' \in {"spawn", "load", "reload", "terminated"}
    BY <1>1 DEF CreateWriters, Prepare
  <2>2. Len(writers') = Len(writers) + 1 /\ Len(writers) \in Nat BY <1>1 DEF IInv, TypeOK, CreateWriters
  <2>3. pass.last \in Nat BY DEF IInv, TypeOK, Pass
  <2>4. OneWriter' BY <2>1 DEF IInv, LockInv, OneWriter
  <2>5. Writing' = Writing BY <2>1 DEF Writing
  <2> QED BY <2>1, <2>2, <2>3, <2>4, <2>5 DEF IInv, LockInv
<1>2. ASSUME StartedBefore PROVE LockInv'
  BY <1>2 DEF IInv, TypeOK, LockInv, OneWriter, Writing, EndInv, Quiet, Prepare, StartedBefore
<1>3. ASSUME StartWriteThread PROVE LockInv'
  BY <1>3 DEF IInv, TypeOK, LockInv, OneWriter, Writing, EndInv, Quiet, Prepare, StartWriteThread, Joinable
<1>4. ASSUME StartOffload PROVE LockInv'
  BY <1>4 DEF IInv, TypeOK, LockInv, OneWriter, Writing, EndInv, Quiet, StartOffload
<1>5. ASSUME NEW d \in Devices, Reload(d) PROVE LockInv'
  BY <1>5 DEF IInv, TypeOK, LockInv, OneWriter, Writing, EndInv, Quiet, Reload
<1>6. ASSUME ReloadSame PROVE LockInv'
  BY <1>6 DEF IInv, TypeOK, LockInv, OneWriter, Writing, EndInv, Quiet, ReloadSame
<1>7. ASSUME MarkXclbinEnd PROVE LockInv'
  BY <1>7 DEF IInv, TypeOK, LockInv, OneWriter, Writing, EndInv, Quiet, MarkXclbinEnd
<1>8. ASSUME MarkDump PROVE LockInv'
  BY <1>8 DEF IInv, TypeOK, LockInv, OneWriter, Writing, EndInv, Quiet, MarkDump, Lock
<1>9. ASSUME MarkDumped PROVE LockInv'
  BY <1>9 DEF IInv, TypeOK, LockInv, OneWriter, Writing, EndInv, Quiet, MarkDumped, Unlock, Pass
<1>10. ASSUME NEW d \in Devices, AddEvent(d) PROVE LockInv'
  BY <1>10 DEF IInv, TypeOK, LockInv, OneWriter, Writing, EndInv, Quiet, AddEvent, Alive
<1>11. ASSUME NEW d \in Devices, DumpTrace(d) PROVE LockInv'
  <2>1. CASE mtx_writer_list
    BY <1>11, <2>1 DEF IInv, TypeOK, LockInv, OneWriter, Writing, DumpTrace
  <2>2. CASE ~mtx_writer_list
    <3>1. /\ mtx_writer_list' /\ pt'[d] = "write" /\ pt' = [pt EXCEPT ![d] = "write"]
          /\ pass' = [new |-> TRUE, i |-> 1, last |-> Len(writers), pc |-> "next"]
          /\ UNCHANGED <<main, wt, writers>>
      BY <1>11, <2>2 DEF IInv, TypeOK, DumpTrace, Lock
    <3>2. OneWriter' BY <2>2, <3>1 DEF IInv, TypeOK, LockInv, OneWriter
    <3>3. Writing' BY <3>1 DEF Writing
    <3>4. Len(writers) \in Nat BY DEF IInv, TypeOK
    <3> QED BY <3>1, <3>2, <3>3, <3>4 DEF LockInv
  <2> QED BY <2>1, <2>2
<1>12. ASSUME NEW d \in Devices, DumpDone(d) PROVE LockInv'
  BY <1>12 DEF IInv, TypeOK, LockInv, OneWriter, Writing, EndInv, Quiet, DumpDone, Unlock, Pass, Alive
<1>13. ASSUME WriteCheck PROVE LockInv'
  BY <1>13 DEF IInv, TypeOK, LockInv, OneWriter, Writing, EndInv, Quiet, WriteCheck, Alive, WriterOf
<1>14. ASSUME WriteEvents PROVE LockInv'
  BY <1>14 DEF IInv, TypeOK, LockInv, OneWriter, Writing, EndInv, Quiet, WriteEvents, Alive
<1>15. ASSUME WtStart PROVE LockInv'
  BY <1>15 DEF IInv, TypeOK, LockInv, OneWriter, Writing, EndInv, Quiet, WtStart, Alive
<1>16. ASSUME WtWake PROVE LockInv'
  BY <1>16 DEF IInv, TypeOK, LockInv, OneWriter, Writing, EndInv, Quiet, WtWake, Alive
<1>17. ASSUME WtTry PROVE LockInv'
  BY <1>17 DEF IInv, TypeOK, LockInv, OneWriter, Writing, EndInv, Quiet, WtTry, Lock, Alive
<1>18. ASSUME WtFinal PROVE LockInv'
  BY <1>18 DEF IInv, TypeOK, LockInv, OneWriter, Writing, EndInv, Quiet, WtFinal, Lock, Alive
<1>19. ASSUME WtDone PROVE LockInv'
  BY <1>19 DEF IInv, TypeOK, LockInv, OneWriter, Writing, EndInv, Quiet, WtDone, Unlock, Pass, Alive
<1>20. ASSUME BeginEnd PROVE LockInv'
  BY <1>20 DEF IInv, TypeOK, LockInv, OneWriter, Writing, EndInv, Quiet, BeginEnd
<1>21. ASSUME NEW d \in Devices, FlushRead(d) PROVE LockInv'
  BY <1>21 DEF IInv, TypeOK, LockInv, OneWriter, Writing, EndInv, Quiet, FlushRead, FlushAt
<1>22. ASSUME NEW d \in Devices, FlushDone(d) PROVE LockInv'
  BY <1>22 DEF IInv, TypeOK, LockInv, OneWriter, Writing, EndInv, Quiet, FlushDone, FlushAt
<1>23. ASSUME EndWriteStop PROVE LockInv'
  BY <1>23 DEF IInv, TypeOK, LockInv, OneWriter, Writing, EndInv, Quiet, EndWriteStop, Flushed
<1>24. ASSUME EndWriteJoin PROVE LockInv'
  BY <1>24 DEF IInv, TypeOK, LockInv, OneWriter, Writing, EndInv, Quiet, EndWriteJoin
<1>25. ASSUME EndWriteInactive PROVE LockInv'
  BY <1>25 DEF IInv, TypeOK, LockInv, OneWriter, Writing, EndInv, Quiet, EndWriteInactive, Flushed
<1>26. ASSUME EndWriteTry PROVE LockInv'
  BY <1>26 DEF IInv, TypeOK, LockInv, OneWriter, Writing, EndInv, Quiet, EndWriteTry, Lock
<1>27. ASSUME EndWriteDone PROVE LockInv'
  BY <1>27 DEF IInv, TypeOK, LockInv, OneWriter, Writing, EndInv, Quiet, EndWriteDone, Unlock, Pass
<1>28. ASSUME Destroy PROVE LockInv'
  BY <1>28 DEF IInv, TypeOK, LockInv, OneWriter, Writing, EndInv, Quiet, Destroy, Joinable
<1>29. ASSUME Gone PROVE LockInv'
  BY <1>29 DEF IInv, TypeOK, LockInv, OneWriter, Writing, EndInv, Quiet, Gone, vars
<1>30. ASSUME UNCHANGED vars PROVE LockInv'
  BY <1>30 DEF IInv, TypeOK, LockInv, OneWriter, Writing, EndInv, Quiet, vars
<1>31. ASSUME WriterOnly PROVE LockInv'
  BY <1>31 DEF IInv, TypeOK, LockInv, OneWriter, Writing, WriterOnly
<1>32. ASSUME NEW d \in Devices, LoadDevice(d) PROVE LockInv'
  BY <1>32 DEF IInv, TypeOK, LockInv, OneWriter, Writing, LoadDevice
<1> QED
  BY <1>1, <1>2, <1>3, <1>4, <1>5, <1>6, <1>7, <1>8, <1>9, <1>10, <1>11, <1>12, <1>13, <1>14, <1>15, <1>16, <1>17, <1>18, <1>19, <1>20, <1>21, <1>22, <1>23, <1>24, <1>25, <1>26, <1>27, <1>28, <1>29, <1>30, <1>31, <1>32
     DEF Next, Load, Loading, Process, Write, WtStep, Flush, EndWrite

-----------------------------------------------------------------------------
(* The end                                                                 *)

\* Every step keeps the order of the end.
LEMMA EndStep ==
  IInv /\ [Next]_vars => EndInv'
<1> SUFFICES ASSUME IInv, [Next]_vars PROVE EndInv'
  OBVIOUS
<1> USE DEF dbVars, fileVars, lockVars, flagVars, optVars
<1>1. ASSUME NEW d \in Devices, CreateWriters(d) PROVE EndInv'
  <2>1. /\ main = "run" /\ target' = d /\ pt' = pt /\ wt' = wt /\ stop_writer_thread' = stop_writer_thread
        /\ \/ main' = "spawn" \/ main' = "reload" \/ main' = "terminated"
           \/ main' = "load" /\ pt[d] = "none"
    BY <1>1 DEF CreateWriters, Prepare
  <2>2. Len(writers) \in Nat /\ writers' = Append(writers, d) BY <1>1 DEF CreateWriters, IInv, TypeOK
  <2>3. HasWriter(d)'
    <3>1. Len(writers') = Len(writers) + 1 /\ writers'[Len(writers) + 1] = d
      BY <2>2 DEF IInv, TypeOK
    <3> QED BY <2>2, <3>1 DEF HasWriter
  <2> QED BY <2>1, <2>3 DEF IInv, EndInv
<1>2. ASSUME StartedBefore PROVE EndInv'
  BY <1>2 DEF IInv, TypeOK, LockInv, OneWriter, EndInv, Quiet, HasWriter, Prepare, StartedBefore
<1>3. ASSUME StartWriteThread PROVE EndInv'
  BY <1>3 DEF IInv, TypeOK, LockInv, OneWriter, EndInv, Quiet, HasWriter, Prepare, StartWriteThread, Joinable
<1>4. ASSUME StartOffload PROVE EndInv'
  BY <1>4 DEF IInv, TypeOK, LockInv, OneWriter, EndInv, Quiet, HasWriter, StartOffload
<1>5. ASSUME NEW d \in Devices, Reload(d) PROVE EndInv'
  BY <1>5 DEF IInv, TypeOK, LockInv, OneWriter, EndInv, Quiet, HasWriter, Reload
<1>6. ASSUME ReloadSame PROVE EndInv'
  BY <1>6 DEF IInv, TypeOK, EndInv, Quiet, HasWriter, DataInv, WriterInv, ReloadSame
<1>7. ASSUME MarkXclbinEnd PROVE EndInv'
  BY <1>7 DEF IInv, TypeOK, EndInv, Quiet, HasWriter, DataInv, WriterInv, MarkXclbinEnd
<1>8. ASSUME MarkDump PROVE EndInv'
  BY <1>8 DEF IInv, TypeOK, LockInv, OneWriter, EndInv, Quiet, HasWriter, MarkDump, Lock
<1>9. ASSUME MarkDumped PROVE EndInv'
  BY <1>9 DEF IInv, TypeOK, LockInv, OneWriter, EndInv, Quiet, HasWriter, MarkDumped, Unlock
<1>10. ASSUME NEW d \in Devices, AddEvent(d) PROVE EndInv'
  BY <1>10 DEF IInv, TypeOK, LockInv, OneWriter, EndInv, Quiet, HasWriter, AddEvent, Alive
<1>11. ASSUME NEW d \in Devices, DumpTrace(d) PROVE EndInv'
  <2>1. main' = main /\ target' = target /\ wt' = wt /\ HasWriter(target)' = HasWriter(target)
        /\ stop_writer_thread' = stop_writer_thread
    BY <1>11 DEF DumpTrace, HasWriter
  <2>2. ~Quiet BY <1>11 DEF DumpTrace, Quiet
  <2>3. main \in {"load", "dump", "dumpWrite"} => pt'[target] \in {"none", "off"}
    BY <1>11 DEF DumpTrace, IInv, EndInv, TypeOK
  <2> QED BY <2>1, <2>2, <2>3 DEF IInv, EndInv
<1>12. ASSUME NEW d \in Devices, DumpDone(d) PROVE EndInv'
  BY <1>12 DEF IInv, TypeOK, LockInv, OneWriter, EndInv, Quiet, HasWriter, DumpDone, Unlock, Alive
<1>13. ASSUME WriteCheck PROVE EndInv'
  BY <1>13 DEF IInv, TypeOK, LockInv, OneWriter, EndInv, Quiet, HasWriter, WriteCheck, Alive, WriterOf
<1>14. ASSUME WriteEvents PROVE EndInv'
  BY <1>14 DEF IInv, TypeOK, LockInv, OneWriter, EndInv, Quiet, HasWriter, WriteEvents, Alive
<1>15. ASSUME WtStart PROVE EndInv'
  BY <1>15 DEF IInv, TypeOK, LockInv, OneWriter, EndInv, Quiet, HasWriter, WtStart, Alive
<1>16. ASSUME WtWake PROVE EndInv'
  BY <1>16 DEF IInv, TypeOK, LockInv, OneWriter, EndInv, Quiet, HasWriter, WtWake, Alive
<1>17. ASSUME WtTry PROVE EndInv'
  BY <1>17 DEF IInv, TypeOK, LockInv, OneWriter, EndInv, Quiet, HasWriter, WtTry, Lock, Alive
<1>18. ASSUME WtFinal PROVE EndInv'
  BY <1>18 DEF IInv, TypeOK, LockInv, OneWriter, EndInv, Quiet, HasWriter, WtFinal, Lock, Alive
<1>19. ASSUME WtDone PROVE EndInv'
  BY <1>19 DEF IInv, TypeOK, LockInv, OneWriter, EndInv, Quiet, HasWriter, WtDone, Unlock, Alive
<1>20. ASSUME BeginEnd PROVE EndInv'
  BY <1>20 DEF IInv, TypeOK, LockInv, OneWriter, EndInv, Quiet, HasWriter, BeginEnd
<1>21. ASSUME NEW d \in Devices, FlushRead(d) PROVE EndInv'
  BY <1>21 DEF IInv, TypeOK, LockInv, OneWriter, EndInv, Quiet, HasWriter, FlushRead, FlushAt
<1>22. ASSUME NEW d \in Devices, FlushDone(d) PROVE EndInv'
  BY <1>22 DEF IInv, TypeOK, LockInv, OneWriter, EndInv, Quiet, HasWriter, FlushDone, FlushAt
<1>23. ASSUME EndWriteStop PROVE EndInv'
  BY <1>23 DEF IInv, TypeOK, LockInv, OneWriter, EndInv, Quiet, HasWriter, EndWriteStop, Flushed
<1>24. ASSUME EndWriteJoin PROVE EndInv'
  BY <1>24 DEF IInv, TypeOK, LockInv, OneWriter, EndInv, Quiet, HasWriter, EndWriteJoin
<1>25. ASSUME EndWriteInactive PROVE EndInv'
  BY <1>25 DEF IInv, TypeOK, LockInv, OneWriter, EndInv, Quiet, HasWriter, EndWriteInactive, Flushed
<1>26. ASSUME EndWriteTry PROVE EndInv'
  BY <1>26 DEF IInv, TypeOK, LockInv, OneWriter, EndInv, Quiet, HasWriter, EndWriteTry, Lock
<1>27. ASSUME EndWriteDone PROVE EndInv'
  BY <1>27 DEF IInv, TypeOK, LockInv, OneWriter, EndInv, Quiet, HasWriter, EndWriteDone, Unlock
<1>28. ASSUME Destroy PROVE EndInv'
  BY <1>28 DEF IInv, TypeOK, LockInv, OneWriter, EndInv, Quiet, HasWriter, Destroy, Joinable
<1>29. ASSUME Gone PROVE EndInv'
  BY <1>29 DEF IInv, TypeOK, LockInv, OneWriter, EndInv, Quiet, HasWriter, Gone, vars
<1>30. ASSUME UNCHANGED vars PROVE EndInv'
  BY <1>30 DEF IInv, TypeOK, LockInv, OneWriter, EndInv, Quiet, HasWriter, vars
<1>31. ASSUME WriterOnly PROVE EndInv'
  BY <1>31 DEF IInv, TypeOK, EndInv, Quiet, HasWriter, DataInv, WriterInv, WriterOnly
<1>32. ASSUME NEW d \in Devices, LoadDevice(d) PROVE EndInv'
  BY <1>32 DEF IInv, TypeOK, EndInv, Quiet, HasWriter, DataInv, WriterInv, LoadDevice
<1> QED
  BY <1>1, <1>2, <1>3, <1>4, <1>5, <1>6, <1>7, <1>8, <1>9, <1>10, <1>11, <1>12, <1>13, <1>14, <1>15, <1>16, <1>17, <1>18, <1>19, <1>20, <1>21, <1>22, <1>23, <1>24, <1>25, <1>26, <1>27, <1>28, <1>29, <1>30, <1>31, <1>32
     DEF Next, Load, Loading, Process, Write, WtStep, Flush, EndWrite

-----------------------------------------------------------------------------
(* Events and lines                                                        *)

\* Every step keeps each event in one place.
LEMMA DataStep ==
  IInv /\ [Next]_vars => DataInv'
<1> SUFFICES ASSUME IInv, [Next]_vars PROVE DataInv'
  OBVIOUS
<1> USE DEF dbVars, fileVars, lockVars, flagVars, optVars
<1>1. ASSUME NEW d \in Devices, CreateWriters(d) PROVE DataInv'
  <2>1. NumberInv' BY <1>1 DEF IInv, DataInv, NumberInv, CreateWriters
  <2>2. /\ Len(writers') = Len(writers) + 1 /\ Len(writers) \in Nat
        /\ Len(fileNum') = Len(writers) + 1
        /\ writers'[Len(writers) + 1] = d /\ fileNum'[Len(writers) + 1] = 1
        /\ \A k \in 1..Len(writers) : writers'[k] = writers[k] /\ fileNum'[k] = fileNum[k]
    <3>1. writers \in Seq(Devices) /\ fileNum \in Seq(Nat) /\ Len(fileNum) = Len(writers)
      BY DEF IInv, TypeOK, DataInv, WriterInv
    <3> QED BY <1>1, <3>1 DEF CreateWriters
  <2>3. WriterInv'
    <3>1. ASSUME NEW x \in Devices, HasWriter(x) PROVE HasWriter(x)'
      BY <2>2, <3>1 DEF HasWriter
    <3>2. pt' = pt /\ added' = added BY <1>1 DEF CreateWriters
    <3>3. \A k \in 1..Len(writers') : fileNum'[k] # 0 BY <2>2 DEF IInv, DataInv, WriterInv
    <3> QED BY <2>2, <3>1, <3>2, <3>3 DEF IInv, DataInv, WriterInv
  <2>5. LineInv'
    <3>1. opened' = opened \cup {<<d, 1>>} /\ written' = written /\ added' = added
      BY <1>1 DEF CreateWriters
    <3>2. \A k \in 1..Len(writers) : k \in 1..Len(writers') BY <2>2
    <3>3. ASSUME NEW r \in written
          PROVE  /\ r.ev \in 1..added[r.dev] /\ r.by \in 1..Len(writers') /\ writers'[r.by] = r.dev
                 /\ r.file <= fileNum'[r.by] /\ r.file # 0
      BY <2>2, <3>2 DEF IInv, DataInv, LineInv
    <3>4. ASSUME NEW k \in 1..Len(writers'), NEW n \in 1..fileNum'[k] PROVE <<writers'[k], n>> \in opened'
      <4>1. CASE k \in 1..Len(writers) BY <4>1, <2>2, <3>1 DEF IInv, DataInv, LineInv
      <4>2. CASE k = Len(writers) + 1 BY <4>2, <2>2, <3>1
      <4> QED BY <4>1, <4>2, <2>2
    <3> QED BY <3>1, <3>3, <3>4 DEF LineInv
  <2>4. OnceEach' BY <1>1 DEF IInv, DataInv, OnceEach, CreateWriters
  <2> QED BY <2>1, <2>3, <2>5, <2>4 DEF DataInv
<1>2. ASSUME StartedBefore PROVE DataInv'
  BY <1>2 DEF IInv, TypeOK, LockInv, EndInv, DataInv, NumberInv, WriterInv, HasWriter, LineInv, OnceEach, StartedBefore
<1>3. ASSUME StartWriteThread PROVE DataInv'
  BY <1>3 DEF IInv, TypeOK, LockInv, EndInv, DataInv, NumberInv, WriterInv, HasWriter, LineInv, OnceEach, StartWriteThread, Joinable
<1>4. ASSUME StartOffload PROVE DataInv'
  BY <1>4 DEF IInv, TypeOK, LockInv, EndInv, DataInv, NumberInv, WriterInv, HasWriter, LineInv, OnceEach, StartOffload
<1>5. ASSUME NEW d \in Devices, Reload(d) PROVE DataInv'
  BY <1>5 DEF IInv, TypeOK, LockInv, EndInv, DataInv, NumberInv, WriterInv, HasWriter, LineInv, OnceEach, Reload
<1>6. ASSUME ReloadSame PROVE DataInv'
  BY <1>6 DEF IInv, TypeOK, LockInv, EndInv, DataInv, NumberInv, WriterInv, HasWriter, LineInv, OnceEach, ReloadSame
<1>7. ASSUME MarkXclbinEnd PROVE DataInv'
  <2>1. /\ \A x \in Devices : events'[x] = IF x = target THEN events[x] \cup {added[x] + 1} ELSE events[x]
        /\ \A x \in Devices : added'[x] = IF x = target THEN added[x] + 1 ELSE added[x]
        /\ \A x \in Devices : added[x] \in Nat
        /\ target \in Devices
    BY <1>7 DEF IInv, TypeOK, MarkXclbinEnd
  <2>2. \A x \in Devices : ends[x] \subseteq ends'[x] /\ ends'[x] \subseteq ends[x] \cup {added'[x]}
    BY <1>7, <2>1 DEF IInv, TypeOK, MarkXclbinEnd
  <2>3. /\ written' = written /\ fileNum' = fileNum /\ opened' = opened /\ writers' = writers
        /\ pt[target] # "none"
    BY <1>7 DEF MarkXclbinEnd
  <2>4. \A r \in written : r.dev \in Devices BY DEF IInv, TypeOK
  <2>5. NumberInv'
    <3>1. ASSUME NEW x \in Devices PROVE ends'[x] \subseteq 1..added'[x]
      BY <2>1, <1>7 DEF MarkXclbinEnd, IInv, TypeOK, DataInv, NumberInv
    <3>2. ASSUME NEW x \in Devices PROVE events'[x] \subseteq 1..added'[x]
      <4>1. events[x] \subseteq 1..added[x] BY DEF IInv, DataInv, NumberInv
      <4>2. CASE x = target
        <5>1. events'[x] = events[x] \cup {added[x] + 1} /\ added'[x] = added[x] + 1
              /\ added[x] \in Nat
          BY <4>2, <2>1
        <5>2. \A e \in events'[x] : e \in 1..(added[x] + 1) BY <5>1, <4>1
        <5> QED BY <5>1, <5>2
      <4>3. CASE x # target BY <4>1, <4>3, <2>1
      <4> QED BY <4>2, <4>3
    <3> QED BY <3>1, <3>2 DEF NumberInv
  <2>6. WriterInv'
    BY <1>7, <2>1, <2>3 DEF MarkXclbinEnd, IInv, TypeOK, DataInv, WriterInv, HasWriter
  <2>7. LineInv' BY <2>1, <2>3, <2>4 DEF IInv, DataInv, LineInv
  <2>8. OnceEach'
    <3>1. ASSUME NEW x \in Devices \ NoPlFirst, NEW e \in 1..added'[x]
          PROVE  e \in events'[x] \/ e \in ends'[x] \/ \E r \in written' : r.dev = x /\ r.ev = e
      <4>1. CASE e \in 1..added[x]
        <5>1. e \in events[x] \/ e \in ends[x] \/ \E r \in written : r.dev = x /\ r.ev = e
          BY <4>1 DEF IInv, DataInv, OnceEach
        <5>2. events[x] \subseteq events'[x] /\ ends[x] \subseteq ends'[x] /\ written' = written
          BY <2>1, <2>2, <2>3
        <5> QED BY <5>1, <5>2
      <4>2. CASE e \notin 1..added[x]
        <5>1. x = target /\ added'[x] = added[x] + 1 BY <4>2, <2>1
        <5>2. e = added[x] + 1 BY <4>2, <5>1, <2>1
        <5> QED BY <5>1, <5>2, <2>1
      <4> QED BY <4>1, <4>2
    <3>2. ASSUME NEW r \in written' PROVE r.ev \notin events'[r.dev]
      <4>1. r.dev \in Devices /\ r.ev \in 1..added[r.dev] /\ r.ev \notin events[r.dev]
        BY <2>3, <2>4 DEF IInv, DataInv, OnceEach, LineInv
      <4>2. r.ev # added[r.dev] + 1 BY <4>1, <2>1
      <4> QED BY <4>1, <4>2, <2>1
    <3> QED BY <3>1, <3>2, <2>3 DEF IInv, DataInv, OnceEach
  <2> QED BY <2>5, <2>6, <2>7, <2>8 DEF DataInv
<1>8. ASSUME MarkDump PROVE DataInv'
  BY <1>8 DEF IInv, TypeOK, LockInv, EndInv, DataInv, NumberInv, WriterInv, HasWriter, LineInv, OnceEach, MarkDump, Lock
<1>9. ASSUME MarkDumped PROVE DataInv'
  BY <1>9 DEF IInv, TypeOK, LockInv, EndInv, DataInv, NumberInv, WriterInv, HasWriter, LineInv, OnceEach, MarkDumped, Unlock
<1>10. ASSUME NEW d \in Devices, AddEvent(d) PROVE DataInv'
  <2>1. /\ \A x \in Devices : events'[x] = IF x = d THEN events[x] \cup {added[x] + 1} ELSE events[x]
        /\ \A x \in Devices : added'[x] = IF x = d THEN added[x] + 1 ELSE added[x]
        /\ \A x \in Devices : added[x] \in Nat
        /\ d \in Devices
    BY <1>10 DEF IInv, TypeOK, AddEvent
  <2>2. \A x \in Devices : ends[x] \subseteq ends'[x] /\ ends'[x] \subseteq ends[x] \cup {added'[x]}
    BY <1>10, <2>1 DEF IInv, TypeOK, AddEvent
  <2>3. /\ written' = written /\ fileNum' = fileNum /\ opened' = opened /\ writers' = writers
        /\ pt[d] = "run"
    BY <1>10 DEF AddEvent
  <2>4. \A r \in written : r.dev \in Devices BY DEF IInv, TypeOK
  <2>5. NumberInv'
    <3>1. ASSUME NEW x \in Devices PROVE ends'[x] \subseteq 1..added'[x]
      BY <2>1, <1>10 DEF AddEvent, IInv, TypeOK, DataInv, NumberInv
    <3>2. ASSUME NEW x \in Devices PROVE events'[x] \subseteq 1..added'[x]
      <4>1. events[x] \subseteq 1..added[x] BY DEF IInv, DataInv, NumberInv
      <4>2. CASE x = d
        <5>1. events'[x] = events[x] \cup {added[x] + 1} /\ added'[x] = added[x] + 1
              /\ added[x] \in Nat
          BY <4>2, <2>1
        <5>2. \A e \in events'[x] : e \in 1..(added[x] + 1) BY <5>1, <4>1
        <5> QED BY <5>1, <5>2
      <4>3. CASE x # d BY <4>1, <4>3, <2>1
      <4> QED BY <4>2, <4>3
    <3> QED BY <3>1, <3>2 DEF NumberInv
  <2>6. WriterInv'
    BY <1>10, <2>1, <2>3 DEF AddEvent, IInv, TypeOK, DataInv, WriterInv, HasWriter
  <2>7. LineInv' BY <2>1, <2>3, <2>4 DEF IInv, DataInv, LineInv
  <2>8. OnceEach'
    <3>1. ASSUME NEW x \in Devices \ NoPlFirst, NEW e \in 1..added'[x]
          PROVE  e \in events'[x] \/ e \in ends'[x] \/ \E r \in written' : r.dev = x /\ r.ev = e
      <4>1. CASE e \in 1..added[x]
        <5>1. e \in events[x] \/ e \in ends[x] \/ \E r \in written : r.dev = x /\ r.ev = e
          BY <4>1 DEF IInv, DataInv, OnceEach
        <5>2. events[x] \subseteq events'[x] /\ ends[x] \subseteq ends'[x] /\ written' = written
          BY <2>1, <2>2, <2>3
        <5> QED BY <5>1, <5>2
      <4>2. CASE e \notin 1..added[x]
        <5>1. x = d /\ added'[x] = added[x] + 1 BY <4>2, <2>1
        <5>2. e = added[x] + 1 BY <4>2, <5>1, <2>1
        <5> QED BY <5>1, <5>2, <2>1
      <4> QED BY <4>1, <4>2
    <3>2. ASSUME NEW r \in written' PROVE r.ev \notin events'[r.dev]
      <4>1. r.dev \in Devices /\ r.ev \in 1..added[r.dev] /\ r.ev \notin events[r.dev]
        BY <2>3, <2>4 DEF IInv, DataInv, OnceEach, LineInv
      <4>2. r.ev # added[r.dev] + 1 BY <4>1, <2>1
      <4> QED BY <4>1, <4>2, <2>1
    <3> QED BY <3>1, <3>2, <2>3 DEF IInv, DataInv, OnceEach
  <2> QED BY <2>5, <2>6, <2>7, <2>8 DEF DataInv
<1>11. ASSUME NEW d \in Devices, DumpTrace(d) PROVE DataInv'
  BY <1>11 DEF IInv, TypeOK, LockInv, EndInv, DataInv, NumberInv, WriterInv, HasWriter, LineInv, OnceEach, DumpTrace, Lock, Alive
<1>12. ASSUME NEW d \in Devices, DumpDone(d) PROVE DataInv'
  <2>1. NumberInv' /\ LineInv' /\ OnceEach'
    BY <1>12 DEF DumpDone, IInv, DataInv, NumberInv, LineInv, OnceEach
  <2>2. WriterInv' BY <1>12 DEF DumpDone, IInv, TypeOK, DataInv, WriterInv, HasWriter
  <2> QED BY <2>1, <2>2 DEF DataInv
<1>13. ASSUME WriteCheck PROVE DataInv'
  <2>1. NumberInv' /\ LineInv' /\ OnceEach'
    BY <1>13 DEF WriteCheck, IInv, DataInv, NumberInv, LineInv, OnceEach
  <2>2. WriterInv' BY <1>13 DEF WriteCheck, IInv, TypeOK, DataInv, WriterInv, HasWriter
  <2> QED BY <2>1, <2>2 DEF DataInv
<1>14. ASSUME WriteEvents PROVE DataInv'
  <2>1. PICK k \in 1..Len(writers), w \in Devices :
          /\ w = writers[k]
          /\ \A x \in Devices : events'[x] = IF x = w THEN {} ELSE events[x]
          /\ Len(fileNum') = Len(writers)
          /\ \A j \in 1..Len(writers) :
               /\ fileNum[j] \in Nat \ {0}
               /\ fileNum'[j] = IF j = k /\ pass.new THEN fileNum[j] + 1 ELSE fileNum[j]
          /\ written' = written \cup Lines(k) /\ opened \subseteq opened'
          /\ pass.new => <<w, fileNum[k] + 1>> \in opened'
          /\ UNCHANGED <<main, pt, wt, writers, ends, added>>
    BY <1>14, WriteFacts DEF IInv
  <2>2. TypeOK /\ DataInv BY DEF IInv
  <2>3. /\ \A r \in Lines(k) : r.dev = w /\ r.by = k /\ r.file = fileNum[k] /\ r.ev \in events[w] \ ends[w]
        /\ w \notin NoPlFirst =>
             \A e \in events[w] \ ends[w] : \E r \in Lines(k) : r.dev = w /\ r.ev = e
        /\ \A r, s \in Lines(k) : r.ev = s.ev => r = s
    <3>1. TypeOK /\ DataInv /\ w = writers[k] BY <2>1, <2>2
    <3>2. (\A r \in Lines(k) : LineIs(k, w, r)) /\ LinesEach(k, w) /\ LinesDiffer(k)
      BY <3>1, LinesFacts
    <3>3. \A r \in Lines(k) : r.dev = w /\ r.by = k /\ r.file = fileNum[k] /\ r.ev \in events[w] \ ends[w]
      BY <3>2 DEF LineIs
    <3>4. w \notin NoPlFirst =>
            \A e \in events[w] \ ends[w] : \E r \in Lines(k) : r.dev = w /\ r.ev = e
      BY <3>2 DEF LinesEach
    <3> QED BY <3>2, <3>3, <3>4 DEF LinesDiffer
  <2>4. \A r \in written : r.dev \in Devices /\ r.file \in Nat BY DEF IInv, TypeOK
  <2>5. \A x \in Devices : added[x] \in Nat BY DEF IInv, TypeOK
  <2>8. NumberInv' BY <2>1 DEF IInv, DataInv, NumberInv
  <2>9. WriterInv'
    <3>1. \A x \in Devices : HasWriter(x)' = HasWriter(x) BY <2>1 DEF HasWriter
    <3> QED BY <3>1, <2>1 DEF IInv, DataInv, WriterInv
  <2>10. LineInv'
    <3>1. ASSUME NEW r \in written'
          PROVE  /\ r.ev \in 1..added'[r.dev] /\ r.by \in 1..Len(writers') /\ writers'[r.by] = r.dev
                 /\ r.file <= fileNum'[r.by] /\ r.file # 0
      <4>1. CASE r \in written
        <5>1. /\ r.ev \in 1..added[r.dev] /\ r.by \in 1..Len(writers) /\ writers[r.by] = r.dev
              /\ r.file <= fileNum[r.by] /\ r.file # 0 /\ r.file \in Nat
          BY <4>1, <2>4 DEF IInv, DataInv, LineInv
        <5> QED BY <5>1, <2>1
      <4>2. CASE r \in Lines(k)
        BY <4>2, <2>1, <2>3 DEF IInv, DataInv, NumberInv
      <4> QED BY <4>1, <4>2, <2>1
    <3>2. ASSUME NEW j \in 1..Len(writers), NEW n \in 1..fileNum'[j] PROVE <<writers[j], n>> \in opened'
      <4>1. CASE n \in 1..fileNum[j] BY <4>1, <2>1 DEF IInv, DataInv, LineInv
      <4>2. CASE n \notin 1..fileNum[j]
        <5>1. j = k /\ pass.new /\ n = fileNum[k] + 1 BY <4>2, <2>1
        <5> QED BY <5>1, <2>1
      <4> QED BY <4>1, <4>2
    <3> QED BY <3>1, <3>2, <2>1 DEF LineInv
  <2>11. OnceEach'
    <3>1. ASSUME NEW x \in Devices \ NoPlFirst, NEW e \in 1..added'[x]
          PROVE  e \in events'[x] \/ e \in ends'[x] \/ \E r \in written' : r.dev = x /\ r.ev = e
      <4>1. e \in events[x] \/ e \in ends[x] \/ \E r \in written : r.dev = x /\ r.ev = e
        BY <2>1 DEF IInv, DataInv, OnceEach
      <4> QED BY <4>1, <2>1, <2>3
    <3>2. ASSUME NEW r \in written' PROVE r.ev \notin events'[r.dev]
      BY <2>1, <2>3, <2>4 DEF IInv, DataInv, OnceEach
    <3>3. ASSUME NEW r \in written', NEW s \in written', r.dev = s.dev, r.ev = s.ev PROVE r = s
      <4>1. CASE r \in written /\ s \in written BY <4>1, <3>3 DEF IInv, DataInv, OnceEach
      <4>2. CASE r \in Lines(k) /\ s \in Lines(k) BY <4>2, <3>3, <2>3
      <4>3. CASE r \in Lines(k) /\ s \in written
        BY <4>3, <3>3, <2>3 DEF IInv, DataInv, OnceEach
      <4>4. CASE r \in written /\ s \in Lines(k)
        BY <4>4, <3>3, <2>3 DEF IInv, DataInv, OnceEach
      <4> QED BY <4>1, <4>2, <4>3, <4>4, <2>1
    <3> QED BY <3>1, <3>2, <3>3 DEF OnceEach
  <2> QED BY <2>8, <2>9, <2>10, <2>11 DEF DataInv
<1>15. ASSUME WtStart PROVE DataInv'
  BY <1>15 DEF IInv, TypeOK, LockInv, EndInv, DataInv, NumberInv, WriterInv, HasWriter, LineInv, OnceEach, WtStart, Alive
<1>16. ASSUME WtWake PROVE DataInv'
  BY <1>16 DEF IInv, TypeOK, LockInv, EndInv, DataInv, NumberInv, WriterInv, HasWriter, LineInv, OnceEach, WtWake, Alive
<1>17. ASSUME WtTry PROVE DataInv'
  BY <1>17 DEF IInv, TypeOK, LockInv, EndInv, DataInv, NumberInv, WriterInv, HasWriter, LineInv, OnceEach, WtTry, Lock, Alive
<1>18. ASSUME WtFinal PROVE DataInv'
  BY <1>18 DEF IInv, TypeOK, LockInv, EndInv, DataInv, NumberInv, WriterInv, HasWriter, LineInv, OnceEach, WtFinal, Lock, Alive
<1>19. ASSUME WtDone PROVE DataInv'
  BY <1>19 DEF IInv, TypeOK, LockInv, EndInv, DataInv, NumberInv, WriterInv, HasWriter, LineInv, OnceEach, WtDone, Unlock, Alive
<1>20. ASSUME BeginEnd PROVE DataInv'
  BY <1>20 DEF IInv, TypeOK, LockInv, EndInv, DataInv, NumberInv, WriterInv, HasWriter, LineInv, OnceEach, BeginEnd
<1>21. ASSUME NEW d \in Devices, FlushRead(d) PROVE DataInv'
  BY <1>21 DEF IInv, TypeOK, LockInv, EndInv, DataInv, NumberInv, WriterInv, HasWriter, LineInv, OnceEach, FlushRead, FlushAt
<1>22. ASSUME NEW d \in Devices, FlushDone(d) PROVE DataInv'
  BY <1>22 DEF IInv, TypeOK, LockInv, EndInv, DataInv, NumberInv, WriterInv, HasWriter, LineInv, OnceEach, FlushDone, FlushAt
<1>23. ASSUME EndWriteStop PROVE DataInv'
  BY <1>23 DEF IInv, TypeOK, LockInv, EndInv, DataInv, NumberInv, WriterInv, HasWriter, LineInv, OnceEach, EndWriteStop, Flushed
<1>24. ASSUME EndWriteJoin PROVE DataInv'
  BY <1>24 DEF IInv, TypeOK, LockInv, EndInv, DataInv, NumberInv, WriterInv, HasWriter, LineInv, OnceEach, EndWriteJoin
<1>25. ASSUME EndWriteInactive PROVE DataInv'
  BY <1>25 DEF IInv, TypeOK, LockInv, EndInv, DataInv, NumberInv, WriterInv, HasWriter, LineInv, OnceEach, EndWriteInactive, Flushed
<1>26. ASSUME EndWriteTry PROVE DataInv'
  BY <1>26 DEF IInv, TypeOK, LockInv, EndInv, DataInv, NumberInv, WriterInv, HasWriter, LineInv, OnceEach, EndWriteTry, Lock
<1>27. ASSUME EndWriteDone PROVE DataInv'
  BY <1>27 DEF IInv, TypeOK, LockInv, EndInv, DataInv, NumberInv, WriterInv, HasWriter, LineInv, OnceEach, EndWriteDone, Unlock
<1>28. ASSUME Destroy PROVE DataInv'
  BY <1>28 DEF IInv, TypeOK, LockInv, EndInv, DataInv, NumberInv, WriterInv, HasWriter, LineInv, OnceEach, Destroy, Joinable
<1>29. ASSUME Gone PROVE DataInv'
  BY <1>29 DEF IInv, TypeOK, LockInv, EndInv, DataInv, NumberInv, WriterInv, HasWriter, LineInv, OnceEach, Gone, vars
<1>30. ASSUME UNCHANGED vars PROVE DataInv'
  BY <1>30 DEF IInv, TypeOK, LockInv, EndInv, DataInv, NumberInv, WriterInv, HasWriter, LineInv, OnceEach, vars
<1>31. ASSUME WriterOnly PROVE DataInv'
  BY <1>31 DEF IInv, DataInv, NumberInv, WriterInv, HasWriter, LineInv, OnceEach, WriterOnly
<1>32. ASSUME NEW d \in Devices, LoadDevice(d) PROVE DataInv'
  BY <1>32 DEF IInv, DataInv, NumberInv, WriterInv, HasWriter, LineInv, OnceEach, LoadDevice
<1> QED
  BY <1>1, <1>2, <1>3, <1>4, <1>5, <1>6, <1>7, <1>8, <1>9, <1>10, <1>11, <1>12, <1>13, <1>14, <1>15, <1>16, <1>17, <1>18, <1>19, <1>20, <1>21, <1>22, <1>23, <1>24, <1>25, <1>26, <1>27, <1>28, <1>29, <1>30, <1>31, <1>32
     DEF Next, Load, Loading, Process, Write, WtStep, Flush, EndWrite

-----------------------------------------------------------------------------
(* Configurations                                                          *)

\* The lines of the first files stay right after a step that leaves events, writers and files alone.
LEMMA ConfigFrame ==
  ASSUME IInv, UNCHANGED <<writers, fileNum, written, ends, events>>, EndPhase => EndPhase'
  PROVE  ConfigInv'
<1>1. \A x : SoleWriter(x)' = SoleWriter(x) BY DEF SoleWriter
<1>2. FirstFileRight' BY <1>1 DEF IInv, ConfigInv, FirstFileRight
<1>3. \A x : EndsKept(x) => EndsKept(x)' BY DEF EndsKept
<1> QED BY <1>1, <1>2, <1>3 DEF IInv, ConfigInv

\* Every step keeps the lines of the first files right.
LEMMA ConfigStep ==
  IInv /\ [Next]_vars => ConfigInv'
<1> SUFFICES ASSUME IInv, [Next]_vars PROVE ConfigInv'
  OBVIOUS
<1> USE DEF dbVars, fileVars, lockVars, flagVars, optVars
<1>1. ASSUME NEW d \in Devices, CreateWriters(d) PROVE ConfigInv'
  <2>1. /\ Len(writers') = Len(writers) + 1 /\ Len(writers) \in Nat
        /\ writers'[Len(writers) + 1] = d
        /\ \A k \in 1..Len(writers) : writers'[k] = writers[k] /\ fileNum'[k] = fileNum[k]
    <3>1. writers \in Seq(Devices) /\ fileNum \in Seq(Nat) /\ Len(fileNum) = Len(writers)
      BY DEF IInv, TypeOK, DataInv, WriterInv
    <3> QED BY <1>1, <3>1 DEF CreateWriters
  <2>2. main = "run" /\ written' = written /\ UNCHANGED <<ends, events>> BY <1>1 DEF CreateWriters
  <2>3. ASSUME NEW x, SoleWriter(x)' PROVE SoleWriter(x)
    BY <2>1, <2>3 DEF SoleWriter
  <2>4. FirstFileRight' BY <2>2, <2>3 DEF IInv, ConfigInv, FirstFileRight
  <2>5. ASSUME NEW k \in 1..Len(writers'), SoleWriter(writers[k])', fileNum'[k] <= 1
        PROVE  ends[writers'[k]] \subseteq events[writers'[k]]
    <3>1. CASE k \in 1..Len(writers)
      <4>1. SoleWriter(writers[k]) /\ fileNum[k] <= 1 /\ writers'[k] = writers[k]
        <5>1. writers'[k] = writers[k] /\ fileNum'[k] = fileNum[k] BY <3>1, <2>1
        <5>2. SoleWriter(writers[k]) BY <5>1, <2>1, <2>5 DEF SoleWriter
        <5> QED BY <5>1, <5>2, <2>5
      <4>2. EndsKept(writers[k]) BY <3>1, <4>1 DEF IInv, ConfigInv
      <4> QED BY <4>1, <4>2, <2>2 DEF EndsKept, EndPhase
    <3>2. CASE k = Len(writers) + 1
      <4>1. ~HasWriter(d)
        <5> SUFFICES ASSUME NEW j \in 1..Len(writers), writers[j] = d PROVE FALSE BY DEF HasWriter
        <5>1. writers'[j] = d /\ writers'[k] = d /\ j # k /\ j \in 1..Len(writers') BY <3>2, <2>1
        <5> QED BY <5>1, <2>5 DEF SoleWriter
      <4>2. added[d] = 0 BY <4>1 DEF IInv, DataInv, WriterInv
      <4>3. ends[d] = {} BY <4>2 DEF IInv, DataInv, NumberInv
      <4> QED BY <3>2, <4>3, <2>1
    <3> QED BY <3>1, <3>2, <2>1
  <2>6. ASSUME NEW k \in 1..Len(writers'), SoleWriter(writers[k])', fileNum'[k] <= 1
        PROVE  EndsKept(writers[k])'
    BY <2>2, <2>5, <2>6 DEF EndsKept
  <2> QED BY <2>4, <2>6 DEF ConfigInv
<1>2. ASSUME StartedBefore PROVE ConfigInv'
  BY <1>2, ConfigFrame DEF EndPhase, Quiet, Prepare, StartedBefore
<1>3. ASSUME StartWriteThread PROVE ConfigInv'
  BY <1>3, ConfigFrame DEF EndPhase, Quiet, Prepare, StartWriteThread, Joinable
<1>4. ASSUME StartOffload PROVE ConfigInv'
  BY <1>4, ConfigFrame DEF EndPhase, Quiet, StartOffload
<1>5. ASSUME NEW d \in Devices, Reload(d) PROVE ConfigInv'
  BY <1>5, ConfigFrame DEF EndPhase, Quiet, Reload
<1>6. ASSUME ReloadSame PROVE ConfigInv'
  BY <1>6, ConfigFrame DEF EndPhase, Quiet, ReloadSame
<1>7. ASSUME MarkXclbinEnd PROVE ConfigInv'
  <2>1. /\ \A x \in Devices : ends'[x] = IF x = target THEN ends[x] \cup {added[x] + 1} ELSE ends[x]
        /\ \A x \in Devices : events'[x] = IF x = target THEN events[x] \cup {added[x] + 1} ELSE events[x]
        /\ written' = written /\ fileNum' = fileNum /\ writers' = writers /\ main = "reload"
        /\ \A x \in Devices : added[x] \in Nat
    BY <1>7 DEF MarkXclbinEnd, IInv, TypeOK
  <2>2. ASSUME NEW r \in written PROVE ConfigIndex(ends'[r.dev], r.ev) = ConfigIndex(ends[r.dev], r.ev)
    <3>1. r.dev \in Devices BY DEF IInv, TypeOK
    <3>2. r.ev \in 1..added[r.dev] BY DEF IInv, DataInv, LineInv
    <3>3. ~(added[r.dev] + 1 < r.ev) BY <3>1, <3>2, <2>1
    <3>4. {x \in ends'[r.dev] : x < r.ev} = {x \in ends[r.dev] : x < r.ev} BY <3>1, <3>3, <2>1
    <3> QED BY <3>4 DEF ConfigIndex
  <2>3. \A x : SoleWriter(x)' = SoleWriter(x) BY <2>1 DEF SoleWriter
  <2>4. FirstFileRight' BY <2>1, <2>2, <2>3 DEF IInv, ConfigInv, FirstFileRight
  <2>5. ASSUME NEW k \in 1..Len(writers), SoleWriter(writers[k]), fileNum[k] <= 1
        PROVE  ends'[writers[k]] \subseteq events'[writers[k]]
    <3>1. writers[k] \in Devices BY DEF IInv, TypeOK
    <3>2. ends[writers[k]] \subseteq events[writers[k]]
      BY <2>1, <2>5 DEF IInv, ConfigInv, EndsKept, EndPhase
    <3> QED BY <3>1, <3>2, <2>1
  <2> QED BY <2>1, <2>3, <2>4, <2>5 DEF ConfigInv, EndsKept
<1>8. ASSUME MarkDump PROVE ConfigInv'
  BY <1>8, ConfigFrame DEF EndPhase, Quiet, MarkDump, Lock
<1>9. ASSUME MarkDumped PROVE ConfigInv'
  BY <1>9, ConfigFrame DEF EndPhase, Quiet, MarkDumped, Unlock
<1>10. ASSUME NEW d \in Devices, AddEvent(d) PROVE ConfigInv'
  <2>1. /\ UNCHANGED <<writers, fileNum, written, ends>> /\ pt[d] = "run"
        /\ \A x \in Devices : events[x] \subseteq events'[x]
    BY <1>10 DEF AddEvent, IInv, TypeOK
  <2>2. \A x : SoleWriter(x)' = SoleWriter(x) BY <2>1 DEF SoleWriter
  <2>3. FirstFileRight' BY <2>1, <2>2 DEF IInv, ConfigInv, FirstFileRight
  <2>4. ASSUME NEW k \in 1..Len(writers), SoleWriter(writers[k]), fileNum[k] <= 1
        PROVE  ends[writers[k]] \subseteq events'[writers[k]]
    <3>1. writers[k] \in Devices BY DEF IInv, TypeOK
    <3>2. ~EndPhase BY <2>1 DEF EndPhase, Quiet
    <3> QED BY <3>1, <3>2, <2>1, <2>4 DEF IInv, ConfigInv, EndsKept
  <2> QED BY <2>1, <2>2, <2>3, <2>4 DEF ConfigInv, EndsKept
<1>11. ASSUME NEW d \in Devices, DumpTrace(d) PROVE ConfigInv'
  BY <1>11, ConfigFrame DEF EndPhase, Quiet, DumpTrace, Lock, Alive
<1>12. ASSUME NEW d \in Devices, DumpDone(d) PROVE ConfigInv'
  BY <1>12, ConfigFrame DEF EndPhase, Quiet, DumpDone, Unlock, Alive
<1>13. ASSUME WriteCheck PROVE ConfigInv'
  BY <1>13, ConfigFrame DEF EndPhase, Quiet, WriteCheck, Alive, WriterOf
<1>14. ASSUME WriteEvents PROVE ConfigInv'
  <2>1. PICK k \in 1..Len(writers), w \in Devices :
          /\ w = writers[k]
          /\ \A x \in Devices : events'[x] = IF x = w THEN {} ELSE events[x]
          /\ \A j \in 1..Len(writers) :
               /\ fileNum[j] \in Nat \ {0}
               /\ fileNum'[j] = IF j = k /\ pass.new THEN fileNum[j] + 1 ELSE fileNum[j]
          /\ written' = written \cup Lines(k)
          /\ UNCHANGED <<main, pt, wt, writers, ends, added>>
    BY <1>14, WriteFacts DEF IInv
  <2>2. TypeOK /\ DataInv BY DEF IInv
  <2>3. \A r \in Lines(k) : /\ r.dev = w /\ r.file = fileNum[k] /\ r.ev \in events[w] \ ends[w]
                             /\ r.config = ConfigIndex(events[w] \cap ends[w], r.ev)
    <3>1. \A r \in Lines(k) : LineIs(k, w, r) BY <2>1, <2>2, LinesFacts
    <3> QED BY <3>1 DEF LineIs
  <2>4. \A x : SoleWriter(x)' = SoleWriter(x) BY <2>1 DEF SoleWriter
  <2>8. FirstFileRight'
    <3>1. ASSUME NEW r \in written', r.file = 1, SoleWriter(r.dev)
          PROVE  r.config = ConfigIndex(ends'[r.dev], r.ev)
      <4>1. CASE r \in written BY <4>1, <3>1, <2>1 DEF IInv, ConfigInv, FirstFileRight
      <4>2. CASE r \in Lines(k)
        <5>1. fileNum[k] <= 1 /\ events[w] # {} /\ r.dev = w BY <4>2, <3>1, <2>3
        <5>2. ends[w] \subseteq events[w] BY <5>1, <3>1, <2>1 DEF IInv, ConfigInv, EndsKept
        <5>3. events[w] \cap ends[w] = ends[w] BY <5>2
        <5> QED BY <5>1, <5>3, <4>2, <2>1, <2>3
      <4> QED BY <4>1, <4>2, <2>1
    <3> QED BY <3>1, <2>4 DEF FirstFileRight
  <2>9. ASSUME NEW j \in 1..Len(writers), SoleWriter(writers[j]), fileNum'[j] <= 1
        PROVE  EndsKept(writers[j])'
    <3>0. writers[j] \in Devices BY DEF IInv, TypeOK
    <3>1. CASE j # k
      <4>1. writers[j] # w BY <3>1, <2>9, <2>1 DEF SoleWriter
      <4>2. EndsKept(writers[j]) BY <3>1, <2>9, <2>1 DEF IInv, ConfigInv
      <4> QED BY <3>0, <4>1, <4>2, <2>1 DEF EndsKept, EndPhase, Quiet
    <3>2. CASE j = k
      <4>1. ~pass.new BY <3>2, <2>9, <2>1
      <4>2. wt = "finalWrite" \/ main = "write" BY <4>1, <1>14 DEF WriteEvents, IInv, LockInv
      <4>3. main \in {"join", "write", "ended", "destroyed"}
        BY <4>2, <1>14 DEF WriteEvents, Alive, IInv, EndInv
      <4>4. Quiet BY <4>3 DEF IInv, EndInv
      <4> QED BY <3>2, <4>3, <4>4, <2>1 DEF EndsKept, EndPhase, Quiet
    <3> QED BY <3>1, <3>2
  <2> QED BY <2>1, <2>4, <2>8, <2>9 DEF ConfigInv
<1>15. ASSUME WtStart PROVE ConfigInv'
  BY <1>15, ConfigFrame DEF EndPhase, Quiet, WtStart, Alive
<1>16. ASSUME WtWake PROVE ConfigInv'
  BY <1>16, ConfigFrame DEF EndPhase, Quiet, WtWake, Alive
<1>17. ASSUME WtTry PROVE ConfigInv'
  BY <1>17, ConfigFrame DEF EndPhase, Quiet, WtTry, Lock, Alive
<1>18. ASSUME WtFinal PROVE ConfigInv'
  BY <1>18, ConfigFrame DEF EndPhase, Quiet, WtFinal, Lock, Alive
<1>19. ASSUME WtDone PROVE ConfigInv'
  BY <1>19, ConfigFrame DEF EndPhase, Quiet, WtDone, Unlock, Alive
<1>20. ASSUME BeginEnd PROVE ConfigInv'
  BY <1>20, ConfigFrame DEF EndPhase, Quiet, BeginEnd
<1>21. ASSUME NEW d \in Devices, FlushRead(d) PROVE ConfigInv'
  BY <1>21, ConfigFrame DEF EndPhase, Quiet, FlushRead, FlushAt
<1>22. ASSUME NEW d \in Devices, FlushDone(d) PROVE ConfigInv'
  BY <1>22, ConfigFrame DEF EndPhase, Quiet, FlushDone, FlushAt
<1>23. ASSUME EndWriteStop PROVE ConfigInv'
  BY <1>23, ConfigFrame DEF EndPhase, Quiet, EndWriteStop, Flushed
<1>24. ASSUME EndWriteJoin PROVE ConfigInv'
  BY <1>24, ConfigFrame DEF EndPhase, Quiet, EndWriteJoin
<1>25. ASSUME EndWriteInactive PROVE ConfigInv'
  BY <1>25, ConfigFrame DEF EndPhase, Quiet, EndWriteInactive, Flushed
<1>26. ASSUME EndWriteTry PROVE ConfigInv'
  BY <1>26, ConfigFrame DEF EndPhase, Quiet, EndWriteTry, Lock
<1>27. ASSUME EndWriteDone PROVE ConfigInv'
  BY <1>27, ConfigFrame DEF EndPhase, Quiet, EndWriteDone, Unlock
<1>28. ASSUME Destroy PROVE ConfigInv'
  BY <1>28, ConfigFrame DEF EndPhase, Quiet, Destroy, Joinable
<1>29. ASSUME Gone PROVE ConfigInv'
  BY <1>29, ConfigFrame DEF EndPhase, Quiet, Gone, vars
<1>30. ASSUME UNCHANGED vars PROVE ConfigInv'
  BY <1>30, ConfigFrame DEF EndPhase, Quiet, vars
<1>31. ASSUME WriterOnly PROVE ConfigInv'
  BY <1>31, ConfigFrame DEF EndPhase, Quiet, WriterOnly
<1>32. ASSUME NEW d \in Devices, LoadDevice(d) PROVE ConfigInv'
  BY <1>32, ConfigFrame DEF EndPhase, Quiet, LoadDevice
<1> QED
  BY <1>1, <1>2, <1>3, <1>4, <1>5, <1>6, <1>7, <1>8, <1>9, <1>10, <1>11, <1>12, <1>13, <1>14, <1>15, <1>16, <1>17, <1>18, <1>19, <1>20, <1>21, <1>22, <1>23, <1>24, <1>25, <1>26, <1>27, <1>28, <1>29, <1>30, <1>31, <1>32
     DEF Next, Load, Loading, Process, Write, WtStep, Flush, EndWrite

-----------------------------------------------------------------------------
(* The final write                                                         *)

\* Every step keeps what the final write has emptied empty.
LEMMA FinalStep ==
  IInv /\ [Next]_vars => FinalInv'
<1> SUFFICES ASSUME IInv, [Next]_vars PROVE FinalInv'
  OBVIOUS
<1> USE DEF dbVars, fileVars, lockVars, flagVars, optVars
<1>1. ASSUME NEW d \in Devices, CreateWriters(d) PROVE FinalInv'
  BY <1>1 DEF IInv, LockInv, OneWriter, EndInv, FinalInv, Joinable, Prepare, CreateWriters
<1>2. ASSUME StartedBefore PROVE FinalInv'
  BY <1>2 DEF IInv, EndInv, FinalInv, Joinable, Prepare, StartedBefore
<1>3. ASSUME StartWriteThread PROVE FinalInv'
  BY <1>3 DEF IInv, EndInv, FinalInv, Joinable, Prepare, StartWriteThread
<1>4. ASSUME StartOffload PROVE FinalInv'
  BY <1>4 DEF IInv, TypeOK, LockInv, OneWriter, Writing, EndInv, Quiet, FinalInv, Joinable, StartOffload
<1>5. ASSUME NEW d \in Devices, Reload(d) PROVE FinalInv'
  BY <1>5 DEF IInv, TypeOK, LockInv, OneWriter, Writing, EndInv, Quiet, FinalInv, Joinable, Reload
<1>6. ASSUME ReloadSame PROVE FinalInv'
  BY <1>6 DEF IInv, TypeOK, LockInv, OneWriter, Writing, EndInv, Quiet, FinalInv, Joinable, ReloadSame
<1>7. ASSUME MarkXclbinEnd PROVE FinalInv'
  BY <1>7 DEF IInv, TypeOK, LockInv, OneWriter, Writing, EndInv, Quiet, FinalInv, Joinable, MarkXclbinEnd
<1>8. ASSUME MarkDump PROVE FinalInv'
  BY <1>8 DEF IInv, TypeOK, LockInv, OneWriter, Writing, EndInv, Quiet, FinalInv, Joinable, MarkDump, Lock
<1>9. ASSUME MarkDumped PROVE FinalInv'
  BY <1>9 DEF IInv, TypeOK, LockInv, OneWriter, Writing, EndInv, Quiet, FinalInv, Joinable, MarkDumped, Unlock
<1>10. ASSUME NEW d \in Devices, AddEvent(d) PROVE FinalInv'
  BY <1>10 DEF IInv, TypeOK, LockInv, OneWriter, Writing, EndInv, Quiet, FinalInv, Joinable, AddEvent, Alive
<1>11. ASSUME NEW d \in Devices, DumpTrace(d) PROVE FinalInv'
  BY <1>11 DEF IInv, TypeOK, LockInv, OneWriter, Writing, EndInv, Quiet, FinalInv, Joinable, DumpTrace, Lock, Alive
<1>12. ASSUME NEW d \in Devices, DumpDone(d) PROVE FinalInv'
  BY <1>12 DEF IInv, TypeOK, LockInv, OneWriter, Writing, EndInv, Quiet, FinalInv, Joinable, DumpDone, Unlock, Alive
<1>13. ASSUME WriteCheck PROVE FinalInv'
  <2>1. events' = events /\ writers' = writers /\ wt' = wt /\ main' = main
    BY <1>13 DEF WriteCheck
  <2>2. pass.i \in Nat \ {0} /\ Len(writers) \in Nat /\ pass'.last = pass.last
    BY <1>13 DEF WriteCheck, IInv, TypeOK, Pass
  <2>3. \/ pass'.i = pass.i
        \/ pass'.i = pass.i + 1 /\ events[writers[pass.i]] = {}
    BY <1>13 DEF WriteCheck, WriterOf, IInv, TypeOK, Pass
  <2>4. ASSUME wt = "finalWrite" \/ main = "write"
        PROVE  /\ pass'.last = Len(writers)
               /\ \A k \in 1..(pass'.i - 1) : k <= Len(writers) => events[writers[k]] = {}
    <3>1. /\ pass.last = Len(writers)
          /\ \A k \in 1..(pass.i - 1) : k <= Len(writers) => events[writers[k]] = {}
      BY <2>4 DEF IInv, FinalInv
    <3>2. ASSUME NEW k \in 1..(pass'.i - 1), k <= Len(writers) PROVE events[writers[k]] = {}
      <4>1. CASE k \in 1..(pass.i - 1) BY <4>1, <3>1, <3>2
      <4>2. CASE k \notin 1..(pass.i - 1)
        <5>1. pass'.i = pass.i + 1 /\ k = pass.i BY <4>2, <2>2, <2>3
        <5>2. pass'.i # pass.i BY <5>1, <2>2
        <5> QED BY <5>1, <5>2, <2>3
      <4> QED BY <4>1, <4>2
    <3> QED BY <3>1, <3>2, <2>2
  <2> QED BY <2>1, <2>4 DEF IInv, FinalInv, Joinable
<1>14. ASSUME WriteEvents PROVE FinalInv'
  <2>1. PICK k \in 1..Len(writers), w \in Devices :
          /\ k = pass.i /\ w = writers[k]
          /\ \A x \in Devices : events'[x] = IF x = w THEN {} ELSE events[x]
          /\ UNCHANGED <<main, pt, wt, writers, ends, added>>
    BY <1>14, WriteFacts DEF IInv
  <2>7. pass.i \in Nat \ {0} /\ Len(writers) \in Nat /\ pass'.last = pass.last /\ pass'.i = pass.i + 1
    BY <1>14 DEF WriteEvents, IInv, TypeOK, Pass
  <2>8. \A j \in 1..Len(writers) : writers[j] \in Devices BY DEF IInv, TypeOK
  <2>9. ASSUME wt = "finalWrite" \/ main = "write"
        PROVE  /\ pass'.last = Len(writers)
               /\ \A j \in 1..(pass'.i - 1) : j <= Len(writers) => events'[writers[j]] = {}
    <3>1. pass.last = Len(writers) BY <2>9 DEF IInv, FinalInv
    <3>2. ASSUME NEW j \in 1..(pass'.i - 1), j <= Len(writers) PROVE events'[writers[j]] = {}
      <4>1. j \in 1..Len(writers) BY <3>2, <2>7
      <4>2. CASE j = pass.i BY <4>2, <2>1
      <4>3. CASE j # pass.i
        <5>1. j \in 1..(pass.i - 1) BY <4>3, <2>7
        <5>2. events[writers[j]] = {} BY <5>1, <3>2, <2>9 DEF IInv, FinalInv
        <5> QED BY <5>2, <4>1, <2>1, <2>8
      <4> QED BY <4>2, <4>3
    <3> QED BY <3>1, <3>2, <2>7
  <2>10. (\A x \in Devices : events[x] = {}) => \A x \in Devices : events'[x] = {} BY <2>1
  <2> QED BY <2>1, <2>9, <2>10 DEF IInv, FinalInv, Joinable
<1>15. ASSUME WtStart PROVE FinalInv'
  BY <1>15 DEF IInv, TypeOK, LockInv, OneWriter, Writing, EndInv, Quiet, FinalInv, Joinable, WtStart, Alive
<1>16. ASSUME WtWake PROVE FinalInv'
  BY <1>16 DEF IInv, TypeOK, LockInv, OneWriter, Writing, EndInv, Quiet, FinalInv, Joinable, WtWake, Alive
<1>17. ASSUME WtTry PROVE FinalInv'
  BY <1>17 DEF IInv, TypeOK, LockInv, OneWriter, Writing, EndInv, Quiet, FinalInv, Joinable, WtTry, Lock, Alive
<1>18. ASSUME WtFinal PROVE FinalInv'
  BY <1>18 DEF IInv, TypeOK, LockInv, OneWriter, Writing, EndInv, Quiet, FinalInv, Joinable, WtFinal, Lock, Alive
<1>19. ASSUME WtDone PROVE FinalInv'
  <2>1. events' = events /\ writers' = writers /\ main' = main /\ pass' = pass
    BY <1>19 DEF WtDone, Unlock
  <2>2. main # "write" BY <1>19 DEF WtDone, IInv, LockInv, OneWriter
  <2>3. wt' \in {"wait", "done"} /\ (wt' = "done" => wt = "finalWrite") BY <1>19 DEF WtDone
  <2>4. wt = "finalWrite" => \A x \in Devices : events[x] = {}
    BY <1>19, PassEmpties DEF WtDone, Unlock, IInv, DataInv
  <2> QED BY <2>1, <2>2, <2>3, <2>4 DEF IInv, FinalInv, Joinable
<1>20. ASSUME BeginEnd PROVE FinalInv'
  BY <1>20 DEF IInv, TypeOK, LockInv, OneWriter, Writing, EndInv, Quiet, FinalInv, Joinable, BeginEnd
<1>21. ASSUME NEW d \in Devices, FlushRead(d) PROVE FinalInv'
  BY <1>21 DEF IInv, TypeOK, LockInv, OneWriter, Writing, EndInv, Quiet, FinalInv, Joinable, FlushRead, FlushAt
<1>22. ASSUME NEW d \in Devices, FlushDone(d) PROVE FinalInv'
  BY <1>22 DEF IInv, TypeOK, LockInv, OneWriter, Writing, EndInv, Quiet, FinalInv, Joinable, FlushDone, FlushAt
<1>23. ASSUME EndWriteStop PROVE FinalInv'
  BY <1>23 DEF IInv, TypeOK, LockInv, OneWriter, Writing, EndInv, Quiet, FinalInv, Joinable, EndWriteStop, Flushed
<1>24. ASSUME EndWriteJoin PROVE FinalInv'
  BY <1>24 DEF IInv, TypeOK, LockInv, OneWriter, Writing, EndInv, Quiet, FinalInv, Joinable, EndWriteJoin
<1>25. ASSUME EndWriteInactive PROVE FinalInv'
  BY <1>25 DEF IInv, TypeOK, LockInv, OneWriter, Writing, EndInv, Quiet, FinalInv, Joinable, EndWriteInactive, Flushed
<1>26. ASSUME EndWriteTry PROVE FinalInv'
  <2>1. events' = events /\ writers' = writers /\ wt' = wt /\ main = "try" /\ Quiet
    BY <1>26 DEF EndWriteTry, IInv, EndInv
  <2>2. CASE mtx_writer_list
    <3>1. Writing BY <2>2 DEF IInv, LockInv
    <3>2. wt \in {"write", "finalWrite"} BY <3>1, <2>1 DEF Writing, Quiet
    <3>3. main' = "ended" /\ pass' = pass /\ wt # "done" BY <1>26, <2>2, <3>2 DEF EndWriteTry
    <3> QED BY <2>1, <3>2, <3>3 DEF IInv, FinalInv, Joinable
  <2>3. CASE ~mtx_writer_list
    <3>1. main' = "write" /\ pass' = [new |-> FALSE, i |-> 1, last |-> Len(writers), pc |-> "next"]
      BY <1>26, <2>3 DEF EndWriteTry, Lock
    <3>2. pass'.last = Len(writers) /\ pass'.i = 1 BY <3>1
    <3> QED BY <2>1, <3>1, <3>2 DEF IInv, FinalInv
  <2> QED BY <2>2, <2>3
<1>27. ASSUME EndWriteDone PROVE FinalInv'
  <2>1. /\ events' = events /\ writers' = writers /\ wt' = wt /\ pass' = pass
        /\ main = "write" /\ main' = "ended"
    BY <1>27 DEF EndWriteDone, Unlock
  <2>2. \A x \in Devices : events[x] = {}
    BY <1>27, PassEmpties DEF EndWriteDone, Unlock, IInv, DataInv
  <2>3. wt \notin {"write", "finalWrite"} BY <2>1 DEF IInv, LockInv, OneWriter
  <2> QED BY <2>1, <2>2, <2>3 DEF IInv, FinalInv
<1>28. ASSUME Destroy PROVE FinalInv'
  BY <1>28 DEF IInv, TypeOK, LockInv, OneWriter, Writing, EndInv, Quiet, FinalInv, Joinable, Destroy
<1>29. ASSUME Gone PROVE FinalInv'
  BY <1>29 DEF IInv, TypeOK, LockInv, OneWriter, Writing, EndInv, Quiet, FinalInv, Joinable, Gone, vars
<1>30. ASSUME UNCHANGED vars PROVE FinalInv'
  BY <1>30 DEF IInv, TypeOK, LockInv, OneWriter, Writing, EndInv, Quiet, FinalInv, Joinable, vars
<1>31. ASSUME WriterOnly PROVE FinalInv'
  BY <1>31 DEF IInv, TypeOK, FinalInv, Joinable, WriterOnly
<1>32. ASSUME NEW d \in Devices, LoadDevice(d) PROVE FinalInv'
  BY <1>32 DEF IInv, TypeOK, FinalInv, Joinable, LoadDevice
<1> QED
  BY <1>1, <1>2, <1>3, <1>4, <1>5, <1>6, <1>7, <1>8, <1>9, <1>10, <1>11, <1>12, <1>13, <1>14, <1>15, <1>16, <1>17, <1>18, <1>19, <1>20, <1>21, <1>22, <1>23, <1>24, <1>25, <1>26, <1>27, <1>28, <1>29, <1>30, <1>31, <1>32
     DEF Next, Load, Loading, Process, Write, WtStep, Flush, EndWrite

-----------------------------------------------------------------------------
(* Files without a line                                                    *)

\* the files that writer k has left without a line, and the XCLBIN_END
\* events of device d that a writer has taken
EmptyFiles(k) == {n \in 1..(fileNum[k] - 1) : \A r \in written : r.by = k => r.file # n}
TakenEnds(d) == ends[d] \ events[d]
Balanced(k) == Cardinality(EmptyFiles(k)) <= Cardinality(TakenEnds(writers[k]))

\* the check for events holds until the writer moves them: no other thread
\* can take them in between
MoveInv == pass.pc = "move" /\ pass.new => events[WriterOf] # {}

EmptyInv == NoEmptyFile /\ MoveInv

\* The property, in these terms.
LEMMA EmptyMeans ==
  NoEmptyFile <=> \A k \in 1..Len(writers) : writers[k] \notin NoPlFirst => Balanced(k)
BY DEF NoEmptyFile, Balanced, EmptyFiles, TakenEnds

\* Both sets are finite.
LEMMA EmptyFinite ==
  ASSUME IInv, NEW k \in 1..Len(writers), NEW d \in Devices
  PROVE  IsFiniteSet(EmptyFiles(k)) /\ IsFiniteSet(TakenEnds(d))
<1>1. fileNum[k] - 1 \in Int /\ added[d] \in Int /\ 1 \in Int
  BY DEF IInv, TypeOK, DataInv, WriterInv
<1>2. IsFiniteSet(1..(fileNum[k] - 1)) /\ IsFiniteSet(1..added[d]) BY <1>1, FS_Interval, Zenon
<1>3. EmptyFiles(k) \subseteq 1..(fileNum[k] - 1) BY DEF EmptyFiles
<1>4. TakenEnds(d) \subseteq 1..added[d] BY DEF TakenEnds, IInv, DataInv, NumberInv
<1> QED BY <1>2, <1>3, <1>4, FS_Subset

\* A set that does not grow stays no larger than one that does not shrink.
LEMMA BalanceKept ==
  ASSUME NEW E, NEW X, NEW F, NEW Y, IsFiniteSet(E), IsFiniteSet(X), IsFiniteSet(Y),
         Cardinality(E) <= Cardinality(X), F \subseteq E, X \subseteq Y
  PROVE  Cardinality(F) <= Cardinality(Y)
<1>1. IsFiniteSet(F) /\ Cardinality(F) <= Cardinality(E) BY FS_Subset
<1>2. Cardinality(X) <= Cardinality(Y) BY FS_Subset
<1>3. /\ Cardinality(E) \in Nat /\ Cardinality(F) \in Nat
      /\ Cardinality(X) \in Nat /\ Cardinality(Y) \in Nat
  BY <1>1, FS_CardinalityType
<1> QED BY <1>1, <1>2, <1>3

\* So does one that gains an element when the other gains one too.
LEMMA BalanceGains ==
  ASSUME NEW E, NEW X, NEW F, NEW Y, NEW n, NEW x,
         IsFiniteSet(E), IsFiniteSet(X), IsFiniteSet(Y),
         Cardinality(E) <= Cardinality(X), F \subseteq E \cup {n},
         X \cup {x} \subseteq Y, x \notin X
  PROVE  Cardinality(F) <= Cardinality(Y)
<1>1. /\ IsFiniteSet(E \cup {n})
      /\ Cardinality(E \cup {n}) = Cardinality(E) \/ Cardinality(E \cup {n}) = Cardinality(E) + 1
  BY FS_AddElement
<1>2. IsFiniteSet(X \cup {x}) /\ Cardinality(X \cup {x}) = Cardinality(X) + 1 BY FS_AddElement
<1>3. Cardinality(E) \in Nat /\ Cardinality(X) \in Nat BY FS_CardinalityType
<1>4. Cardinality(E \cup {n}) <= Cardinality(X \cup {x}) BY <1>1, <1>2, <1>3
<1> QED BY <1>1, <1>2, <1>4, BalanceKept

\* A step that moves no event and opens no file keeps the balance.
LEMMA EmptyFrame ==
  ASSUME IInv, EmptyInv, UNCHANGED <<events, ends, fileNum, written>>,
         writers' = writers, pass' = pass \/ pass'.pc = "next"
  PROVE  EmptyInv'
<1>1. NoEmptyFile' BY DEF EmptyInv, NoEmptyFile
<1>2. MoveInv' BY DEF EmptyInv, MoveInv, WriterOf
<1> QED BY <1>1, <1>2 DEF EmptyInv

\* The writer that moves the events of its device either puts a line in its
\* file or takes an XCLBIN_END.
LEMMA EmptyWrite ==
  ASSUME IInv, IInv', EmptyInv, WriteEvents
  PROVE  EmptyInv'
<1>0. PICK k \in 1..Len(writers), w \in Devices :
        /\ k = pass.i /\ w = writers[k]
        /\ \A x \in Devices : events'[x] = IF x = w THEN {} ELSE events[x]
        /\ \A j \in 1..Len(writers) :
             /\ fileNum[j] \in Nat \ {0}
             /\ fileNum'[j] = IF j = k /\ pass.new THEN fileNum[j] + 1 ELSE fileNum[j]
        /\ written' = written \cup Lines(k)
        /\ UNCHANGED <<main, pt, wt, writers, ends, added>>
  BY WriteFacts DEF IInv
<1>1. pass.pc = "move" /\ w = WriterOf BY <1>0 DEF WriteEvents, WriterOf
<1>2. TypeOK /\ DataInv BY DEF IInv
<1>3. LinesEach(k, w) BY <1>0, <1>2, LinesFacts
<1>5. pass'.pc = "next" BY DEF WriteEvents, IInv, TypeOK, Pass
<1>6. ASSUME NEW j \in 1..Len(writers), writers[j] \notin NoPlFirst
      PROVE  Cardinality(EmptyFiles(j)') <= Cardinality(TakenEnds(writers[j])')
  <2>0. PICK d \in Devices : d = writers[j]
    <3>1. writers \in Seq(Devices) BY <1>2 DEF TypeOK
    <3>2. writers[j] \in Devices BY <3>1, <1>6
    <3> QED BY <3>2
  <2>1. /\ IsFiniteSet(EmptyFiles(j)) /\ IsFiniteSet(TakenEnds(d)) /\ IsFiniteSet(TakenEnds(d)')
        /\ Cardinality(EmptyFiles(j)) <= Cardinality(TakenEnds(d))
    <3>1. IsFiniteSet(EmptyFiles(j)) /\ IsFiniteSet(TakenEnds(d)) BY EmptyFinite
    <3>2. IsFiniteSet(TakenEnds(d)')
      <4>1. added'[d] \in Nat BY DEF IInv, TypeOK
      <4>2. IsFiniteSet(1..added'[d]) BY <4>1, FS_Interval
      <4>3. TakenEnds(d)' \subseteq 1..added'[d] BY DEF TakenEnds, IInv, DataInv, NumberInv
      <4> QED BY <4>2, <4>3, FS_Subset
    <3>3. Cardinality(EmptyFiles(j)) <= Cardinality(TakenEnds(d))
      BY <1>6, <2>0, EmptyMeans DEF EmptyInv, Balanced
    <3> QED BY <3>1, <3>2, <3>3
  <2>2. TakenEnds(d) \subseteq TakenEnds(d)' BY <1>0 DEF TakenEnds
  <2>5. TakenEnds(writers[j])' = TakenEnds(d)' BY <1>0, <2>0
  <2>3. CASE j # k \/ ~pass.new
    <3>1. EmptyFiles(j)' \subseteq EmptyFiles(j) BY <2>3, <1>0 DEF EmptyFiles
    <3> QED BY <2>1, <2>2, <2>5, <3>1, BalanceKept
  <2>4. CASE j = k /\ pass.new
    <3>1. EmptyFiles(j)' \subseteq EmptyFiles(j) \cup {fileNum[j]}
      BY <2>4, <1>0 DEF EmptyFiles
    <3>0. d = w /\ w \notin NoPlFirst BY <1>0, <1>6, <2>0, <2>4
    <3>2. CASE events[w] \ ends[w] # {}
      <4>1. PICK r \in Lines(k) : r.by = k /\ r.file = fileNum[k] BY <3>0, <3>2, <1>3 DEF LinesEach
      <4>2. fileNum[j] \notin EmptyFiles(j)' BY <4>1, <2>4, <1>0 DEF EmptyFiles
      <4>3. EmptyFiles(j)' \subseteq EmptyFiles(j) BY <3>1, <4>2
      <4> QED BY <2>1, <2>2, <2>5, <4>3, BalanceKept
    <3>3. CASE events[w] \ ends[w] = {}
      <4>1. PICK x \in events[w] : x \in ends[w]
        BY <3>3, <2>4, <1>1 DEF EmptyInv, MoveInv
      <4>2. x \notin TakenEnds(d) /\ x \in TakenEnds(d)' BY <4>1, <3>0, <1>0 DEF TakenEnds
      <4>3. TakenEnds(d) \cup {x} \subseteq TakenEnds(d)' BY <2>2, <4>2
      <4> QED BY <2>1, <2>5, <3>1, <4>2, <4>3, BalanceGains
    <3> QED BY <3>2, <3>3
  <2> QED BY <2>3, <2>4
<1>7. NoEmptyFile'
  <2>1. \A j \in 1..Len(writers) : writers[j] \notin NoPlFirst => Balanced(j)' BY <1>6 DEF Balanced
  <2>2. writers' = writers BY <1>0
  <2> QED BY <2>1, <2>2 DEF NoEmptyFile, Balanced, EmptyFiles, TakenEnds
<1>8. MoveInv' BY <1>5 DEF MoveInv
<1> QED BY <1>7, <1>8 DEF EmptyInv

\* Every step keeps the balance.
LEMMA EmptyStep ==
  ASSUME IInv, IInv', EmptyInv, [Next]_vars
  PROVE  EmptyInv'
<1> USE DEF dbVars, fileVars, lockVars, flagVars, optVars
<1>1. ASSUME NEW d \in Devices, CreateWriters(d) PROVE EmptyInv'
  <2>1. /\ UNCHANGED <<events, ends, written, pass>> /\ Len(writers) \in Nat
        /\ Len(writers') = Len(writers) + 1 /\ fileNum'[Len(writers) + 1] = 1
        /\ \A k \in 1..Len(writers) : writers'[k] = writers[k] /\ fileNum'[k] = fileNum[k]
    <3>1. writers \in Seq(Devices) /\ fileNum \in Seq(Nat) /\ Len(fileNum) = Len(writers)
      BY DEF IInv, TypeOK, DataInv, WriterInv
    <3> QED BY <1>1, <3>1 DEF CreateWriters
  <2>2. ASSUME NEW k \in 1..Len(writers'), writers'[k] \notin NoPlFirst PROVE Balanced(k)'
    <3>1. CASE k \in 1..Len(writers)
      <4>1. EmptyFiles(k)' = EmptyFiles(k) BY <2>1, <3>1 DEF EmptyFiles
      <4>2. TakenEnds(writers[k])' = TakenEnds(writers[k]) BY <2>1, <3>1 DEF TakenEnds
      <4>3. Balanced(k) BY <2>1, <2>2, <3>1, EmptyMeans DEF EmptyInv
      <4> QED BY <4>1, <4>2, <4>3 DEF Balanced
    <3>2. CASE k = Len(writers) + 1
      <4>1. EmptyFiles(k)' = {} BY <2>1, <3>2 DEF EmptyFiles
      <4>2. PICK x \in Devices : x = writers'[k]
        <5>1. writers' \in Seq(Devices) BY DEF IInv, TypeOK
        <5> QED BY <5>1
      <4>3. TakenEnds(x)' \subseteq 1..added'[x] /\ added'[x] \in Nat
        BY DEF TakenEnds, IInv, TypeOK, DataInv, NumberInv
      <4>4. IsFiniteSet(TakenEnds(x)')
        <5>1. 0 \in Int /\ added'[x] \in Int BY <4>3
        <5>2. IsFiniteSet(1..added'[x]) BY <5>1, FS_Interval
        <5> QED BY <5>2, <4>3, FS_Subset
      <4>5. Cardinality(TakenEnds(x)') \in Nat BY <4>4, FS_CardinalityType
      <4>6. Cardinality(EmptyFiles(k)') = 0 BY <4>1, FS_EmptySet
      <4>7. TakenEnds(writers[k])' = TakenEnds(x)' BY <4>2
      <4> QED BY <4>5, <4>6, <4>7 DEF Balanced
    <3> QED BY <2>1, <3>1, <3>2
  <2>3. NoEmptyFile' BY <2>2 DEF NoEmptyFile, Balanced, EmptyFiles, TakenEnds
  <2>4. MoveInv'
    <3> SUFFICES ASSUME pass.pc = "move", pass.new PROVE events[WriterOf'] # {}
      BY <2>1 DEF MoveInv
    <3>1. pass.i \in 1..Len(writers) BY WriterType DEF IInv
    <3>2. WriterOf' = WriterOf BY <2>1, <3>1 DEF WriterOf
    <3> QED BY <3>2 DEF EmptyInv, MoveInv
  <2> QED BY <2>3, <2>4 DEF EmptyInv
<1>2. ASSUME NEW d \in Devices, UNCHANGED <<writers, pass, fileNum, written>>,
             events' = [events EXCEPT ![d] = @ \cup {added[d] + 1}],
             ends' = ends \/ ends' = [ends EXCEPT ![d] = @ \cup {added[d] + 1}]
      PROVE  EmptyInv'
  <2>1. ASSUME NEW x \in Devices PROVE TakenEnds(x)' = TakenEnds(x)
    <3>1. added[d] \in Nat /\ ends[d] \subseteq 1..added[d] BY DEF IInv, TypeOK, DataInv, NumberInv
    <3>2. added[d] + 1 \notin ends[d] BY <3>1
    <3>3. events'[x] = IF x = d THEN events[x] \cup {added[d] + 1} ELSE events[x]
      BY <1>2 DEF IInv, TypeOK
    <3>4. \/ ends'[x] = ends[x]
          \/ x = d /\ ends'[x] = ends[x] \cup {added[d] + 1}
      BY <1>2 DEF IInv, TypeOK
    <3> QED BY <3>2, <3>3, <3>4 DEF TakenEnds
  <2>2. NoEmptyFile'
    <3>1. ASSUME NEW k \in 1..Len(writers), Balanced(k) PROVE Balanced(k)'
      <4>1. EmptyFiles(k)' = EmptyFiles(k) BY <1>2 DEF EmptyFiles
      <4>2. PICK x \in Devices : x = writers[k] BY DEF IInv, TypeOK
      <4>3. TakenEnds(writers[k])' = TakenEnds(x)' BY <1>2, <4>2
      <4> QED BY <2>1, <3>1, <4>1, <4>2, <4>3 DEF Balanced
    <3>2. \A k \in 1..Len(writers) : writers[k] \notin NoPlFirst => Balanced(k)'
      BY <3>1, EmptyMeans DEF EmptyInv
    <3> QED BY <1>2, <3>2 DEF NoEmptyFile, Balanced, EmptyFiles, TakenEnds
  <2>3. MoveInv'
    <3> SUFFICES ASSUME pass.pc = "move", pass.new PROVE events'[WriterOf] # {}
      BY <1>2 DEF MoveInv, WriterOf
    <3>1. PICK w \in Devices : w = WriterOf BY WriterType DEF IInv
    <3>2. events[w] # {} BY <3>1 DEF EmptyInv, MoveInv
    <3>3. events[w] \subseteq events'[w] BY <1>2 DEF IInv, TypeOK
    <3> QED BY <3>1, <3>2, <3>3
  <2> QED BY <2>2, <2>3 DEF EmptyInv
<1>3. ASSUME MarkXclbinEnd PROVE EmptyInv'
  <2>1. target \in Devices BY DEF IInv, TypeOK
  <2> QED BY <1>2, <1>3, <2>1 DEF MarkXclbinEnd
<1>4. ASSUME NEW d \in Devices, AddEvent(d) PROVE EmptyInv'
  BY <1>2, <1>4 DEF AddEvent
<1>5. ASSUME WriteCheck PROVE EmptyInv'
  <2>1. NoEmptyFile' BY <1>5 DEF WriteCheck, EmptyInv, NoEmptyFile
  <2>2. pass'.new = pass.new /\ (pass'.pc = "move" => pass'.i = pass.i /\ ~(pass.new /\ events[WriterOf] = {}))
    BY <1>5 DEF WriteCheck, IInv, TypeOK, Pass
  <2>3. MoveInv' BY <1>5, <2>2 DEF WriteCheck, MoveInv, WriterOf
  <2> QED BY <2>1, <2>3 DEF EmptyInv
<1>6. ASSUME WriteEvents PROVE EmptyInv' BY <1>6, EmptyWrite
<1>7. ASSUME \/ StartedBefore \/ StartWriteThread \/ StartOffload \/ WriterOnly \/ ReloadSame
             \/ \E d \in Devices : LoadDevice(d) \/ Reload(d)
      PROVE  EmptyInv'
  BY <1>7, EmptyFrame
     DEF StartedBefore, StartWriteThread, StartOffload, WriterOnly, ReloadSame, LoadDevice, Reload
<1>8. ASSUME MarkDump \/ MarkDumped \/ \E d \in Devices : DumpTrace(d) \/ DumpDone(d)
      PROVE  EmptyInv'
  BY <1>8, EmptyFrame DEF MarkDump, MarkDumped, DumpTrace, DumpDone, Lock, Unlock
<1>9. ASSUME WtStep PROVE EmptyInv'
  BY <1>9, EmptyFrame DEF WtStep, WtStart, WtWake, WtTry, WtFinal, WtDone, Lock, Unlock
<1>10. ASSUME BeginEnd \/ Flush \/ EndWrite \/ Destroy \/ Gone \/ UNCHANGED vars PROVE EmptyInv'
  BY <1>10, EmptyFrame
     DEF BeginEnd, Flush, FlushRead, FlushDone, EndWrite, EndWriteStop, EndWriteJoin,
         EndWriteInactive, EndWriteTry, EndWriteDone, Destroy, Gone, Lock, Unlock, vars
<1> QED
  BY <1>1, <1>3, <1>4, <1>5, <1>6, <1>7, <1>8, <1>9, <1>10
     DEF Next, Load, Loading, Process, Write

-----------------------------------------------------------------------------
(* Lines in their files                                                    *)

\* an application that loads xclbins has one writer for a device
KeptInv == LinesKept /\ (~hw_context_flow => \A d \in Devices : SoleWriter(d))

\* A new writer empties the first file of the others, if there are any.
LEMMA KeptCreate ==
  ASSUME IInv, KeptInv, NEW d \in Devices, CreateWriters(d)
  PROVE  KeptInv'
<1>1. /\ Len(writers') = Len(writers) + 1 /\ Len(writers) \in Nat
      /\ writers'[Len(writers) + 1] = d /\ fileNum'[Len(writers) + 1] = 1
      /\ \A k \in 1..Len(writers) : writers'[k] = writers[k] /\ fileNum'[k] = fileNum[k]
  <2>1. writers \in Seq(Devices) /\ fileNum \in Seq(Nat) /\ Len(fileNum) = Len(writers)
    BY DEF IInv, TypeOK, DataInv, WriterInv
  <2> QED BY <2>1 DEF CreateWriters
<1>2. /\ gone' = gone \cup LinesIn(d, 1) /\ hw_context_flow' = hw_context_flow
      /\ ~hw_context_flow => ~HasWriter(d)
  BY DEF CreateWriters, flagVars, optVars
<1>3. \A r \in written : r.by \in 1..Len(writers) /\ writers[r.by] = r.dev
  BY DEF IInv, DataInv, LineInv
<1>4. ~hw_context_flow => gone' = {}
  <2> SUFFICES ASSUME ~hw_context_flow PROVE LinesIn(d, 1) = {} BY <1>2 DEF KeptInv, LinesKept
  <2> QED BY <1>2, <1>3 DEF LinesIn, HasWriter
<1>5. ASSUME NEW r \in gone'
      PROVE  \E k \in 1..Len(writers') : k # r.by /\ writers'[k] = r.dev /\ r.file <= fileNum'[k]
  <2>1. CASE r \in gone
    <3>1. PICK k \in 1..Len(writers) : k # r.by /\ writers[k] = r.dev /\ r.file <= fileNum[k]
      BY <2>1 DEF KeptInv, LinesKept
    <3>2. k \in 1..Len(writers') BY <1>1
    <3> QED BY <1>1, <3>1, <3>2
  <2>2. CASE r \in LinesIn(d, 1)
    <3>1. r.by \in 1..Len(writers) /\ r.dev = d /\ r.file = 1 BY <1>3, <2>2 DEF LinesIn
    <3>2. Len(writers) + 1 \in 1..Len(writers') /\ Len(writers) + 1 # r.by BY <1>1, <3>1
    <3> QED BY <1>1, <3>1, <3>2
  <2> QED BY <1>2, <2>1, <2>2
<1>6. ASSUME ~hw_context_flow, NEW x \in Devices PROVE SoleWriter(x)'
  <2> SUFFICES ASSUME NEW j \in 1..Len(writers'), NEW k \in 1..Len(writers'), writers'[j] = x, writers'[k] = x
               PROVE  j = k
    BY DEF SoleWriter
  <2>1. SoleWriter(x) BY <1>6 DEF KeptInv
  <2>2. \A i \in 1..Len(writers) : writers[i] # d BY <1>2, <1>6 DEF HasWriter
  <2>3. \A i \in 1..Len(writers') : i \in 1..Len(writers) \/ i = Len(writers) + 1 BY <1>1
  <2> QED BY <1>1, <2>1, <2>2, <2>3 DEF SoleWriter
<1> QED BY <1>2, <1>4, <1>5, <1>6 DEF KeptInv, LinesKept

\* A writer overwrites and empties only what others have written.
LEMMA KeptWrite ==
  ASSUME IInv, KeptInv, WriteEvents
  PROVE  KeptInv'
<1>0. PICK k \in 1..Len(writers), w \in Devices :
        /\ k = pass.i /\ w = writers[k]
        /\ \A j \in 1..Len(writers) :
             /\ fileNum[j] \in Nat \ {0}
             /\ fileNum'[j] = IF j = k /\ pass.new THEN fileNum[j] + 1 ELSE fileNum[j]
        /\ UNCHANGED <<main, pt, wt, writers, ends, added>>
  BY WriteFacts DEF IInv
<1>1. hw_context_flow' = hw_context_flow BY DEF WriteEvents, flagVars, optVars
<1>2. ASSUME NEW r \in gone' \ gone
      PROVE  r \in written /\ r.dev = w /\ r.by # k /\ r.file <= fileNum'[k]
  <2>1. \/ r \in Exposed(k)
        \/ pass.new /\ r \in LinesIn(w, fileNum[k] + 1)
    BY <1>0 DEF WriteEvents, SwitchFiles, StaysInFile
  <2>2. CASE r \in Exposed(k)
    <3>1. r \in written /\ r.dev = w /\ r.by # k /\ r.file = fileNum[k] BY <1>0, <2>2 DEF Exposed, LinesIn
    <3> QED BY <1>0, <3>1
  <2>3. CASE pass.new /\ r \in LinesIn(w, fileNum[k] + 1)
    <3>1. r \in written /\ r.dev = w /\ r.file = fileNum[k] + 1 BY <2>3 DEF LinesIn
    <3>2. r.file <= fileNum[r.by] BY <3>1 DEF IInv, DataInv, LineInv
    <3>3. r.by # k BY <1>0, <3>1, <3>2
    <3> QED BY <1>0, <2>3, <3>1, <3>3
  <2> QED BY <2>1, <2>2, <2>3
<1>3. ASSUME NEW r \in gone'
      PROVE  \E j \in 1..Len(writers') : j # r.by /\ writers'[j] = r.dev /\ r.file <= fileNum'[j]
  <2>1. CASE r \in gone
    <3>1. PICK j \in 1..Len(writers) : j # r.by /\ writers[j] = r.dev /\ r.file <= fileNum[j]
      BY <2>1 DEF KeptInv, LinesKept
    <3>2. r.file \in Nat BY <2>1 DEF IInv, TypeOK
    <3>3. r.file <= fileNum'[j] BY <1>0, <3>1, <3>2
    <3> QED BY <1>0, <3>1, <3>3
  <2>2. CASE r \notin gone BY <1>0, <1>2, <2>2
  <2> QED BY <2>1, <2>2
<1>4. \A x \in Devices : SoleWriter(x)' = SoleWriter(x) BY <1>0 DEF SoleWriter
<1>5. ~hw_context_flow => gone' = {}
  <2> SUFFICES ASSUME ~hw_context_flow, NEW r \in gone' PROVE FALSE OBVIOUS
  <2>1. r \in gone' \ gone BY DEF KeptInv, LinesKept
  <2>2. r \in written /\ r.dev = w /\ r.by # k BY <1>2, <2>1
  <2>3. r.by \in 1..Len(writers) /\ writers[r.by] = w BY <2>2 DEF IInv, DataInv, LineInv
  <2>4. SoleWriter(w) BY DEF KeptInv
  <2> QED BY <1>0, <2>2, <2>3, <2>4 DEF SoleWriter
<1> QED BY <1>1, <1>3, <1>4, <1>5 DEF KeptInv, LinesKept

\* Every other step leaves the files alone.
LEMMA KeptStep ==
  ASSUME IInv, KeptInv, [Next]_vars
  PROVE  KeptInv'
<1> USE DEF dbVars, fileVars, lockVars, flagVars, optVars
<1>1. ASSUME UNCHANGED <<writers, fileNum, gone, hw_context_flow>> PROVE KeptInv'
  <2>1. \A x \in Devices : SoleWriter(x)' = SoleWriter(x) BY <1>1 DEF SoleWriter
  <2>2. LinesKept' BY <1>1 DEF KeptInv, LinesKept
  <2> QED BY <1>1, <2>1, <2>2 DEF KeptInv
<1>2. ASSUME \/ Loading \/ BeginEnd \/ Destroy \/ Gone \/ UNCHANGED vars
             \/ \E d \in Devices : LoadDevice(d) \/ Reload(d)
      PROVE  KeptInv'
  BY <1>1, <1>2
     DEF Loading, StartedBefore, StartWriteThread, StartOffload, WriterOnly, ReloadSame, MarkXclbinEnd,
         MarkDump, MarkDumped, LoadDevice, Reload, BeginEnd, Destroy, Gone, vars
<1>3. ASSUME \/ \E d \in Devices : Process(d)
             \/ WriteCheck \/ WtStep \/ Flush \/ EndWrite
      PROVE  KeptInv'
  BY <1>1, <1>3
     DEF Process, AddEvent, DumpTrace, DumpDone, WriteCheck, WtStep, WtStart, WtWake, WtTry, WtFinal, WtDone,
         Flush, FlushRead, FlushDone, EndWrite, EndWriteStop, EndWriteJoin, EndWriteInactive, EndWriteTry,
         EndWriteDone
<1> QED BY <1>2, <1>3, KeptCreate, KeptWrite DEF Next, Load, Write

-----------------------------------------------------------------------------
(* Theorems                                                                *)

\* The invariant holds in every reachable state of the threads that add and
\* write events.
THEOREM Invariance == Spec => []IInv
<1>1. IInv /\ [Next]_vars => IInv'
  BY TypeStep, LockStep, EndStep, DataStep, ConfigStep, FinalStep DEF IInv
<1> QED BY InitIInv, <1>1, PTL DEF Spec

\* Type correctness of the database, the writers and the write thread.
THEOREM TypeCorrect == Spec => []TypeOK
<1>1. IInv => TypeOK BY DEF IInv
<1> QED BY Invariance, <1>1, PTL

\* moveEvents and the writers never lose or repeat an event, for any number
\* of devices, hardware contexts, events and dumps.
THEOREM EventsOnce == Spec => []OnceEach
<1>1. IInv => OnceEach BY DEF IInv, DataInv
<1> QED BY Invariance, <1>1, PTL

\* A line stays in its file unless another writer of the device, which only
\* a second hardware context makes, has opened that file.
THEOREM LinesStay == Spec => []LinesKept
<1>1. Init => KeptInv BY DEF Init, KeptInv, LinesKept, SoleWriter
<1>2. IInv /\ KeptInv /\ [Next]_vars => KeptInv' BY KeptStep
<1>3. KeptInv => LinesKept BY DEF KeptInv
<1> QED BY Invariance, <1>1, <1>2, <1>3, PTL DEF Spec

\* trySafeWrite and the final write keep the writers to one thread.
THEOREM WritersExclusive == Spec => []OneWriter
<1>1. IInv => OneWriter BY DEF IInv, LockInv
<1> QED BY Invariance, <1>1, PTL

\* endWrite leaves no event in the database and no line in a file that the
\* run summary does not list.
THEOREM EndWriteComplete == Spec => []AllWritten
<1>1. IInv => AllWritten
  BY DEF IInv, TypeOK, DataInv, LineInv, FinalInv, AllWritten
<1> QED BY Invariance, <1>1, PTL

\* The first file of a device with one writer attributes its lines to the
\* right xclbin.
THEOREM FirstFileCorrect == Spec => []FirstFileRight
<1>1. IInv => FirstFileRight BY DEF IInv, ConfigInv
<1> QED BY Invariance, <1>1, PTL

\* A writer that turns to a new file has put a line in the old one, except
\* for one file per XCLBIN_END it took.
THEOREM NoFileLeftEmpty == Spec => []NoEmptyFile
<1>1. Init => EmptyInv
  <2> SUFFICES ASSUME Init PROVE EmptyInv OBVIOUS
  <2>2. NoEmptyFile BY DEF Init, NoEmptyFile
  <2>3. MoveInv BY DEF Init, MoveInv
  <2> QED BY <2>2, <2>3 DEF EmptyInv
<1>2. IInv /\ IInv' /\ EmptyInv /\ [Next]_vars => EmptyInv' BY EmptyStep
<1>3. EmptyInv => NoEmptyFile BY DEF EmptyInv
<1> QED BY Invariance, <1>1, <1>2, <1>3, PTL DEF Spec
=============================================================================
