---------------------------- MODULE TraceWriting ----------------------------
(***************************************************************************)
(* The way of a PL trace event from the database to a file: PLDB, the      *)
(* DeviceTraceWriter of each device, and the write thread of XDPPlugin, as *)
(* PLDeviceOffloadPlugin uses them.                                        *)
(*                                                                         *)
(* Three kinds of threads interleave: the application thread, which loads  *)
(* devices and at the end destroys the plugin or the database (main), the  *)
(* thread that processes the trace of a device and adds its events (pt),   *)
(* and the write thread (wt).  All of them can run the writers, one at a   *)
(* time under mtx_writer_list.  Without continuous trace the processing is *)
(* done by the application thread during the flush: pt then stands for     *)
(* that part of it.                                                        *)
(*                                                                         *)
(* An application either loads xclbins, on any device, or creates hardware *)
(* contexts, which all have device id 0 (here device 1).  The plugin opens *)
(* one writer for a device in the first case and one for every context in  *)
(* the second, and never closes one: the writers of a device then hold the *)
(* same files.  Opening a file empties it, and a writer goes on at its own *)
(* position, so that what another one wrote there may be overwritten: any  *)
(* part of it, in the model.                                               *)
(***************************************************************************)
EXTENDS Integers, Sequences, FiniteSets

CONSTANTS
  NumDevices,
  EventThreshold,   \* PLDB::eventThreshold
  MaxEvents,        \* bound of the model: events per device
  MaxContexts,      \* bound of the model: hardware contexts with a PL half
  NoPlFirst         \* the devices whose first configuration had no PL binary

Devices == 1..NumDevices

ASSUME WritingAssumption ==
  /\ NumDevices \in Nat \ {0}
  /\ EventThreshold \in Nat /\ MaxEvents \in Nat /\ MaxContexts \in Nat
  /\ NoPlFirst \subseteq Devices

VARIABLES
  main,                    \* control state of the application thread
  pt,                      \* control state of the processing of each device
  wt,                      \* control state of write_thread
  writers,                 \* the devices of the plugin's writers, in order
  target,                  \* the device being loaded or reloaded
  events,                  \* PLDB::events of each device, numbered by their time
  ends,                    \* the events that are of type XCLBIN_END
  added,                   \* history: number of events added for each device
  fileNum,                 \* VPWriter::fileNum of each writer
  written,                 \* history: the lines written, with device, writer, file,
                           \*   event and the index of the configuration whose
                           \*   rows they use
  gone,                    \* those that are in their file no more
  opened,                  \* RunSummaryManager::openedFiles
  mtx_writer_list,         \* the mutex is locked
  pass,                    \* the loop over the writers of its holder
  is_write_thread_active,
  stop_writer_thread,
  continuous_trace,        \* the option of that name, which never changes
  hw_context_flow          \* the application's style, which never changes

dbVars == <<events, ends, added>>
fileVars == <<fileNum, written, gone, opened>>
lockVars == <<mtx_writer_list, pass>>
optVars == <<continuous_trace, hw_context_flow>>
flagVars == <<is_write_thread_active, stop_writer_thread, optVars>>

vars == <<main, target, pt, wt, writers, dbVars, fileVars, lockVars, flagVars>>

-----------------------------------------------------------------------------
Init ==
  /\ main = "run" /\ target = 1
  /\ pt = [d \in Devices |-> "none"]
  /\ wt = "none"
  /\ writers = <<>>
  /\ events = [d \in Devices |-> {}] /\ ends = [d \in Devices |-> {}]
  /\ added = [d \in Devices |-> 0]
  /\ fileNum = <<>> /\ written = {} /\ gone = {} /\ opened = {}
  /\ mtx_writer_list = FALSE /\ pass = [new |-> FALSE, i |-> 1, last |-> 0, pc |-> "next"]
  /\ is_write_thread_active = FALSE /\ stop_writer_thread = FALSE
  /\ continuous_trace \in BOOLEAN /\ hw_context_flow \in BOOLEAN

\* the process is gone after std::terminate or a fault
Alive == main # "terminated"

\* std::thread::joinable
Joinable == wt \notin {"none", "joined"}

\* a range-based for takes begin and end of the vector once
Lock(new) ==
  /\ ~mtx_writer_list
  /\ mtx_writer_list' = TRUE
  /\ pass' = [new |-> new, i |-> 1, last |-> Len(writers), pc |-> "next"]

Unlock ==
  /\ mtx_writer_list /\ pass.i > pass.last
  /\ mtx_writer_list' = FALSE
  /\ UNCHANGED pass

-----------------------------------------------------------------------------
(* The application thread loads devices                                    *)

HasWriter(d) == \E k \in 1..Len(writers) : writers[k] = d

\* opening file n of a device empties it
LinesIn(d, n) == {r \in written : r.dev = d /\ r.file = n}

\* a device that has an offloader has to give it up first (clearOffloader)
Prepare(d) == IF pt[d] = "none" THEN "load" ELSE "reload"

\* init makes one writer for every device, once, and updateDevice one for
\* every hardware context.  createWriters pushes it on the list without the
\* lock: when another thread is in its loop over the list, the loop goes on
\* over the old storage or faults
CreateWriters(d) ==
  /\ main = "run"
  /\ IF hw_context_flow THEN d = 1 /\ Len(writers) < MaxContexts ELSE ~HasWriter(d)
  /\ writers' = Append(writers, d)
  /\ fileNum' = Append(fileNum, 1)
  /\ gone' = gone \cup LinesIn(d, 1)
  /\ opened' = opened \cup {<<d, 1>>}
  /\ \/ main' = IF continuous_trace THEN "spawn" ELSE Prepare(d)
     \/ mtx_writer_list /\ main' = "terminated"
  /\ target' = d
  /\ UNCHANGED <<pt, wt, dbVars, written, lockVars, flagVars>>

\* startWriteThread: nothing to do when the thread has marked itself active
StartedBefore ==
  /\ main = "spawn" /\ is_write_thread_active
  /\ main' = Prepare(target)
  /\ UNCHANGED <<target, pt, wt, writers, dbVars, fileVars, lockVars, flagVars>>

\* otherwise the thread is created; to assign it to a thread that can still
\* be joined ends the process
StartWriteThread ==
  /\ main = "spawn" /\ ~is_write_thread_active
  /\ IF Joinable THEN main' = "terminated" /\ UNCHANGED wt
                 ELSE main' = Prepare(target) /\ wt' = "start"
  /\ UNCHANGED <<target, pt, writers, dbVars, fileVars, lockVars, flagVars>>

\* the device gets its offloader
StartOffload ==
  /\ main = "load"
  /\ main' = "run"
  /\ pt' = [pt EXCEPT ![target] = IF continuous_trace THEN "run" ELSE "idle"]
  /\ UNCHANGED <<target, wt, writers, dbVars, fileVars, lockVars, flagVars>>

\* init makes the writers of all devices before any of them is loaded, and
\* updateDevice returns after createWriters when it cannot use the xclbin
WriterOnly ==
  /\ main = "load" /\ pt[target] = "none"
  /\ main' = "run"
  /\ UNCHANGED <<target, pt, wt, writers, dbVars, fileVars, lockVars, flagVars>>

\* updateDevice of a device that has only its writer
LoadDevice(d) ==
  /\ main = "run" /\ ~hw_context_flow /\ HasWriter(d) /\ pt[d] = "none"
  /\ main' = "load" /\ target' = d
  /\ UNCHANGED <<pt, wt, writers, dbVars, fileVars, lockVars, flagVars>>

-----------------------------------------------------------------------------
(* The application thread loads another xclbin on a device: flushDevice,   *)
(* then updateDevice.  For another hardware context updateDevice alone     *)
(* deletes the offloader, which ends its thread; what was not read without *)
(* continuous trace is not processed                                       *)

\* the trace of the old xclbin is flushed: pt processes what is left of it
Reload(d) ==
  /\ main = "run" /\ ~hw_context_flow /\ pt[d] \in {"run", "idle"}
  /\ main' = "reload" /\ target' = d
  /\ pt' = [pt EXCEPT ![d] = "run"]
  /\ UNCHANGED <<wt, writers, dbVars, fileVars, lockVars, flagVars>>

\* it was the same xclbin
ReloadSame ==
  /\ main = "reload" /\ pt[target] \in {"run", "idle"}
  /\ main' = "load"
  /\ pt' = [pt EXCEPT ![target] = "off"]
  /\ UNCHANGED <<target, wt, writers, dbVars, fileVars, lockVars, flagVars>>

OverLimit(es) == Cardinality(es) > EventThreshold

\* markXclbinEnd adds an event of its own
MarkXclbinEnd ==
  /\ main = "reload" /\ pt[target] \in {"run", "idle"} /\ added[target] < MaxEvents
  /\ added' = [added EXCEPT ![target] = @ + 1]
  /\ events' = [events EXCEPT ![target] = @ \cup {added[target] + 1}]
  /\ ends' = [ends EXCEPT ![target] = @ \cup {added[target] + 1}]
  /\ main' = IF OverLimit(events'[target]) THEN "dump" ELSE "load"
  /\ pt' = [pt EXCEPT ![target] = "off"]
  /\ UNCHANGED <<target, wt, writers, fileVars, lockVars, flagVars>>

MarkDump ==
  /\ main = "dump"
  /\ IF mtx_writer_list
     THEN main' = "load" /\ UNCHANGED lockVars
     ELSE main' = "dumpWrite" /\ Lock(TRUE)
  /\ UNCHANGED <<target, pt, wt, writers, dbVars, fileVars, flagVars>>

MarkDumped ==
  /\ main = "dumpWrite"
  /\ Unlock
  /\ main' = "load"
  /\ UNCHANGED <<target, pt, wt, writers, dbVars, fileVars, flagVars>>

-----------------------------------------------------------------------------
(* The processing of the trace of a device                                 *)

\* PLDB::addEvent: the size is compared under eventLock, the message is sent
\* after the lock is released
AddEvent(d) ==
  /\ Alive /\ pt[d] = "run" /\ added[d] < MaxEvents
  /\ added' = [added EXCEPT ![d] = @ + 1]
  /\ events' = [events EXCEPT ![d] = @ \cup {added[d] + 1}]
  /\ pt' = [pt EXCEPT ![d] = IF OverLimit(events'[d]) THEN "dump" ELSE "run"]
  /\ UNCHANGED <<main, target, wt, writers, ends, fileVars, lockVars, flagVars>>

\* DUMP_TRACE reaches trySafeWrite("VP_TRACE", true), which does nothing
\* while another thread is writing
DumpTrace(d) ==
  /\ Alive /\ pt[d] = "dump"
  /\ IF mtx_writer_list
     THEN pt' = [pt EXCEPT ![d] = "run"] /\ UNCHANGED lockVars
     ELSE pt' = [pt EXCEPT ![d] = "write"] /\ Lock(TRUE)
  /\ UNCHANGED <<main, target, wt, writers, dbVars, fileVars, flagVars>>

DumpDone(d) ==
  /\ Alive /\ pt[d] = "write"
  /\ Unlock
  /\ pt' = [pt EXCEPT ![d] = "run"]
  /\ UNCHANGED <<main, target, wt, writers, dbVars, fileVars, flagVars>>

-----------------------------------------------------------------------------
(* DeviceTraceWriter::write, for whichever thread holds the lock           *)

WriterOf == writers[pass.i]

\* the index of the configuration after the XCLBIN_END events in es that
\* come before event e: each of them increments configIndex
ConfigIndex(es, e) == Cardinality({x \in es : x < e})

\* mutant: all lines use the rows of the first xclbin
LinesFirstConfig(k) ==
  {[dev |-> writers[k], by |-> k, file |-> fileNum[k], ev |-> e, config |-> 0] :
     e \in events[writers[k]] \ ends[writers[k]]}

\* writeTraceEvents counts those among the events it has just moved.  An
\* XCLBIN_END itself is not written, and nothing is when the first of all
\* configurations has no PL binary
Lines(k) ==
  LET d == writers[k] IN
  {[dev |-> d, by |-> k, file |-> fileNum[k], ev |-> e,
    config |-> ConfigIndex(events[d] \cap ends[d], e)] :
     e \in IF d \in NoPlFirst THEN {} ELSE events[d] \ ends[d]}

\* what other writers have put in the present file of writer k, where it
\* writes at its own position
Exposed(k) == {r \in LinesIn(writers[k], fileNum[k]) : r.by # k}

\* mutant: no check for events before a new file
WriteUnchecked ==
  /\ Alive /\ mtx_writer_list /\ pass.pc = "next" /\ pass.i <= pass.last
  /\ pass' = [pass EXCEPT !.pc = "move"]
  /\ UNCHANGED <<main, target, pt, wt, writers, dbVars, fileVars, mtx_writer_list, flagVars>>

\* a new file is opened only when there are events for the present one
WriteCheck ==
  /\ Alive /\ mtx_writer_list /\ pass.pc = "next" /\ pass.i <= pass.last
  /\ pass' = IF pass.new /\ events[WriterOf] = {}
             THEN [pass EXCEPT !.i = @ + 1]
             ELSE [pass EXCEPT !.pc = "move"]
  /\ UNCHANGED <<main, target, pt, wt, writers, dbVars, fileVars, mtx_writer_list, flagVars>>

\* mutant: switchFiles opens the present file again
SwitchSame(k) ==
  /\ opened' = opened \cup {<<writers[k], fileNum[k]>>}
  /\ gone' = gone \cup LinesIn(writers[k], fileNum[k])
  /\ UNCHANGED fileNum

\* switchFiles opens the next file
SwitchFiles(k) ==
  /\ fileNum' = [fileNum EXCEPT ![k] = @ + 1]
  /\ opened' = opened \cup {<<writers[k], fileNum[k] + 1>>}
  /\ \E lost \in SUBSET Exposed(k) : gone' = gone \cup lost \cup LinesIn(writers[k], fileNum[k] + 1)

StaysInFile(k) ==
  /\ \E lost \in SUBSET Exposed(k) : gone' = gone \cup lost
  /\ UNCHANGED <<fileNum, opened>>

\* mutant: the events are copied and stay in the database
WriteCopies ==
  LET k == pass.i IN
  /\ Alive /\ mtx_writer_list /\ pass.pc = "move"
  /\ written' = written \cup Lines(k)
  /\ IF pass.new THEN SwitchFiles(k) ELSE StaysInFile(k)
  /\ pass' = [pass EXCEPT !.i = @ + 1, !.pc = "next"]
  /\ UNCHANGED <<main, target, pt, wt, writers, dbVars, mtx_writer_list, flagVars>>

\* moveEvents under eventLock; the events go to the present file, and the
\* writer turns to the next file when new files are asked for
WriteEvents ==
  LET k == pass.i IN
  /\ Alive /\ mtx_writer_list /\ pass.pc = "move"
  /\ written' = written \cup Lines(k)
  /\ events' = [events EXCEPT ![WriterOf] = {}]
  /\ IF pass.new THEN SwitchFiles(k) ELSE StaysInFile(k)
  /\ pass' = [pass EXCEPT !.i = @ + 1, !.pc = "next"]
  /\ UNCHANGED <<main, target, pt, wt, writers, ends, added, mtx_writer_list, flagVars>>

-----------------------------------------------------------------------------
(* XDPPlugin::writeContinuous                                              *)

WtStart ==
  /\ Alive /\ wt = "start"
  /\ is_write_thread_active' = TRUE
  /\ wt' = "wait"
  /\ UNCHANGED <<main, target, pt, writers, dbVars, fileVars, lockVars, stop_writer_thread, optVars>>

\* mutant: the thread stops without a final write
WtWakeNoFinal ==
  /\ Alive /\ wt = "wait"
  /\ wt' = IF stop_writer_thread THEN "done" ELSE "try"
  /\ UNCHANGED <<main, target, pt, writers, dbVars, fileVars, lockVars, flagVars>>

\* mutant: the wait does not look at the request to stop
WtWakeForgets ==
  /\ Alive /\ wt = "wait"
  /\ wt' = "try"
  /\ UNCHANGED <<main, target, pt, writers, dbVars, fileVars, lockVars, flagVars>>

\* writeCondWaitFor returns: after the interval, or when it is to stop
WtWake ==
  /\ Alive /\ wt = "wait"
  /\ wt' = IF stop_writer_thread THEN "final" ELSE "try"
  /\ UNCHANGED <<main, target, pt, writers, dbVars, fileVars, lockVars, flagVars>>

WtTry ==
  /\ Alive /\ wt = "try"
  /\ IF mtx_writer_list
     THEN wt' = "wait" /\ UNCHANGED lockVars
     ELSE wt' = "write" /\ Lock(TRUE)
  /\ UNCHANGED <<main, target, pt, writers, dbVars, fileVars, flagVars>>

\* the final write waits for the lock
WtFinal ==
  /\ Alive /\ wt = "final"
  /\ Lock(FALSE)
  /\ wt' = "finalWrite"
  /\ UNCHANGED <<main, target, pt, writers, dbVars, fileVars, flagVars>>

WtDone ==
  /\ Alive /\ wt \in {"write", "finalWrite"}
  /\ Unlock
  /\ wt' = IF wt = "write" THEN "wait" ELSE "done"
  /\ UNCHANGED <<main, target, pt, writers, dbVars, fileVars, flagVars>>

-----------------------------------------------------------------------------
(* The end: ~HALDeviceOffloadPlugin while the database is alive, or        *)
(* ~VPDatabase through writeAll                                            *)

BeginEnd ==
  /\ main = "run"
  /\ main' = "flush"
  /\ UNCHANGED <<target, pt, wt, writers, dbVars, fileVars, lockVars, flagVars>>

\* the loop over the offloaders has come to device d
FlushAt(d) == main = "flush" /\ \A e \in Devices : e < d => pt[e] \in {"none", "off"}

\* flushTraceOffloader without continuous trace: the caller processes
FlushRead(d) ==
  /\ FlushAt(d) /\ pt[d] = "idle"
  /\ pt' = [pt EXCEPT ![d] = "run"]
  /\ UNCHANGED <<main, target, wt, writers, dbVars, fileVars, lockVars, flagVars>>

\* all trace of the device is processed and its thread, if any, has stopped
FlushDone(d) ==
  /\ FlushAt(d) /\ pt[d] = "run"
  /\ pt' = [pt EXCEPT ![d] = "off"]
  /\ UNCHANGED <<main, target, wt, writers, dbVars, fileVars, lockVars, flagVars>>

Flushed == main = "flush" /\ \A d \in Devices : pt[d] \in {"none", "off"}

\* endWrite asks an active write thread to stop, and else writes itself
EndWriteStop ==
  /\ Flushed /\ is_write_thread_active
  /\ stop_writer_thread' = TRUE
  /\ main' = "join"
  /\ UNCHANGED <<target, pt, wt, writers, dbVars, fileVars, lockVars, is_write_thread_active, optVars>>

EndWriteJoin ==
  /\ main = "join" /\ wt = "done"
  /\ wt' = "joined"
  /\ is_write_thread_active' = FALSE
  /\ main' = "ended"
  /\ UNCHANGED <<target, pt, writers, dbVars, fileVars, lockVars, stop_writer_thread, optVars>>

EndWriteInactive ==
  /\ Flushed /\ ~is_write_thread_active
  /\ main' = "try"
  /\ UNCHANGED <<target, pt, wt, writers, dbVars, fileVars, lockVars, flagVars>>

\* mutant: endWrite leaves the writing to a thread that was never started
EndWriteNothing ==
  /\ main = "try"
  /\ main' = "ended" /\ UNCHANGED lockVars
  /\ UNCHANGED <<target, pt, wt, writers, dbVars, fileVars, flagVars>>

EndWriteTry ==
  /\ main = "try"
  /\ IF mtx_writer_list
     THEN main' = "ended" /\ UNCHANGED lockVars
     ELSE main' = "write" /\ Lock(FALSE)
  /\ UNCHANGED <<target, pt, wt, writers, dbVars, fileVars, flagVars>>

EndWriteDone ==
  /\ main = "write"
  /\ Unlock
  /\ main' = "ended"
  /\ UNCHANGED <<target, pt, wt, writers, dbVars, fileVars, flagVars>>

\* ~XDPPlugin destroys write_thread, which ends the process when the thread
\* can still be joined
Destroy ==
  /\ main = "ended"
  /\ main' = IF Joinable THEN "terminated" ELSE "destroyed"
  /\ UNCHANGED <<target, pt, wt, writers, dbVars, fileVars, lockVars, flagVars>>

Gone == main \in {"destroyed", "terminated"} /\ UNCHANGED vars

-----------------------------------------------------------------------------
Loading == StartedBefore \/ StartWriteThread \/ StartOffload \/ WriterOnly
             \/ ReloadSame \/ MarkXclbinEnd \/ MarkDump \/ MarkDumped

Load == (\E d \in Devices : CreateWriters(d) \/ LoadDevice(d) \/ Reload(d)) \/ Loading

Process(d) == AddEvent(d) \/ DumpTrace(d) \/ DumpDone(d)

Write == WriteCheck \/ WriteEvents

WtStep == WtStart \/ WtWake \/ WtTry \/ WtFinal \/ WtDone

EndWrite == EndWriteStop \/ EndWriteJoin \/ EndWriteInactive \/ EndWriteTry \/ EndWriteDone

Flush == \E d \in Devices : FlushRead(d) \/ FlushDone(d)

Next == Load \/ (\E d \in Devices : Process(d)) \/ Write \/ WtStep
          \/ BeginEnd \/ Flush \/ EndWrite \/ Destroy \/ Gone

Spec == Init /\ [][Next]_vars

\* every thread is scheduled; the application need not end, and no trace
\* need be produced.  A flush ends: the trace of a stopped device is finite
Fairness ==
  /\ WF_vars(Loading \/ Flush \/ EndWrite)
  /\ \A d \in Devices : WF_vars(DumpTrace(d) \/ DumpDone(d))
  /\ WF_vars(Write) /\ WF_vars(WtStep)

FairSpec == Spec /\ Fairness

-----------------------------------------------------------------------------
(* Properties                                                              *)

Pass == [new : BOOLEAN, i : Nat \ {0}, last : Nat, pc : {"next", "move"}]

\* Every variable has its type.
TypeOK ==
  /\ main \in {"run", "spawn", "load", "flush", "join", "try", "write", "ended",
               "destroyed", "terminated", "reload", "dump", "dumpWrite"}
  /\ target \in Devices
  /\ pt \in [Devices -> {"none", "idle", "run", "dump", "write", "off"}]
  /\ wt \in {"none", "start", "wait", "try", "write", "final", "finalWrite", "done", "joined"}
  /\ writers \in Seq(Devices)
  /\ events \in [Devices -> SUBSET Nat] /\ ends \in [Devices -> SUBSET Nat]
  /\ added \in [Devices -> Nat]
  /\ fileNum \in Seq(Nat)
  /\ written \subseteq [dev : Devices, by : Nat, file : Nat, ev : Nat, config : Nat]
  /\ gone \subseteq written
  /\ opened \subseteq Devices \X Nat
  /\ mtx_writer_list \in BOOLEAN
  /\ pass \in Pass
  /\ is_write_thread_active \in BOOLEAN /\ stop_writer_thread \in BOOLEAN
  /\ continuous_trace \in BOOLEAN /\ hw_context_flow \in BOOLEAN

\* No event is lost on the way from the database to a writer and none is
\* written twice, however the threads that add events and those that write
\* them interleave, and however many writers a device has: each event added
\* is in the database or is one line of one writer.  The exceptions are the
\* XCLBIN_END events, and all events of a device whose first configuration
\* has no PL binary: writeTraceEvents moves them and returns.
OnceEach ==
  /\ \A d \in Devices \ NoPlFirst : \A e \in 1..added[d] :
       \/ e \in events[d] \/ e \in ends[d] \/ \E r \in written : r.dev = d /\ r.ev = e
  /\ \A r \in written : r.ev \notin events[r.dev]
  /\ \A r, s \in written : r.dev = s.dev /\ r.ev = s.ev => r = s

\* A line stays in its file when xclbins are loaded.  With hardware contexts
\* a line can be truncated or overwritten, but only by another writer of the
\* device that has come to the same file.
LinesKept ==
  /\ ~hw_context_flow => gone = {}
  /\ \A r \in gone : \E k \in 1..Len(writers) :
       k # r.by /\ writers[k] = r.dev /\ r.file <= fileNum[k]

\* The writers, which hold an open file each, are run by one thread at a
\* time: the processing of a device, the write thread or the application.
\* It is a part of the invariant of TraceWritingProofs and no run lists it.
OneWriter ==
  /\ \A d \in Devices : pt[d] = "write" =>
       /\ mtx_writer_list /\ main \notin {"write", "dumpWrite"} /\ wt \notin {"write", "finalWrite"}
       /\ \A e \in Devices : pt[e] = "write" => e = d
  /\ wt \in {"write", "finalWrite"} => mtx_writer_list /\ main \notin {"write", "dumpWrite"}
  /\ main \in {"write", "dumpWrite"} => mtx_writer_list

\* A writer turns to a new file only when it had events for the old one,
\* although the check for events and their move are two critical sections of
\* PLDB.  Only an XCLBIN_END, or the missing PL binary, makes a file without
\* a line of its writer.
NoEmptyFile ==
  \A k \in 1..Len(writers) : writers[k] \notin NoPlFirst =>
    Cardinality({n \in 1..(fileNum[k] - 1) : \A r \in written : r.by = k => r.file # n})
      <= Cardinality(ends[writers[k]] \ events[writers[k]])

\* When endWrite has returned and the write thread was joined, or never
\* started, no event is left in the database and the run summary lists every
\* file that a line was written to.
AllWritten ==
  main = "ended" /\ ~Joinable =>
    /\ \A d \in Devices : events[d] = {}
    /\ \A r \in written : <<r.dev, r.file>> \in opened

\* The end of the program does not hang in the flush of the devices, in the
\* request to the write thread or in the join.
EndWriteReturns == main = "flush" ~> main \in {"ended", "destroyed", "terminated"}

\* the device has one writer
SoleWriter(d) == \A j, k \in 1..Len(writers) : writers[j] = d /\ writers[k] = d => j = k

\* Each line of the first file of a device with one writer uses the rows of
\* the xclbin that was loaded when the event was recorded.  It is not so for
\* later files, as the index of the configuration starts at 0 in every write,
\* nor for the files of a second writer.
FirstFileRight ==
  \A r \in written : r.file = 1 /\ SoleWriter(r.dev) => r.config = ConfigIndex(ends[r.dev], r.ev)
=============================================================================
