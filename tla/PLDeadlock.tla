----------------------------- MODULE PLDeadlock -----------------------------
(***************************************************************************)
(* PLDeadlockPlugin: one thread per device polls the deadlock detector.    *)
(* What it finds goes to one file, rewritten for all devices each time.    *)
(***************************************************************************)
EXTENDS PollingThreads

CONSTANTS
  Contexts,      \* hardware contexts
  DeviceOf,      \* the device of each
  Detectors      \* the devices that have a deadlock detector

ASSUME DeadlockAssumption ==
  /\ Contexts # {} /\ DeviceOf \in [Contexts -> Keys]
  /\ Detectors \subseteq Keys

VARIABLES
  ctxDev,     \* mHwCtxImplToDevIdMap
  flushing,   \* the context flushDevice is called for
  hung,       \* the devices whose detector reports a deadlock
  info,       \* the devices with a PLDeadlockInfo in the database
  mWriteLock, \* locked
  snap,       \* the message a thread has read from the database
  file,       \* the devices named in pl_deadlock_diagnosis.txt
  reported    \* history: the devices whose thread has returned from forceWrite

plVars == <<ctxDev, flushing, hung, info, mWriteLock, snap, file, reported>>
fileVars == <<info, mWriteLock, snap, file, reported>>

PLTypeOK ==
  /\ \E S \in SUBSET Contexts : ctxDev \in [S -> Keys]
  /\ flushing \in Contexts
  /\ hung \subseteq Keys /\ info \subseteq Keys /\ file \subseteq Keys
  /\ reported \subseteq Keys
  /\ mWriteLock \in BOOLEAN /\ snap \in [Keys -> SUBSET Keys]

PLInit ==
  /\ ctxDev = <<>> /\ flushing = CHOOSE c \in Contexts : TRUE
  /\ hung = {} /\ info = {} /\ file = {} /\ reported = {}
  /\ mWriteLock = FALSE /\ snap = [d \in Keys |-> {}]

-----------------------------------------------------------------------------
\* The hardware: a deadlock never goes away by itself.
Hang(d) ==
  /\ Loaded("pl_deadlock") /\ d \in Detectors \ hung
  /\ hung' = hung \cup {d}
  /\ UNCHANGED <<pollVars, ctxDev, flushing, fileVars>>

updateDevice(c) ==
  LET d == DeviceOf[c]
      starts == ~Joinable(d) /\ d \in Detectors
  IN
  /\ Callable("pl_deadlock") /\ c \notin DOMAIN ctxDev
  /\ ctxDev' = [x \in DOMAIN ctxDev \cup {c} |-> IF x = c THEN d ELSE ctxDev[x]]
  /\ ctl' = IF starts THEN [ctl EXCEPT ![d] = "true"] ELSE ctl
  /\ thr' = IF starts THEN [thr EXCEPT ![d]["poll"] = "find"] ELSE thr
  /\ UNCHANGED <<plugin, main, dbAlive, live, crashed, flushing, hung, fileVars>>

FlushedContext(c) == Restrict(ctxDev, DOMAIN ctxDev \ {c})

eraseBeforeJoin(c) ==
  LET d == ctxDev[c]
  IN
  /\ Callable("pl_deadlock") /\ c \in DOMAIN ctxDev
  /\ ctl' = [ctl EXCEPT ![d] = "absent"]
  /\ main' = [op |-> "end", key |-> d, by |-> "call"] /\ flushing' = c
  /\ UNCHANGED <<plugin, thr, ctxDev, dbAlive, live, crashed, hung, fileVars>>

\* flushDevice up to the join.  The flag of a device without a thread is created,
\* and stays.
flushDevice(c) ==
  LET d == ctxDev[c]
  IN
  /\ Callable("pl_deadlock") /\ c \in DOMAIN ctxDev
  /\ ctl' = [ctl EXCEPT ![d] = "false"]
  /\ IF Joinable(d)
     THEN /\ main' = [op |-> "end", key |-> d, by |-> "call"]
          /\ flushing' = c
          /\ UNCHANGED ctxDev
     ELSE /\ ctxDev' = FlushedContext(c)
          /\ UNCHANGED <<main, flushing>>
  /\ UNCHANGED <<plugin, thr, dbAlive, live, crashed, hung, fileVars>>

\* flushDevice after the join.
flushJoined ==
  LET d == main.key
  IN
  /\ Loaded("pl_deadlock") /\ main.op = "end" /\ AllDone(d)
  /\ thr' = [thr EXCEPT ![d] = NoThread]
  /\ ctl' = [ctl EXCEPT ![d] = "absent"]
  /\ ctxDev' = FlushedContext(flushing)
  /\ Return
  /\ UNCHANGED <<plugin, dbAlive, live, crashed, flushing, hung, fileVars>>

-----------------------------------------------------------------------------
neverEnds(by) ==
  /\ Exiting("pl_deadlock") /\ live
  /\ by = "database" => dbAlive
  /\ Goto("endAll", by)
  /\ UNCHANGED <<plugin, ctl, thr, dbAlive, live, crashed, plVars>>

\* writeAll, from ~PLDeadlockPlugin or from ~VPDatabase: it ends all threads.
writeAll(by) ==
  /\ Exiting("pl_deadlock") /\ live
  /\ by \in {"dtor", "database"} /\ dbAlive
  /\ ctl' = AskedToEnd
  /\ Goto("endAll", by)
  /\ UNCHANGED <<plugin, thr, dbAlive, live, crashed, plVars>>

notJoined ==
  /\ Loaded("pl_deadlock") /\ main.op = "endAll"
  /\ ctl' = [k \in Keys |-> "absent"]
  /\ live' = (main.by = "database") /\ dbAlive' = (main.by = "dtor")
  /\ Return
  /\ UNCHANGED <<plugin, thr, crashed, plVars>>

\* writeAll after the joins, and the end of the destructor that called it.
writeAllJoined ==
  /\ Loaded("pl_deadlock") /\ main.op = "endAll" /\ \A k \in Keys : AllDone(k)
  /\ ctl' = [k \in Keys |-> "absent"]
  /\ thr' = [k \in Keys |-> NoThread]
  /\ live' = (main.by = "database") /\ dbAlive' = (main.by = "dtor")
  /\ Return
  /\ UNCHANGED <<plugin, crashed, plVars>>

\* ~PLDeadlockPlugin after ~VPDatabase: nothing is left to do.
pluginAfterDatabase ==
  /\ Exiting("pl_deadlock") /\ live /\ ~dbAlive
  /\ live' = FALSE
  /\ UNCHANGED <<plugin, ctl, thr, main, dbAlive, crashed, plVars>>

-----------------------------------------------------------------------------
(* The thread of device d                                                  *)

\* pollDeadlock: find the flag, then look at it and at the detector.
findControl(d) ==
  /\ Loaded("pl_deadlock") /\ At(d, "poll", "find")
  /\ Move(d, "poll", IF ctl[d] = "absent" THEN "done" ELSE "loop")
  /\ UNCHANGED <<plugin, ctl, main, dbAlive, live, crashed, plVars>>

\* The turn of the loop that ends it: the flag is false, or there is a deadlock.
\* Without a loaded configuration, or when no CU says why it is stuck, there is
\* nothing to write.
pollDeadlock(d) ==
  /\ Loaded("pl_deadlock") /\ At(d, "poll", "loop")
  /\ \/ /\ ctl[d] # "true"
        /\ Move(d, "poll", "done")
        /\ UNCHANGED info
     \/ /\ ctl[d] = "true" /\ d \in hung
        /\ \/ Move(d, "poll", "lock") /\ info' = info \cup {d}
           \/ Move(d, "poll", "done") /\ UNCHANGED info
  /\ UNCHANGED <<plugin, ctl, main, dbAlive, live, crashed>>
  /\ UNCHANGED <<ctxDev, flushing, hung, mWriteLock, snap, file, reported>>

unlocked(d) ==
  /\ Loaded("pl_deadlock") /\ At(d, "poll", "lock")
  /\ file' = {} /\ Move(d, "poll", "read")
  /\ UNCHANGED <<plugin, ctl, main, dbAlive, live, crashed>>
  /\ UNCHANGED <<ctxDev, flushing, hung, info, mWriteLock, snap, reported>>

\* forceWrite takes mWriteLock, and refreshFile of the writer empties the file.
forceWrite(d) ==
  /\ Loaded("pl_deadlock") /\ At(d, "poll", "lock") /\ ~mWriteLock
  /\ mWriteLock' = TRUE /\ file' = {}
  /\ Move(d, "poll", "read")
  /\ UNCHANGED <<plugin, ctl, main, dbAlive, live, crashed>>
  /\ UNCHANGED <<ctxDev, flushing, hung, info, snap, reported>>

\* getPLDeadlockInfo: the messages of all devices.
readInfo(d) ==
  /\ Loaded("pl_deadlock") /\ At(d, "poll", "read")
  /\ snap' = [snap EXCEPT ![d] = info]
  /\ Move(d, "poll", "file")
  /\ UNCHANGED <<plugin, ctl, main, dbAlive, live, crashed>>
  /\ UNCHANGED <<ctxDev, flushing, hung, info, mWriteLock, file, reported>>

writeInfo(d) ==
  /\ Loaded("pl_deadlock") /\ At(d, "poll", "file")
  /\ file' = snap[d] /\ mWriteLock' = FALSE
  /\ reported' = reported \cup {d}
  /\ snap' = [snap EXCEPT ![d] = {}]
  /\ Move(d, "poll", "done")
  /\ UNCHANGED <<plugin, ctl, main, dbAlive, live, crashed>>
  /\ UNCHANGED <<ctxDev, flushing, hung, info>>

PLThread(d) ==
  findControl(d) \/ pollDeadlock(d) \/ forceWrite(d) \/ readInfo(d) \/ writeInfo(d)

PLMain ==
  \/ \E c \in Contexts : updateDevice(c) \/ flushDevice(c)
  \/ flushJoined \/ writeAllJoined \/ pluginAfterDatabase
  \/ \E by \in {"dtor", "database"} : writeAll(by)

PLNext == PLMain \/ \E d \in Keys : PLThread(d) \/ Hang(d)

-----------------------------------------------------------------------------
\* A thread of PLDeadlockPlugin that has returned from forceWrite has left its
\* diagnosis in the one file of all devices, and no other device's thread, and no
\* unload, ever takes it out again: outside the critical section of forceWrite the
\* file names every device reported so far.
DeadlocksInFile == ~mWriteLock => reported \subseteq file
=============================================================================
