--------------------------- MODULE AIEStatusPoll ----------------------------
(***************************************************************************)
(* The threads of AIEStatusPlugin, two per handle: pollDeadlock reads the  *)
(* core registers, writeStatus writes the status report.  And the one      *)
(* thread of PowerProfilingPlugin, which runs from the constructor to the  *)
(* destructor.  Neither plugin overrides writeAll.                         *)
(***************************************************************************)
EXTENDS PollingThreads

VARIABLE mtxWriterThread   \* locked

\* PowerProfilingPlugin has one thread; it gets the first key.
PowerKey == CHOOSE k \in Keys : TRUE

stVars == <<mtxWriterThread>>

StatusTypeOK == mtxWriterThread \in BOOLEAN

StatusInit == mtxWriterThread = FALSE

-----------------------------------------------------------------------------
\* Assigning over a std::thread that is joinable ends the program.
updateAIEDevice(k) ==
  /\ Callable("aie_status")
  /\ IF Joinable(k)
     THEN crashed' = TRUE /\ UNCHANGED <<ctl, thr>>
     ELSE /\ ctl' = [ctl EXCEPT ![k] = "true"]
          /\ thr' = [thr EXCEPT ![k] = [r \in Roles |-> "find"]]
          /\ UNCHANGED crashed
  /\ UNCHANGED <<plugin, main, dbAlive, live, mtxWriterThread>>

\* endPollforDevice: endPoll ends the threads of all handles.
endPollforDevice ==
  /\ Callable("aie_status")
  /\ ctl' = AskedToEnd
  /\ Goto("endAll", "call")
  /\ UNCHANGED <<plugin, thr, dbAlive, live, crashed, stVars>>

\* endPoll after the joins.
endPollJoined ==
  /\ Loaded("aie_status") /\ main.op = "endAll" /\ \A k \in Keys : AllDone(k)
  /\ ctl' = [k \in Keys |-> "absent"]
  /\ thr' = [k \in Keys |-> NoThread]
  /\ IF main.by = "call"
     THEN Goto("final", "call") /\ UNCHANGED live
     ELSE Return /\ live' = FALSE
  /\ UNCHANGED <<plugin, dbAlive, crashed, stVars>>

\* "Last chance at writing status reports", each under mtxWriterThread.
finalWrite ==
  /\ Loaded("aie_status") /\ main.op = "final" /\ ~mtxWriterThread
  /\ Return
  /\ UNCHANGED <<plugin, ctl, thr, dbAlive, live, crashed, stVars>>

\* ~AIEStatusPlugin
destroyStatus ==
  /\ Exiting("aie_status") /\ live
  /\ ctl' = AskedToEnd
  /\ Goto("endAll", "dtor")
  /\ UNCHANGED <<plugin, thr, dbAlive, live, crashed, stVars>>

\* ~VPDatabase calls XDPPlugin::writeAll, which writes and leaves the threads.
databaseFirst(p) ==
  /\ Exiting(p) /\ live /\ dbAlive
  /\ p = "power" => Joinable(PowerKey)
  /\ dbAlive' = FALSE
  /\ Goto("exit", "call")
  /\ UNCHANGED <<plugin, ctl, thr, live, crashed, stVars>>

-----------------------------------------------------------------------------
\* pollDeadlock and writeStatus look for their flag first.
findFlag(k, r) ==
  /\ Loaded("aie_status") /\ At(k, r, "find")
  /\ Move(k, r, IF ctl[k] = "absent" THEN "done" ELSE "loop")
  /\ UNCHANGED <<plugin, ctl, main, dbAlive, live, crashed, stVars>>

leaveLoop(k, r) ==
  /\ Loaded("aie_status") /\ At(k, r, "loop") /\ ctl[k] # "true"
  /\ Move(k, r, "done")
  /\ UNCHANGED <<plugin, ctl, main, dbAlive, live, crashed, stVars>>

\* A turn of writeStatus: the report is written under the lock.
lockWriter(k) ==
  /\ Loaded("aie_status") /\ At(k, "write", "loop") /\ ctl[k] = "true"
  /\ ~mtxWriterThread /\ mtxWriterThread' = TRUE
  /\ Move(k, "write", "write")
  /\ UNCHANGED <<plugin, ctl, main, dbAlive, live, crashed>>

writeStatus(k) ==
  /\ Loaded("aie_status") /\ At(k, "write", "write")
  /\ mtxWriterThread' = FALSE
  /\ Move(k, "write", "loop")
  /\ UNCHANGED <<plugin, ctl, main, dbAlive, live, crashed>>

StatusThread(k) ==
  \/ \E r \in Roles : findFlag(k, r) \/ leaveLoop(k, r)
  \/ lockWriter(k) \/ writeStatus(k)

-----------------------------------------------------------------------------
(* PowerProfilingPlugin                                                    *)

startPower ==
  /\ Callable("power") /\ ~Joinable(PowerKey)
  /\ ctl' = [ctl EXCEPT ![PowerKey] = "true"]
  /\ Move(PowerKey, "poll", "loop")
  /\ UNCHANGED <<plugin, main, dbAlive, live, crashed, stVars>>

\* ~PowerProfilingPlugin up to the join, and after it.
destroyPower ==
  /\ Exiting("power") /\ live /\ Joinable(PowerKey)
  /\ ctl' = AskedToEnd
  /\ Goto("endAll", "dtor")
  /\ UNCHANGED <<plugin, thr, dbAlive, live, crashed, stVars>>

powerJoined ==
  /\ Loaded("power") /\ main.op = "endAll" /\ AllDone(PowerKey)
  /\ thr' = [thr EXCEPT ![PowerKey] = NoThread]
  /\ live' = FALSE
  /\ Return
  /\ UNCHANGED <<plugin, ctl, dbAlive, crashed, stVars>>

\* pollPower: the turn that finds keepPolling false.
pollPower ==
  /\ Loaded("power") /\ At(PowerKey, "poll", "loop") /\ ctl[PowerKey] # "true"
  /\ Move(PowerKey, "poll", "done")
  /\ UNCHANGED <<plugin, ctl, main, dbAlive, live, crashed, stVars>>

StatusMain ==
  \/ \E k \in Keys : updateAIEDevice(k)
  \/ endPollforDevice \/ endPollJoined \/ finalWrite \/ destroyStatus
  \/ startPower \/ destroyPower \/ powerJoined
  \/ \E p \in {"aie_status", "power"} : databaseFirst(p)

StatusNext == StatusMain \/ pollPower \/ \E k \in Keys : StatusThread(k)
=============================================================================
