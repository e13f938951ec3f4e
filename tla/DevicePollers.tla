--------------------------- MODULE DevicePollers ----------------------------
(***************************************************************************)
(* The plugins that poll devices, one loaded at a time, with VPDatabase:   *)
(* they share nothing but the database and the way their threads end.      *)
(***************************************************************************)
EXTENDS PLDeadlock, AIEStatusPoll, AIEProfilePoll

vars == <<pollVars, plVars, stVars, pfVars>>

TypeOK == PollTypeOK /\ PLTypeOK /\ StatusTypeOK /\ ProfileTypeOK

Init == PollInit /\ PLInit /\ StatusInit /\ ProfileInit

Next ==
  \/ PLNext /\ UNCHANGED <<stVars, pfVars>>
  \/ StatusNext /\ UNCHANGED <<plVars, pfVars>>
  \/ ProfileNext /\ UNCHANGED <<plVars, stVars>>
  \/ DestroyDatabase /\ UNCHANGED <<plVars, stVars, pfVars>>

\* The threads, and the application thread inside a call, keep running.  Which
\* calls the application makes is its own choice.
Fairness ==
  /\ \A k \in Keys :
       /\ WF_vars(PLThread(k) /\ UNCHANGED <<stVars, pfVars>>)
       /\ WF_vars(ProfileThread(k) /\ UNCHANGED <<plVars, stVars>>)
       /\ \A r \in Roles :
            WF_vars((findFlag(k, r) \/ leaveLoop(k, r)) /\ UNCHANGED <<plVars, pfVars>>)
       /\ WF_vars(writeStatus(k) /\ UNCHANGED <<plVars, pfVars>>)
  /\ WF_vars(pollPower /\ UNCHANGED <<plVars, pfVars>>)
  /\ WF_vars((flushJoined \/ writeAllJoined) /\ UNCHANGED <<stVars, pfVars>>)
  /\ WF_vars((endPollJoined \/ finalWrite \/ powerJoined) /\ UNCHANGED <<plVars, pfVars>>)
  /\ WF_vars((handleJoined \/ endNext \/ nextJoined \/ allEnded \/ lastWrite \/ allWritten) /\ UNCHANGED <<plVars, stVars>>)

Spec == Init /\ [][Next]_vars /\ Fairness

-----------------------------------------------------------------------------
\* pollDeadlock and writeStatus keep a reference into mThreadCtrlMap: whatever is
\* flushed, unloaded or destroyed meanwhile, the entry of a thread that has left
\* its search is there until the thread has ended.
ControlOutlives ==
  \A k \in Keys, r \in Roles :
    thr[k][r] \notin {"none", "find", "done"} => ctl[k] # "absent"

\* The plugins that override writeAll leave no thread running when ~VPDatabase
\* returns, and so none that uses the database after it.
DatabaseOutlives ==
  ~dbAlive /\ plugin \in {"pl_deadlock", "aie_profile"} /\ ~crashed =>
    \A k \in Keys : ~Running(k)

\* The flags that the polling threads of the four plugins refer to outlive them,
\* in every order of flushes, unloads and destructors; so does the database for
\* the threads of PLDeadlockPlugin and AieProfilePlugin, whose writeAll joins them.
\* It is not so for the database and the threads of AIEStatusPlugin and
\* PowerProfilingPlugin, which have the writeAll of XDPPlugin: it stops no thread.
ThreadsOutlived == ControlOutlives /\ DatabaseOutlives

\* Every call that ends threads (flushDevice, writeAll, endPoll, endPollforDevice
\* and the destructors) returns: the thread it waits for sees its flag.
EndReturns ==
  main.op \in {"end", "endAll", "final"} ~> main.op \in {"idle", "exit"} \/ crashed
=============================================================================
