--------------------------- MODULE PollingThreads ---------------------------
(***************************************************************************)
(* What the plugins that watch a device from threads of their own have in  *)
(* common: a map of threads, a map of the flags that keep them going       *)
(* (mThreadCtrlMap, or threadCtrl of an implementation), the application   *)
(* thread that fills and empties both, and the two objects whose           *)
(* destruction ends it all, the plugin and VPDatabase, in either order.    *)
(*                                                                         *)
(* The application calls the plugin from one thread.                       *)
(***************************************************************************)
EXTENDS Naturals, FiniteSets, Functions

CONSTANTS
  Keys,        \* what a thread is kept for: a device or a handle
  Plugins      \* the plugins to study

ASSUME PollingAssumption ==
  /\ IsFiniteSet(Keys) /\ Keys # {}
  /\ Plugins \subseteq {"pl_deadlock", "aie_status", "aie_profile", "power"}

VARIABLES
  plugin,      \* the plugin that is loaded
  ctl,         \* the flag of each key, or "absent"
  thr,         \* where the threads of each key are; "none" without a std::thread
  main,        \* the application thread: its call, the key of it, who called
  dbAlive,     \* VPDatabase::live
  live,        \* the plugin has not been destroyed
  crashed      \* std::terminate

pollVars == <<plugin, ctl, thr, main, dbAlive, live, crashed>>

\* pollDeadlock of either plugin, continuePoll and pollPower are "poll" threads,
\* writeStatus is a "write" thread.
Roles == {"poll", "write"}

NoThread == [r \in Roles |-> "none"]

PollTypeOK ==
  /\ plugin \in Plugins
  /\ ctl \in [Keys -> {"absent", "true", "false"}]
  /\ thr \in [Keys -> [Roles -> {"none", "find", "loop", "lock", "read", "file",
                                 "dump", "write", "done"}]]
  /\ main \in [op : {"idle", "exit", "end", "endAll", "final"}, key : Keys,
               by : {"call", "dtor", "database"}]
  /\ dbAlive \in BOOLEAN /\ live \in BOOLEAN /\ crashed \in BOOLEAN

PollInit ==
  /\ plugin \in Plugins
  /\ ctl = [k \in Keys |-> "absent"]
  /\ thr = [k \in Keys |-> NoThread]
  /\ main = [op |-> "idle", key |-> CHOOSE k \in Keys : TRUE, by |-> "call"]
  /\ dbAlive = TRUE /\ live = TRUE /\ crashed = FALSE

-----------------------------------------------------------------------------
Loaded(p) == plugin = p /\ ~crashed

\* The application calls in while it runs.  At exit (a return of main) only the
\* destructors of the static objects are left.
Callable(p) == Loaded(p) /\ main.op = "idle"
Exiting(p) == Loaded(p) /\ main.op \in {"idle", "exit"}

Goto(op, by) == main' = [main EXCEPT !.op = op, !.by = by]
Return == Goto(IF main.by = "call" THEN "idle" ELSE "exit", "call")

Joinable(k) == thr[k] # NoThread
AllDone(k) == \A r \in Roles : thr[k][r] \in {"none", "done"}
Running(k) == ~AllDone(k)

\* "Ask all threads to end": every flag there is becomes false.
AskedToEnd == [k \in Keys |-> IF ctl[k] = "absent" THEN "absent" ELSE "false"]

At(k, r, pc) == thr[k][r] = pc
Move(k, r, pc) == thr' = [thr EXCEPT ![k][r] = pc]

\* ~VPDatabase when the plugin has been destroyed, and so unregistered, before.
DestroyDatabase ==
  /\ main.op = "exit" /\ ~live /\ dbAlive
  /\ dbAlive' = FALSE
  /\ UNCHANGED <<plugin, ctl, thr, main, live, crashed>>
=============================================================================
