------------------------------- MODULE AIEHalt ------------------------------
(***************************************************************************)
(* AIEHaltPlugin: the first hardware context it is told of is the one it   *)
(* halts.  In the full-ELF flow that context is configured only when the   *)
(* first run starts.  XRT calls it when a context is created or given a    *)
(* configuration, when a run starts and when a context is destroyed.       *)
(***************************************************************************)
EXTENDS Integers

CONSTANTS
  HaltHandles,     \* addresses of hardware contexts, reused by later contexts
  MaxHaltContexts  \* bound of the model: contexts created

None == 0

ASSUME HaltAssumption == None \notin HaltHandles /\ MaxHaltContexts \in Nat \ {0}

VARIABLES
  alive,          \* the number of the context at each address, None when there is none
  numContexts,    \* contexts created so far
  mHwCtxImpl,     \* the address of the context of the plugin
  deferred,       \* mDeferredConfiguration
  valid,          \* DeviceDataEntry.valid
  configured      \* history: the context that was configured

haltVars == <<alive, numContexts, mHwCtxImpl, deferred, valid, configured>>

HaltInit ==
  /\ alive = [c \in HaltHandles |-> None] /\ numContexts = 0
  /\ mHwCtxImpl = None /\ deferred = FALSE /\ valid = FALSE /\ configured = None

\* configureDevice of the context at c; the deferred configuration fails without ELFs
\* or without metadata in them.
configureDevice(c, wasDeferred) ==
  \/ /\ valid' = TRUE /\ configured' = alive'[c]
  \/ /\ wasDeferred /\ UNCHANGED <<valid, configured>>

\* updateDevice: only the first context is taken.  The full-ELF flow, and a context
\* whose flow is not known yet, are deferred.
updateHaltDevice(c) ==
  IF mHwCtxImpl # None THEN UNCHANGED <<mHwCtxImpl, deferred, valid, configured>>
  ELSE /\ mHwCtxImpl' = c
       /\ \/ deferred' = TRUE /\ UNCHANGED <<valid, configured>>
          \/ deferred' = FALSE /\ configureDevice(c, FALSE)

createHaltContext(c) ==
  /\ alive[c] = None /\ numContexts < MaxHaltContexts
  /\ numContexts' = numContexts + 1
  /\ alive' = [alive EXCEPT ![c] = numContexts + 1]
  /\ updateHaltDevice(c)

addHaltConfig(c) ==
  /\ alive[c] # None
  /\ UNCHANGED <<alive, numContexts>>
  /\ updateHaltDevice(c)

\* runStartImpl: a run of another context cancels what was deferred.
runStartHalt(c) ==
  /\ alive[c] # None
  /\ UNCHANGED <<alive, numContexts, mHwCtxImpl>>
  /\ deferred' = FALSE
  /\ IF deferred /\ c = mHwCtxImpl THEN configureDevice(c, TRUE)
     ELSE UNCHANGED <<valid, configured>>

staysValid(c) ==
  /\ alive[c] # None
  /\ alive' = [alive EXCEPT ![c] = None]
  /\ UNCHANGED <<numContexts, mHwCtxImpl, deferred, valid, configured>>

\* The context at c is destroyed: finishflushDevice.
finishflushHalt(c) ==
  /\ alive[c] # None
  /\ alive' = [alive EXCEPT ![c] = None]
  /\ valid' = (valid /\ c # mHwCtxImpl)
  /\ UNCHANGED <<numContexts, mHwCtxImpl, deferred, configured>>

\* writeAll flushes the context of the plugin.
writeAllHalt ==
  /\ valid /\ valid' = FALSE
  /\ UNCHANGED <<alive, numContexts, mHwCtxImpl, deferred, configured>>

HaltNext ==
  \/ \E c \in HaltHandles :
       createHaltContext(c) \/ addHaltConfig(c) \/ runStartHalt(c) \/ finishflushHalt(c)
  \/ writeAllHalt

HaltSpec == HaltInit /\ [][HaltNext]_haltVars

-----------------------------------------------------------------------------
\* As long as the implementation is valid, so that writeAll or a flush will use it,
\* the context it was configured for is still the one at its address: neither a
\* context destroyed before its deferred configuration nor a later context at the
\* same address makes the plugin work on a context that is gone.
HaltsLiveContext == valid => alive[mHwCtxImpl] = configured
=============================================================================
