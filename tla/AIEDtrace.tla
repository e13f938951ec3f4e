----------------------------- MODULE AIEDtrace ------------------------------
(***************************************************************************)
(* AieDtracePlugin and its VE2 implementation, for one hardware context:   *)
(* XRT calls the hooks when a run object is constructed and when it is     *)
(* started, from any thread.  The constructor hook generates the control   *)
(* traces (CTs) of a kernel, one per inference to profile; the start hook  *)
(* picks the one for this inference and gives it to the run object, which  *)
(* keeps it until it is given another.                                     *)
(***************************************************************************)
EXTENDS Integers, Sequences, FiniteSets

CONSTANTS
  Threads, Runs,       \* application threads and run objects
  KernelOf,            \* the kernel of each run object
  NumSelections,       \* inferences to profile: profile_runs
  EmptySelections,     \* those without a metric
  MaxImpls, MaxStarts  \* bounds of the model: implementations, starts of runs

Selections == 0..(NumSelections - 1)
Kernels == {KernelOf[r] : r \in Runs}
Impls == 1..MaxImpls

ASSUME DtraceAssumption ==
  /\ NumSelections \in Nat \ {0} /\ EmptySelections \subseteq Selections
  /\ MaxImpls \in Nat \ {0} /\ MaxStarts \in Nat /\ Runs # {}

NoCT == <<>>
CT(g, k, i) == <<g, k, i>>

VARIABLES
  multi,      \* metadata->isMultiInference(); otherwise one metric set for all runs
  current,    \* handleToAIEDtraceImpl of the context: an implementation or 0
  impls,      \* implementations made so far
  ctFiles,    \* m_ct_files: the inferences with a CT, by implementation and kernel
  counts,     \* m_inference_counts
  runs,       \* a run object: its state, its CT, the implementation it was made under
  hook,       \* the hook each thread is in
  started     \* history: how each run went off

dtVars == <<multi, current, impls, ctFiles, counts, runs, hook, started>>

Idle == [pc |-> "idle", run |-> CHOOSE r \in Runs : TRUE, impl |-> 0, ct |-> NoCT, inf |-> 0]

DtraceTypeOK ==
  /\ multi \in BOOLEAN /\ current \in 0..MaxImpls /\ impls \in 0..MaxImpls
  /\ ctFiles \in [Impls \X Kernels -> {{}} \cup SUBSET Selections]
  /\ counts \in [Impls \X Kernels -> Nat]
  /\ \A r \in Runs : runs[r].state \in {"none", "made", "busy"}
  /\ \A t \in Threads : hook[t].pc \in {"idle", "generate", "program", "select", "apply"}

DtraceInit ==
  /\ multi \in BOOLEAN /\ current = 0 /\ impls = 0
  /\ ctFiles = [x \in Impls \X Kernels |-> {}]
  /\ counts = [x \in Impls \X Kernels |-> 0]
  /\ runs = [r \in Runs |-> [state |-> "none", ct |-> NoCT, impl |-> 0]]
  /\ hook = [t \in Threads |-> Idle]
  /\ started = <<>>

\* The entries a kernel gets a CT for.
Selected == IF multi THEN Selections ELSE {0}

-----------------------------------------------------------------------------
\* updateAIEDtraceDevice, under implMutex: a new implementation replaces the old
\* one.  Hooks that have found the old one keep it alive.
updateAIEDtraceDevice ==
  /\ impls < MaxImpls
  /\ impls' = impls + 1 /\ current' = impls + 1
  /\ UNCHANGED <<multi, ctFiles, counts, runs, hook, started>>

\* endPollforDevice, and endPoll and writeAll at the end.  What they report goes to
\* the log.
retireDtrace ==
  /\ current # 0
  /\ current' = 0
  /\ UNCHANGED <<multi, impls, ctFiles, counts, runs, hook, started>>

\* runConstructorImpl: findImpl.
constructRun(t, r) ==
  /\ hook[t].pc = "idle" /\ runs[r].state = "none"
  /\ runs' = [runs EXCEPT ![r].state = IF current = 0 THEN "made" ELSE "busy",
                          ![r].impl = current]
  /\ hook' = IF current = 0 THEN hook
             ELSE [hook EXCEPT ![t] = [Idle EXCEPT !.pc = "generate", !.run = r,
                                                   !.impl = current]]
  /\ UNCHANGED <<multi, current, impls, ctFiles, counts, started>>

\* generateCTsForRun, under m_mutex.  Any of the CTs may fail to be generated, and
\* all of them do when the ELF has no op locations: the next constructor tries again.
\* Without metrics nothing is generated at all.
generateCTsForRun(t) ==
  LET h == hook[t]
      x == <<h.impl, KernelOf[h.run]>>
  IN
  /\ h.pc = "generate"
  /\ IF ctFiles[x] # {} THEN UNCHANGED ctFiles
     ELSE \E ok \in SUBSET (Selected \ EmptySelections) : ctFiles' = [ctFiles EXCEPT ![x] = ok]
  /\ IF ~multi /\ ctFiles'[x] # {}
     THEN /\ hook' = [hook EXCEPT ![t].pc = "program", ![t].ct = CT(h.impl, KernelOf[h.run], 0)]
          /\ UNCHANGED runs
     ELSE /\ hook' = [hook EXCEPT ![t] = Idle]
          /\ runs' = [runs EXCEPT ![h.run].state = "made"]
  /\ UNCHANGED <<multi, current, impls, counts, started>>

\* programCT after generateCTsForRun, outside the lock; XRT may refuse.
programRun(t) ==
  LET r == hook[t].run
  IN
  /\ hook[t].pc = "program"
  /\ \E ok \in BOOLEAN :
       runs' = [runs EXCEPT ![r].state = "made", ![r].ct = IF ok THEN hook[t].ct ELSE @]
  /\ hook' = [hook EXCEPT ![t] = Idle]
  /\ UNCHANGED <<multi, current, impls, ctFiles, counts, started>>

-----------------------------------------------------------------------------
\* How a start ends: the run object goes off with the CT it now has.
GoesOff(r, g, n, ok, ct) ==
  /\ runs' = [runs EXCEPT ![r].state = "made", ![r].ct = ct]
  /\ started' = Append(started, [impl |-> g, kernel |-> KernelOf[r], inf |-> n, ct |-> ct,
                                 clean |-> ok /\ g # 0 /\ g = runs[r].impl])

\* runStartImpl: findImpl.  With a single metric set, or without an implementation,
\* nothing is left to do.
startRun(t, r) ==
  /\ hook[t].pc = "idle" /\ runs[r].state = "made" /\ Len(started) < MaxStarts
  /\ IF current = 0 \/ ~multi
     THEN GoesOff(r, current, 0, TRUE, runs[r].ct) /\ UNCHANGED hook
     ELSE /\ runs' = [runs EXCEPT ![r].state = "busy"]
          /\ hook' = [hook EXCEPT ![t] = [Idle EXCEPT !.pc = "select", !.run = r,
                                                      !.impl = current]]
          /\ UNCHANGED started
  /\ UNCHANGED <<multi, current, impls, ctFiles, counts>>

\* applyCTForRun, under m_mutex: the number of this inference and its CT.  A kernel
\* without CTs is left alone.
applyCTForRun(t) ==
  LET h == hook[t]
      x == <<h.impl, KernelOf[h.run]>>
      n == counts[x]
  IN
  /\ h.pc = "select"
  /\ counts' = [counts EXCEPT ![x] = n + 1]
  /\ IF ctFiles[x] = {}
     THEN GoesOff(h.run, h.impl, n, TRUE, runs[h.run].ct) /\ hook' = [hook EXCEPT ![t] = Idle]
     ELSE /\ hook' = [hook EXCEPT ![t].pc = "apply", ![t].inf = n,
                                  ![t].ct = IF n \in ctFiles[x] THEN CT(x[1], x[2], n) ELSE NoCT]
          /\ UNCHANGED <<runs, started>>
  /\ UNCHANGED <<multi, current, impls, ctFiles>>

leftAlone(t) ==
  LET h == hook[t]
  IN
  /\ h.pc = "apply"
  /\ \E ok \in BOOLEAN :
       GoesOff(h.run, h.impl, h.inf, ok, IF ok /\ h.ct # NoCT THEN h.ct ELSE runs[h.run].ct)
  /\ hook' = [hook EXCEPT ![t] = Idle]
  /\ UNCHANGED <<multi, current, impls, ctFiles, counts>>

\* The rest of applyCTForRun, outside the lock: the CT is set, or dtrace is turned
\* off for this run.  XRT may refuse either.
applyCT(t) ==
  LET h == hook[t]
  IN
  /\ h.pc = "apply"
  /\ \E ok \in BOOLEAN :
       GoesOff(h.run, h.impl, h.inf, ok, IF ok THEN h.ct ELSE runs[h.run].ct)
  /\ hook' = [hook EXCEPT ![t] = Idle]
  /\ UNCHANGED <<multi, current, impls, ctFiles, counts>>

DtraceNext ==
  \/ updateAIEDtraceDevice \/ retireDtrace
  \/ \E t \in Threads :
       \/ \E r \in Runs : constructRun(t, r) \/ startRun(t, r)
       \/ generateCTsForRun(t) \/ programRun(t) \/ applyCTForRun(t) \/ applyCT(t)

DtraceSpec == DtraceInit /\ [][DtraceNext]_dtVars

-----------------------------------------------------------------------------
\* A run that goes off as inference n of its kernel collects what was configured for
\* inference n, or nothing: never the metrics of the inference its run object was
\* last used for.  (Unless XRT refused the CT, or the implementation was replaced
\* since the run object was constructed.)
OwnControlTrace ==
  \A i \in DOMAIN started :
    LET s == started[i]
    IN s.clean => s.ct \in {NoCT, CT(s.impl, s.kernel, s.inf)}
=============================================================================
