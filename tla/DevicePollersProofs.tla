------------------------ MODULE DevicePollersProofs -------------------------
(***************************************************************************)
(* Proofs that what the polling threads use outlives them, that a reported *)
(* deadlock stays in the file, that every sample of the AIE profile is     *)
(* written, for any number of devices and contexts and any bounds, and     *)
(* that hanging graphs are reported, for any graphs and thresholds.        *)
(***************************************************************************)
EXTENDS DevicePollers, AIEHangDetect, FiniteSetTheorems, TLAPS

Flags == {"absent", "true", "false"}
PCs == {"none", "find", "loop", "lock", "read", "file", "dump", "write", "done"}
Calls == [op : {"idle", "exit", "end", "endAll", "final"}, key : Keys,
          by : {"call", "dtor", "database"}]

-----------------------------------------------------------------------------
(* The inductive invariant                                                 *)

\* Who is calling: outside the calls of the destructors both objects live, and
\* what ends all threads of a plugin other than AIEStatusPlugin is a destructor;
\* AieProfilePlugin has none left when it begins its last write.
MainInv ==
  /\ main.op \in {"idle", "end"} => main.by = "call"
  /\ main.op = "final" => (main.by = "call" <=> plugin # "aie_profile")
  /\ main.op = "final" /\ plugin = "aie_profile" => \A k \in Keys : thr[k] = NoThread
  /\ main.by = "call" /\ main.op # "exit" => dbAlive /\ live
  /\ main.op = "endAll" /\ plugin # "aie_status" => main.by # "call"

\* The critical section of forceWrite: one thread is inside, what has been
\* reported is in the database, in the message it has read and, when nobody is
\* inside, in the file.
FileInv ==
  IF plugin = "pl_deadlock"
  THEN /\ \A d \in Keys : thr[d]["poll"] \in {"read", "file"} =>
            /\ mWriteLock
            /\ \A e \in Keys : thr[e]["poll"] \in {"read", "file"} => e = d
       /\ \A d \in Keys : thr[d]["poll"] \in {"lock", "read", "file"} => d \in info
       /\ \A d \in Keys : thr[d]["poll"] = "file" => reported \cup {d} \subseteq snap[d]
       /\ reported \subseteq info
       /\ ~mWriteLock => reported \subseteq file
  ELSE reported = {}

\* No thread is left once one of the two destructors has been through.
EndedInv ==
  plugin \in {"pl_deadlock", "aie_profile"} /\ ~crashed /\ ~(dbAlive /\ live) =>
    \A k \in Keys : ~Running(k)

\* The samples of a key in its files, L, and in the database, s, of n taken: each
\* file and the database have them in their order, those in the database are the
\* latest, no two files have one in common and none is missing.
FilesOK(L, s, n) ==
  /\ Increasing(s)
  /\ \A f \in Files : Increasing(L[f])
  /\ \A j \in DOMAIN s : s[j] \in 1 .. n
  /\ \A f \in Files : \A i \in DOMAIN L[f] : L[f][i] \in 1 .. n
  /\ \A f \in Files : \A i \in DOMAIN L[f] : \A j \in DOMAIN s : L[f][i] < s[j]
  /\ \A f, g \in Files : \A i \in DOMAIN L[f] : \A j \in DOMAIN L[g] : L[f][i] = L[g][j] => f = g
  /\ \A x \in 1 .. n : \/ \E j \in DOMAIN s : s[j] = x
                       \/ \E f \in Files : \E i \in DOMAIN L[f] : L[f][i] = x

\* While no two writers of a key have the same file, each one is at the end of its
\* own, and a file that none has opened is empty.
PlacesOK(k) ==
  /\ \A w \in WritersOf(k) : profWriters[w].pos = Len(lines[k][profWriters[w].file])
  /\ \A f \in Files : ~Opened(k, f) => lines[k][f] = <<>>

Sound(k) == ~Shared(k) => FilesOK(lines[k], samples[k], taken[k]) /\ PlacesOK(k)

\* What is in the database has a writer, the writer list is locked by a thread
\* that is writing, the last loop over the writers still has one for what is in
\* the database, and nothing is left there once one of the two destructors has
\* been through.
ListInv ==
  /\ \A k \in configured : WritersOf(k) # {}
  /\ \A k \in Keys : samples[k] # <<>> => WritersOf(k) # {}
  /\ listLock => \E k \in Keys : thr[k]["poll"] = "write"
  /\ main.op = "final" => \A k \in Keys : samples[k] # <<>> => toWrite \cap WritersOf(k) # {}
  /\ ~crashed /\ ~(dbAlive /\ live) => \A k \in Keys : samples[k] = <<>>

SampleInv ==
  plugin = "aie_profile" => ListInv /\ \A k \in Keys : Sound(k)

IInv ==
  TypeOK /\ MainInv /\ ControlOutlives /\ EndedInv /\ FileInv /\ SampleInv

-----------------------------------------------------------------------------
(* The type invariant                                                      *)

\* A move of one role of one key changes that place only.
LEMMA MoveFacts ==
  ASSUME PollTypeOK, NEW k \in Keys, NEW r \in Roles, NEW pc \in PCs, Move(k, r, pc)
  PROVE  /\ thr' \in [Keys -> [Roles -> PCs]]
         /\ thr'[k][r] = pc
         /\ \A q \in Roles : q # r => thr'[k][q] = thr[k][q]
         /\ \A j \in Keys : j # k => thr'[j] = thr[j]
BY DEF PollTypeOK, PCs, Move

\* A call that is entered or left keeps main a record of its type.
LEMMA GotoTyped ==
  ASSUME main \in Calls,
         NEW op \in {"idle", "exit", "end", "endAll", "final"},
         NEW by \in {"call", "dtor", "database"}, Goto(op, by)
  PROVE  main' \in Calls /\ main'.op = op /\ main'.by = by /\ main'.key = main.key
BY DEF Calls, Goto

\* A return leads back to the application, or to the exit it was called from.
LEMMA ReturnTyped ==
  ASSUME main \in Calls, Return
  PROVE  /\ main' \in Calls /\ main'.by = "call"
         /\ main'.op = IF main.by = "call" THEN "idle" ELSE "exit"
BY GotoTyped DEF Return

\* Asking all threads to end clears the flags there are and removes none.
LEMMA AskedTyped ==
  ASSUME PollTypeOK
  PROVE  /\ AskedToEnd \in [Keys -> Flags]
         /\ \A k \in Keys : AskedToEnd[k] = "absent" <=> ctl[k] = "absent"
BY DEF PollTypeOK, AskedToEnd, Flags

\* The initial states have their types.
LEMMA InitTyped == Init => TypeOK
<1> SUFFICES ASSUME Init PROVE TypeOK OBVIOUS
<1> USE DEF Init
<1>1. PollTypeOK
  BY PollingAssumption DEF PollInit, PollTypeOK, NoThread
<1>2. PLTypeOK
  <2>1. {} \in SUBSET Contexts /\ ctxDev \in [{} -> Keys]
    BY DEF PLInit
  <2> QED BY <2>1, DeadlockAssumption DEF PLInit, PLTypeOK
<1>3. StatusTypeOK
  BY DEF StatusInit, StatusTypeOK
<1>4. ProfileTypeOK
  <2>1. <<>> \in Seq(Nat) /\ <<>> \in Seq(Writer) /\ 0 \in Nat OBVIOUS
  <2>2. [f \in Files |-> <<>>] \in [Files -> Seq(Nat)] BY <2>1
  <2>3. lines \in [Keys -> [Files -> Seq(Nat)]] BY <2>2 DEF ProfileInit
  <2>4. samples \in [Keys -> Seq(Nat)] /\ taken \in [Keys -> Nat] BY <2>1 DEF ProfileInit
  <2> QED BY <2>1, <2>3, <2>4 DEF ProfileInit, ProfileTypeOK
<1> QED BY <1>1, <1>2, <1>3, <1>4 DEF TypeOK

\* Each step of PLDeadlockPlugin.
LEMMA PLTyped ==
  ASSUME TypeOK, PLNext
  PROVE  PollTypeOK' /\ PLTypeOK'
<1> USE PollingAssumption, DeadlockAssumption
<1> USE DEF TypeOK, PollTypeOK, PLTypeOK, PCs, Flags, Calls
<1>a. PICK S \in SUBSET Contexts : ctxDev \in [S -> Keys] OBVIOUS
<1>1. ASSUME NEW c \in Contexts, updateDevice(c) PROVE PollTypeOK' /\ PLTypeOK'
  <2>1. thr' \in [Keys -> [Roles -> PCs]]
    BY <1>1 DEF updateDevice, Roles
  <2>2. ctl' \in [Keys -> Flags]
    BY <1>1 DEF updateDevice
  <2>3. S \cup {c} \in SUBSET Contexts /\ ctxDev' \in [S \cup {c} -> Keys]
    BY <1>1, <1>a DEF updateDevice
  <2> QED BY <1>1, <2>1, <2>2, <2>3 DEF updateDevice, fileVars
<1>2. ASSUME NEW c \in Contexts, flushDevice(c) PROVE PollTypeOK' /\ PLTypeOK'
  BY <1>2 DEF flushDevice, fileVars, FlushedContext, Restrict
<1>3. CASE flushJoined
  <2>1. thr' \in [Keys -> [Roles -> PCs]]
    BY <1>3 DEF flushJoined, Roles, NoThread
  <2>2. ctl' \in [Keys -> Flags]
    BY <1>3 DEF flushJoined
  <2>3. S \ {flushing} \in SUBSET Contexts /\ ctxDev' \in [S \ {flushing} -> Keys]
    BY <1>3, <1>a DEF flushJoined, FlushedContext, Restrict
  <2>4. main' \in Calls
    BY <1>3, ReturnTyped DEF flushJoined
  <2> QED BY <1>3, <2>1, <2>2, <2>3, <2>4 DEF flushJoined, fileVars
<1>4. ASSUME NEW by \in {"dtor", "database"}, writeAll(by) PROVE PollTypeOK' /\ PLTypeOK'
  BY <1>4, GotoTyped, AskedTyped DEF writeAll, plVars
<1>5. CASE writeAllJoined
  <2>1. thr' \in [Keys -> [Roles -> PCs]] BY <1>5 DEF writeAllJoined, NoThread
  <2> QED BY <1>5, <2>1, ReturnTyped DEF writeAllJoined, plVars
<1>6. CASE pluginAfterDatabase
  BY <1>6 DEF pluginAfterDatabase, plVars
<1>7. ASSUME NEW d \in Keys, findControl(d) PROVE PollTypeOK' /\ PLTypeOK'
  BY <1>7, MoveFacts DEF findControl, plVars, Roles
<1>8. ASSUME NEW d \in Keys, pollDeadlock(d) PROVE PollTypeOK' /\ PLTypeOK'
  BY <1>8, MoveFacts DEF pollDeadlock, plVars, Roles
<1>9. ASSUME NEW d \in Keys, forceWrite(d) PROVE PollTypeOK' /\ PLTypeOK'
  BY <1>9, MoveFacts DEF forceWrite, plVars, Roles
<1>10. ASSUME NEW d \in Keys, readInfo(d) PROVE PollTypeOK' /\ PLTypeOK'
  BY <1>10, MoveFacts DEF readInfo, plVars, Roles
<1>11. ASSUME NEW d \in Keys, writeInfo(d) PROVE PollTypeOK' /\ PLTypeOK'
  BY <1>11, MoveFacts DEF writeInfo, plVars, Roles
<1>12. ASSUME NEW d \in Keys, Hang(d) PROVE PollTypeOK' /\ PLTypeOK'
  BY <1>12 DEF Hang, pollVars, fileVars
<1> QED
  BY <1>1, <1>2, <1>3, <1>4, <1>5, <1>6, <1>7, <1>8, <1>9, <1>10, <1>11, <1>12
     DEF PLNext, PLMain, PLThread

\* Each step of AIEStatusPlugin and of PowerProfilingPlugin.
LEMMA StatusTyped ==
  ASSUME TypeOK, StatusNext
  PROVE  PollTypeOK' /\ StatusTypeOK'
<1>b. ASSUME NEW k \in Keys, NEW r \in Roles, NEW pc \in PCs, Move(k, r, pc)
      PROVE  thr' \in [Keys -> [Roles -> PCs]]
  BY <1>b, MoveFacts DEF TypeOK
<1> USE PollingAssumption
<1> USE DEF TypeOK, PollTypeOK, StatusTypeOK, PCs, Flags, Calls
<1>a. PowerKey \in Keys BY DEF PowerKey
<1>c. [r \in Roles |-> "find"] \in [Roles -> PCs] /\ NoThread \in [Roles -> PCs]
  BY DEF NoThread
<1>1. ASSUME NEW k \in Keys, updateAIEDevice(k) PROVE PollTypeOK' /\ StatusTypeOK'
  <2>1. thr' \in [Keys -> [Roles -> PCs]] /\ ctl' \in [Keys -> Flags] /\ crashed' \in BOOLEAN
    <3>1. CASE Joinable(k) BY <1>1, <3>1 DEF updateAIEDevice
    <3>2. CASE ~Joinable(k)
      <4>1. thr' = [thr EXCEPT ![k] = [r \in Roles |-> "find"]] /\ ctl' = [ctl EXCEPT ![k] = "true"]
        BY <1>1, <3>2 DEF updateAIEDevice
      <4>2. crashed' = crashed BY <1>1, <3>2 DEF updateAIEDevice
      <4> QED BY <4>1, <4>2, <1>c
    <3> QED BY <3>1, <3>2
  <2> QED BY <1>1, <2>1 DEF updateAIEDevice
<1>2. CASE endPollforDevice
  BY <1>2, GotoTyped, AskedTyped DEF endPollforDevice, stVars
<1>3. CASE endPollJoined
  BY <1>3, <1>c, GotoTyped, ReturnTyped DEF endPollJoined, stVars
<1>4. CASE finalWrite
  BY <1>4, ReturnTyped DEF finalWrite, stVars
<1>5. CASE destroyStatus
  BY <1>5, GotoTyped, AskedTyped DEF destroyStatus, stVars
<1>6. ASSUME NEW p \in {"aie_status", "power"}, databaseFirst(p) PROVE PollTypeOK' /\ StatusTypeOK'
  BY <1>6, GotoTyped DEF databaseFirst, stVars
<1>7. ASSUME NEW k \in Keys, NEW r \in Roles, findFlag(k, r) PROVE PollTypeOK' /\ StatusTypeOK'
  BY <1>7, <1>b DEF findFlag, stVars
<1>8. ASSUME NEW k \in Keys, NEW r \in Roles, leaveLoop(k, r) PROVE PollTypeOK' /\ StatusTypeOK'
  BY <1>8, <1>b DEF leaveLoop, stVars
<1>9. ASSUME NEW k \in Keys, lockWriter(k) PROVE PollTypeOK' /\ StatusTypeOK'
  BY <1>9, <1>b DEF lockWriter, Roles
<1>10. ASSUME NEW k \in Keys, writeStatus(k) PROVE PollTypeOK' /\ StatusTypeOK'
  BY <1>10, <1>b DEF writeStatus, Roles
<1>11. CASE startPower
  BY <1>11, <1>a, <1>b DEF startPower, Roles, stVars
<1>12. CASE destroyPower
  BY <1>12, GotoTyped, AskedTyped DEF destroyPower, stVars
<1>13. CASE powerJoined
  BY <1>13, <1>a, <1>c, ReturnTyped DEF powerJoined, stVars
<1>14. CASE pollPower
  BY <1>14, <1>a, <1>b DEF pollPower, Roles, stVars
<1> QED
  BY <1>1, <1>2, <1>3, <1>4, <1>5, <1>6, <1>7, <1>8, <1>9, <1>10, <1>11, <1>12, <1>13, <1>14
     DEF StatusNext, StatusMain, StatusThread

\* What is in a file after a write is a sequence of samples and holes; at the end
\* of a file a write appends.
LEMMA WriteTyped ==
  ASSUME NEW old \in Seq(Nat), NEW pos \in Nat, NEW s \in Seq(Nat)
  PROVE  WriteAt(old, pos, s) \in Seq(Nat)
<1> DEFINE n == IF pos + Len(s) > Len(old) THEN pos + Len(s) ELSE Len(old)
<1>1. CASE s = <<>> BY <1>1 DEF WriteAt
<1>2. CASE s # <<>>
  <2>1. n \in Nat OBVIOUS
  <2> HIDE DEF n
  <2>2. WriteAt(old, pos, s) =
          [i \in 1 .. n |-> IF i \in pos + 1 .. pos + Len(s) THEN s[i - pos]
                           ELSE IF i <= Len(old) THEN old[i] ELSE Hole]
    BY <1>2 DEF WriteAt, n
  <2>3. \A i \in 1 .. n : (IF i \in pos + 1 .. pos + Len(s) THEN s[i - pos]
                           ELSE IF i <= Len(old) THEN old[i] ELSE Hole) \in Nat
    BY <2>1 DEF Hole
  <2> QED BY <2>1, <2>2, <2>3
<1> QED BY <1>1, <1>2

\* A writer that is at the end of its file appends to it.
LEMMA WriteAppends ==
  ASSUME NEW old \in Seq(Nat), NEW s \in Seq(Nat)
  PROVE  WriteAt(old, Len(old), s) = old \o s
<1>1. CASE s = <<>> BY <1>1 DEF WriteAt
<1>2. CASE s # <<>>
  <2>1. Len(s) > 0 /\ Len(s) \in Nat /\ Len(old) \in Nat BY <1>2
  <2>2. WriteAt(old, Len(old), s) =
          [i \in 1 .. Len(old) + Len(s) |->
             IF i \in Len(old) + 1 .. Len(old) + Len(s) THEN s[i - Len(old)]
             ELSE IF i <= Len(old) THEN old[i] ELSE Hole]
    BY <1>2, <2>1 DEF WriteAt
  <2>3. old \o s \in [1 .. Len(old) + Len(s) -> Nat]
    <3>1. old \o s \in Seq(Nat) /\ Len(old \o s) = Len(old) + Len(s) OBVIOUS
    <3>2. \A q \in Seq(Nat) : q \in [1 .. Len(q) -> Nat] OBVIOUS
    <3> QED BY <3>1, <3>2
  <2>4. \A i \in 1 .. Len(old) + Len(s) : WriteAt(old, Len(old), s)[i] = (old \o s)[i]
    BY <2>1, <2>2
  <2>5. old \o s = [i \in 1 .. Len(old) + Len(s) |-> (old \o s)[i]]
    BY <2>3
  <2> QED BY <2>2, <2>4, <2>5
<1> QED BY <1>1, <1>2

\* What the next writer changes: its own file and position, and the samples of its
\* key, which it empties.
LEMMA NextEffect ==
  ASSUME ProfileTypeOK, nextWrites
  PROVE  \E w \in toWrite, k \in Keys, f \in Files :
           /\ profWriters[w].key = k /\ profWriters[w].file = f
           /\ toWrite' = toWrite \ {w}
           /\ lines' = [lines EXCEPT ![k][f] = WriteAt(lines[k][f], profWriters[w].pos, samples[k])]
           /\ profWriters' = [profWriters EXCEPT ![w].pos = profWriters[w].pos + Len(samples[k])]
           /\ samples' = [samples EXCEPT ![k] = <<>>]
<1>1. PICK w \in toWrite :
        /\ toWrite' = toWrite \ {w}
        /\ lines' = [lines EXCEPT ![profWriters[w].key][profWriters[w].file] =
                        WriteAt(lines[profWriters[w].key][profWriters[w].file], profWriters[w].pos,
                                samples[profWriters[w].key])]
        /\ profWriters' = [profWriters EXCEPT ![w].pos = profWriters[w].pos + Len(samples[profWriters[w].key])]
        /\ samples' = [samples EXCEPT ![profWriters[w].key] = <<>>]
  BY DEF nextWrites
<1>2. profWriters[w] \in Writer BY DEF ProfileTypeOK
<1>3. profWriters[w].key \in Keys /\ profWriters[w].file \in Files BY <1>2 DEF Writer
<1> QED BY <1>1, <1>3

\* A turn of the loop over the writers keeps the types.
LEMMA NextTyped ==
  ASSUME ProfileTypeOK, nextWrites
  PROVE  /\ profWriters' \in Seq(Writer) /\ samples' \in [Keys -> Seq(Nat)]
         /\ lines' \in [Keys -> [Files -> Seq(Nat)]] /\ toWrite' \subseteq DOMAIN profWriters'
<1>1. PICK w \in toWrite, k \in Keys, f \in Files :
        /\ profWriters[w].key = k /\ profWriters[w].file = f
        /\ toWrite' = toWrite \ {w}
        /\ lines' = [lines EXCEPT ![k][f] = WriteAt(lines[k][f], profWriters[w].pos, samples[k])]
        /\ profWriters' = [profWriters EXCEPT ![w].pos = profWriters[w].pos + Len(samples[k])]
        /\ samples' = [samples EXCEPT ![k] = <<>>]
  BY NextEffect
<1>2. /\ profWriters[w] \in Writer /\ samples[k] \in Seq(Nat) /\ lines[k][f] \in Seq(Nat)
      /\ lines[k] \in [Files -> Seq(Nat)] /\ w \in DOMAIN profWriters /\ profWriters \in Seq(Writer)
      /\ toWrite \subseteq DOMAIN profWriters /\ samples \in [Keys -> Seq(Nat)]
      /\ lines \in [Keys -> [Files -> Seq(Nat)]]
  BY DEF ProfileTypeOK
<1>3. profWriters[w].pos \in Nat BY <1>2 DEF Writer
<1>4. WriteAt(lines[k][f], profWriters[w].pos, samples[k]) \in Seq(Nat)
  BY <1>2, <1>3, WriteTyped
<1>5. lines' \in [Keys -> [Files -> Seq(Nat)]] BY <1>1, <1>2, <1>4
<1>6. samples' \in [Keys -> Seq(Nat)] BY <1>1, <1>2
<1>7. [profWriters[w] EXCEPT !.pos = profWriters[w].pos + Len(samples[k])] \in Writer
  <2>1. PICK x \in Nat : x = profWriters[w].pos + Len(samples[k]) BY <1>2, <1>3
  <2>2. PICK v \in Writer : v = profWriters[w] BY <1>2
  <2>3. [v EXCEPT !.pos = x] \in Writer BY DEF Writer
  <2> QED BY <2>1, <2>2, <2>3
<1>8. /\ profWriters' = [profWriters EXCEPT ![w] = [profWriters[w] EXCEPT !.pos = profWriters[w].pos + Len(samples[k])]]
      /\ DOMAIN profWriters' = DOMAIN profWriters
  BY <1>1
<1>9. profWriters' \in Seq(Writer) BY <1>2, <1>7, <1>8
<1> QED BY <1>1, <1>2, <1>5, <1>6, <1>8, <1>9

\* Each step of AieProfilePlugin.
LEMMA ProfileTyped ==
  ASSUME TypeOK, ProfileNext
  PROVE  PollTypeOK' /\ ProfileTypeOK'
<1>b. ASSUME NEW k \in Keys, NEW pc \in PCs, Move(k, "poll", pc)
      PROVE  thr' \in [Keys -> [Roles -> PCs]]
  BY <1>b, MoveFacts DEF Roles, TypeOK
<1> USE PollingAssumption, ProfileAssumption
<1> USE DEF TypeOK, PollTypeOK, ProfileTypeOK, PCs, Flags, Calls
<1>c. NoThread \in [Roles -> PCs]
  BY DEF NoThread
<1>d. ASSUME NEW k \in Keys, Ended(k)
      PROVE  thr' \in [Keys -> [Roles -> PCs]] /\ ctl' \in [Keys -> Flags]
  BY <1>c, <1>d DEF Ended
<1>e. ASSUME NEW k \in Keys, poll(k)
      PROVE  /\ thr' \in [Keys -> [Roles -> PCs]]
             /\ samples' \in [Keys -> Seq(Nat)] /\ taken' \in [Keys -> Nat]
  <2>1. thr' \in [Keys -> [Roles -> PCs]]
    BY <1>b, <1>e DEF poll
  <2>2. samples' \in [Keys -> Seq(Nat)] /\ taken' \in [Keys -> Nat]
    <3>1. samples[k] \in Seq(Nat) /\ taken[k] \in Nat OBVIOUS
    <3>2. Append(samples[k], taken[k] + 1) \in Seq(Nat) BY <3>1
    <3> QED BY <1>e, <3>1, <3>2 DEF poll
  <2> QED BY <2>1, <2>2
<1>1. ASSUME NEW k \in Keys, NEW fresh \in BOOLEAN, NEW f \in Files, updateAIECounters(k, fresh, f)
      PROVE  PollTypeOK' /\ ProfileTypeOK'
  <2>1. thr' \in [Keys -> [Roles -> PCs]] /\ ctl' \in [Keys -> Flags] /\ crashed' \in BOOLEAN
    <3>1. CASE Joinable(k) BY <1>1, <3>1 DEF updateAIECounters
    <3>2. CASE ~Joinable(k)
      <4>1. thr' \in [Keys -> [Roles -> PCs]] BY <1>1, <1>b, <3>2 DEF updateAIECounters
      <4>2. ctl' \in [Keys -> Flags] BY <1>1, <3>2 DEF updateAIECounters
      <4>3. crashed' \in BOOLEAN BY <1>1, <3>2 DEF updateAIECounters
      <4> QED BY <4>1, <4>2, <4>3
    <3> QED BY <3>1, <3>2
  <2>2. configured' \subseteq Keys /\ lastPoll' \subseteq Keys
    <3>1. configured' = configured \/ configured' = configured \cup {k} \/ configured' = configured \ {k}
      BY <1>1 DEF updateAIECounters
    <3>2. lastPoll' = lastPoll \ {k} BY <1>1 DEF updateAIECounters
    <3> QED BY <3>1, <3>2
  <2>3. /\ profWriters' \in Seq(Writer) /\ DOMAIN profWriters \subseteq DOMAIN profWriters'
        /\ lines' \in [Keys -> [Files -> Seq(Nat)]]
    <3>1. CASE Joinable(k) BY <1>1, <3>1 DEF updateAIECounters
    <3>2. CASE ~Joinable(k)
      <4>1. [key |-> k, file |-> f, pos |-> 0] \in Writer BY DEF Writer
      <4>2. profWriters' = Append(profWriters, [key |-> k, file |-> f, pos |-> 0])
        BY <1>1, <3>2 DEF updateAIECounters
      <4>3. lines' = [lines EXCEPT ![k][f] = <<>>] BY <1>1, <3>2 DEF updateAIECounters
      <4>4. lines' \in [Keys -> [Files -> Seq(Nat)]] BY <4>3
      <4> QED BY <4>1, <4>2, <4>4
    <3> QED BY <3>1, <3>2
  <2> QED BY <1>1, <2>1, <2>2, <2>3 DEF updateAIECounters, lockVars
<1>2. ASSUME NEW k \in Keys, endPollForHandle(k) PROVE PollTypeOK' /\ ProfileTypeOK'
  BY <1>2 DEF endPollForHandle, askToEnd, pfVars
<1>3. CASE handleJoined
  BY <1>3, <1>d, ReturnTyped DEF handleJoined, pfVars
<1>4. ASSUME NEW by \in {"dtor", "database"}, endProfile(by) PROVE PollTypeOK' /\ ProfileTypeOK'
  BY <1>4, GotoTyped DEF endProfile, pfVars
<1>5. CASE endNext
  BY <1>5 DEF endNext, askToEnd, pfVars
<1>6. CASE nextJoined
  BY <1>6, <1>d DEF nextJoined, pfVars
<1>7. CASE allEnded
  <2>1. main' \in Calls BY <1>7, GotoTyped DEF allEnded
  <2> QED BY <1>7, <2>1 DEF allEnded, sampleVars
<1>14. CASE lastWrite
  BY <1>14, NextTyped DEF lastWrite
<1>15. CASE allWritten
  BY <1>15, ReturnTyped DEF allWritten, pfVars
<1>8. ASSUME NEW k \in Keys, pollInLoop(k) PROVE PollTypeOK' /\ ProfileTypeOK'
  BY <1>8, <1>e DEF pollInLoop, lockVars
<1>9. ASSUME NEW k \in Keys, finalPoll(k) PROVE PollTypeOK' /\ ProfileTypeOK'
  BY <1>9, <1>b, <1>e DEF finalPoll, lockVars
<1>10. ASSUME NEW k \in Keys, broadcast(k) PROVE PollTypeOK' /\ ProfileTypeOK'
  BY <1>10, <1>b DEF broadcast, AfterDump, lockVars, sampleVars
<1>11. ASSUME NEW k \in Keys, writeSamples(k) PROVE PollTypeOK' /\ ProfileTypeOK'
  BY <1>11, NextTyped DEF writeSamples
<1>12. ASSUME NEW k \in Keys, dumpDone(k) PROVE PollTypeOK' /\ ProfileTypeOK'
  BY <1>12, <1>b DEF dumpDone, AfterDump, sampleVars
<1> HIDE DEF TypeOK, PollTypeOK, ProfileTypeOK
<1>13. CASE ProfileMain
  BY <1>1, <1>2, <1>3, <1>4, <1>5, <1>6, <1>7, <1>13, <1>14, <1>15 DEF ProfileMain
<1> QED
  BY <1>8, <1>9, <1>10, <1>11, <1>12, <1>13
     DEF ProfileNext, ProfileThread

\* Every step keeps the types.
LEMMA TypeStep ==
  ASSUME TypeOK, [Next]_vars
  PROVE  TypeOK'
<1>1. CASE PLNext /\ UNCHANGED <<stVars, pfVars>>
  BY <1>1, PLTyped DEF TypeOK, StatusTypeOK, ProfileTypeOK, stVars, pfVars
<1>2. CASE StatusNext /\ UNCHANGED <<plVars, pfVars>>
  BY <1>2, StatusTyped DEF TypeOK, PLTypeOK, ProfileTypeOK, plVars, pfVars
<1>3. CASE ProfileNext /\ UNCHANGED <<plVars, stVars>>
  BY <1>3, ProfileTyped DEF TypeOK, PLTypeOK, StatusTypeOK, plVars, stVars
<1>4. CASE DestroyDatabase /\ UNCHANGED <<plVars, stVars, pfVars>>
  BY <1>4 DEF DestroyDatabase, TypeOK, PollTypeOK, PLTypeOK, StatusTypeOK, ProfileTypeOK,
              plVars, stVars, pfVars
<1>5. CASE UNCHANGED vars
  BY <1>5 DEF vars, TypeOK, PollTypeOK, PLTypeOK, StatusTypeOK, ProfileTypeOK,
              pollVars, plVars, stVars, pfVars
<1> QED BY <1>1, <1>2, <1>3, <1>4, <1>5 DEF Next

-----------------------------------------------------------------------------
(* Who starts, moves and ends a thread                                     *)

\* What a step does to the threads and the flag of key k: nothing (the flag may
\* be cleared, not removed), the join of threads that have ended, the start of
\* new ones, or one step of one of them.
Kept(k) == thr'[k] = thr[k] /\ (ctl'[k] = "absent" => ctl[k] = "absent")
Joined(k) == AllDone(k) /\ thr'[k] = NoThread
Started(k) ==
  /\ thr[k] = NoThread /\ main.op = "idle" /\ ctl'[k] = "true"
Stepped(k) ==
  /\ ctl'[k] = ctl[k]
  /\ \E r \in Roles :
       /\ thr[k][r] \notin {"none", "done"}
       /\ thr[k][r] = "find" => thr'[k][r] = "done" \/ ctl[k] # "absent"
       /\ \A q \in Roles : q # r => thr'[k][q] = thr[k][q]

Evolves(k) == Kept(k) \/ Joined(k) \/ Started(k) \/ Stepped(k)

\* A step of one thread that is running is one of the changes of Evolves.
LEMMA MoveEvolves ==
  ASSUME PollTypeOK, NEW k \in Keys, NEW r \in Roles, NEW pc \in PCs, Move(k, r, pc),
         thr[k][r] \notin {"none", "done"}, ctl' = ctl,
         thr[k][r] = "find" => pc = "done" \/ ctl[k] # "absent"
  PROVE  \A j \in Keys : Evolves(j)
BY MoveFacts DEF Evolves, Kept, Stepped

\* So is every step of PLDeadlockPlugin,
LEMMA PLEvolves ==
  ASSUME TypeOK, PLNext
  PROVE  \A k \in Keys : Evolves(k)
<1> USE DEF TypeOK, Roles, PCs
<1>t. ctl \in [Keys -> Flags] /\ thr \in [Keys -> [Roles -> PCs]] /\ main \in Calls
  BY DEF PollTypeOK, Flags, Calls
<1>a. PICK S \in SUBSET Contexts : ctxDev \in [S -> Keys] BY DEF PLTypeOK
<1>1. ASSUME NEW c \in Contexts, updateDevice(c) PROVE \A k \in Keys : Evolves(k)
  BY <1>1, <1>t, DeadlockAssumption
     DEF updateDevice, Evolves, Kept, Started, Joinable, Callable
<1>2. ASSUME NEW c \in Contexts, flushDevice(c) PROVE \A k \in Keys : Evolves(k)
  BY <1>2, <1>t, <1>a DEF flushDevice, Evolves, Kept
<1>3. CASE flushJoined
  BY <1>3, <1>t DEF flushJoined, Evolves, Kept, Joined, Calls
<1>4. ASSUME NEW by \in {"dtor", "database"}, writeAll(by) PROVE \A k \in Keys : Evolves(k)
  BY <1>4, AskedTyped DEF writeAll, Evolves, Kept
<1>5. CASE writeAllJoined
  BY <1>5 DEF writeAllJoined, Evolves, Joined
<1>6. CASE pluginAfterDatabase
  BY <1>6 DEF pluginAfterDatabase, Evolves, Kept
<1>7. ASSUME NEW d \in Keys, findControl(d) PROVE \A k \in Keys : Evolves(k)
  BY <1>7, MoveEvolves DEF findControl, At
<1>8. ASSUME NEW d \in Keys, pollDeadlock(d) PROVE \A k \in Keys : Evolves(k)
  BY <1>8, MoveEvolves DEF pollDeadlock, At
<1>9. ASSUME NEW d \in Keys, forceWrite(d) PROVE \A k \in Keys : Evolves(k)
  BY <1>9, MoveEvolves DEF forceWrite, At
<1>10. ASSUME NEW d \in Keys, readInfo(d) PROVE \A k \in Keys : Evolves(k)
  BY <1>10, MoveEvolves DEF readInfo, At
<1>11. ASSUME NEW d \in Keys, writeInfo(d) PROVE \A k \in Keys : Evolves(k)
  BY <1>11, MoveEvolves DEF writeInfo, At
<1>12. ASSUME NEW d \in Keys, Hang(d) PROVE \A k \in Keys : Evolves(k)
  BY <1>12 DEF Hang, pollVars, Evolves, Kept
<1> QED
  BY <1>1, <1>2, <1>3, <1>4, <1>5, <1>6, <1>7, <1>8, <1>9, <1>10, <1>11, <1>12
     DEF PLNext, PLMain, PLThread

\* of AIEStatusPlugin and PowerProfilingPlugin,
LEMMA StatusEvolves ==
  ASSUME TypeOK, StatusNext
  PROVE  \A k \in Keys : Evolves(k)
<1> USE DEF TypeOK, Roles, PCs
<1>t. ctl \in [Keys -> Flags] /\ thr \in [Keys -> [Roles -> PCs]] /\ main \in Calls
  BY DEF PollTypeOK, Flags, Calls
<1>a. PowerKey \in Keys BY PollingAssumption DEF PowerKey
<1>1. ASSUME NEW k \in Keys, updateAIEDevice(k) PROVE \A j \in Keys : Evolves(j)
  BY <1>1, <1>t DEF updateAIEDevice, Evolves, Kept, Started, Joinable, Callable
<1>2. CASE endPollforDevice
  BY <1>2, AskedTyped DEF endPollforDevice, Evolves, Kept
<1>3. CASE endPollJoined
  BY <1>3 DEF endPollJoined, Evolves, Joined
<1>4. CASE finalWrite
  BY <1>4 DEF finalWrite, Evolves, Kept
<1>5. CASE destroyStatus
  BY <1>5, AskedTyped DEF destroyStatus, Evolves, Kept
<1>6. ASSUME NEW p \in {"aie_status", "power"}, databaseFirst(p) PROVE \A k \in Keys : Evolves(k)
  BY <1>6 DEF databaseFirst, Evolves, Kept
<1>7. ASSUME NEW k \in Keys, NEW r \in Roles, findFlag(k, r) PROVE \A j \in Keys : Evolves(j)
  BY <1>7, MoveEvolves DEF findFlag, At
<1>8. ASSUME NEW k \in Keys, NEW r \in Roles, leaveLoop(k, r) PROVE \A j \in Keys : Evolves(j)
  BY <1>8, MoveEvolves DEF leaveLoop, At
<1>9. ASSUME NEW k \in Keys, lockWriter(k) PROVE \A j \in Keys : Evolves(j)
  BY <1>9, MoveEvolves DEF lockWriter, At
<1>10. ASSUME NEW k \in Keys, writeStatus(k) PROVE \A j \in Keys : Evolves(j)
  BY <1>10, MoveEvolves DEF writeStatus, At
<1>11. CASE startPower
  <2>1. \A j \in Keys : j # PowerKey => thr'[j] = thr[j] /\ ctl'[j] = ctl[j]
    BY <1>11, <1>a, <1>t DEF startPower, Move
  <2> QED BY <1>11, <1>a, <1>t, <2>1 DEF startPower, Evolves, Kept, Started, Joinable, Callable
<1>12. CASE destroyPower
  BY <1>12, AskedTyped DEF destroyPower, Evolves, Kept
<1>13. CASE powerJoined
  BY <1>13, <1>a, <1>t DEF powerJoined, Evolves, Kept, Joined
<1>14. CASE pollPower
  BY <1>14, <1>a, MoveEvolves DEF pollPower, At
<1> QED
  BY <1>1, <1>2, <1>3, <1>4, <1>5, <1>6, <1>7, <1>8, <1>9, <1>10, <1>11, <1>12, <1>13, <1>14
     DEF StatusNext, StatusMain, StatusThread

\* of AieProfilePlugin,
LEMMA ProfileEvolves ==
  ASSUME TypeOK, ProfileNext
  PROVE  \A k \in Keys : Evolves(k)
<1> USE DEF TypeOK, Roles, PCs
<1>t. ctl \in [Keys -> Flags] /\ thr \in [Keys -> [Roles -> PCs]] /\ main \in Calls
  BY DEF PollTypeOK, Flags, Calls
<1>a. ASSUME NEW k \in Keys, askToEnd(k), thr' = thr PROVE \A j \in Keys : Evolves(j)
  BY <1>a, <1>t DEF askToEnd, Evolves, Kept
<1>b. ASSUME NEW k \in Keys, Ended(k) PROVE \A j \in Keys : Evolves(j)
  BY <1>b, <1>t DEF Ended, Evolves, Kept, Joined
<1>c. ASSUME NEW k \in Keys, At(k, "poll", "loop"), poll(k), ctl' = ctl
      PROVE  \A j \in Keys : Evolves(j)
  BY <1>c, MoveEvolves DEF poll, At
<1>1. ASSUME NEW k \in Keys, NEW fresh \in BOOLEAN, NEW f \in Files, updateAIECounters(k, fresh, f)
      PROVE  \A j \in Keys : Evolves(j)
  <2>1. CASE Joinable(k) BY <1>1, <2>1 DEF updateAIECounters, Evolves, Kept
  <2>2. CASE ~Joinable(k)
    <3>1. \A j \in Keys : j # k => thr'[j] = thr[j] /\ ctl'[j] = ctl[j]
      BY <1>1, <2>2, <1>t DEF updateAIECounters, Move
    <3> QED BY <1>1, <1>t, <2>2, <3>1
               DEF updateAIECounters, Evolves, Kept, Started, Joinable, Callable
  <2> QED BY <2>1, <2>2
<1>2. ASSUME NEW k \in Keys, endPollForHandle(k) PROVE \A j \in Keys : Evolves(j)
  BY <1>2, <1>a DEF endPollForHandle
<1>3. CASE handleJoined
  BY <1>3, <1>b, <1>t DEF handleJoined, Calls
<1>4. ASSUME NEW by \in {"dtor", "database"}, endProfile(by) PROVE \A k \in Keys : Evolves(k)
  BY <1>4 DEF endProfile, Evolves, Kept
<1>5. CASE endNext
  BY <1>5, <1>a DEF endNext
<1>6. CASE nextJoined
  BY <1>6, <1>b DEF nextJoined
<1>7. CASE allEnded
  BY <1>7 DEF allEnded, Evolves, Kept
<1>14. CASE lastWrite
  BY <1>14 DEF lastWrite, Evolves, Kept
<1>15. CASE allWritten
  BY <1>15 DEF allWritten, Evolves, Kept
<1>8. ASSUME NEW k \in Keys, pollInLoop(k) PROVE \A j \in Keys : Evolves(j)
  BY <1>8, <1>c DEF pollInLoop
<1>9. ASSUME NEW k \in Keys, finalPoll(k) PROVE \A j \in Keys : Evolves(j)
  BY <1>9, <1>c, MoveEvolves DEF finalPoll, At
<1>10. ASSUME NEW k \in Keys, broadcast(k) PROVE \A j \in Keys : Evolves(j)
  BY <1>10, MoveEvolves DEF broadcast, At, AfterDump
<1>11. ASSUME NEW k \in Keys, writeSamples(k) PROVE \A j \in Keys : Evolves(j)
  BY <1>11 DEF writeSamples, Evolves, Kept
<1>12. ASSUME NEW k \in Keys, dumpDone(k) PROVE \A j \in Keys : Evolves(j)
  BY <1>12, MoveEvolves DEF dumpDone, At, AfterDump
<1>13. CASE ProfileMain
  BY <1>1, <1>2, <1>3, <1>4, <1>5, <1>6, <1>7, <1>13, <1>14, <1>15 DEF ProfileMain
<1> QED
  BY <1>8, <1>9, <1>10, <1>11, <1>12, <1>13 DEF ProfileNext, ProfileThread

\* and of the whole system.
LEMMA StepEvolves ==
  ASSUME TypeOK, [Next]_vars
  PROVE  \A k \in Keys : Evolves(k)
<1>1. CASE DestroyDatabase
  BY <1>1 DEF DestroyDatabase, Evolves, Kept
<1>2. CASE UNCHANGED vars
  BY <1>2 DEF vars, pollVars, Evolves, Kept
<1> QED BY <1>1, <1>2, PLEvolves, StatusEvolves, ProfileEvolves DEF Next

\* A flag is removed only with its threads, and they are searching or done.
LEMMA ControlStep ==
  ASSUME TypeOK, ControlOutlives, [Next]_vars
  PROVE  ControlOutlives'
<1> SUFFICES ASSUME NEW k \in Keys, NEW r \in Roles, thr'[k][r] \notin {"none", "find", "done"}
             PROVE  ctl'[k] # "absent"
  BY DEF ControlOutlives
<1>1. Evolves(k) BY StepEvolves
<1>2. CASE Kept(k) BY <1>2 DEF Kept, ControlOutlives
<1>3. CASE Joined(k) BY <1>3 DEF Joined, NoThread
<1>4. CASE Started(k) BY <1>4 DEF Started
<1>5. CASE Stepped(k)
  <2>1. PICK q \in Roles :
          /\ thr[k][q] \notin {"none", "done"}
          /\ thr[k][q] = "find" => thr'[k][q] = "done" \/ ctl[k] # "absent"
          /\ \A p \in Roles : p # q => thr'[k][p] = thr[k][p]
    BY <1>5 DEF Stepped
  <2>2. CASE q = r BY <1>5, <2>1, <2>2 DEF Stepped, ControlOutlives
  <2>3. CASE q # r BY <1>5, <2>1, <2>3 DEF Stepped, ControlOutlives
  <2> QED BY <2>2, <2>3
<1> QED BY <1>1, <1>2, <1>3, <1>4, <1>5 DEF Evolves

-----------------------------------------------------------------------------
(* The application thread and the two destructors                          *)

\* What a step may do to the objects: the plugin stays loaded, a crash is for
\* good, and a destructor of PLDeadlockPlugin, of AieProfilePlugin or of the
\* database that completes finds all threads joined.
ObjectStep ==
  /\ plugin' = plugin /\ (crashed => crashed')
  /\ plugin \in {"pl_deadlock", "aie_profile"} /\ dbAlive /\ live =>
       \/ dbAlive' /\ live'
       \/ \A k \in Keys : thr'[k] = NoThread

\* The steps of PLDeadlockPlugin,
LEMMA PLMainStep ==
  ASSUME TypeOK, MainInv, PLNext
  PROVE  MainInv' /\ ObjectStep
<1> USE DEF MainInv, ObjectStep, Loaded, Callable, Exiting
<1>t. main \in Calls BY DEF TypeOK, PollTypeOK, Calls
<1>1. ASSUME NEW c \in Contexts, updateDevice(c) PROVE MainInv' /\ ObjectStep
  BY <1>1 DEF updateDevice
<1>2. ASSUME NEW c \in Contexts, flushDevice(c) PROVE MainInv' /\ ObjectStep
  BY <1>2 DEF flushDevice
<1>3. CASE flushJoined
  BY <1>3, <1>t, ReturnTyped DEF flushJoined
<1>4. ASSUME NEW by \in {"dtor", "database"}, writeAll(by) PROVE MainInv' /\ ObjectStep
  BY <1>4, <1>t, GotoTyped DEF writeAll
<1>5. CASE writeAllJoined
  BY <1>5, <1>t, ReturnTyped DEF writeAllJoined, Calls
<1>6. CASE pluginAfterDatabase
  BY <1>6 DEF pluginAfterDatabase
<1>7. ASSUME NEW d \in Keys, findControl(d) PROVE MainInv' /\ ObjectStep
  BY <1>7 DEF findControl
<1>8. ASSUME NEW d \in Keys, pollDeadlock(d) PROVE MainInv' /\ ObjectStep
  BY <1>8 DEF pollDeadlock
<1>9. ASSUME NEW d \in Keys, forceWrite(d) PROVE MainInv' /\ ObjectStep
  BY <1>9 DEF forceWrite
<1>10. ASSUME NEW d \in Keys, readInfo(d) PROVE MainInv' /\ ObjectStep
  BY <1>10 DEF readInfo
<1>11. ASSUME NEW d \in Keys, writeInfo(d) PROVE MainInv' /\ ObjectStep
  BY <1>11 DEF writeInfo
<1>12. ASSUME NEW d \in Keys, Hang(d) PROVE MainInv' /\ ObjectStep
  BY <1>12 DEF Hang, pollVars
<1> HIDE DEF MainInv, ObjectStep
<1> QED
  BY <1>1, <1>2, <1>3, <1>4, <1>5, <1>6, <1>7, <1>8, <1>9, <1>10, <1>11, <1>12
     DEF PLNext, PLMain, PLThread

\* of AIEStatusPlugin and PowerProfilingPlugin,
LEMMA StatusMainStep ==
  ASSUME TypeOK, MainInv, StatusNext
  PROVE  MainInv' /\ ObjectStep
<1> USE DEF MainInv, ObjectStep, Loaded, Callable, Exiting
<1>t. main \in Calls BY DEF TypeOK, PollTypeOK, Calls
<1>1. ASSUME NEW k \in Keys, updateAIEDevice(k) PROVE MainInv' /\ ObjectStep
  BY <1>1 DEF updateAIEDevice
<1>2. CASE endPollforDevice
  BY <1>2, <1>t, GotoTyped DEF endPollforDevice
<1>3. CASE endPollJoined
  BY <1>3, <1>t, GotoTyped, ReturnTyped DEF endPollJoined
<1>4. CASE finalWrite
  BY <1>4, <1>t, ReturnTyped DEF finalWrite
<1>5. CASE destroyStatus
  BY <1>5, <1>t, GotoTyped DEF destroyStatus
<1>6. ASSUME NEW p \in {"aie_status", "power"}, databaseFirst(p) PROVE MainInv' /\ ObjectStep
  BY <1>6, <1>t, GotoTyped DEF databaseFirst
<1>7. ASSUME NEW k \in Keys, NEW r \in Roles, findFlag(k, r) PROVE MainInv' /\ ObjectStep
  BY <1>7 DEF findFlag
<1>8. ASSUME NEW k \in Keys, NEW r \in Roles, leaveLoop(k, r) PROVE MainInv' /\ ObjectStep
  BY <1>8 DEF leaveLoop
<1>9. ASSUME NEW k \in Keys, lockWriter(k) PROVE MainInv' /\ ObjectStep
  BY <1>9 DEF lockWriter
<1>10. ASSUME NEW k \in Keys, writeStatus(k) PROVE MainInv' /\ ObjectStep
  BY <1>10 DEF writeStatus
<1>11. CASE startPower
  BY <1>11 DEF startPower
<1>12. CASE destroyPower
  BY <1>12, <1>t, GotoTyped DEF destroyPower
<1>13. CASE powerJoined
  BY <1>13, <1>t, ReturnTyped DEF powerJoined
<1>14. CASE pollPower
  BY <1>14 DEF pollPower
<1> HIDE DEF MainInv, ObjectStep
<1> QED
  BY <1>1, <1>2, <1>3, <1>4, <1>5, <1>6, <1>7, <1>8, <1>9, <1>10, <1>11, <1>12, <1>13, <1>14
     DEF StatusNext, StatusMain, StatusThread

\* of AieProfilePlugin,
LEMMA ProfileMainStep ==
  ASSUME TypeOK, MainInv, ProfileNext
  PROVE  MainInv' /\ ObjectStep
<1> USE DEF MainInv, ObjectStep, Loaded, Callable, Exiting
<1>t. main \in Calls BY DEF TypeOK, PollTypeOK, Calls
<1>1. ASSUME NEW k \in Keys, NEW fresh \in BOOLEAN, NEW f \in Files, updateAIECounters(k, fresh, f)
      PROVE  MainInv' /\ ObjectStep
  BY <1>1 DEF updateAIECounters
<1>2. ASSUME NEW k \in Keys, endPollForHandle(k) PROVE MainInv' /\ ObjectStep
  BY <1>2 DEF endPollForHandle
<1>3. CASE handleJoined
  BY <1>3, <1>t, ReturnTyped DEF handleJoined
<1>4. ASSUME NEW by \in {"dtor", "database"}, endProfile(by) PROVE MainInv' /\ ObjectStep
  BY <1>4, <1>t, GotoTyped DEF endProfile
<1>5. CASE endNext
  BY <1>5 DEF endNext
<1>6. CASE nextJoined
  BY <1>6 DEF nextJoined
<1>7. CASE allEnded
  BY <1>7, <1>t, GotoTyped DEF allEnded, Joinable, Calls
<1>14. CASE lastWrite
  BY <1>14 DEF lastWrite
<1>15. CASE allWritten
  BY <1>15, <1>t, ReturnTyped DEF allWritten, Calls
<1>r. ASSUME NEW k \in Keys, NEW pc \in {"loop", "dump", "write"}, At(k, "poll", pc), plugin = "aie_profile"
      PROVE  main.op # "final"
  BY <1>r DEF At, NoThread, Roles
<1>8. ASSUME NEW k \in Keys, pollInLoop(k) PROVE MainInv' /\ ObjectStep
  BY <1>8, <1>r DEF pollInLoop
<1>9. ASSUME NEW k \in Keys, finalPoll(k) PROVE MainInv' /\ ObjectStep
  BY <1>9, <1>r DEF finalPoll
<1>10. ASSUME NEW k \in Keys, broadcast(k) PROVE MainInv' /\ ObjectStep
  BY <1>10, <1>r DEF broadcast
<1>11. ASSUME NEW k \in Keys, writeSamples(k) PROVE MainInv' /\ ObjectStep
  BY <1>11 DEF writeSamples
<1>12. ASSUME NEW k \in Keys, dumpDone(k) PROVE MainInv' /\ ObjectStep
  BY <1>12, <1>r DEF dumpDone
<1> HIDE DEF MainInv, ObjectStep
<1>13. CASE ProfileMain
  BY <1>1, <1>2, <1>3, <1>4, <1>5, <1>6, <1>7, <1>13, <1>14, <1>15 DEF ProfileMain
<1> QED
  BY <1>8, <1>9, <1>10, <1>11, <1>12, <1>13 DEF ProfileNext, ProfileThread

\* and of the whole system.
LEMMA MainStep ==
  ASSUME TypeOK, MainInv, [Next]_vars
  PROVE  MainInv' /\ ObjectStep
<1>1. CASE DestroyDatabase
  BY <1>1 DEF DestroyDatabase, MainInv, ObjectStep
<1>2. CASE UNCHANGED vars
  BY <1>2 DEF vars, pollVars, MainInv, ObjectStep
<1> QED BY <1>1, <1>2, PLMainStep, StatusMainStep, ProfileMainStep DEF Next

\* After a destructor nothing runs: nothing starts a thread any more.
LEMMA EndedStep ==
  ASSUME TypeOK, MainInv, EndedInv, [Next]_vars
  PROVE  EndedInv'
<1> SUFFICES ASSUME plugin' \in {"pl_deadlock", "aie_profile"}, ~crashed', ~(dbAlive' /\ live'),
                    NEW k \in Keys
             PROVE  AllDone(k)'
  BY DEF EndedInv, Running
<1>1. ObjectStep /\ Evolves(k) BY MainStep, StepEvolves
<1>2. CASE thr'[k] = NoThread BY <1>2 DEF AllDone, NoThread
<1>3. CASE ~(dbAlive /\ live)
  <2>1. AllDone(k) BY <1>1, <1>3 DEF ObjectStep, EndedInv, Running
  <2>2. main.op # "idle" BY <1>3 DEF MainInv
  <2>3. ~Started(k) /\ ~Stepped(k) BY <2>1, <2>2 DEF Started, Stepped, AllDone
  <2> QED BY <1>1, <2>1, <2>3, <1>2 DEF Evolves, Kept, Joined, AllDone
<1> QED BY <1>1, <1>2, <1>3 DEF ObjectStep

-----------------------------------------------------------------------------
(* The deadlock file                                                       *)

\* Each step of PLDeadlockPlugin.  The calls of the application only end threads
\* that are done or start new ones: nobody enters or leaves the critical section.
LEMMA PLFileStep ==
  ASSUME TypeOK, FileInv, PLNext
  PROVE  FileInv'
<1> DEFINE In(d) == thr[d]["poll"] \in {"lock", "read", "file"}
           SameFile == UNCHANGED <<info, mWriteLock, snap, file, reported>>
           SameIn == \A d \in Keys : In(d)' => thr'[d]["poll"] = thr[d]["poll"]
<1>p. plugin = "pl_deadlock" /\ plugin' = plugin
  BY DEF PLNext, PLMain, PLThread, updateDevice, flushDevice, flushJoined, writeAll,
         writeAllJoined, pluginAfterDatabase, findControl, pollDeadlock, forceWrite,
         readInfo, writeInfo, Hang, Callable, Exiting, Loaded, pollVars
<1>t. /\ thr \in [Keys -> [Roles -> PCs]] /\ "poll" \in Roles /\ main.key \in Keys
      /\ info \subseteq Keys /\ snap \in [Keys -> SUBSET Keys] /\ mWriteLock \in BOOLEAN
      /\ reported \subseteq Keys
  BY DEF TypeOK, PollTypeOK, PLTypeOK, PCs, Roles
<1>m. ASSUME NEW d \in Keys, NEW pc \in PCs, Move(d, "poll", pc)
      PROVE  /\ thr'[d]["poll"] = pc
             /\ \A e \in Keys : e # d => thr'[e] = thr[e]
  BY <1>m, MoveFacts DEF TypeOK, Roles
<1>s. ASSUME SameFile, SameIn PROVE FileInv'
  BY <1>s, <1>p DEF FileInv
<1> HIDE DEF SameFile, SameIn
<1>1. ASSUME NEW c \in Contexts, updateDevice(c) PROVE FileInv'
  <2>1. SameIn BY <1>1, <1>t, DeadlockAssumption DEF updateDevice, SameIn
  <2> QED BY <1>1, <2>1, <1>s DEF updateDevice, fileVars, SameFile
<1>2. ASSUME NEW c \in Contexts, flushDevice(c) PROVE FileInv'
  BY <1>2, <1>s DEF flushDevice, fileVars, SameFile, SameIn
<1>3. CASE flushJoined
  <2>1. SameIn BY <1>3, <1>t DEF flushJoined, SameIn, NoThread
  <2> QED BY <1>3, <2>1, <1>s DEF flushJoined, fileVars, SameFile
<1>4. ASSUME NEW by \in {"dtor", "database"}, writeAll(by) PROVE FileInv'
  BY <1>4, <1>s DEF writeAll, plVars, SameFile, SameIn
<1>5. CASE writeAllJoined
  BY <1>5, <1>s, <1>t DEF writeAllJoined, plVars, SameFile, SameIn, NoThread
<1>6. CASE pluginAfterDatabase
  BY <1>6, <1>s DEF pluginAfterDatabase, plVars, SameFile, SameIn
<1>7. ASSUME NEW d \in Keys, findControl(d) PROVE FileInv'
  BY <1>7, <1>s, <1>m DEF findControl, plVars, SameFile, SameIn, PCs
<1>8. ASSUME NEW d \in Keys, pollDeadlock(d) PROVE FileInv'
  <2>1. CASE Move(d, "poll", "lock") /\ info' = info \cup {d}
    BY <1>8, <2>1, <1>m, <1>p, <1>t DEF pollDeadlock, FileInv, PCs, At
  <2>2. CASE Move(d, "poll", "done") /\ UNCHANGED info
    BY <1>8, <2>2, <1>m, <1>s DEF pollDeadlock, SameFile, SameIn, PCs
  <2> QED BY <1>8, <2>1, <2>2 DEF pollDeadlock
<1>9. ASSUME NEW d \in Keys, forceWrite(d) PROVE FileInv'
  BY <1>9, <1>m, <1>p, <1>t DEF forceWrite, FileInv, PCs, At
<1>10. ASSUME NEW d \in Keys, readInfo(d) PROVE FileInv'
  BY <1>10, <1>m, <1>p, <1>t DEF readInfo, FileInv, PCs, At
<1>11. ASSUME NEW d \in Keys, writeInfo(d) PROVE FileInv'
  <2>1. \A e \in Keys : thr'[e]["poll"] \notin {"read", "file"}
    BY <1>11, <1>m, <1>p, <1>t DEF writeInfo, FileInv, PCs, At
  <2>2. reported' \subseteq snap[d] /\ reported' \subseteq info
    BY <1>11, <1>p, <1>t DEF writeInfo, FileInv, At
  <2> QED BY <1>11, <1>m, <1>p, <1>t, <2>1, <2>2 DEF writeInfo, FileInv, PCs, At
<1>12. ASSUME NEW d \in Keys, Hang(d) PROVE FileInv'
  BY <1>12, <1>s DEF Hang, pollVars, fileVars, SameFile, SameIn
<1> QED
  BY <1>1, <1>2, <1>3, <1>4, <1>5, <1>6, <1>7, <1>8, <1>9, <1>10, <1>11, <1>12
     DEF PLNext, PLMain, PLThread

\* The other plugins never touch the deadlock file.
LEMMA FileStep ==
  ASSUME TypeOK, FileInv, [Next]_vars
  PROVE  FileInv'
<1>1. CASE PLNext BY <1>1, PLFileStep
<1>2. CASE (StatusNext \/ ProfileNext) /\ UNCHANGED plVars
  <2>1. plugin # "pl_deadlock" /\ plugin' = plugin
    <3>1. CASE StatusNext
      BY <3>1 DEF StatusNext, StatusMain, StatusThread, updateAIEDevice, endPollforDevice,
         endPollJoined, finalWrite, destroyStatus, databaseFirst, findFlag, leaveLoop,
         lockWriter, writeStatus, startPower, destroyPower, powerJoined, pollPower,
         Callable, Exiting, Loaded
    <3>2. CASE ProfileNext
      BY <3>2 DEF ProfileNext, ProfileMain, ProfileThread, updateAIECounters, endPollForHandle,
         handleJoined, endProfile, endNext, nextJoined, allEnded, lastWrite, allWritten,
         pollInLoop, finalPoll, broadcast, writeSamples, dumpDone, Callable, Exiting, Loaded
    <3> QED BY <1>2, <3>1, <3>2
  <2> QED BY <1>2, <2>1 DEF FileInv, plVars
<1>3. CASE DestroyDatabase /\ UNCHANGED plVars
  BY <1>3 DEF DestroyDatabase, FileInv, plVars
<1>4. CASE UNCHANGED vars
  BY <1>4 DEF vars, pollVars, plVars, FileInv
<1> QED BY <1>1, <1>2, <1>3, <1>4 DEF Next

-----------------------------------------------------------------------------
(* The samples of the AIE profile                                          *)

\* A new sample is the last one in the database.
LEMMA FilesAppend ==
  ASSUME NEW L \in [Files -> Seq(Nat)], NEW s \in Seq(Nat), NEW n \in Nat, FilesOK(L, s, n)
  PROVE  FilesOK(L, Append(s, n + 1), n + 1)
<1>a. PICK a \in Seq(Nat) : a = Append(s, n + 1)
  <2>1. n + 1 \in Nat OBVIOUS
  <2>2. Append(s, n + 1) \in Seq(Nat) BY <2>1
  <2> QED BY <2>2
<1>b. /\ Len(a) = Len(s) + 1 /\ Len(s) \in Nat /\ DOMAIN a = 1 .. Len(s) + 1 /\ DOMAIN s = 1 .. Len(s)
      /\ \A j \in 1 .. Len(s) : a[j] = s[j]
      /\ a[Len(s) + 1] = n + 1
  BY <1>a
<1>c. \A j \in 1 .. Len(s) : s[j] \in 1 .. n BY <1>b DEF FilesOK
<1>1. Increasing(a)
  BY <1>b, <1>c DEF FilesOK, Increasing
<1>2. \A j \in DOMAIN a : a[j] \in 1 .. n + 1
  <2> SUFFICES ASSUME NEW j \in 1 .. Len(s) + 1 PROVE a[j] \in 1 .. n + 1 BY <1>b
  <2>1. CASE j = Len(s) + 1 BY <2>1, <1>b
  <2>2. CASE j \in 1 .. Len(s)
    <3>1. a[j] \in 1 .. n BY <2>2, <1>b, <1>c
    <3> QED BY <3>1
  <2> QED BY <2>1, <2>2, <1>b
<1>3. \A f \in Files : \A i \in DOMAIN L[f] : L[f][i] \in 1 .. n
  BY DEF FilesOK
<1>4. ASSUME NEW f \in Files, NEW i \in DOMAIN L[f], NEW j \in DOMAIN a PROVE L[f][i] < a[j]
  <2>1. CASE j = Len(s) + 1
    <3>1. L[f][i] \in 1 .. n BY <1>3
    <3> QED BY <2>1, <3>1, <1>b
  <2>2. CASE j \in 1 .. Len(s)
    <3>1. L[f][i] < s[j] BY <2>2, <1>b DEF FilesOK
    <3> QED BY <2>2, <3>1, <1>b
  <2> QED BY <2>1, <2>2, <1>b
<1>5. \A f, g \in Files : \A i \in DOMAIN L[f] : \A j \in DOMAIN L[g] : L[f][i] = L[g][j] => f = g
  BY DEF FilesOK
<1>6. ASSUME NEW x \in 1 .. n + 1
      PROVE  \/ \E j \in DOMAIN a : a[j] = x
             \/ \E f \in Files : \E i \in DOMAIN L[f] : L[f][i] = x
  <2>1. CASE x = n + 1 BY <2>1, <1>b
  <2>2. CASE x \in 1 .. n
    <3>1. \/ \E j \in DOMAIN s : s[j] = x
          \/ \E f \in Files : \E i \in DOMAIN L[f] : L[f][i] = x
      BY <2>2 DEF FilesOK
    <3> QED BY <3>1, <1>b
  <2> QED BY <2>1, <2>2
<1>7. \A f \in Files : Increasing(L[f]) BY DEF FilesOK
<1>8. \A f \in Files : \A i \in DOMAIN L[f] : L[f][i] \in 1 .. n + 1 BY <1>3
<1>9. FilesOK(L, a, n + 1)
  BY <1>1, <1>2, <1>4, <1>5, <1>6, <1>7, <1>8 DEF FilesOK
<1> QED BY <1>a, <1>9

\* The samples of the database are appended to one file.
LEMMA FilesMove ==
  ASSUME NEW L \in [Files -> Seq(Nat)], NEW s \in Seq(Nat), NEW n \in Nat, NEW h \in Files, FilesOK(L, s, n),
         NEW M \in [Files -> Seq(Nat)], M = [L EXCEPT ![h] = L[h] \o s]
  PROVE  FilesOK(M, <<>>, n)
<1>a. PICK a \in Seq(Nat) : a = L[h] \o s OBVIOUS
<1>b. PICK l \in Seq(Nat) : l = L[h] OBVIOUS
<1>c. /\ Len(a) = Len(l) + Len(s) /\ Len(s) \in Nat /\ Len(l) \in Nat
      /\ DOMAIN a = 1 .. Len(l) + Len(s) /\ DOMAIN s = 1 .. Len(s) /\ DOMAIN l = 1 .. Len(l)
      /\ \A j \in 1 .. Len(l) : a[j] = l[j]
      /\ \A j \in Len(l) + 1 .. Len(l) + Len(s) : a[j] = s[j - Len(l)]
  BY <1>a, <1>b
<1>d. M[h] = a /\ \A f \in Files : f # h => M[f] = L[f]
  BY <1>a
<1>e. /\ Increasing(s) /\ Increasing(l)
      /\ \A i \in 1 .. Len(l) : \A j \in 1 .. Len(s) : l[i] < s[j]
      /\ \A i \in 1 .. Len(l) : l[i] \in 1 .. n
      /\ \A j \in 1 .. Len(s) : s[j] \in 1 .. n
  BY <1>b, <1>c DEF FilesOK
<1>f. \A j \in DOMAIN a : \/ j \in 1 .. Len(l) /\ a[j] = l[j]
                          \/ j - Len(l) \in 1 .. Len(s) /\ a[j] = s[j - Len(l)] /\ j > Len(l)
  <2> SUFFICES ASSUME NEW j \in 1 .. Len(l) + Len(s)
               PROVE  \/ j \in 1 .. Len(l) /\ a[j] = l[j]
                      \/ j - Len(l) \in 1 .. Len(s) /\ a[j] = s[j - Len(l)] /\ j > Len(l)
    BY <1>c
  <2>1. CASE j <= Len(l)
    <3>1. j \in 1 .. Len(l) BY <2>1, <1>c
    <3> QED BY <3>1, <1>c
  <2>2. CASE j > Len(l)
    <3>1. j \in Len(l) + 1 .. Len(l) + Len(s) /\ j - Len(l) \in 1 .. Len(s) BY <2>2, <1>c
    <3>2. a[j] = s[j - Len(l)] BY <3>1, <1>c
    <3> QED BY <2>2, <3>1, <3>2
  <2> QED BY <2>1, <2>2, <1>c
<1>1. Increasing(a)
  <2> SUFFICES ASSUME NEW i \in DOMAIN a, NEW j \in DOMAIN a, i < j PROVE a[i] < a[j]
    BY DEF Increasing
  <2>1. i \in Nat /\ j \in Nat BY <1>c
  <2>2. CASE j \in 1 .. Len(l)
    <3>1. i \in 1 .. Len(l) /\ a[i] = l[i] /\ a[j] = l[j] BY <2>1, <2>2, <1>c
    <3>2. l[i] < l[j] BY <2>2, <3>1, <1>c, <1>e DEF Increasing
    <3> QED BY <3>1, <3>2
  <2>3. CASE i \in 1 .. Len(l) /\ j \notin 1 .. Len(l) BY <2>1, <2>3, <1>c, <1>e, <1>f
  <2>4. CASE i \notin 1 .. Len(l) /\ j \notin 1 .. Len(l)
    <3>1. /\ i - Len(l) \in 1 .. Len(s) /\ a[i] = s[i - Len(l)]
          /\ j - Len(l) \in 1 .. Len(s) /\ a[j] = s[j - Len(l)] /\ i - Len(l) < j - Len(l)
      BY <2>1, <2>4, <1>f, <1>c
    <3> QED BY <3>1, <1>e, <1>c DEF Increasing
  <2> QED BY <2>2, <2>3, <2>4
<1>2. \A f \in Files : Increasing(M[f])
  BY <1>1, <1>d DEF FilesOK
<1>3. \A j \in DOMAIN a : a[j] \in 1 .. n
  BY <1>e, <1>f
<1>4. \A f \in Files : \A i \in DOMAIN M[f] : M[f][i] \in 1 .. n
  BY <1>3, <1>d DEF FilesOK
<1>5. ASSUME NEW g \in Files, g # h, NEW i \in DOMAIN a, NEW j \in DOMAIN L[g] PROVE a[i] # L[g][j]
  <2>1. L[g][j] \in Nat OBVIOUS
  <2>2. CASE i \in 1 .. Len(l) /\ a[i] = l[i]
    BY <2>2, <1>b, <1>c, <1>5 DEF FilesOK
  <2>3. CASE i - Len(l) \in 1 .. Len(s) /\ a[i] = s[i - Len(l)]
    <3>1. L[g][j] < s[i - Len(l)] BY <2>3, <1>c DEF FilesOK
    <3>2. s[i - Len(l)] \in 1 .. n BY <2>3, <1>e
    <3>3. PICK x \in Nat : x = s[i - Len(l)] BY <3>2
    <3>4. PICK y \in Nat : y = L[g][j] BY <2>1
    <3>5. y < x BY <3>1, <3>3, <3>4
    <3>6. x # y BY <3>5
    <3> QED BY <2>3, <3>3, <3>4, <3>6
  <2> QED BY <2>2, <2>3, <1>f
<1>6. ASSUME NEW f \in Files, NEW g \in Files, NEW i \in DOMAIN M[f], NEW j \in DOMAIN M[g], M[f][i] = M[g][j]
      PROVE  f = g
  <2>1. CASE f # h /\ g # h BY <2>1, <1>6, <1>d DEF FilesOK
  <2>2. CASE f = h /\ g # h
    <3>1. M[f] = a /\ M[g] = L[g] BY <2>2, <1>d
    <3>2. i \in DOMAIN a /\ j \in DOMAIN L[g] /\ a[i] = L[g][j] BY <3>1, <1>6
    <3> QED BY <2>2, <3>2, <1>5
  <2>3. CASE f # h /\ g = h
    <3>1. M[g] = a /\ M[f] = L[f] BY <2>3, <1>d
    <3>2. j \in DOMAIN a /\ i \in DOMAIN L[f] /\ a[j] = L[f][i] BY <3>1, <1>6
    <3> QED BY <2>3, <3>2, <1>5
  <2> QED BY <2>1, <2>2, <2>3
<1>7. ASSUME NEW x \in 1 .. n PROVE \E f \in Files : \E i \in DOMAIN M[f] : M[f][i] = x
  <2>1. CASE \E j \in DOMAIN s : s[j] = x
    <3>1. PICK j \in 1 .. Len(s) : s[j] = x BY <2>1, <1>c
    <3>2. Len(l) + j \in DOMAIN a /\ a[Len(l) + j] = x
      <4>1. PICK p \in Nat : p = Len(l) + j BY <1>c
      <4>2. p \in Len(l) + 1 .. Len(l) + Len(s) /\ p \in 1 .. Len(l) + Len(s) /\ p - Len(l) = j BY <4>1, <1>c
      <4>3. a[p] = s[p - Len(l)] BY <4>2, <1>c
      <4> QED BY <4>1, <4>2, <4>3, <3>1, <1>c
    <3> QED BY <3>2, <1>d
  <2>2. CASE \E f \in Files : \E i \in DOMAIN L[f] : L[f][i] = x
    <3>1. PICK f \in Files : \E i \in DOMAIN L[f] : L[f][i] = x BY <2>2
    <3>2. PICK i \in DOMAIN L[f] : L[f][i] = x BY <3>1
    <3>3. CASE f = h BY <3>2, <3>3, <1>b, <1>c, <1>d
    <3>4. CASE f # h BY <3>2, <3>4, <1>d
    <3> QED BY <3>3, <3>4
  <2> QED BY <2>1, <2>2 DEF FilesOK
<1>8. Increasing(<<>>) /\ DOMAIN <<>> = {} BY DEF Increasing
<1> QED BY <1>2, <1>4, <1>6, <1>7, <1>8 DEF FilesOK

\* A sample is taken: the places of the writers do not change.
LEMMA SoundPoll ==
  ASSUME ProfileTypeOK, NEW k \in Keys, Sound(k), UNCHANGED <<lines, profWriters>>,
         samples'[k] = Append(samples[k], taken[k] + 1), taken'[k] = taken[k] + 1
  PROVE  Sound(k)'
<1>1. /\ lines[k] \in [Files -> Seq(Nat)] /\ samples[k] \in Seq(Nat) /\ taken[k] \in Nat
  BY DEF ProfileTypeOK
<1>2. Shared(k)' = Shared(k) /\ PlacesOK(k)' = PlacesOK(k)
  BY DEF Shared, PlacesOK, WritersOf, Opened
<1>3. CASE Shared(k) BY <1>2, <1>3 DEF Sound
<1>4. CASE ~Shared(k)
  <2>1. FilesOK(lines[k], samples[k], taken[k]) /\ PlacesOK(k) BY <1>4 DEF Sound
  <2>2. FilesOK(lines[k], Append(samples[k], taken[k] + 1), taken[k] + 1)
    BY <1>1, <2>1, FilesAppend
  <2>3. FilesOK(lines[k], samples[k], taken[k])' BY <2>2 DEF FilesOK
  <2> QED BY <1>2, <2>1, <2>3 DEF Sound
<1> QED BY <1>3, <1>4

\* Nothing that concerns the key changes.
LEMMA SoundKept ==
  ASSUME ProfileTypeOK, NEW k \in Keys, Sound(k),
         lines'[k] = lines[k], samples'[k] = samples[k], taken'[k] = taken[k],
         WritersOf(k)' = WritersOf(k), \A w \in WritersOf(k) : profWriters'[w] = profWriters[w]
  PROVE  Sound(k)'
<1>1. Shared(k)' = Shared(k) BY DEF Shared
<1>2. \A f \in Files : Opened(k, f)' = Opened(k, f) BY DEF Opened
<1>3. PlacesOK(k)' = PlacesOK(k) BY <1>2 DEF PlacesOK
<1>4. FilesOK(lines[k], samples[k], taken[k])' = FilesOK(lines[k], samples[k], taken[k])
  BY DEF FilesOK
<1> QED BY <1>1, <1>3, <1>4 DEF Sound

\* An update adds a writer: to a file that another writer has, or to a new one.
LEMMA SoundUpdate ==
  ASSUME ProfileTypeOK, NEW k \in Keys, NEW f \in Files, Sound(k),
         profWriters' = Append(profWriters, [key |-> k, file |-> f, pos |-> 0]),
         lines' = [lines EXCEPT ![k][f] = <<>>], UNCHANGED <<samples, taken>>
  PROVE  /\ \A j \in Keys : WritersOf(j) \subseteq WritersOf(j)'
         /\ WritersOf(k)' # {}
         /\ Sound(k)'
         /\ \A j \in Keys : j # k /\ Sound(j) => Sound(j)'
<1>t. /\ profWriters \in Seq(Writer) /\ lines \in [Keys -> [Files -> Seq(Nat)]]
  BY DEF ProfileTypeOK
<1> DEFINE n == Len(profWriters)
<1>a. /\ n \in Nat /\ DOMAIN profWriters = 1 .. n /\ DOMAIN profWriters' = 1 .. n + 1
      /\ \A w \in 1 .. n : profWriters'[w] = profWriters[w]
      /\ profWriters'[n + 1] = [key |-> k, file |-> f, pos |-> 0]
  BY <1>t
<1> HIDE DEF n
<1>b. WritersOf(k)' = WritersOf(k) \cup {n + 1} /\ \A j \in Keys : j # k => WritersOf(j)' = WritersOf(j)
  BY <1>a DEF WritersOf
<1>c. \A j \in Keys : WritersOf(j) \subseteq 1 .. n
  BY <1>a DEF WritersOf
<1>1. ASSUME NEW j \in Keys, j # k, Sound(j) PROVE Sound(j)'
  <2>1. lines'[j] = lines[j] BY <1>1, <1>t
  <2>2. \A w \in WritersOf(j) : profWriters'[w] = profWriters[w] BY <1>a, <1>c
  <2> QED BY <1>1, <1>b, <2>1, <2>2, SoundKept
<1>2. Sound(k)'
  <2>1. CASE Opened(k, f)
    <3>1. PICK v \in WritersOf(k) : profWriters[v].file = f BY <2>1 DEF Opened
    <3>2. v \in 1 .. n /\ v # n + 1 BY <3>1, <1>a, <1>c
    <3>4. profWriters'[v].file = f /\ profWriters'[n + 1].file = f BY <3>1, <3>2, <1>a
    <3>3. Shared(k)' BY <3>1, <3>2, <3>4, <1>b DEF Shared
    <3> QED BY <3>3 DEF Sound
  <2>2. CASE ~Opened(k, f)
    <3> SUFFICES ASSUME ~Shared(k)' PROVE FilesOK(lines[k], samples[k], taken[k])' /\ PlacesOK(k)'
      BY DEF Sound
    <3>1. \A v, w \in WritersOf(k) : v # w => profWriters[v].file # profWriters[w].file
      BY <1>a, <1>b, <1>c DEF Shared
    <3>2. FilesOK(lines[k], samples[k], taken[k]) /\ PlacesOK(k) BY <3>1 DEF Sound, Shared
    <3>3. lines[k][f] = <<>> BY <2>2, <3>2 DEF PlacesOK
    <3>4. lines'[k] = lines[k] BY <1>t, <3>3
    <3>5. FilesOK(lines[k], samples[k], taken[k])' BY <3>2, <3>4 DEF FilesOK
    <3>6. \A w \in WritersOf(k)' : profWriters'[w].pos = Len(lines'[k][profWriters'[w].file])
      <4> SUFFICES ASSUME NEW w \in WritersOf(k)' PROVE profWriters'[w].pos = Len(lines'[k][profWriters'[w].file])
        OBVIOUS
      <4>1. CASE w \in WritersOf(k) BY <4>1, <1>a, <1>c, <3>2, <3>4 DEF PlacesOK
      <4>2. CASE w = n + 1 BY <4>2, <1>a, <3>3, <3>4
      <4> QED BY <4>1, <4>2, <1>b
    <3>7. \A g \in Files : Opened(k, g) => Opened(k, g)'
      BY <1>a, <1>b, <1>c DEF Opened
    <3>8. \A g \in Files : ~Opened(k, g)' => lines'[k][g] = <<>>
      BY <3>2, <3>4, <3>7 DEF PlacesOK
    <3> QED BY <3>5, <3>6, <3>8 DEF PlacesOK
  <2> QED BY <2>1, <2>2
<1> QED BY <1>b, <1>1, <1>2

\* A writer writes: at the end of its file, which no other writer has.
LEMMA SoundWrite ==
  ASSUME ProfileTypeOK, nextWrites, \A j \in Keys : Sound(j), UNCHANGED taken
  PROVE  /\ \A j \in Keys : WritersOf(j)' = WritersOf(j)
         /\ \A j \in Keys : Sound(j)'
         /\ \A j \in Keys : \/ samples'[j] = <<>>
                            \/ samples'[j] = samples[j] /\ toWrite \cap WritersOf(j) \subseteq toWrite'
<1>0. PICK w \in toWrite, k \in Keys, f \in Files :
        /\ profWriters[w].key = k /\ profWriters[w].file = f
        /\ toWrite' = toWrite \ {w}
        /\ lines' = [lines EXCEPT ![k][f] = WriteAt(lines[k][f], profWriters[w].pos, samples[k])]
        /\ profWriters' = [profWriters EXCEPT ![w].pos = profWriters[w].pos + Len(samples[k])]
        /\ samples' = [samples EXCEPT ![k] = <<>>]
  BY NextEffect
<1>t. /\ profWriters \in Seq(Writer) /\ lines \in [Keys -> [Files -> Seq(Nat)]] /\ samples \in [Keys -> Seq(Nat)]
      /\ taken[k] \in Nat /\ w \in DOMAIN profWriters /\ samples[k] \in Seq(Nat) /\ lines[k][f] \in Seq(Nat)
      /\ lines[k] \in [Files -> Seq(Nat)] /\ profWriters[w] \in Writer /\ profWriters[w].pos \in Nat
  <2>1. /\ profWriters \in Seq(Writer) /\ lines \in [Keys -> [Files -> Seq(Nat)]] /\ samples \in [Keys -> Seq(Nat)]
        /\ taken[k] \in Nat /\ w \in DOMAIN profWriters
    BY DEF ProfileTypeOK
  <2>2. profWriters[w] \in Writer BY <2>1
  <2>3. profWriters[w].pos \in Nat BY <2>2 DEF Writer
  <2> QED BY <2>1, <2>2, <2>3
<1>a. /\ DOMAIN profWriters' = DOMAIN profWriters
      /\ \A v \in DOMAIN profWriters : v # w => profWriters'[v] = profWriters[v]
      /\ profWriters'[w].key = k /\ profWriters'[w].file = f
      /\ profWriters'[w].pos = profWriters[w].pos + Len(samples[k])
  BY <1>0, <1>t DEF Writer
<1>b. \A j \in Keys : WritersOf(j)' = WritersOf(j)
  BY <1>a, <1>0 DEF WritersOf
<1>c. w \in WritersOf(k) /\ \A j \in Keys : j # k => w \notin WritersOf(j)
  BY <1>0, <1>t DEF WritersOf
<1>d. \A j \in Keys : WritersOf(j) \subseteq DOMAIN profWriters BY DEF WritersOf
<1>1. ASSUME NEW j \in Keys, j # k PROVE Sound(j)'
  <2>1. lines'[j] = lines[j] /\ samples'[j] = samples[j] BY <1>0, <1>1, <1>t
  <2>2. \A v \in WritersOf(j) : profWriters'[v] = profWriters[v] BY <1>a, <1>c, <1>d, <1>1
  <2> QED BY <1>1, <1>b, <2>1, <2>2, SoundKept
<1>2. Sound(k)'
  <2>1. \A v \in WritersOf(k) : profWriters'[v].file = profWriters[v].file BY <1>a, <1>d, <1>0
  <2>2. Shared(k)' = Shared(k) BY <2>1, <1>b DEF Shared
  <2> SUFFICES ASSUME ~Shared(k) PROVE FilesOK(lines[k], samples[k], taken[k])' /\ PlacesOK(k)'
    BY <2>2 DEF Sound
  <2>3. FilesOK(lines[k], samples[k], taken[k]) /\ PlacesOK(k) BY DEF Sound
  <2>4. profWriters[w].pos = Len(lines[k][f]) BY <2>3, <1>0, <1>c DEF PlacesOK
  <2>5. lines'[k] = [lines[k] EXCEPT ![f] = lines[k][f] \o samples[k]]
    <3>1. WriteAt(lines[k][f], profWriters[w].pos, samples[k]) = lines[k][f] \o samples[k]
      BY <1>t, <2>4, WriteAppends
    <3> QED BY <1>0, <1>t, <3>1
  <2>6. PICK M \in [Files -> Seq(Nat)] : M = [lines[k] EXCEPT ![f] = lines[k][f] \o samples[k]]
    <3>1. lines[k][f] \o samples[k] \in Seq(Nat) BY <1>t
    <3> QED BY <1>t, <3>1
  <2>7. FilesOK(M, <<>>, taken[k]) BY <1>t, <2>3, <2>6, FilesMove
  <2>8. samples'[k] = <<>> /\ lines'[k] = M BY <1>0, <1>t, <2>5, <2>6
  <2>9. FilesOK(lines[k], samples[k], taken[k])' BY <2>7, <2>8
  <2>10. M[f] = lines[k][f] \o samples[k] /\ \A g \in Files : g # f => M[g] = lines[k][g] BY <2>6, <1>t
  <2>11. Len(M[f]) = Len(lines[k][f]) + Len(samples[k]) BY <2>10, <1>t
  <2>12. ASSUME NEW v \in WritersOf(k)' PROVE profWriters'[v].pos = Len(lines'[k][profWriters'[v].file])
    <3>1. v \in WritersOf(k) /\ v \in DOMAIN profWriters BY <1>b, <1>d
    <3>2. CASE v = w BY <3>2, <1>a, <2>4, <2>8, <2>11
    <3>3. CASE v # w
      <4>1. profWriters[v].file # f BY <3>1, <3>3, <1>0, <1>c DEF Shared
      <4>2. profWriters[v] \in Writer BY <3>1, <1>t
      <4>3. profWriters[v].file \in Files BY <4>2 DEF Writer
      <4>4. M[profWriters[v].file] = lines[k][profWriters[v].file] BY <2>10, <4>1, <4>3
      <4> QED BY <3>1, <3>3, <1>a, <2>3, <2>8, <4>4 DEF PlacesOK
    <3> QED BY <3>2, <3>3
  <2>13. \A g \in Files : Opened(k, g)' = Opened(k, g) BY <2>1, <1>b DEF Opened
  <2>14. Opened(k, f) BY <1>0, <1>c DEF Opened
  <2>15. \A g \in Files : ~Opened(k, g)' => lines'[k][g] = <<>>
    BY <2>3, <2>8, <2>10, <2>13, <2>14 DEF PlacesOK
  <2> QED BY <2>9, <2>12, <2>15 DEF PlacesOK
<1>3. ASSUME NEW j \in Keys
      PROVE  \/ samples'[j] = <<>>
             \/ samples'[j] = samples[j] /\ toWrite \cap WritersOf(j) \subseteq toWrite'
  BY <1>0, <1>t, <1>c
<1> QED BY <1>b, <1>1, <1>2, <1>3

\* Each step of AieProfilePlugin.
LEMMA ProfileSampleStep ==
  ASSUME TypeOK, MainInv, EndedInv, SampleInv, ProfileNext
  PROVE  SampleInv'
<1> DEFINE Writes(k) == thr[k]["poll"] = "write"
           Same == UNCHANGED <<samples, lines, taken, configured, profWriters, listLock>>
           Stay == /\ crashed => crashed'
                   /\ dbAlive' = dbAlive /\ live' = live
           Going == main'.op = "final" => main.op = "final" /\ toWrite' = toWrite
           SameWrites == \A k \in Keys : Writes(k) => Writes(k)'
<1>p. plugin = "aie_profile" /\ plugin' = plugin /\ ~crashed
  BY DEF ProfileNext, ProfileMain, ProfileThread, updateAIECounters, endPollForHandle,
     handleJoined, endProfile, endNext, nextJoined, allEnded, lastWrite, allWritten, pollInLoop,
     finalPoll, broadcast, writeSamples, dumpDone, Callable, Exiting, Loaded
<1>t. /\ thr \in [Keys -> [Roles -> PCs]] /\ "poll" \in Roles /\ main \in Calls
      /\ dbAlive \in BOOLEAN /\ live \in BOOLEAN /\ ProfileTypeOK
  BY DEF TypeOK, PollTypeOK, PCs, Roles, Calls
<1>u. samples \in [Keys -> Seq(Nat)] /\ taken \in [Keys -> Nat]
  BY <1>t DEF ProfileTypeOK
<1>i. ListInv /\ (\A k \in Keys : Sound(k)) /\ configured \subseteq Keys
  BY <1>p, <1>t DEF SampleInv, ProfileTypeOK
<1>m. ASSUME NEW k \in Keys, NEW pc \in PCs, Move(k, "poll", pc)
      PROVE  /\ thr'[k]["poll"] = pc
             /\ \A e \in Keys : e # k => thr'[e] = thr[e]
  BY <1>m, MoveFacts DEF TypeOK, Roles
<1>k. ASSUME UNCHANGED <<samples, lines, taken, profWriters>> PROVE \A k \in Keys : Sound(k)'
  BY <1>k, <1>i, <1>t, SoundKept DEF WritersOf
<1>s. ASSUME Same, Stay, Going, SameWrites PROVE SampleInv'
  <2>1. \A k \in Keys : WritersOf(k)' = WritersOf(k) BY <1>s DEF WritersOf
  <2>2. ListInv' BY <1>s, <1>i, <2>1 DEF ListInv
  <2> QED BY <1>k, <1>s, <2>2 DEF SampleInv
<1>r. ASSUME NEW k \in Keys, thr[k]["poll"] \notin {"none", "done"}
      PROVE  dbAlive /\ live /\ main.op # "final"
  <2>1. Running(k) BY <1>r, <1>t DEF Running, AllDone
  <2>2. thr[k] # NoThread BY <1>r, <1>t DEF NoThread
  <2> QED BY <1>p, <2>1, <2>2 DEF EndedInv, MainInv
<1>e. ASSUME NEW k \in Keys, Ended(k) PROVE SameWrites
  BY <1>e, <1>t DEF Ended, AllDone
<1>q. ASSUME NEW k \in Keys, At(k, "poll", "loop"), k \in configured, poll(k),
             UNCHANGED <<lines, configured, profWriters, lockVars, main, dbAlive, live, crashed>>
      PROVE  SampleInv'
  <2>1. /\ samples' = [samples EXCEPT ![k] = Append(samples[k], taken[k] + 1)]
        /\ taken' = [taken EXCEPT ![k] = taken[k] + 1]
    BY <1>q DEF poll
  <2>2. /\ samples'[k] = Append(samples[k], taken[k] + 1) /\ taken'[k] = taken[k] + 1
        /\ \A j \in Keys : j # k => samples'[j] = samples[j] /\ taken'[j] = taken[j]
    BY <2>1, <1>u
  <2>3. \A j \in Keys : WritersOf(j)' = WritersOf(j) BY <1>q DEF WritersOf
  <2>4. ASSUME NEW j \in Keys PROVE Sound(j)'
    <3>1. CASE j = k BY <3>1, <1>i, <1>q, <1>t, <2>2, SoundPoll
    <3>2. CASE j # k
      <4>1. lines'[j] = lines[j] /\ samples'[j] = samples[j] /\ taken'[j] = taken[j]
        BY <3>2, <1>q, <2>2
      <4>2. \A w \in WritersOf(j) : profWriters'[w] = profWriters[w] BY <1>q
      <4> QED BY <1>i, <1>t, <2>3, <4>1, <4>2, SoundKept
    <3> QED BY <3>1, <3>2
  <2>5. dbAlive /\ live /\ main.op # "final"
    BY <1>q, <1>r DEF At
  <2>6. WritersOf(k) # {} BY <1>i, <1>q DEF ListInv
  <2>7. \A j \in Keys : samples'[j] # <<>> => WritersOf(j)' # {}
    BY <2>2, <2>3, <2>6, <1>i DEF ListInv
  <2>8. \A j \in Keys : j # k => thr'[j] = thr[j]
    BY <1>q, <1>m DEF poll, PCs
  <2>9. SameWrites BY <2>8, <1>q DEF At
  <2>10. ListInv'
    BY <2>3, <2>5, <2>7, <2>9, <1>i, <1>q DEF ListInv, lockVars
  <2> QED BY <2>4, <2>10 DEF SampleInv
<1>w. ASSUME nextWrites, UNCHANGED <<thr, main, dbAlive, live, crashed, configured, taken, listLock>>
      PROVE  SampleInv'
  <2>1. /\ \A j \in Keys : WritersOf(j)' = WritersOf(j)
        /\ \A j \in Keys : Sound(j)'
        /\ \A j \in Keys : \/ samples'[j] = <<>>
                           \/ samples'[j] = samples[j] /\ toWrite \cap WritersOf(j) \subseteq toWrite'
    BY <1>w, <1>t, <1>i, SoundWrite
  <2>2. ListInv' BY <1>w, <1>i, <2>1 DEF ListInv
  <2> QED BY <2>1, <2>2 DEF SampleInv
<1>1. ASSUME NEW k \in Keys, NEW fresh \in BOOLEAN, NEW f \in Files, updateAIECounters(k, fresh, f)
      PROVE  SampleInv'
  <2>1. CASE Joinable(k)
    BY <1>1, <2>1, <1>s DEF updateAIECounters, lockVars
  <2>2. CASE ~Joinable(k)
    <3>1. SameWrites
      BY <1>1, <2>2, <1>m, <1>t DEF updateAIECounters, Joinable, NoThread, PCs
    <3>2. dbAlive /\ live /\ main.op = "idle" /\ main' = main /\ dbAlive' = dbAlive /\ live' = live
      BY <1>1 DEF updateAIECounters, Callable, MainInv
    <3>3. /\ profWriters' = Append(profWriters, [key |-> k, file |-> f, pos |-> 0])
          /\ lines' = [lines EXCEPT ![k][f] = <<>>] /\ UNCHANGED <<samples, taken, listLock>>
          /\ configured' \subseteq configured \cup {k}
      BY <1>1, <2>2 DEF updateAIECounters, lockVars
    <3>4. /\ \A j \in Keys : WritersOf(j) \subseteq WritersOf(j)'
          /\ WritersOf(k)' # {}
          /\ Sound(k)'
          /\ \A j \in Keys : j # k /\ Sound(j) => Sound(j)'
      BY <3>3, <1>i, <1>t, SoundUpdate
    <3>5. configured \subseteq Keys BY <1>t DEF ProfileTypeOK
    <3>6. ListInv' BY <3>1, <3>2, <3>3, <3>4, <3>5, <1>i DEF ListInv
    <3> QED BY <3>4, <3>6, <1>i DEF SampleInv
  <2> QED BY <2>1, <2>2
<1>2. ASSUME NEW k \in Keys, endPollForHandle(k) PROVE SampleInv'
  BY <1>2, <1>s DEF endPollForHandle, pfVars
<1>3. CASE handleJoined
  <2>1. main'.op # "final" BY <1>3, <1>t, ReturnTyped DEF handleJoined
  <2> QED BY <1>3, <2>1, <1>e, <1>s, <1>t DEF handleJoined, pfVars, Calls
<1>4. ASSUME NEW by \in {"dtor", "database"}, endProfile(by) PROVE SampleInv'
  <2>1. main'.op # "final" BY <1>4, <1>t, GotoTyped DEF endProfile
  <2> QED BY <1>4, <2>1, <1>s DEF endProfile, pfVars
<1>5. CASE endNext
  BY <1>5, <1>s DEF endNext, pfVars
<1>6. CASE nextJoined
  BY <1>6, <1>e, <1>s, <1>p DEF nextJoined, pfVars
<1>7. CASE allEnded
  <2>1. ~listLock
    BY <1>7, <1>i, <1>t DEF allEnded, Joinable, NoThread, ListInv
  <2>2. \A k \in Keys : WritersOf(k)' = WritersOf(k) /\ WritersOf(k) \subseteq DOMAIN profWriters
    BY <1>7 DEF allEnded, WritersOf
  <2>3. UNCHANGED <<samples, lines, taken, profWriters, configured, listLock, dbAlive, live, crashed>>
    BY <1>7 DEF allEnded, sampleVars
  <2>4. \A k \in Keys : samples[k] # <<>> => toWrite' \cap WritersOf(k) # {}
    <3>1. CASE dbAlive
      <4>1. toWrite' = DOMAIN profWriters BY <1>7, <2>1, <3>1 DEF allEnded
      <4> QED BY <4>1, <2>2, <1>i DEF ListInv
    <3>2. CASE ~dbAlive BY <3>2, <1>i, <1>p DEF ListInv
    <3> QED BY <3>1, <3>2
  <2>5. ListInv' BY <2>1, <2>2, <2>3, <2>4, <1>i DEF ListInv
  <2> QED BY <1>k, <2>3, <2>5 DEF SampleInv
<1>14. CASE lastWrite BY <1>14, <1>w DEF lastWrite
<1>15. CASE allWritten
  <2>1. UNCHANGED <<samples, lines, taken, profWriters, configured, listLock, thr, crashed>>
    BY <1>15 DEF allWritten, pfVars
  <2>2. \A k \in Keys : samples[k] = <<>> BY <1>15, <1>i DEF allWritten, ListInv
  <2>3. \A k \in Keys : WritersOf(k)' = WritersOf(k) BY <2>1 DEF WritersOf
  <2>4. ListInv' BY <2>1, <2>2, <2>3, <1>i DEF ListInv
  <2> QED BY <1>k, <2>1, <2>4 DEF SampleInv
<1>8. ASSUME NEW k \in Keys, pollInLoop(k) PROVE SampleInv'
  BY <1>8, <1>q DEF pollInLoop
<1>9. ASSUME NEW k \in Keys, finalPoll(k) PROVE SampleInv'
  <2>1. CASE k \in configured
    BY <1>9, <2>1, <1>q DEF finalPoll
  <2>2. CASE k \notin configured
    <3>1. SameWrites BY <1>9, <2>2, <1>m DEF finalPoll, At, PCs
    <3> QED BY <1>9, <2>2, <3>1, <1>s DEF finalPoll, lockVars
  <2> QED BY <2>1, <2>2
<1>10. ASSUME NEW k \in Keys, broadcast(k) PROVE SampleInv'
  <2>1. /\ UNCHANGED <<samples, lines, taken, profWriters, configured, main, dbAlive, live, crashed>>
        /\ dbAlive /\ live /\ main.op # "final"
    BY <1>10, <1>r DEF broadcast, At, sampleVars
  <2>2. listLock' => \E j \in Keys : thr'[j]["poll"] = "write"
    <3>1. CASE listLock
      <4>1. PICK j \in Keys : thr[j]["poll"] = "write" BY <3>1, <1>i DEF ListInv
      <4>2. j # k BY <4>1, <1>10 DEF broadcast, At
      <4> QED BY <1>10, <3>1, <4>1, <4>2, <1>m DEF broadcast, AfterDump, PCs
    <3>2. CASE ~listLock BY <1>10, <3>2, <1>m DEF broadcast, PCs
    <3> QED BY <3>1, <3>2
  <2>3. \A j \in Keys : WritersOf(j)' = WritersOf(j) BY <2>1 DEF WritersOf
  <2>4. ListInv' BY <2>1, <2>2, <2>3, <1>i DEF ListInv
  <2> QED BY <1>k, <2>1, <2>4 DEF SampleInv
<1>11. ASSUME NEW k \in Keys, writeSamples(k) PROVE SampleInv'
  BY <1>11, <1>w DEF writeSamples
<1>12. ASSUME NEW k \in Keys, dumpDone(k) PROVE SampleInv'
  <2>1. /\ UNCHANGED <<samples, lines, taken, profWriters, configured, main, dbAlive, live, crashed>>
        /\ dbAlive /\ live /\ main.op # "final" /\ ~listLock'
    BY <1>12, <1>r DEF dumpDone, At, sampleVars
  <2>2. \A j \in Keys : WritersOf(j)' = WritersOf(j) BY <2>1 DEF WritersOf
  <2>3. ListInv' BY <2>1, <2>2, <1>i DEF ListInv
  <2> QED BY <1>k, <2>1, <2>3 DEF SampleInv
<1>13. CASE ProfileMain
  BY <1>1, <1>2, <1>3, <1>4, <1>5, <1>6, <1>7, <1>13, <1>14, <1>15 DEF ProfileMain
<1> QED
  BY <1>8, <1>9, <1>10, <1>11, <1>12, <1>13 DEF ProfileNext, ProfileThread

\* The other plugins never touch the samples.
LEMMA SampleStep ==
  ASSUME TypeOK, MainInv, EndedInv, SampleInv, [Next]_vars
  PROVE  SampleInv'
<1>1. CASE ProfileNext BY <1>1, ProfileSampleStep
<1>2. CASE PLNext \/ StatusNext
  <2>1. plugin # "aie_profile" /\ plugin' = plugin
    <3>1. CASE StatusNext
      BY <3>1 DEF StatusNext, StatusMain, StatusThread, updateAIEDevice, endPollforDevice,
         endPollJoined, finalWrite, destroyStatus, databaseFirst, findFlag, leaveLoop,
         lockWriter, writeStatus, startPower, destroyPower, powerJoined, pollPower,
         Callable, Exiting, Loaded
    <3>2. CASE PLNext
      BY <3>2 DEF PLNext, PLMain, PLThread, updateDevice, flushDevice, flushJoined, writeAll,
         writeAllJoined, pluginAfterDatabase, findControl, pollDeadlock, forceWrite,
         readInfo, writeInfo, Hang, Callable, Exiting, Loaded, pollVars
    <3> QED BY <1>2, <3>1, <3>2
  <2> QED BY <2>1 DEF SampleInv
<1>3. CASE DestroyDatabase /\ UNCHANGED pfVars
  BY <1>3 DEF DestroyDatabase, SampleInv, pfVars, ListInv, Sound, Shared, PlacesOK, FilesOK, WritersOf, Opened
<1>4. CASE UNCHANGED vars
  BY <1>4 DEF vars, pollVars, pfVars, SampleInv, ListInv, Sound, Shared, PlacesOK, FilesOK, WritersOf, Opened
<1> QED BY <1>1, <1>2, <1>3, <1>4 DEF Next

-----------------------------------------------------------------------------
(* The theorems                                                            *)

\* The inductive invariant holds initially,
LEMMA IInvInit == Init => IInv
<1> SUFFICES ASSUME Init PROVE IInv OBVIOUS
<1>1. TypeOK BY InitTyped
<1>2. MainInv /\ EndedInv
  BY DEF Init, PollInit, MainInv, EndedInv
<1>3. ControlOutlives
  BY DEF Init, PollInit, ControlOutlives, NoThread
<1>4. FileInv
  BY DEF Init, PollInit, PLInit, FileInv, NoThread, Roles
<1>5. SampleInv
  <2>0. DOMAIN <<>> = {} /\ Len(<<>>) = 0 OBVIOUS
  <2>1. ASSUME NEW k \in Keys
        PROVE  /\ WritersOf(k) = {} /\ samples[k] = <<>> /\ taken[k] = 0
               /\ \A f \in Files : lines[k][f] = <<>>
    BY <2>0 DEF Init, ProfileInit, WritersOf
  <2>2. ASSUME NEW k \in Keys PROVE Sound(k)
    <3>1. PlacesOK(k) BY <2>1 DEF PlacesOK
    <3>2. Increasing(<<>>) BY <2>0 DEF Increasing
    <3>3. 1 .. 0 = {} OBVIOUS
    <3>4. FilesOK(lines[k], samples[k], taken[k]) BY <2>0, <2>1, <3>2, <3>3 DEF FilesOK
    <3> QED BY <3>1, <3>4 DEF Sound
  <2>3. ListInv BY <2>1 DEF Init, PollInit, ProfileInit, ListInv
  <2> QED BY <2>2, <2>3 DEF SampleInv
<1> QED BY <1>1, <1>2, <1>3, <1>4, <1>5 DEF IInv

\* is kept by every step,
LEMMA IInvStep == IInv /\ [Next]_vars => IInv'
BY TypeStep, MainStep, ControlStep, EndedStep, FileStep, SampleStep DEF IInv

\* and so holds always.
LEMMA IInvAlways == Spec => []IInv
BY IInvInit, IInvStep, PTL DEF Spec

\* The flag a polling thread refers to is there until the thread has ended, and
\* ~VPDatabase leaves no thread of PLDeadlockPlugin or AieProfilePlugin running,
\* for any number of devices and in every order of flushes, unloads and
\* destructors.
THEOREM ThreadsAreOutlived == Spec => []ThreadsOutlived
<1>1. IInv => ThreadsOutlived
  BY DEF IInv, ThreadsOutlived, EndedInv, DatabaseOutlives
<1> QED BY <1>1, IInvAlways, PTL

\* A deadlock whose thread has returned from forceWrite is in the file whenever
\* nobody is inside forceWrite: the threads of other devices, which rewrite the
\* whole file, never take it out.
THEOREM DeadlocksStayInFile == Spec => []DeadlocksInFile
<1>1. IInv => DeadlocksInFile
  BY DEF IInv, FileInv, DeadlocksInFile, TypeOK, PLTypeOK
<1> QED BY <1>1, IInvAlways, PTL

\* When AieProfilePlugin is gone every sample its threads took of a handle whose
\* updates were at least a second apart is in one of the files of the handle, and
\* there once, whatever the threshold, the dumps that were skipped and the number
\* of writers that earlier updates left in the list.
THEOREM AllSamplesWritten == Spec => []SamplesWritten
<1>1. ASSUME IInv PROVE SamplesWritten
  <2> SUFFICES ASSUME plugin = "aie_profile", ~live, ~crashed, NEW k \in Keys, ~Shared(k)
               PROVE  /\ \A f \in Files : Increasing(lines[k][f])
                      /\ \A i \in 1 .. taken[k] : InOneFile(k, i)
    BY DEF SamplesWritten
  <2>1. samples[k] = <<>> /\ FilesOK(lines[k], samples[k], taken[k])
    BY <1>1 DEF IInv, SampleInv, ListInv, Sound
  <2>2. FilesOK(lines[k], <<>>, taken[k]) BY <2>1
  <2>3. DOMAIN <<>> = {} OBVIOUS
  <2>4. ASSUME NEW i \in 1 .. taken[k] PROVE InOneFile(k, i)
    <3>1. PICK f \in Files : \E j \in DOMAIN lines[k][f] : lines[k][f][j] = i
      BY <2>2, <2>3 DEF FilesOK
    <3>2. \A g \in Files : (\E j \in DOMAIN lines[k][g] : lines[k][g][j] = i) => g = f
      BY <2>2, <3>1 DEF FilesOK
    <3> QED BY <3>1, <3>2 DEF InOneFile
  <2> QED BY <2>2, <2>4 DEF FilesOK
<1> QED BY <1>1, IInvAlways, PTL

\* Two threads of PLDeadlockPlugin between refreshFile and the end of forceWrite.
WriteExclusive ==
  \A d, e \in Keys :
    plugin = "pl_deadlock" /\ {thr[d]["poll"], thr[e]["poll"]} \subseteq {"read", "file"} => d = e

\* No thread of PLDeadlockPlugin rewrites the file while another one does: what
\* mWriteLock is for, for any number of devices.
THEOREM WritersExclude == Spec => []WriteExclusive
<1>1. IInv => WriteExclusive
  BY DEF IInv, FileInv, WriteExclusive
<1> QED BY <1>1, IInvAlways, PTL
-----------------------------------------------------------------------------
(* Hang detection of AIEStatusPlugin::pollDeadlock, for any graphs on any  *)
(* tiles and any two thresholds                                            *)

\* The cores of a graph that count as hanging
Hanging(g) == {t \in TilesOf(g) : InHang(t)}

\* Types, with the index of the tile within its graph
HangTypes ==
  /\ graph \in Graphs /\ next \in 1..(Len(GraphTiles[graph]) + 1)
  /\ coreStuckCount \in [Tiles -> 0..MaxStuck]
  /\ graphStall \in [Graphs -> Nat]
  /\ alarms \subseteq Graphs

\* The counter of a graph never exceeds the number of its cores that hang; until a
\* warning has set it back to 0 it is that number.
StallInv ==
  \A g \in Graphs : /\ graphStall[g] <= Cardinality(Hanging(g))
                    /\ g \notin alarms => graphStall[g] = Cardinality(Hanging(g))

HangIInv == HangTypes /\ StallInv /\ NoFalseAlarm

\* A graph has as many tiles as its list is long, as no tile is in the list twice.
LEMMA TileCount ==
  ASSUME NEW g \in Graphs
  PROVE  /\ Len(GraphTiles[g]) \in Nat /\ GraphTiles[g] \in [1..Len(GraphTiles[g]) -> TilesOf(g)]
         /\ IsFiniteSet(TilesOf(g)) /\ Cardinality(TilesOf(g)) = Len(GraphTiles[g])
<1> DEFINE s == GraphTiles[g]
           n == Len(s)
<1>1. s \in Seq(TilesOf(g)) /\ IsInjective(s) BY HangAssumption
<1>2. n \in Nat /\ DOMAIN s = 1..n /\ s \in [1..n -> TilesOf(g)] BY <1>1
<1>3. s \in Surjection(1..n, TilesOf(g)) BY <1>2 DEF TilesOf, Range, Surjection
<1>4. s \in Injection(1..n, TilesOf(g)) BY <1>1, <1>2 DEF IsInjective, Injection
<1>5. IsFiniteSet(1..n) /\ Cardinality(1..n) = n
  <2>1. 1 \in Int /\ n \in Int BY <1>2
  <2> HIDE DEF n
  <2> QED BY <1>2, <2>1, FS_Interval
<1> HIDE DEF s, n
<1>6. IsFiniteSet(TilesOf(g)) /\ Cardinality(TilesOf(g)) = n
  BY <1>3, <1>4, <1>5, FS_Surjection
<1> QED BY <1>2, <1>6 DEF s, n

\* The cores of a graph that hang are finitely many, and all of them when they are
\* as many as its tiles.
LEMMA HangingCount ==
  ASSUME NEW g \in Graphs
  PROVE  /\ IsFiniteSet(Hanging(g)) /\ Cardinality(Hanging(g)) \in Nat
         /\ Cardinality(Hanging(g)) <= Len(GraphTiles[g])
         /\ Cardinality(Hanging(g)) = Len(GraphTiles[g]) => Hanging(g) = TilesOf(g)
<1>1. IsFiniteSet(TilesOf(g)) /\ Cardinality(TilesOf(g)) = Len(GraphTiles[g]) BY TileCount
<1>2. Hanging(g) \in SUBSET TilesOf(g) BY DEF Hanging
<1> QED BY <1>1, <1>2, FS_Subset, FS_CardinalityType

\* The initial state: no core hangs.
LEMMA HangInitially == HangInit => HangIInv
<1> SUFFICES ASSUME HangInit PROVE HangIInv OBVIOUS
<1> USE HangAssumption DEF HangInit
<1>1. Len(GraphTiles) \in Nat /\ Len(GraphTiles) # 0 OBVIOUS
<1>2. 1 \in Graphs BY <1>1 DEF Graphs
<1>3. Len(GraphTiles[1]) \in Nat BY <1>2, TileCount
<1>4. HangTypes BY <1>2, <1>3 DEF HangTypes, MaxStuck
<1>5. ASSUME NEW g \in Graphs PROVE graphStall[g] = 0 /\ Cardinality(Hanging(g)) = 0
  <2>1. Hanging(g) = {} BY DEF Hanging, InHang, Tiles
  <2> QED BY <2>1, FS_EmptySet
<1>6. StallInv BY <1>5 DEF StallInv
<1>7. NoFalseAlarm BY DEF NoFalseAlarm, NoWarning
<1> QED BY <1>4, <1>6, <1>7 DEF HangIInv

\* The look at one tile changes the number of cores that hang by as much as the
\* counter of their graph, unless the counter is 0 already.
LEMMA CheckTileStep ==
  ASSUME HangIInv, NEW status \in Statuses, NEW error \in BOOLEAN, CheckTile(status, error)
  PROVE  HangIInv'
<1> USE HangAssumption DEF HangIInv
<1> DEFINE n == Len(GraphTiles[graph])
<1>0. PICK gr \in Graphs : gr = graph BY DEF HangTypes
<1>1. /\ n \in Nat /\ next \in 1..n /\ next' \in 1..(n + 1)
      /\ GraphTiles[graph][next] \in TilesOf(gr)
  <2>2. n \in Nat /\ GraphTiles[graph] \in [1..n -> TilesOf(gr)] BY <1>0, TileCount
  <2>3. next \in 1..n /\ next' = next + 1 BY <2>2 DEF HangTypes, CheckTile
  <2> QED BY <2>2, <2>3
<1>a. PICK t \in TilesOf(gr) : t = GraphTiles[graph][next] BY <1>1
<1>b. t \in Tiles BY DEF Tiles
<1>2. coreStuckCount[t] \in 0..MaxStuck /\ MaxStuck \in Nat /\ GraphHangThreshold < MaxStuck
  BY <1>b DEF HangTypes, MaxStuck
<1>3. PICK count \in 0..MaxStuck :
        /\ count = StuckCount(t, status)
        /\ \/ count = 0 \/ count = coreStuckCount[t] + 1
           \/ count = MaxStuck /\ coreStuckCount[t] = MaxStuck
  BY <1>2 DEF StuckCount
<1>4. /\ coreStuckCount' = [coreStuckCount EXCEPT ![t] = count]
      /\ graphStall' = [graphStall EXCEPT ![gr] = GraphStall(t, count)]
      /\ UNCHANGED <<graph, alarms>>
  BY <1>0, <1>a, <1>3 DEF CheckTile
<1>5. graphStall[gr] \in Nat /\ GraphStall(t, count) \in Nat
  BY <1>0 DEF HangTypes, GraphStall
<1>6. HangTypes'
  BY <1>0, <1>1, <1>b, <1>3, <1>4, <1>5 DEF HangTypes
<1>7. ASSUME NEW g \in Graphs, g # gr
      PROVE  graphStall'[g] = graphStall[g] /\ Hanging(g)' = Hanging(g)
  <2>1. t \notin TilesOf(g) BY <1>7
  <2>2. \A u \in TilesOf(g) : u \in Tiles /\ coreStuckCount'[u] = coreStuckCount[u]
    BY <1>4, <2>1 DEF Tiles, HangTypes
  <2> QED BY <1>4, <1>7, <2>2 DEF HangTypes, Hanging, InHang
<1>8. /\ coreStuckCount'[t] = count /\ graphStall'[gr] = GraphStall(t, count)
      /\ \A u \in TilesOf(gr) : u # t => coreStuckCount'[u] = coreStuckCount[u]
  BY <1>4, <1>b DEF HangTypes, Tiles
<1> DEFINE H == Hanging(gr)
           total == graphStall[gr]
<1>9. IsFiniteSet(H) /\ Cardinality(H) \in Nat /\ total <= Cardinality(H)
      /\ (gr \notin alarms => total = Cardinality(H))
  BY HangingCount DEF StallInv
<1>10. /\ graphStall'[gr] <= Cardinality(H')
       /\ gr \notin alarms => graphStall'[gr] = Cardinality(H')
  <2>1. CASE InHang(t) /\ count = 0
    <3>1. t \in H /\ H' = H \ {t} BY <1>8, <2>1 DEF Hanging, InHang
    <3>2. Cardinality(H') = Cardinality(H) - 1 BY <1>9, <3>1, FS_RemoveElement
    <3>3. GraphStall(t, count) = IF total > 0 THEN total - 1 ELSE total
      BY <1>0, <2>1, <1>5 DEF GraphStall
    <3>4. Cardinality(H) # 0 BY <1>9, <3>1, FS_EmptySet
    <3> HIDE DEF H
    <3> QED BY <1>5, <1>8, <1>9, <3>2, <3>3, <3>4
  <2>2. CASE count = GraphHangThreshold
    <3>1. t \notin H /\ H' = H \cup {t} BY <1>2, <1>3, <1>8, <2>2 DEF Hanging, InHang
    <3>2. Cardinality(H') = Cardinality(H) + 1 BY <1>9, <3>1, FS_AddElement
    <3>3. GraphStall(t, count) = total + 1 BY <1>0, <1>5, <2>2 DEF GraphStall
    <3> HIDE DEF H
    <3> QED BY <1>5, <1>8, <1>9, <3>2, <3>3
  <2>3. CASE ~(InHang(t) /\ count = 0) /\ count # GraphHangThreshold
    <3>1. InHang(t)' <=> InHang(t) BY <1>2, <1>3, <1>8, <2>3 DEF InHang
    <3>2. H' = H BY <1>8, <3>1 DEF Hanging, InHang
    <3>3. GraphStall(t, count) = total BY <1>0, <2>3 DEF GraphStall
    <3> HIDE DEF H
    <3> QED BY <1>8, <1>9, <3>2, <3>3
  <2> QED BY <2>1, <2>2, <2>3
<1>11. StallInv' BY <1>4, <1>7, <1>10 DEF StallInv
<1>12. NoFalseAlarm' BY DEF CheckTile, NoFalseAlarm, NoWarning
<1> QED BY <1>6, <1>11, <1>12

\* After the tiles of a graph: a warning about it means that all its cores hang.
LEMMA GraphDoneStep ==
  ASSUME HangIInv, GraphDone
  PROVE  HangIInv'
<1> USE HangAssumption DEF HangIInv
<1>1. graph \in Graphs /\ graph' \in Graphs /\ next' = 1 /\ UNCHANGED coreStuckCount
  BY DEF HangTypes, GraphDone, Graphs
<1>2. Len(GraphTiles[graph']) \in Nat BY <1>1, TileCount
<1>3. \A g \in Graphs : Hanging(g)' = Hanging(g) BY <1>1 DEF Hanging, InHang
<1>4. CASE graphStall[graph] = Len(GraphTiles[graph])
  <2>1. /\ warning' = [NoWarning EXCEPT !.kind = "graph", !.graph = graph]
        /\ graphStall' = [graphStall EXCEPT ![graph] = 0]
        /\ alarms' = alarms \cup {graph}
    BY <1>4 DEF GraphDone
  <2>2. HangTypes' BY <1>1, <1>2, <2>1 DEF HangTypes
  <2>3. StallInv'
    BY <1>1, <1>3, <2>1, HangingCount DEF StallInv, HangTypes
  <2>4. NoFalseAlarm'
    <3>1. Hanging(graph) = TilesOf(graph)
      BY <1>1, <1>4, HangingCount, TileCount DEF StallInv
    <3>2. warning'.graph = graph BY <2>1 DEF NoWarning
    <3> QED BY <1>1, <3>1, <3>2 DEF NoFalseAlarm, Hanging, InHang
  <2> QED BY <2>2, <2>3, <2>4
<1>5. CASE graphStall[graph] # Len(GraphTiles[graph])
  <2>1. warning'.kind # "graph" /\ UNCHANGED <<graphStall, alarms>>
    BY <1>5 DEF GraphDone, NoWarning
  <2> QED BY <1>1, <1>2, <1>3, <2>1 DEF HangTypes, StallInv, NoFalseAlarm
<1> QED BY <1>4, <1>5

\* A graph is reported as hanging only while all its cores hang, and its first hang
\* is never missed, for any graphs, tiles and thresholds and whatever the cores do
\* between two looks of pollDeadlock.
THEOREM HangsAreReported == HangSpec => []HangsReported
<1>1. ASSUME HangIInv, [HangNext]_hangVars PROVE HangIInv'
  <2>1. CASE UNCHANGED hangVars
    BY <1>1, <2>1 DEF hangVars, HangIInv, HangTypes, StallInv, NoFalseAlarm, Hanging, InHang
  <2> QED BY <1>1, <2>1, CheckTileStep, GraphDoneStep DEF HangNext
<1>2. HangIInv => HangsReported
  BY DEF HangIInv, StallInv, HangsReported, FirstHangReported, Hanging
<1> QED BY <1>1, <1>2, HangInitially, PTL DEF HangSpec
=============================================================================
