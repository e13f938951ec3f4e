--------------------------- MODULE AIEProfilePoll ---------------------------
(***************************************************************************)
(* AieProfilePlugin with the implementation for edge devices: one thread   *)
(* per handle samples the counters of its device into the database; when   *)
(* the database holds too many it asks the plugin, through a broadcast, to *)
(* write them out, in that thread; the rest is written when the plugin or  *)
(* the database is destroyed.                                              *)
(*                                                                         *)
(* Every update of a handle adds a writer and none is ever removed: the    *)
(* writers of a device compete for its samples.  The name of a file is     *)
(* that of the device and the second in which it is opened, so that two    *)
(* updates within a second open, and truncate, the same file.  A sample is *)
(* one position of a file; the headers, alike in all of them, are left out.*)
(***************************************************************************)
EXTENDS PollingThreads, Sequences

CONSTANTS
  SampleThreshold,   \* AIEDB::sampleThreshold
  MaxSamples,        \* bound of the model: samples a thread takes in its loop
  MaxWriters         \* bound of the model: writers

ASSUME ProfileAssumption == SampleThreshold \in Nat /\ MaxSamples \in Nat /\ MaxWriters \in Nat

VARIABLES
  configured,     \* the keys whose implementation has set up its counters
  profWriters,    \* writers: for each its key, its file and its position in it
  samples,        \* the samples in the database, each the how manieth of its key
  lines,          \* the samples in each file of a key; a hole is Hole
  taken,          \* history: the number of samples taken
  lastPoll,       \* the keys whose thread has left its loop
  listLock,       \* mtx_writer_list is locked
  toWrite         \* the writers left in the loop of the thread that holds it, by their index

pfVars == <<configured, profWriters, samples, lines, taken, lastPoll, listLock, toWrite>>
sampleVars == <<samples, lines, taken>>
lockVars == <<listLock, toWrite>>

\* The files of a key, in the order in which their names come up
Files == 1 .. MaxWriters
Hole == 0

Writer == [key : Keys, file : Files, pos : Nat]

ProfileTypeOK ==
  /\ configured \subseteq Keys /\ lastPoll \subseteq Keys
  /\ profWriters \in Seq(Writer)
  /\ samples \in [Keys -> Seq(Nat)] /\ lines \in [Keys -> [Files -> Seq(Nat)]] /\ taken \in [Keys -> Nat]
  /\ listLock \in BOOLEAN /\ toWrite \subseteq DOMAIN profWriters

ProfileInit ==
  /\ configured = {} /\ profWriters = <<>> /\ lastPoll = {} /\ toWrite = {} /\ listLock = FALSE
  /\ samples = [k \in Keys |-> <<>>] /\ lines = [k \in Keys |-> [f \in Files |-> <<>>]]
  /\ taken = [k \in Keys |-> 0]

WritersOf(k) == {w \in DOMAIN profWriters : profWriters[w].key = k}
Opened(k, f) == \E w \in WritersOf(k) : profWriters[w].file = f

\* The file that an update opens: that of the last update, when it is within the
\* same second, or the next name
Opens(k, f) ==
  \/ Opened(k, f) /\ ~Opened(k, f + 1)
  \/ ~Opened(k, f) /\ (f = 1 \/ Opened(k, f - 1))

-----------------------------------------------------------------------------
\* updateAIEDevice.  An implementation that replaces another one destroys it with
\* its joinable thread, which ends the program.  The counters are set up once per
\* xclbin: an implementation made for one that was read before (fresh = FALSE)
\* has no AIE device, and its poll returns at once.  The writer is added to the
\* vector without its lock: a thread that is going through it may crash.
updateAIECounters(k, fresh, f) ==
  /\ Callable("aie_profile") /\ taken[k] < MaxSamples /\ Len(profWriters) < MaxWriters
  /\ IF Joinable(k)
     THEN crashed' = TRUE /\ UNCHANGED <<ctl, thr, configured, profWriters, lines>>
     ELSE /\ configured' = IF fresh THEN configured \cup {k} ELSE configured \ {k}
          /\ Opens(k, f)
          /\ profWriters' = Append(profWriters, [key |-> k, file |-> f, pos |-> 0])
          /\ lines' = [lines EXCEPT ![k][f] = <<>>]
          /\ ctl' = [ctl EXCEPT ![k] = "true"]
          /\ Move(k, "poll", "loop")
          /\ crashed' \in {FALSE, listLock}
  /\ lastPoll' = lastPoll \ {k}
  /\ UNCHANGED <<plugin, main, dbAlive, live, samples, taken, lockVars>>

\* endPoll of one implementation: its flag is cleared and main waits for its
\* thread.  main.op is "end" for endPollforDevice, "endAll" where all are ended.
askToEnd(k) ==
  /\ Joinable(k) /\ ctl[k] = "true"
  /\ ctl' = [ctl EXCEPT ![k] = "false"]

endPollForHandle(k) ==
  /\ Callable("aie_profile")
  /\ askToEnd(k)
  /\ main' = [op |-> "end", key |-> k, by |-> "call"]
  /\ UNCHANGED <<plugin, thr, dbAlive, live, crashed, pfVars>>

\* The join, and the implementation of key k is gone.
Ended(k) ==
  /\ AllDone(k) /\ ctl[k] = "false"
  /\ thr' = [thr EXCEPT ![k] = NoThread]
  /\ ctl' = [ctl EXCEPT ![k] = "absent"]

handleJoined ==
  /\ Loaded("aie_profile") /\ main.op = "end" /\ Ended(main.key)
  /\ Return
  /\ UNCHANGED <<plugin, dbAlive, live, crashed, pfVars>>

\* ~AieProfilePlugin (live is cleared first) and AieProfilePlugin::writeAll, called
\* by ~VPDatabase, end the implementations one after another.
endProfile(by) ==
  /\ Exiting("aie_profile") /\ live
  /\ by = "database" => dbAlive
  /\ Goto("endAll", by)
  /\ UNCHANGED <<plugin, ctl, thr, dbAlive, live, crashed, pfVars>>

\* The next implementation.  The loop of writeAll erases the element it is at and
\* then moves on from it: what it finds there is undefined.
endNext ==
  /\ Loaded("aie_profile") /\ main.op = "endAll"
  /\ \A k \in Keys : ctl[k] # "false"
  /\ \E k \in Keys : askToEnd(k)
  /\ UNCHANGED <<plugin, thr, main, dbAlive, live, crashed, pfVars>>

nextJoined ==
  /\ Loaded("aie_profile") /\ main.op = "endAll"
  /\ \E k \in Keys : Ended(k)
  /\ crashed' \in {FALSE, main.by = "database"}
  /\ UNCHANGED <<plugin, main, dbAlive, live, pfVars>>

\* What is in a file after s is written at a position of it: the file may have
\* been truncated, and written to by others, since the writer opened it.
WriteAt(file, pos, s) ==
  IF s = <<>> THEN file
  ELSE [i \in 1 .. (IF pos + Len(s) > Len(file) THEN pos + Len(s) ELSE Len(file)) |->
          IF i \in pos + 1 .. pos + Len(s) THEN s[i - pos] ELSE IF i <= Len(file) THEN file[i] ELSE Hole]

\* Mutant: the samples are copied and stay in the database
samplesCopied ==
  \E w \in toWrite :
    LET writer == profWriters[w]
    IN  /\ \A v \in toWrite : w <= v
        /\ toWrite' = toWrite \ {w}
        /\ lines' = [lines EXCEPT ![writer.key][writer.file] = WriteAt(@, writer.pos, samples[writer.key])]
        /\ profWriters' = [profWriters EXCEPT ![w].pos = @ + Len(samples[writer.key])]
        /\ UNCHANGED samples

\* AIEProfilingWriter::write of the next writer in the loop over the list: it
\* moves the samples of its device out of the database and prints them.
nextWrites ==
  \E w \in toWrite :
    LET writer == profWriters[w]
    IN  /\ \A v \in toWrite : w <= v
        /\ toWrite' = toWrite \ {w}
        /\ lines' = [lines EXCEPT ![writer.key][writer.file] = WriteAt(@, writer.pos, samples[writer.key])]
        /\ profWriters' = [profWriters EXCEPT ![w].pos = @ + Len(samples[writer.key])]
        /\ samples' = [samples EXCEPT ![writer.key] = <<>>]

\* All threads have ended: the last write, if there still is a database, of one
\* writer after another.
allEnded ==
  /\ Loaded("aie_profile") /\ main.op = "endAll" /\ \A k \in Keys : ~Joinable(k)
  /\ toWrite' = IF dbAlive /\ (main.by = "database" => ~listLock) THEN DOMAIN profWriters ELSE toWrite
  /\ Goto("final", main.by)
  /\ UNCHANGED <<plugin, ctl, thr, dbAlive, live, crashed>>
  /\ UNCHANGED <<configured, profWriters, sampleVars, lastPoll, listLock>>

lastWrite ==
  /\ Loaded("aie_profile") /\ main.op = "final"
  /\ nextWrites
  /\ UNCHANGED <<plugin, ctl, thr, main, dbAlive, live, crashed>>
  /\ UNCHANGED <<configured, taken, lastPoll, listLock>>

allWritten ==
  /\ Loaded("aie_profile") /\ main.op = "final" /\ toWrite = {}
  /\ live' = (live /\ main.by = "database")
  /\ dbAlive' = (dbAlive /\ main.by = "dtor")
  /\ Return
  /\ UNCHANGED <<plugin, ctl, thr, crashed, pfVars>>

-----------------------------------------------------------------------------
(* continuePoll of key k                                                   *)

\* A poll of a device that is set up adds a sample, and asks for a write when
\* there are too many.
poll(k) ==
  /\ samples' = [samples EXCEPT ![k] = Append(@, taken[k] + 1)]
  /\ taken' = [taken EXCEPT ![k] = @ + 1]
  /\ Move(k, "poll", IF Len(samples[k]) + 1 > SampleThreshold THEN "dump"
                     ELSE IF k \in lastPoll' THEN "done" ELSE "loop")

\* One turn of the loop.
pollInLoop(k) ==
  /\ Loaded("aie_profile") /\ At(k, "poll", "loop") /\ ctl[k] = "true"
  /\ k \in configured /\ taken[k] < MaxSamples
  /\ UNCHANGED lastPoll
  /\ poll(k)
  /\ UNCHANGED <<plugin, ctl, main, dbAlive, live, crashed>>
  /\ UNCHANGED <<configured, profWriters, lines, lockVars>>

\* The loop has ended: "Final Polling Operation".
finalPoll(k) ==
  /\ Loaded("aie_profile") /\ At(k, "poll", "loop") /\ ctl[k] # "true"
  /\ lastPoll' = lastPoll \cup {k}
  /\ IF k \in configured
     THEN poll(k)
     ELSE UNCHANGED <<samples, taken>> /\ Move(k, "poll", "done")
  /\ UNCHANGED <<plugin, ctl, main, dbAlive, live, crashed>>
  /\ UNCHANGED <<configured, profWriters, lines, lockVars>>

AfterDump(k) == IF k \in lastPoll THEN "done" ELSE "loop"

\* DUMP_AIE_PROFILE: trySafeWrite does nothing while another thread is writing.
broadcast(k) ==
  /\ Loaded("aie_profile") /\ At(k, "poll", "dump")
  /\ IF listLock
     THEN Move(k, "poll", AfterDump(k)) /\ UNCHANGED lockVars
     ELSE listLock' = TRUE /\ toWrite' = DOMAIN profWriters /\ Move(k, "poll", "write")
  /\ UNCHANGED <<plugin, ctl, main, dbAlive, live, crashed>>
  /\ UNCHANGED <<configured, profWriters, sampleVars, lastPoll>>

writeSamples(k) ==
  /\ Loaded("aie_profile") /\ At(k, "poll", "write")
  /\ nextWrites
  /\ UNCHANGED <<plugin, ctl, thr, main, dbAlive, live, crashed>>
  /\ UNCHANGED <<configured, taken, lastPoll, listLock>>

dumpDone(k) ==
  /\ Loaded("aie_profile") /\ At(k, "poll", "write") /\ toWrite = {}
  /\ listLock' = FALSE
  /\ Move(k, "poll", AfterDump(k))
  /\ UNCHANGED <<plugin, ctl, main, dbAlive, live, crashed>>
  /\ UNCHANGED <<configured, profWriters, sampleVars, lastPoll, toWrite>>

ProfileThread(k) ==
  pollInLoop(k) \/ finalPoll(k) \/ broadcast(k) \/ writeSamples(k) \/ dumpDone(k)

ProfileMain ==
  \/ \E k \in Keys, fresh \in BOOLEAN, f \in Files : updateAIECounters(k, fresh, f)
  \/ \E k \in Keys : endPollForHandle(k)
  \/ handleJoined \/ endNext \/ nextJoined \/ allEnded \/ lastWrite \/ allWritten
  \/ \E by \in {"dtor", "database"} : endProfile(by)

ProfileNext == ProfileMain \/ \E k \in Keys : ProfileThread(k)

-----------------------------------------------------------------------------
Increasing(s) == \A i, j \in DOMAIN s : i < j => s[i] < s[j]

\* Two updates of the key were within one second.
Shared(k) == \E v, w \in WritersOf(k) : v # w /\ profWriters[v].file = profWriters[w].file

\* Sample i of the key is in one of its files and in no other.
InOneFile(k, i) ==
  \E f \in Files : /\ \E j \in DOMAIN lines[k][f] : lines[k][f][j] = i
                  /\ \A g \in Files : (\E j \in DOMAIN lines[k][g] : lines[k][g][j] = i) => g = f

\* When the plugin is gone every sample of a handle whose updates were at least a
\* second apart is once in one of its files, each file in the order in which the
\* samples were taken: the sample of the final poll, those of a handle whose
\* polling ended long before, those whose dump was skipped because another thread
\* held the writer list, and those that the writer of an earlier update took.
\* It need not be the file of the update under which the sample was taken.
SamplesWritten ==
  plugin = "aie_profile" /\ ~live /\ ~crashed =>
    \A k \in Keys :
      \/ Shared(k)
      \/ /\ \A f \in Files : Increasing(lines[k][f])
         /\ \A i \in 1 .. taken[k] : InOneFile(k, i)
=============================================================================
