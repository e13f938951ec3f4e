------------------------------ MODULE HostTrace -----------------------------
(***************************************************************************)
(* Tracing of host APIs.  XRT calls a plugin when an API or a command      *)
(* starts and ends, in the thread of the application or of its scheduler;  *)
(* the callbacks put events in HostDB.  The writers of the plugins take    *)
(* them out: those of OpenCL and LOP also from a thread of their own,      *)
(* while callbacks are running.                                            *)
(* A callback is the sequence of its calls on the databases; another       *)
(* thread can come in between two of them, and each is under one lock.     *)
(* Timestamps, texts and addresses are left out.                           *)
(***************************************************************************)
EXTENDS Integers, Sequences, FiniteSets, SequencesExt

CONSTANTS
  Threads,          \* the threads that run callbacks
  Uses,             \* the uses of XRT: the plugins that xrt.ini loads, the APIs the
                    \*   application calls, the commands that are traced, and which
                    \*   command waits for which
  MaxCalls,         \* bound: API calls and commands
  MaxFiles          \* bound: files written before the end

-----------------------------------------------------------------------------
(* What callbacks do *)

\* addString, addCommandQueueAddress, addEnqueuedKernel: the rows and strings a
\* file lists before its events.
Name == [op |-> "name"]
Add(kind) == [op |-> "add", kind |-> kind]
Mark(table, key) == [op |-> "mark", table |-> table, key |-> key]
Look(table, key) == [op |-> "look", table |-> table, key |-> key]
MapCommand == [op |-> "map"]
CallStart == [op |-> "callStart"]
CallEnd == [op |-> "callEnd"]
QuitUnstarted == [op |-> "quit"]

log_function_start == <<Name, Add("clAPI"), Mark("event", "fn")>>
log_function_end == <<Look("event", "fn"), Name, Add("clAPI")>>

\* Mutant: the strings are added once the event is in the database.
namesLate == <<Add("clTransfer"), Mark("uid", "ev"), Name>>

action_read(isStart) ==
  IF isStart THEN <<Name, Add("clTransfer"), Mark("uid", "ev")>>
             ELSE <<Look("uid", "ev"), Name, Add("clTransfer"), MapCommand>>

namedLate(isStart) ==
  IF isStart THEN namesLate
             ELSE <<Look("uid", "ev"), QuitUnstarted, Add("clTransfer"), MapCommand>>

\* A migration may complete a transfer of 0 bytes that never started.
action_write(isStart) ==
  IF isStart THEN <<Name, Add("clTransfer"), Mark("uid", "ev")>>
             ELSE <<Look("uid", "ev"), QuitUnstarted, Name, Add("clTransfer"), MapCommand>>

action_copy(isStart) ==
  IF isStart THEN <<Name, Add("clCopy"), Mark("uid", "ev")>>
             ELSE <<Look("uid", "ev"), Name, Add("clCopy"), MapCommand>>

action_ndrange(isStart) ==
  IF isStart THEN <<Name, Add("clEnqueue"), Mark("uid", "ev")>>
             ELSE <<Look("uid", "ev"), Name, Add("clEnqueue"), MapCommand>>

lop_function_start == <<Name, Add("lopAPI"), Mark("event", "fn")>>
lop_function_end == <<Look("event", "fn"), Name, Add("lopAPI")>>

notMasked(isStart) ==
  IF isStart THEN <<Add("lop"), Mark("event", "ev")>> ELSE <<Look("event", "ev"), Add("lop")>>

\* The ids of commands are not those of functions; a mask keeps them apart.
lop_read(isStart) ==
  IF isStart THEN <<Add("lop"), Mark("event", "lop")>> ELSE <<Look("event", "lop"), Add("lop")>>
lop_write(isStart) ==
  IF isStart THEN <<Add("lop"), Mark("event", "lop")>> ELSE <<Look("event", "lop"), Add("lop")>>
lop_kernel_enqueue(isStart) ==
  IF isStart THEN <<Add("lop"), Mark("event", "lop")>> ELSE <<Look("event", "lop"), Add("lop")>>

generic_log_function_start == <<CallStart, Name, Add("halAPI"), Mark("event", "fn")>>
generic_log_function_end == <<CallEnd, Look("event", "fn"), Name, Add("halAPI")>>
write_bo_start == generic_log_function_start \o <<Add("halTransfer"), Mark("event", "buffer")>>
write_bo_end == generic_log_function_end \o <<Look("event", "buffer"), Add("halTransfer")>>
read_bo_start == generic_log_function_start \o <<Add("halTransfer"), Mark("event", "buffer")>>
read_bo_end == generic_log_function_end \o <<Look("event", "buffer"), Add("halTransfer")>>

native_function_start == <<Name, Add("native"), Mark("event", "fn"), CallStart>>
native_function_end == <<CallEnd, Look("event", "fn"), Name, Add("native")>>
native_sync_start == <<Name, Add("native"), Add("native"), Mark("pair", "fn"), CallStart>>
native_sync_end == <<CallEnd, Look("pair", "fn"), Name, Add("native"), Add("native")>>

user_event_start_cb == <<Name, Add("user"), Mark("event", "fn")>>
user_event_end_cb == <<Look("event", "fn"), Add("user")>>
user_event_happened_cb == <<Name, Add("user")>>
user_event_time_ns_cb == <<Name, Add("user")>>

NoCallback == <<>>

\* The plugin an API belongs to and its callbacks.  A command ends in any thread, a
\* function in the one that called it.
Function(plugin, start, end) ==
  [plugin |-> plugin, start |-> start, end |-> end, command |-> FALSE]
Command(plugin, start, end) ==
  [plugin |-> plugin, start |-> start, end |-> end, command |-> TRUE]

API ==
  [clCall   |-> Function("opencl", log_function_start, log_function_end),
   clRead   |-> Command("opencl", action_read(TRUE), action_read(FALSE)),
   clWrite  |-> Command("opencl", action_write(TRUE), action_write(FALSE)),
   migrated |-> Command("opencl", NoCallback, action_write(FALSE)),
   clCopy   |-> Command("opencl", action_copy(TRUE), action_copy(FALSE)),
   clKernel |-> Command("opencl", action_ndrange(TRUE), action_ndrange(FALSE)),
   lopCall  |-> Function("lop", lop_function_start, lop_function_end),
   lopRead  |-> Command("lop", lop_read(TRUE), lop_read(FALSE)),
   lopWrite |-> Command("lop", lop_write(TRUE), lop_write(FALSE)),
   lopKernel |-> Command("lop", lop_kernel_enqueue(TRUE), lop_kernel_enqueue(FALSE)),
   halCall  |-> Function("hal", generic_log_function_start, generic_log_function_end),
   halWrite |-> Function("hal", write_bo_start, write_bo_end),
   halRead  |-> Function("hal", read_bo_start, read_bo_end),
   native   |-> Function("native", native_function_start, native_function_end),
   sync     |-> Function("native", native_sync_start, native_sync_end),
   userRange |-> Function("user", user_event_start_cb, user_event_end_cb),
   userMark |-> Function("user", user_event_happened_cb, NoCallback),
   userTime |-> Function("user", user_event_time_ns_cb, NoCallback)]

APIs == DOMAIN API
Commands == 1..(MaxCalls + 1)

\* LOP_EVENT_MASK: above every id of a function.
LopMask == 2 * MaxCalls + 1

ASSUME HostAssumption ==
  /\ \A u \in Uses : u.apis \subseteq APIs /\ {API[a].plugin : a \in u.apis} \subseteq u.plugins
                       /\ u.traced \subseteq Commands
                       /\ u.waits \subseteq {w \in Commands \X Commands : w[2] < w[1]}
  /\ MaxCalls \in Nat \ {0} /\ MaxFiles \in Nat

-----------------------------------------------------------------------------
VARIABLES
  use,                \* the use of XRT the application makes
  loaded,             \* the plugins that are alive
  calls,              \* history: the calls so far
  open,               \* calls whose start callback has returned
  cb,                 \* what each thread has still to do of a callback
  events,             \* history: the event of each id
  sortedEvents, unsortedEvents,   \* ids in HostDB
  starts,             \* eventStarts, uidStarts and eventPairStarts
  openclEventMap,     \* end and start event of a command
  dependencies,       \* the commands a command waits for
  names,              \* string table, command queues, enqueued kernels
  callCount,          \* VPStatisticsDatabase: the calls of each thread
  pass,               \* the writer of each plugin
  files,              \* what each plugin has written
  stopping,           \* the plugins whose destructor has begun
  freed,              \* deleted events
  dangling            \* history: events used after their deletion

vars == <<use, loaded, calls, open, cb, events, sortedEvents, unsortedEvents, starts,
          openclEventMap, dependencies, names, callCount, pass, files, stopping,
          freed, dangling>>

Plugins == {"opencl", "lop", "hal", "native", "user"}
Threaded == {"opencl", "lop"}    \* these start a write thread with continuous_trace
Idle == [ops |-> <<>>, call |-> 0, held |-> <<>>, found |-> <<>>, phase |-> "none"]
EmptyFile == [names |-> {}, before |-> 0, lines |-> {}, arrows |-> {}, final |-> FALSE]
Waiting == [at |-> "wait", held |-> {}, file |-> EmptyFile, chains |-> <<>>]

Init ==
  /\ use \in Uses /\ loaded = use.plugins
  /\ calls = <<>> /\ open = {} /\ cb = [t \in Threads |-> Idle]
  /\ events = <<>> /\ sortedEvents = {} /\ unsortedEvents = {}
  /\ starts = {} /\ openclEventMap = [c \in Commands |-> <<0, 0>>]
  /\ dependencies = [c \in Commands |-> <<>>]
  /\ names = {} /\ callCount = [t \in Threads |-> <<>>]
  /\ pass = [p \in Plugins |-> Waiting] /\ files = [p \in Plugins |-> <<>>]
  /\ stopping = {} /\ freed = {} /\ dangling = {}

-----------------------------------------------------------------------------
(* Callbacks.  A callback begins only while its plugin is alive, and the      *)
(* application lets its threads finish before it exits.                       *)

databaseVars == <<events, sortedEvents, unsortedEvents, starts, openclEventMap,
                  names, callCount, dangling>>
writerVars == <<pass, files, stopping, freed, loaded, use>>

Callback(c, ops, phase) == [Idle EXCEPT !.ops = ops, !.call = c, !.phase = phase]

\* XRT numbers functions and commands, each in a series of its own.
Begin(t, api, ev) ==
  LET c == Len(calls) + 1
      a == API[api]
      phase == IF a.start = NoCallback THEN "end" ELSE "start"
  IN
  /\ cb[t] = Idle /\ stopping = {} /\ a.plugin \in loaded
  /\ c <= MaxCalls
  /\ a.command <=> ev # 0
  /\ \A i \in DOMAIN calls : calls[i].ev # ev \/ ev = 0
  /\ calls' = Append(calls, [api |-> api, by |-> t, fn |-> 2 * c - 1, ev |-> ev])
  /\ cb' = [cb EXCEPT ![t] = Callback(c, a[phase], phase)]
  /\ UNCHANGED <<open, dependencies, databaseVars, writerVars>>

\* The end of a command, or of the last function the thread has called.
End(t, c) ==
  LET a == API[calls[c].api]
  IN
  /\ cb[t] = Idle /\ stopping = {}
  /\ c \in open
  /\ ~a.command =>
       /\ calls[c].by = t
       /\ \A d \in open : calls[d].by = t /\ ~API[calls[d].api].command => d <= c
  /\ open' = open \ {c}
  /\ cb' = [cb EXCEPT ![t] = Callback(c, a.end, "end")]
  /\ UNCHANGED <<calls, dependencies, databaseVars, writerVars>>

\* The command x cannot start before the command y has ended; XRT says so when x is
\* enqueued.
add_dependency(x, y) ==
  /\ "opencl" \in loaded /\ stopping = {}
  /\ \E t \in Threads : cb[t] = Idle
  /\ \A i \in DOMAIN calls : calls[i].ev # x
  /\ ~Contains(dependencies[x], y)
  /\ dependencies' = [dependencies EXCEPT ![x] = Append(@, y)]
  /\ UNCHANGED <<calls, open, cb, databaseVars, writerVars>>

\* The thread goes on to the next call of its callback.  After the last one the
\* start of a call that will have an end is open.
Advance(t, rest, me) ==
  /\ IF rest = <<>>
     THEN /\ cb' = [cb EXCEPT ![t] = Idle]
          /\ open' = IF me.phase = "start" /\ API[calls[me.call].api].end # NoCallback
                     THEN open \cup {me.call} ELSE open
     ELSE cb' = [cb EXCEPT ![t] = [me EXCEPT !.ops = rest]] /\ UNCHANGED open
  /\ UNCHANGED <<calls, dependencies, writerVars>>

Next1(t, op) == cb[t].ops # <<>> /\ Head(cb[t].ops).op = op

KeyOf(c, key) ==
  CASE key = "fn" -> calls[c].fn
    [] key = "buffer" -> calls[c].fn + 1
    [] key = "ev" -> calls[c].ev
    [] key = "lop" -> LopMask + calls[c].ev

addString(t) ==
  /\ Next1(t, "name")
  /\ names' = names \cup {calls[cb[t].call].api}
  /\ Advance(t, Tail(cb[t].ops), cb[t])
  /\ UNCHANGED <<events, sortedEvents, unsortedEvents, starts, openclEventMap,
                 callCount, dangling>>

addEvent(t) ==
  LET me == cb[t]
      kind == Head(me.ops).kind
      id == Len(events) + 1
      start == IF me.found = <<>> THEN 0 ELSE Head(me.found)
  IN
  /\ Next1(t, "add")
  /\ events' = Append(events, [kind |-> kind, call |-> me.call, phase |-> me.phase,
                               start |-> start])
  /\ IF kind = "native"
     THEN unsortedEvents' = unsortedEvents \cup {id} /\ UNCHANGED sortedEvents
     ELSE sortedEvents' = sortedEvents \cup {id} /\ UNCHANGED unsortedEvents
  /\ Advance(t, Tail(me.ops),
             [me EXCEPT !.held = Append(@, id),
                        !.found = IF @ = <<>> THEN @ ELSE Tail(@)])
  /\ UNCHANGED <<starts, openclEventMap, names, callCount, dangling>>

\* What getEventId returns of an event that a writer may have deleted already.
getEventId(id) == IF id \in freed THEN {id, 0} ELSE {id}

registerStart(t) ==
  LET me == cb[t]
      entry == Head(me.ops)
      key == KeyOf(me.call, entry.key)
      ids == IF entry.table = "pair" THEN me.held ELSE <<Last(me.held)>>
  IN
  /\ Next1(t, "mark")
  /\ \E first \in getEventId(ids[1]) :
       starts' = {s \in starts : s.table # entry.table \/ s.key # key}
                   \cup {[table |-> entry.table, key |-> key, ids |-> [ids EXCEPT ![1] = first]]}
  /\ dangling' = dangling \cup (ToSet(ids) \cap freed)
  /\ Advance(t, Tail(me.ops), me)
  /\ UNCHANGED <<events, sortedEvents, unsortedEvents, openclEventMap, names, callCount>>

\* The start is taken out of the map; 0 when there is none.
lookupStart(t) ==
  LET me == cb[t]
      entry == Head(me.ops)
      key == KeyOf(me.call, entry.key)
      known == {s \in starts : s.table = entry.table /\ s.key = key}
  IN
  /\ Next1(t, "look")
  /\ starts' = starts \ known
  /\ Advance(t, Tail(me.ops),
             [me EXCEPT !.found = IF known = {} THEN <<0>>
                                  ELSE (CHOOSE s \in known : TRUE).ids])
  /\ UNCHANGED <<events, sortedEvents, unsortedEvents, openclEventMap, names,
                 callCount, dangling>>

quitUnstarted(t) ==
  LET me == cb[t]
      quit == Head(me.found) = 0 /\ calls[me.call].api = "migrated"
  IN
  /\ Next1(t, "quit")
  /\ Advance(t, IF quit THEN <<>> ELSE Tail(me.ops), me)
  /\ UNCHANGED databaseVars

addOpenCLMapping(t) ==
  LET me == cb[t]
      id == Last(me.held)
  IN
  /\ Next1(t, "map")
  /\ \E end \in getEventId(id) :
       openclEventMap' = [openclEventMap EXCEPT ![calls[me.call].ev] =
                            <<end, events[id].start>>]
  /\ dangling' = dangling \cup ({id} \cap freed)
  /\ Advance(t, Tail(me.ops), me)
  /\ UNCHANGED <<events, sortedEvents, unsortedEvents, starts, names, callCount>>

logFunctionCallStart(t) ==
  LET me == cb[t]
  IN
  /\ Next1(t, "callStart")
  /\ callCount' = [callCount EXCEPT ![t] =
                     Append(@, [name |-> calls[me.call].api, call |-> me.call, ended |-> 0])]
  /\ Advance(t, Tail(me.ops), me)
  /\ UNCHANGED <<events, sortedEvents, unsortedEvents, starts, openclEventMap, names, dangling>>

Unended(t, name) ==
  {i \in DOMAIN callCount[t] : callCount[t][i].name = name /\ callCount[t][i].ended = 0}

oldestFirst(t) ==
  LET me == cb[t]
      unended == Unended(t, calls[me.call].api)
  IN
  /\ Next1(t, "callEnd")
  /\ callCount' = IF unended = {} THEN callCount
                  ELSE [callCount EXCEPT ![t][Min(unended)].ended = me.call]
  /\ Advance(t, Tail(me.ops), me)
  /\ UNCHANGED <<events, sortedEvents, unsortedEvents, starts, openclEventMap, names, dangling>>

\* "we must go backwards to find the first call that has a start time set but no end
\* time": a thread may call a function from within that function.
logFunctionCallEnd(t) ==
  LET me == cb[t]
      unended == Unended(t, calls[me.call].api)
  IN
  /\ Next1(t, "callEnd")
  /\ callCount' = IF unended = {} THEN callCount
                  ELSE [callCount EXCEPT ![t][Max(unended)].ended = me.call]
  /\ Advance(t, Tail(me.ops), me)
  /\ UNCHANGED <<events, sortedEvents, unsortedEvents, starts, openclEventMap, names, dangling>>

-----------------------------------------------------------------------------
(* Writers.  A pass writes the structure and the strings, takes the events    *)
(* out of the database, writes and deletes them, then the dependencies.       *)

notCopies == {"clAPI", "clTransfer", "clEnqueue", "halTransfer"}

\* The filters, as the kinds of events that pass them.  A transfer of HAL has the
\* types that VTFEvent::isOpenCLHostEvent accepts.
isOpenCLHostEvent == {"clAPI", "clTransfer", "clCopy", "clEnqueue", "halTransfer"}
LOPExists == {"clAPI", "lopAPI", "lop"}
LOPEvents == {"lopAPI", "lop"}
HALEvents == {"clTransfer", "clCopy", "clEnqueue", "halAPI", "halTransfer"}
UserEvents == {"user"}
NativeEvents == {"native"}

Takes ==
  [opencl |-> isOpenCLHostEvent, lop |-> LOPEvents, hal |-> HALEvents,
   native |-> NativeEvents, user |-> UserEvents]

Copying == {"hal", "user"}      \* their writers leave the events in the database

OfKind(ids, kinds) == {i \in ids : events[i].kind \in kinds}

callbackVars == <<use, calls, open, cb, events, starts, openclEventMap, dependencies,
                  names, callCount>>

traceEventsExist(p) ==
  OfKind(sortedEvents, IF p = "lop" THEN LOPExists ELSE isOpenCLHostEvent) # {}

\* One turn of writeContinuous, or the last write of a plugin.
BeginPass(p) ==
  /\ p \in loaded /\ pass[p].at = "wait"
  /\ \/ p \in stopping
     \/ p \in Threaded /\ traceEventsExist(p) /\ Len(files[p]) < MaxFiles
  /\ pass' = [pass EXCEPT ![p] = [Waiting EXCEPT !.at = "tables", !.file.before = Len(events),
                                                 !.file.final = (p \in stopping)]]
  /\ UNCHANGED <<callbackVars, sortedEvents, unsortedEvents, loaded, files, stopping, freed,
                 dangling>>

\* writeStructure and writeStringTable.
writeTables(p) ==
  /\ pass[p].at = "tables"
  /\ pass' = [pass EXCEPT ![p].file.names = names, ![p].at = "events"]
  /\ UNCHANGED <<callbackVars, sortedEvents, unsortedEvents, loaded, files, stopping, freed,
                 dangling>>

copiesOnly(p) ==
  /\ pass[p].at = "events"
  /\ pass' = [pass EXCEPT ![p].held = OfKind(sortedEvents \cup unsortedEvents, Takes[p]),
                          ![p].at = "dump"]
  /\ UNCHANGED <<callbackVars, sortedEvents, unsortedEvents, loaded, files, stopping, freed,
                 dangling>>

\* moveSortedEvents, moveUnsortedEvents or filterSortedEvents.
moveEvents(p) ==
  LET held == OfKind(IF p = "native" THEN unsortedEvents ELSE sortedEvents, Takes[p])
      taken == IF p \in Copying THEN {} ELSE held
  IN
  /\ pass[p].at = "events"
  /\ pass' = [pass EXCEPT ![p].held = held, ![p].at = "dump"]
  /\ sortedEvents' = sortedEvents \ taken
  /\ unsortedEvents' = unsortedEvents \ taken
  /\ UNCHANGED <<callbackVars, loaded, files, stopping, freed, dangling>>

\* The events are written, and deleted unless they were copied.
dumpEvents(p) ==
  LET held == pass[p].held
  IN
  /\ pass[p].at = "dump"
  /\ pass' = [pass EXCEPT ![p].file.lines = held, ![p].held = {},
                          ![p].at = IF p = "opencl" THEN "chains" ELSE "close"]
  /\ freed' = IF p \in Copying THEN freed ELSE freed \cup held
  /\ dangling' = dangling \cup (held \cap freed)
  /\ UNCHANGED <<callbackVars, sortedEvents, unsortedEvents, loaded, files, stopping>>

Mapped(x) == openclEventMap[x] # <<0, 0>>

\* "collapse dependency chains such as 3->4 and 4->5 to 3->5 when we do not have any
\* mapping for 4".  The chains are pushed on the vector that the loop goes over; once
\* that has moved it, the loop may miss entries.
Collapsed(x, seen) ==
  LET old == dependencies[x]
      chain(i) == IF i \in seen /\ ~Mapped(old[i]) THEN dependencies[old[i]] ELSE <<>>
  IN
  IF Mapped(x) THEN old \o FlattenSeq([i \in DOMAIN old |-> chain(i)]) ELSE old

collapseDependencyChains ==
  /\ pass["opencl"].at = "chains"
  /\ \E seen \in [Commands -> {1..n : n \in 0..Cardinality(use.waits)}] :
       /\ \A x \in Commands : \E n \in DOMAIN dependencies[x] \cup {0} :
            seen[x] = 1..n /\ (n < Len(dependencies[x]) =>
                                 \E i \in 1..n : ~Mapped(dependencies[x][i])
                                                   /\ dependencies[dependencies[x][i]] # <<>>)
       /\ pass' = [pass EXCEPT !["opencl"].chains = [x \in Commands |-> Collapsed(x, seen[x])],
                               !["opencl"].at = "arrows"]
  /\ UNCHANGED <<callbackVars, sortedEvents, unsortedEvents, loaded, files, stopping, freed,
                 dangling>>

endToEnd(first, second) == IF first[1] # 0 /\ second[1] # 0 THEN {<<second[1], first[1]>>} ELSE {}

\* From the end event of a command to the start event of one that waited for it.
Arrow(first, second) == IF first[2] # 0 /\ second[1] # 0 THEN {<<second[1], first[2]>>} ELSE {}

writeDependencies ==
  LET chains == pass["opencl"].chains
  IN
  /\ pass["opencl"].at = "arrows"
  /\ pass' = [pass EXCEPT !["opencl"].at = "close", !["opencl"].file.arrows =
                UNION {UNION {Arrow(openclEventMap[x], openclEventMap[chains[x][i]]) :
                                i \in DOMAIN chains[x]} : x \in Commands}]
  /\ UNCHANGED <<callbackVars, sortedEvents, unsortedEvents, loaded, files, stopping, freed,
                 dangling>>

\* The file is closed or switched; after the last write the plugin is gone.
ClosePass(p) ==
  /\ pass[p].at = "close"
  /\ files' = [files EXCEPT ![p] = Append(@, pass[p].file)]
  /\ pass' = [pass EXCEPT ![p] = Waiting]
  /\ loaded' = IF pass[p].file.final THEN loaded \ {p} ELSE loaded
  /\ UNCHANGED <<callbackVars, sortedEvents, unsortedEvents, stopping, freed, dangling>>

\* The destructors of the plugins run one after the other, in any order.
DestroyPlugin(p) ==
  /\ p \in loaded /\ stopping \cap loaded = {}
  /\ \A t \in Threads : cb[t] = Idle
  /\ stopping' = stopping \cup {p}
  /\ UNCHANGED <<callbackVars, sortedEvents, unsortedEvents, loaded, pass, files, freed, dangling>>

Gone == loaded = {} /\ UNCHANGED vars

Next ==
  \/ \E t \in Threads :
       \/ \E api \in use.apis, ev \in use.traced \cup {0} : Begin(t, api, ev)
       \/ \E c \in open : End(t, c)
       \/ addString(t) \/ addEvent(t) \/ registerStart(t) \/ lookupStart(t)
       \/ quitUnstarted(t) \/ addOpenCLMapping(t)
       \/ logFunctionCallStart(t) \/ logFunctionCallEnd(t)
  \/ \E w \in use.waits : add_dependency(w[1], w[2])
  \/ \E p \in Plugins :
       \/ BeginPass(p) \/ writeTables(p) \/ moveEvents(p) \/ dumpEvents(p)
       \/ ClosePass(p) \/ DestroyPlugin(p)
  \/ collapseDependencyChains \/ writeDependencies
  \/ Gone

Spec == Init /\ [][Next]_vars

-----------------------------------------------------------------------------
IdOfStart(e) ==
  {i \in DOMAIN events : events[i].call = e.call /\ events[i].phase = "start"
                           /\ events[i].kind = e.kind}

\* An end event carries the id of a start event of its own call, whatever other
\* threads have called in between and although functions, buffers and commands are
\* numbered apart.  Only a start that was deleted before it was registered is lost.
OwnStart ==
  \A i \in DOMAIN events :
    events[i].phase = "end" /\ IdOfStart(events[i]) # {} =>
      events[i].start \in IdOfStart(events[i]) \cup (IF IdOfStart(events[i]) \cap dangling # {}
                                                       THEN {0} ELSE {})

Moving == Plugins \ Copying
Places(i) ==
  (IF i \in sortedEvents \cup unsortedEvents THEN {<<"database">>} ELSE {})
    \cup {<<"pass", p>> : p \in {q \in Moving : i \in pass[q].held \cup pass[q].file.lines}}
    \cup {f \in Moving \X (1..(MaxFiles + 1)) :
             f[2] \in DOMAIN files[f[1]] /\ i \in files[f[1]][f[2]].lines}

\* Every event has one owner: the database, a writer that moves events, or a file of
\* such a writer.  moveSortedEvents takes it from all others, so that no two writers
\* delete it.
HostOnce == \A i \in DOMAIN events : Cardinality(Places(i)) = 1

Home(i) == API[calls[events[i].call].api].plugin
Listed(p, i) == {k \in DOMAIN files[p] : i \in files[p][k].lines}

\* What the filters of both OpenCL and HAL let through.
Transfers == isOpenCLHostEvent \cap HALEvents

\* The files of a plugin, those of the writers that copy included, list an event at
\* most once, over all passes.  They are those of the plugin that recorded it; only
\* OpenCL and HAL list transfers of each other.
ListedOnce ==
  \A i \in DOMAIN events, p \in Plugins :
    /\ \A j, k \in Listed(p, i) : j = k
    /\ Listed(p, i) # {} =>
         p = Home(i) \/ (events[i].kind \in Transfers /\ p \in {"opencl", "hal"})

\* When all plugins are gone, every event of every callback is in a file of the plugin
\* that recorded it: the filters leave no kind of event behind.  A transfer of HAL may
\* be in a file of OpenCL instead, which took it before HAL's plugin ended.
ExitWritesAll ==
  loaded = {} => \A i \in DOMAIN events :
    \/ Listed(Home(i), i) # {}
    \/ Home(i) = "hal" /\ events[i].kind \in Transfers /\ Listed("opencl", i) # {}

\* No host event is lost, deleted by two writers or listed twice by one plugin, whether
\* its writer moves or copies events and in whatever order the plugins end.  With both
\* OpenCL and HAL loaded it does not say that a transfer is listed by one of them only.
HostWritten == HostOnce /\ ListedOnce /\ ExitWritesAll

\* A line uses only rows and strings that its own file lists, although these are
\* written before the events are taken: it holds for every event that was in the
\* database when the pass began, since callbacks add the strings first.
LinesReadable ==
  \A p \in Plugins : \A k \in DOMAIN files[p] :
    \A i \in files[p][k].lines :
      i <= files[p][k].before /\ events[i].kind # "lop"
        => calls[events[i].call].api \in files[p][k].names

Waits(x, y) ==
  Contains(dependencies[x], y)
    \/ \E z \in ToSet(dependencies[x]) : Contains(dependencies[z], y)

\* An arrow of a file leads from the end of a command to the start of a command that
\* waited for it, directly or over one that was not traced, although mappings are
\* added while the file is written.  The last file has all the direct ones.
ArrowsRight ==
  \A k \in DOMAIN files["opencl"] :
    LET f == files["opencl"][k]
    IN
    /\ \A a \in f.arrows :
         /\ events[a[1]].phase = "end" /\ events[a[2]].phase = "start"
         /\ Waits(calls[events[a[2]].call].ev, calls[events[a[1]].call].ev)
    /\ f.final =>
         \A x \in Commands : \A y \in ToSet(dependencies[x]) :
           Arrow(openclEventMap[x], openclEventMap[y]) \subseteq f.arrows

\* The end time in the statistics of a thread is that of the same call, with calls
\* of a function from within that function.
StatsPaired ==
  \A t \in Threads : \A i \in DOMAIN callCount[t] :
    callCount[t][i].ended \in {0, callCount[t][i].call}

\* "This transfers ownership of the events to the caller": after a writer has taken
\* an event and deleted it, nobody uses it any more.
OwnershipKept == dangling = {}
=============================================================================
