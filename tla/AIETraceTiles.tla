--------------------------- MODULE AIETraceTiles ---------------------------
(***************************************************************************)
(* The configuration of AIE trace on the tiles of a partition, by the      *)
(* implementations for edge devices and for VE2: which modules of which    *)
(* tiles trace what, when they start and end, what the static database is  *)
(* told of it, and what a shortage of resources or an error of the driver  *)
(* in the middle leaves behind.  The code is sequential; a step is one     *)
(* stage of the configuration of one tile.                                 *)
(*                                                                         *)
(* Metric sets are represented by a few that go different ways: events of  *)
(* the core only, events of stream ports (a DMA set), execution trace, and *)
(* a set that the generation does not have.                                *)
(***************************************************************************)
EXTENDS AIEBroadcast, Sequences

CONSTANTS
  TileLists,     \* getConfigMetrics(): tiles with their metric sets, in the order of the map
  ColShifts,     \* getPartitionOverlayStartCols().front(): the column the partition starts at
  MaxFaults      \* how many calls of the driver may fail

\* The tiles are keys of a map.  Their columns are those trace is configured at,
\* startColShift included; the metadata has them relative to the partition.  The
\* map also tells the PLIO of an interface tile from its GMIO: lists with both
\* are left out, as a tile has one trace module of each kind.
ASSUME TilesAssumption ==
  /\ MaxFaults \in Nat /\ ColShifts \subseteq Nat
  /\ \A t \in TileLists : /\ t \in Seq([loc : Nat \X Row, set : STRING, active : BOOLEAN])
                           /\ \A i, j \in DOMAIN t : t[i].loc = t[j].loc => i = j

VARIABLES
  ttOpt,         \* settings, generation and what the tiles have left; fixed
  ttSt,          \* the members of the implementation and where it is
  ttDev,         \* trace modules, counters and stream ports of the array
  ttNet,         \* its broadcast network
  ttDb           \* the tiles in the static database

ttVars == <<ttOpt, ttSt, ttDev, ttNet, ttDb>>

Kinds == {"memCounter", "memSlot", "coreCounter", "coreSlot", "broadcast", "port", "plSlot"}
Plenty == 4
Styles == {<<"edge", 1>>, <<"edge", 2>>, <<"ve2", 5>>}

Offset(gen) == IF gen = 1 THEN 1 ELSE 2
TypeAt(loc) == getModuleType(loc[2], Offset(ttOpt.gen))

coreEventSets(set) == IF set \in {"functions", "all_dma"} THEN <<"call">> ELSE <<>>
memoryEventSets(set) ==
  CASE set = "functions" -> <<"call">> [] set = "all_dma" -> <<"call", "port">> [] OTHER -> <<>>
memoryTileEventSets(set) == IF set = "input_channels" THEN <<"port", "select">> ELSE <<>>
interfaceTileEventSets(set) == IF set = "input_ports" THEN <<"port">> ELSE <<>>

SetsOf(type) ==
  CASE type = "core" -> {"functions", "all_dma", "execution", "unavailable"}
    [] type = "mem_tile" -> {"input_channels"}
    [] type = "shim" -> {"input_ports"}

isDmaSet(set) == set = "all_dma"

\* The counters that work around a bug of the first generation.
NumCounters == IF ttOpt.gen = 1 THEN 1 ELSE 0

\* What the resource manager has left of a kind in a tile before trace.
Left(loc, kind) == IF ttOpt.short = <<loc, kind>> THEN ttOpt.left ELSE Plenty

DelayCounters == CASE ttOpt.start = "delay" -> 1 [] ttOpt.start = "delay2" -> 2
                   [] ttOpt.start = "iteration" -> 1 [] OTHER -> 0

\* Slots of memory tiles are counted with the sets of memory modules, as the
\* code does.
tileHasFreeRsc(loc, set) ==
  IF TypeAt(loc) = "shim" THEN Left(loc, "plSlot") >= Len(interfaceTileEventSets(set))
  ELSE /\ Left(loc, "memCounter") >= NumCounters
       /\ Left(loc, "memSlot") >= NumCounters + Len(memoryEventSets(set))
       /\ TypeAt(loc) = "core" =>
            /\ Left(loc, "coreCounter") >= NumCounters + DelayCounters
            /\ Left(loc, "coreSlot") >= NumCounters + Len(coreEventSets(set))
            /\ Left(loc, "broadcast") >= Len(memoryEventSets(set)) + 2

CounterEvent == <<"PERF_CNT_0_CORE", "PERF_CNT_1_CORE", "PERF_CNT_2_CORE">>

isCoreModuleEvent(e) ==
  e \in {"call", "port", "stream switch", "ACTIVE", "INSTR_EVENT_0", "INSTR_EVENT_1", "USER_EVENT_3",
         "BROADCAST_1_CORE"} \cup {CounterEvent[i] : i \in DOMAIN CounterEvent}

Broadcasts == ttOpt.multi /\ ttOpt.broadcast /\ ttOpt.start # "layer"

Tile == ttOpt.tiles[ttSt.at]
Loc == Tile.loc
Type == TypeAt(Loc)
Cur == ttSt.cur

\* An event of the database is one of the module or a broadcast channel that
\* carries an event of the core to the memory module.
Own(e) == [event |-> e, bc |-> -1]
Channel(id) == [event |-> "broadcast", bc |-> id]
NoConfig == [start |-> Own("none"), stop |-> Own("none"), events |-> <<>>, packet |-> 0]
NewConfig(t) == [loc |-> t.loc, set |-> t.set, core |-> NoConfig, mem |-> NoConfig, pl |-> NoConfig,
                 bc |-> <<>>, mask |-> {}, counters |-> {}]
TraceUnit(state, start, stop, events, packet) ==
  [state |-> state, start |-> start, stop |-> stop, events |-> events, packet |-> packet, flushed |-> FALSE]

With(mods, u, m) == [v \in DOMAIN mods \cup {u} |-> IF v = u THEN m ELSE mods[v]]

\* A call of the driver goes wrong, at most MaxFaults times.
Fault(f) == f # "ok" => ttSt.faults < MaxFaults
Faults(f) == IF f = "ok" THEN ttSt.faults ELSE ttSt.faults + 1

Goto(pc, f) == [ttSt EXCEPT !.pc = pc, !.faults = Faults(f)]
NextTile(st) == [st EXCEPT !.at = @ + 1, !.pc = "tile"]

\* freeResources: counters and the stream ports of the last tile that had any
Freed(dev, st) ==
  [dev EXCEPT !.counters = {c \in @ : <<c.loc, c.mod, c.id>> \notin st.perfCounters},
              !.ports = @ \ st.streamPorts]
-----------------------------------------------------------------------------
\* The settings: layer says that there is a start layer (it is not UINT_MAX).
\* A shift of an edge device moves all its tiles alike and is left out.
TtInit ==
  /\ ttOpt \in [shim : {s[1] : s \in Styles}, gen : {s[2] : s \in Styles},
                start : {"none", "delay", "delay2", "iteration", "user", "layer"},
                layer : BOOLEAN, multi : BOOLEAN, broadcast : BOOLEAN, tiles : TileLists, shift : ColShifts,
                short : {<<>>} \cup UNION {{<<t[Len(t)].loc, k>> : k \in Kinds} : t \in TileLists},
                left : {0, 1}]
  /\ <<ttOpt.shim, ttOpt.gen>> \in Styles
  /\ ttOpt.shim = "edge" => ~ttOpt.multi /\ ttOpt.start # "layer" /\ ttOpt.shift = 0
  /\ ttOpt.layer => ttOpt.start = "layer"
  /\ \A i \in DOMAIN ttOpt.tiles : ttOpt.tiles[i].loc[1] - ttOpt.shift \in Column
  /\ ttOpt.broadcast => ttOpt.multi
  /\ ttOpt.short = <<>> => ttOpt.left = 0
  /\ ttOpt.short # <<>> => ttOpt.short[1] = ttOpt.tiles[Len(ttOpt.tiles)].loc
  /\ \A i \in DOMAIN ttOpt.tiles : ttOpt.tiles[i].set \in SetsOf(TypeAt(ttOpt.tiles[i].loc))
  /\ ttSt = [pc |-> "new", at |-> 1, cur |-> [coreEvents |-> <<>>, memoryEvents |-> <<>>,
                interfaceEvents |-> <<>>, cfg |-> NewConfig(ttOpt.tiles[1])],
             coreStart |-> "ACTIVE", memStart |-> "TRUE", plStart |-> "TRUE",
             coreEnd |-> IF ttOpt.shim = "edge" THEN "DISABLED" ELSE "USER_EVENT_3",
             flushLocs |-> {}, perfCounters |-> {}, streamPorts |-> {}, faults |-> 0, timers |-> {}]
  /\ ttDev = [mods |-> <<>>, counters |-> {}, ports |-> {}]
  /\ ttNet = Clean
  /\ ttDb = <<>>

\* timerSyncronization: the timers of which modules the broadcast reset, on a
\* network that is taken down afterwards.
Timed(d) == {n \in Nodes(Offset(ttOpt.gen)) :
               \/ n[3] = "A" /\ (IF n[1] = 0 THEN TRUE ELSE n \in d[2])
               \/ n[3] \in {"C", "M"} /\ n \in d[1]}
               \cup ({Outside} \cap (d[1] \cup d[2]))
SyncNet(net) == build2ChannelBroadcastNetwork(net, "COMBO_EVENT_0", Offset(ttOpt.gen))
timerSyncronization(net) == reset2ChannelBroadcastNetwork(SyncNet(net), Offset(ttOpt.gen))

\* The start of setMetricsSettings: on VE2 timers are synchronized and the
\* start of trace is broadcast when layers are compiled together.
setMetricsSettings ==
  /\ ttSt.pc = "new"
  /\ LET off == Offset(ttOpt.gen)
         synced == IF ttOpt.multi THEN timerSyncronization(ttNet) ELSE ttNet
     IN /\ ttNet' = IF Broadcasts THEN build2ChannelBroadcastNetwork(synced, "COMBO_EVENT_0", off) ELSE synced
        /\ ttSt' = [ttSt EXCEPT !.pc = "tile",
             !.timers = IF ttOpt.multi THEN Timed(Delivered(SyncNet(ttNet), "COMBO_EVENT_0", off)) ELSE {},
             !.coreStart = IF ttOpt.start = "user" THEN "INSTR_EVENT_0"
                           ELSE IF Broadcasts THEN "BROADCAST_1_CORE" ELSE @,
             !.memStart = IF Broadcasts THEN "BROADCAST_1" ELSE @,
             !.plStart = IF Broadcasts THEN "BROADCAST_2" ELSE @,
             !.coreEnd = IF ttOpt.shim = "edge" THEN "INSTR_EVENT_1" ELSE @]
  /\ UNCHANGED <<ttOpt, ttDev, ttDb>>

\* Interface tiles are not remembered (mutant).
RememberCores(st) == [st EXCEPT !.flushLocs = @ \cup IF Type = "shim" THEN {} ELSE {Loc}]

\* The places to flush at the end of the run.
Remember(st) == [st EXCEPT !.flushLocs = @ \cup {Loc}]

\* A tile is looked at: skipped, not possible, or its events are collected.
beginTile ==
  /\ ttSt.pc = "tile" /\ ttSt.at <= Len(ttOpt.tiles)
  /\ ~(Type = "core" /\ Tile.set = "execution" /\ Tile.active)
  /\ LET seen == Remember(ttSt)
     IN ttSt' = IF Type = "core" /\ ~isDmaSet(Tile.set) /\ ~Tile.active THEN NextTile(ttSt)
                ELSE IF Tile.set = "unavailable" THEN NextTile(seen)
                ELSE IF ~tileHasFreeRsc(Loc, Tile.set) THEN [seen EXCEPT !.pc = "failed"]
                ELSE [seen EXCEPT !.pc = "counters",
                        !.cur = [coreEvents |-> coreEventSets(Tile.set),
                                 memoryEvents |-> IF Type = "core" THEN memoryEventSets(Tile.set)
                                                  ELSE memoryTileEventSets(Tile.set),
                                 interfaceEvents |-> interfaceTileEventSets(Tile.set),
                                 cfg |-> NewConfig(Tile)]]
  /\ UNCHANGED <<ttOpt, ttDev, ttNet, ttDb>>

\* Execution trace of a core: no call after the first is checked.
executionTile(f) ==
  /\ ttSt.pc = "tile" /\ ttSt.at <= Len(ttOpt.tiles) /\ Fault(f)
  /\ Type = "core" /\ Tile.set = "execution" /\ Tile.active
  /\ ttSt' = NextTile([Remember(ttSt) EXCEPT !.faults = Faults(f)])
  /\ ttDev' = IF f = "control" THEN ttDev
              ELSE [ttDev EXCEPT !.mods = With(@, <<Loc, "core">>,
                      TraceUnit(IF f = "start" THEN "reserved" ELSE "on", ttSt.coreStart, ttSt.coreEnd, <<"TRUE">>, 0))]
  /\ ttDb' = IF f = "control" THEN ttDb ELSE Append(ttDb, NewConfig(Tile))
  /\ UNCHANGED <<ttOpt, ttNet>>

\* Stages 1 and 2: the counters of the core and of the memory module, of which
\* all have to be there when there are any.
reserveCounters(f) ==
  /\ ttSt.pc = "counters" /\ Fault(f)
  /\ f # "ok" => Type = "core" /\ NumCounters > 0
  /\ LET has(mod) == [loc |-> Loc, mod |-> mod, id |-> 0]
         got == CASE f = "ok" -> {has("core"), has("mem")} [] f = "core" -> {has("mem")} [] f = "mem" -> {has("core")}
         listed == [ttSt EXCEPT !.perfCounters = @ \cup {<<c.loc, c.mod, c.id>> : c \in got},
                                !.faults = Faults(f)]
     IN IF Type # "core" \/ NumCounters = 0
        THEN /\ ttSt' = Goto(CASE Type = "core" -> "core" [] Type = "mem_tile" -> "mem" [] Type = "shim" -> "pl", "ok")
             /\ UNCHANGED ttDev
        ELSE IF f = "ok"
        THEN /\ ttSt' = [listed EXCEPT !.pc = "core",
                           !.cur.coreEvents = Append(@, CounterEvent[1]),
                           !.cur.memoryEvents = Append(@, "mem counter"),
                           !.cur.cfg.counters = got]
             /\ ttDev' = [ttDev EXCEPT !.counters = @ \cup got]
        ELSE /\ ttSt' = [listed EXCEPT !.pc = "failed"]
             /\ ttDev' = Freed([ttDev EXCEPT !.counters = @ \cup got], listed)
  /\ UNCHANGED <<ttOpt, ttNet, ttDb>>

\* A trace module is given its start and end, its control, a slot for each
\* event, its mode and packet.  Without the control everything is released and
\* configuration has failed; any other error ends the loop over the tiles as
\* if all were configured, before the database is told.
TraceModule(f, mod, st, dev, slots, start, stop, events, packet, rec, next) ==
  LET n == IF f = "slot" THEN Len(events) - 1 ELSE IF slots < Len(events) THEN slots ELSE Len(events)
      got == SubSeq(events, 1, n)
      Put(state) == [dev EXCEPT !.mods = With(@, <<Loc, mod>>, TraceUnit(state, start, stop, got, packet))]
      At(pc) == [st EXCEPT !.pc = pc, !.faults = Faults(f)]
  IN CASE f = "cntr" -> ttSt' = At("ready") /\ ttDev' = dev
       [] f = "control" -> ttSt' = At("failed") /\ ttDev' = Freed(dev, st)
       [] f = "mode" -> ttSt' = At("ready") /\ ttDev' = Put("reserved")
       [] f \in {"ok", "slot"} -> ttSt' = [At(next) EXCEPT !.cur.cfg = rec[n]] /\ ttDev' = Put("on")

\* configStartDelay and configStartIteration: the counters of the core module
\* the start of trace waits for; a delay beyond 32 bits takes two.
StartCounters(f) ==
  [loc : {Loc}, mod : {"core"},
   id : NumCounters..(NumCounters - 1 + CASE f = "delay" -> 0 [] f = "delay high" -> 1 [] OTHER -> DelayCounters)]

coreTrace(f) ==
  /\ ttSt.pc = "core" /\ Fault(f)
  /\ f = "delay" => DelayCounters > 0
  /\ f = "delay high" => DelayCounters = 2
  /\ LET dev == [ttDev EXCEPT !.counters = @ \cup StartCounters(f)]
         start == IF DelayCounters = 0 THEN ttSt.coreStart ELSE CounterEvent[NumCounters + DelayCounters]
         rec == [n \in 0..Len(Cur.coreEvents) |-> [Cur.cfg EXCEPT !.core =
                   [start |-> Own(start), stop |-> Own(ttSt.coreEnd), packet |-> 0,
                    events |-> [i \in 1..n |-> Own(Cur.coreEvents[i])]]]]
     IN IF f \in {"delay", "delay high"}
        THEN ttSt' = Goto("ready", f) /\ ttDev' = dev
        ELSE TraceModule(f, "core", [ttSt EXCEPT !.coreStart = start], dev, Left(Loc, "coreSlot"),
                         start, ttSt.coreEnd, Cur.coreEvents, 0, rec, "mem")
  /\ UNCHANGED <<ttOpt, ttNet, ttDb>>

\* configStreamSwitchPorts: events of ports get the number of the port that
\* could be had; without one the event stays as it is.
HasPorts(events) == Left(Loc, "port") > 0 /\ \E i \in DOMAIN events : events[i] = "port"
configStreamSwitchPorts(events) ==
  [i \in DOMAIN events |-> IF HasPorts(events) /\ events[i] = "port" THEN "stream switch" ELSE events[i]]
PortSt(events) == [ttSt EXCEPT !.streamPorts = IF HasPorts(events) THEN {Loc} ELSE {}]
PortDev(events) == [ttDev EXCEPT !.ports = @ \cup IF HasPorts(events) THEN {Loc} ELSE {}]

\* configComboEvents: a memory module that traces DMA events starts at once
\* and has an end of its own.
configComboEvents == IF Type = "core" /\ isDmaSet(Tile.set) THEN <<"TRUE", "USER_EVENT_0_MEM">> ELSE <<>>

\* Events are recorded as they were asked for, not with their ports (mutant).
MemoryConfigAsked(events, n, start, stop) ==
  [Cur.cfg EXCEPT !.mem = [start |-> Own(start), stop |-> Own(stop),
                           events |-> [i \in 1..n |-> Own(Cur.memoryEvents[i])],
                           packet |-> IF Type = "mem_tile" THEN 3 ELSE 1]]

\* What the database is told of a memory module or memory tile: events of the
\* core by the channels 0 (start), 1 (end) and above that bring them.
MemoryConfig(events, n, start, stop) ==
  LET Via(e, id) == IF isCoreModuleEvent(e) /\ Type = "core" THEN Channel(id) ELSE Own(e)
      traced == [i \in 1..n |-> Via(events[i], i + 1)]
      used == {c.bc : c \in {Via(start, 0), Via(stop, 1)} \cup {traced[i] : i \in 1..n}} \ {-1}
  IN [Cur.cfg EXCEPT
       !.mem = [start |-> Via(start, 0), stop |-> Via(stop, 1), events |-> traced,
                packet |-> IF Type = "mem_tile" THEN 3 ELSE 1],
       !.bc = [id \in used |-> CASE id = 0 -> start [] id = 1 -> stop [] OTHER -> events[id - 1]],
       !.mask = IF isCoreModuleEvent(stop) THEN used ELSE {}]

memoryTrace(f) ==
  /\ ttSt.pc = "mem" /\ Fault(f)
  /\ f # "slot" \/ Len(Cur.memoryEvents) > 0
  /\ LET combo == configComboEvents
         events == configStreamSwitchPorts(Cur.memoryEvents)
         start == IF Broadcasts /\ Type = "core" THEN "BROADCAST_1_MEM" ELSE IF combo # <<>> THEN combo[1]
                  ELSE IF Type = "core" THEN ttSt.coreStart ELSE ttSt.memStart
         stop == IF combo # <<>> THEN combo[2] ELSE IF Type = "core" THEN ttSt.coreEnd ELSE "USER_EVENT_1_MEM"
     IN TraceModule(f, "mem", PortSt(Cur.memoryEvents), PortDev(Cur.memoryEvents), Left(Loc, "memSlot"),
                    start, stop, events, IF Type = "mem_tile" THEN 3 ELSE 1,
                    [n \in 0..Len(events) |-> MemoryConfig(events, n, start, stop)], "add")
  /\ UNCHANGED <<ttOpt, ttNet, ttDb>>

\* Interface tiles: the control is reserved before the stream ports, and in
\* the first column the broadcast event itself is the start.
interfaceTrace(f) ==
  /\ ttSt.pc = "pl" /\ Fault(f)
  /\ LET asked == Cur.interfaceEvents
         early == f \in {"cntr", "control"}
         events == configStreamSwitchPorts(asked)
         start == IF Broadcasts /\ Loc[1] = 0 THEN "COMBO_EVENT_0" ELSE ttSt.plStart
         rec == [n \in 0..Len(events) |-> [Cur.cfg EXCEPT !.pl =
                   [start |-> Own(ttSt.plStart), stop |-> Own("USER_EVENT_1_PL"),
                    events |-> [i \in 1..n |-> Own(events[i])], packet |-> 4]]]
     IN TraceModule(f, "pl", IF early THEN ttSt ELSE PortSt(asked), IF early THEN ttDev ELSE PortDev(asked),
                    Left(Loc, "plSlot"), start, "USER_EVENT_1_PL", events, 4, rec, "add")
  /\ UNCHANGED <<ttOpt, ttNet, ttDb>>

addAIECfgTile ==
  /\ ttSt.pc = "add"
  /\ ttDb' = Append(ttDb, Cur.cfg)
  /\ ttSt' = NextTile(ttSt)
  /\ UNCHANGED <<ttOpt, ttDev, ttNet>>

tilesDone ==
  /\ ttSt.pc = "tile" /\ ttSt.at > Len(ttOpt.tiles)
  /\ ttSt' = [ttSt EXCEPT !.pc = "ready"]
  /\ UNCHANGED <<ttOpt, ttDev, ttNet, ttDb>>

\* configureWindowedEventTrace: trace starts with a layer, which a counter of
\* the first interface tile counts and the network tells all tiles.  Without a
\* start layer there is the network and no more.
WindowStart(unit) ==
  LET type == TypeAt(unit[1])
  IN CASE type = "shim" -> IF unit[1][1] = 0 THEN "PERF_CNT_0_PL" ELSE "BROADCAST_2"
       [] type = "mem_tile" -> "BROADCAST_1"
       [] type = "core" -> IF unit[2] = "core" THEN "BROADCAST_1_CORE" ELSE "BROADCAST_1_MEM"

\* The tiles that get a start event: at the columns of the metadata.
WindowLocs ==
  IF ttOpt.layer THEN {<<ttOpt.tiles[i].loc[1] - ttOpt.shift, ttOpt.tiles[i].loc[2]>> : i \in DOMAIN ttOpt.tiles}
  ELSE {}

LayerCounter == [loc |-> <<0, 0>>, mod |-> "pl", id |-> 0]

configureWindowedEventTrace(f) ==
  /\ ttSt.pc = "ready" /\ ttOpt.start = "layer" /\ Fault(f)
  /\ ttSt' = Goto("tracing", f)
  /\ IF f = "ok"
     THEN /\ LET Begins(u) == IF u[1] \in WindowLocs THEN WindowStart(u) ELSE ttDev.mods[u].start
             IN ttDev' = [ttDev EXCEPT !.mods = [u \in DOMAIN @ |-> [@[u] EXCEPT !.start = Begins(u)]],
                                       !.counters = @ \cup IF ttOpt.layer THEN {LayerCounter} ELSE {}]
          /\ ttNet' = build2ChannelBroadcastNetwork(ttNet, "PERF_CNT_0_PL", Offset(ttOpt.gen))
     ELSE UNCHANGED <<ttDev, ttNet>>
  /\ UNCHANGED <<ttOpt, ttDb>>

traceConfigured ==
  /\ ttSt.pc = "ready" /\ ttOpt.start # "layer"
  /\ ttSt' = [ttSt EXCEPT !.pc = "tracing"]
  /\ UNCHANGED <<ttOpt, ttDev, ttNet, ttDb>>

\* At the end counters are released first; after a failure flush still comes.
freeResources ==
  /\ ttSt.pc \in {"tracing", "failed"}
  /\ ttDev' = Freed(ttDev, ttSt)
  /\ ttSt' = [ttSt EXCEPT !.pc = "released"]
  /\ UNCHANGED <<ttOpt, ttNet, ttDb>>

\* flushTraceModules generates the end events of the tiles it remembers; the
\* one of a core also reaches a memory module that ends on it.
flushTraceModules ==
  /\ ttSt.pc = "released"
  /\ LET Ends(u, m) == u[1] \in ttSt.flushLocs
                         /\ m.stop = (CASE TypeAt(u[1]) = "core" -> ttSt.coreEnd
                                        [] TypeAt(u[1]) = "mem_tile" -> "USER_EVENT_1_MEM"
                                        [] TypeAt(u[1]) = "shim" -> "USER_EVENT_1_PL")
     IN ttDev' = [ttDev EXCEPT !.mods = [u \in DOMAIN @ |-> [@[u] EXCEPT !.flushed = Ends(u, ttDev.mods[u])]]]
  /\ ttSt' = [ttSt EXCEPT !.pc = "ended", !.flushLocs = {}]
  /\ UNCHANGED <<ttOpt, ttNet, ttDb>>

TtNext ==
  \/ setMetricsSettings \/ beginTile \/ addAIECfgTile \/ tilesDone \/ traceConfigured
  \/ freeResources \/ flushTraceModules
  \/ \E f \in {"ok", "control", "start"} : executionTile(f)
  \/ \E f \in {"ok", "core", "mem"} : reserveCounters(f)
  \/ \E f \in {"ok", "cntr", "control", "slot", "mode", "delay", "delay high"} : coreTrace(f)
  \/ \E f \in {"ok", "cntr", "control", "slot", "mode"} : memoryTrace(f) \/ interfaceTrace(f)
  \/ \E f \in {"ok", "window"} : configureWindowedEventTrace(f)

TtSpec == TtInit /\ [][TtNext]_ttVars
-----------------------------------------------------------------------------
\* Each tile in the database is traced as it says there, whatever errors and
\* shortages there were: its modules are on, each slot has the event recorded
\* for it, directly or as a channel with a core event behind it, they start and
\* end on the recorded events, their packets have the recorded types and the
\* channels between the modules are all in the mask.  The database is not told
\* of the events a window or the first interface tile of a broadcast start on,
\* nor of the mask of DMA sets.
TilesRecorded ==
  \A i \in {i \in DOMAIN ttDb : ttDb[i].set # "execution"} :
    LET cfg == ttDb[i]
        Resolve(e) == IF e.bc < 0 THEN e.event ELSE cfg.bc[e.bc]
        Agree(c, m) ==
          /\ m.state = "on" /\ m.packet = c.packet /\ m.stop = Resolve(c.stop)
          /\ m.events = [k \in DOMAIN c.events |-> Resolve(c.events[k])]
          /\ ttOpt.start = "layer" \/ m.start \in {Resolve(c.start), "COMBO_EVENT_0"}
    IN /\ TypeAt(cfg.loc) = "core" => Agree(cfg.core, ttDev.mods[<<cfg.loc, "core">>])
       /\ TypeAt(cfg.loc) # "shim" => Agree(cfg.mem, ttDev.mods[<<cfg.loc, "mem">>])
       /\ TypeAt(cfg.loc) = "shim" => Agree(cfg.pl, ttDev.mods[<<cfg.loc, "pl">>])
       /\ isDmaSet(cfg.set) \/ cfg.mask = DOMAIN cfg.bc
       /\ ttSt.pc \notin {"failed", "released", "ended"} => cfg.counters \subseteq ttDev.counters

\* The signal that starts trace everywhere, and whether the event e brings it from
\* the first interface tile to the module u.
Signal == IF ttOpt.start = "layer" THEN "PERF_CNT_0_PL" ELSE "COMBO_EVENT_0"
Signalled(u, e, got) ==
  LET at == <<u[1][1], u[1][2], CASE u[2] = "core" -> "C" [] u[2] = "mem" -> "M" [] u[2] = "pl" -> "A">>
  IN \/ e \in {"BROADCAST_1", "BROADCAST_1_CORE", "BROADCAST_1_MEM"} /\ at \in got[1]
     \/ e = "BROADCAST_2" /\ at \in got[2]
     \/ e = Signal /\ u = <<<<0, 0>>, "pl">>

\* Whether e happens in u at all: always, by the program of the core, by a counter
\* that runs in its tile, or by that signal.
Happens(u, e, got) ==
  \/ e \in {"ACTIVE", "TRUE", "INSTR_EVENT_0"}
  \/ \E k \in DOMAIN CounterEvent : e = CounterEvent[k] /\ [loc |-> u[1], mod |-> "core", id |-> k - 1] \in ttDev.counters
  \/ Signalled(u, e, got)

On == {u \in DOMAIN ttDev.mods : ttDev.mods[u].state = "on"}
Got == Delivered(ttNet, Signal, Offset(ttOpt.gen))

\* configureWindowedEventTrace has set up a window that starts with a layer.
Windowed == ttOpt.layer /\ ttNet # Clean

\* Trace has a beginning and an end in every module that is on.  Once configured,
\* a window that could be set up starts every module with the layer when the
\* partition starts at column 0, and otherwise the modules that are traced where
\* the metadata has a tile: with a shift the start events go to the columns of the
\* metadata, trace runs at the shifted ones, and a module that is at a shifted
\* place only starts before the layer.  Without a window the event a module starts
\* on can happen in it.  The flush at the end generates the event it ends on, also
\* when configuration stopped in the middle.  With layers compiled together, timers
\* were reset in all modules of the first num_cols columns and no signal left them.
\* Left out are the cores of execution trace without a window, which start on what
\* the last tile with a delay waits for, modules a shift moved out of those columns,
\* and the end of memory modules with DMA events, an event nothing generates.
WindowRight ==
  LET Executes(u) == \E i \in DOMAIN ttOpt.tiles : ttOpt.tiles[i].loc = u[1] /\ ttOpt.tiles[i].set = "execution"
  IN /\ ttSt.pc = "tracing" /\ Windowed =>
          /\ LayerCounter \in ttDev.counters
          /\ \A u \in On : ttOpt.shift = 0 \/ u[1] \in WindowLocs => Signalled(u, ttDev.mods[u].start, Got)
     /\ ttSt.pc = "tracing" /\ ~Windowed =>
          \A u \in On : u[1][1] \notin Column \/ Executes(u) \/ Happens(u, ttDev.mods[u].start, Got)
     /\ ttSt.pc = "ended" => \A u \in On : ttDev.mods[u].flushed \/ ttDev.mods[u].stop = "USER_EVENT_0_MEM"
     /\ ttSt.pc = "tracing" /\ ttOpt.multi =>
          /\ ttSt.timers = {n \in Nodes(Offset(ttOpt.gen)) : n[3] # "B"}
          /\ Outside \notin Got[1] \cup Got[2]
=============================================================================
