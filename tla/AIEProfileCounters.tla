------------------------ MODULE AIEProfileCounters ------------------------
(***************************************************************************)
(* The counters of AIE profile on edge devices: which hardware counters    *)
(* setMetricsSettings programs for the tiles and metric sets asked for,    *)
(* what it tells the static database of them, and which of them a poll     *)
(* reads for an entry of the database.                                     *)
(*                                                                         *)
(* An entry of an ordinary metric set is read by its position.  The two    *)
(* metric sets of the profile API are read through a table: a byte count   *)
(* by the column and row of its tile, a latency by the pair of ports it is *)
(* between.  The destination of such a pair sets up a broadcast network    *)
(* over which the source, configured after it, starts its counter.         *)
(***************************************************************************)
EXTENDS Integers, Sequences, SequencesExt, FiniteSets, TLC

CONSTANTS
  ProfileSettings,    \* what the user asked for, see PcInit
  NumMonitorPorts,    \* ports of a stream switch that can be monitored
  MaxProfileFaults    \* bound of the model: calls of the driver that fail

ASSUME ProfileCountersAssumption == NumMonitorPorts \in Nat /\ MaxProfileFaults \in Nat

VARIABLES
  pcOpt,    \* the settings, how the program was loaded, what the tiles have left; fixed
  pcSt,     \* where setMetricsSettings is, and the members of the implementation
  pcHw,     \* the stream switch ports and the counters of the array
  pcDb      \* the counters in the static database

pcVars == <<pcOpt, pcSt, pcHw, pcDb>>

API == {"start_to_bytes_transferred", "interface_tile_latency"}
Bytes == "start_to_bytes_transferred"
Latency == "interface_tile_latency"

TileType(tile) == IF tile.row = 0 THEN "shim" ELSE IF tile.row = 1 THEN "mem_tile" ELSE "core"
FalModule(module) ==
  CASE module = "aie" -> "core" [] module \in {"aie_memory", "memory_tile"} -> "mem"
    [] module = "interface_tile" -> "pl"
isValidType(type, mod) ==
  \/ mod = "core" /\ type \in {"core", "dma"}
  \/ mod = "mem" /\ type \in {"dma", "mem_tile"}
  \/ mod = "pl" /\ type = "shim"

\* An event is that of a stream switch port, with its number in the metric set until
\* a port is reserved for it and then with that of the port, or another one (-1).
Event(n) == [port |-> n, tlast |-> FALSE, reserved |-> FALSE]
TlastEvent(n) == [port |-> n, tlast |-> TRUE, reserved |-> FALSE]
OtherEvent == Event(-1)

\* The metric sets, represented by those that use the ports in different ways.
EventSets(type, set) ==
  CASE type = "shim" /\ set \in API -> <<Event(0), Event(0)>>
    [] type = "shim" /\ set = "packets" -> <<TlastEvent(0), TlastEvent(1)>>
    [] type = "shim" /\ set = "output_throughputs" -> <<OtherEvent, Event(0)>>
    [] type = "mem_tile" /\ set = "input_throughputs" -> <<Event(0), OtherEvent>>
    [] type = "core" /\ set = "s2mm_throughputs" -> <<Event(0), Event(0)>>
    [] type = "core" /\ set = "aie_trace" -> <<Event(0), Event(1)>>
    [] type = "dma" /\ set = "conflicts" -> <<OtherEvent>>
    [] OTHER -> <<>>

isStreamSwitchPortEvent(e) == e.port # -1
\* The numbers of TLAST events are not among the cases.
getPortNumberFromEvent(e) == IF e.tlast \/ e.port = -1 THEN 0 ELSE e.port

\* tile_type::operator==: the streams do not count
SameTile(t, u) == t.col = u.col /\ t.row = u.row /\ t.sub = u.sub
\* create_tileKey, and what getSrcDestPairKey looks at of it
StreamOf(tile) == IF tile.streams = <<>> THEN 0 ELSE Head(tile.streams)
TileKey(tile) == <<tile.row, tile.col, StreamOf(tile), tile.master>>

-----------------------------------------------------------------------------
\* getConfigMetricsForintfTilesLatencyConfig.  A pair is [src, dest, tranx]; a
\* later pair replaces what an earlier one said of a port.
latencyConfigMap ==
  FoldLeft(LAMBDA conf, p : (TileKey(p.dest) :> [pair |-> p, isSource |-> FALSE])
                            @@ (TileKey(p.src) :> [pair |-> p, isSource |-> TRUE]) @@ conf,
           <<>>, pcOpt.pairs)
configMetricLatencyVec ==
  FlattenSeq([i \in DOMAIN pcOpt.pairs |->
                << [tile |-> pcOpt.pairs[i].dest, set |-> Latency, module |-> "interface_tile"],
                   [tile |-> pcOpt.pairs[i].src, set |-> Latency, module |-> "interface_tile"] >>])

\* The source of a pair comes before its destination (mutant).
sourceFirst ==
  LET named == configMetricLatencyVec
      InLatency(e) == \E i \in DOMAIN named : SameTile(named[i].tile, e.tile)
  IN Reverse(named) \o SelectSeq(pcOpt.shims, LAMBDA e : ~InLatency(e))

\* getConfigMetricsVec: the latency settings in their order, then the other
\* interface tiles (a tile has one metric set, and latency was set last).
getConfigMetricsVec ==
  LET named == configMetricLatencyVec
      InLatency(e) == \E i \in DOMAIN named : SameTile(named[i].tile, e.tile)
  IN named \o SelectSeq(pcOpt.shims, LAMBDA e : ~InLatency(e))

isValidLatencyTile(tile) == TileKey(tile) \in DOMAIN latencyConfigMap
isSourceTile(tile) == isValidLatencyTile(tile) /\ latencyConfigMap[TileKey(tile)].isSource
PairOf(tile) == latencyConfigMap[TileKey(tile)].pair

NoKey == <<>>
KeyOf(p) == <<SubSeq(TileKey(p.src), 1, 3), SubSeq(TileKey(p.dest), 1, 3)>>
\* The first port at that place in the order of the map; it does not ask for the
\* direction of the port.
getSrcDestPairKey(col, row, stream) ==
  LET at == {k \in DOMAIN latencyConfigMap : k[1] = row /\ k[2] = col /\ k[3] = stream}
  IN IF at = {} THEN NoKey
     ELSE KeyOf(latencyConfigMap[CHOOSE k \in at : \A l \in at : k[4] <= l[4]].pair)

getUserSpecifiedThreshold(e) ==
  CASE e.set = Bytes -> e.bytes
    [] e.set = Latency -> IF isValidLatencyTile(e.tile) THEN PairOf(e.tile).tranx ELSE 0
    [] OTHER -> 0

\* What the driver takes as a column: the partition starts at column 0 when the
\* xclbin was loaded on the device.
getXAIECol(col) == IF pcOpt.style = "load" THEN col + pcOpt.shift ELSE col

-----------------------------------------------------------------------------
TileMetric == pcSt.todo[pcSt.at]
Mod == FalModule(TileMetric.module)
\* a memory module of an AIE tile
EntryType == IF Mod = "mem" /\ TileType(TileMetric.tile) = "core" THEN "dma" ELSE TileType(TileMetric.tile)
Place(tile) == <<getXAIECol(tile.col), tile.row>>

\* Counters of a module: as many as it has, or what others left of them.
NumCountersMod(mod) == IF mod = "core" THEN 3 ELSE 2
Left2(place, mod) == IF pcOpt.short = <<place, mod>> THEN pcOpt.left ELSE NumCountersMod(mod)
UsedCounters(place, mod) ==
  Cardinality({i \in DOMAIN pcHw.counters : pcHw.counters[i].place = place /\ pcHw.counters[i].mod = mod})

CanFail(ok) == ok \/ pcSt.faults < MaxProfileFaults
Failing(st, ok) == IF ok THEN st ELSE [st EXCEPT !.faults = @ + 1]
NextEntry(st) == [st EXCEPT !.at = @ + 1, !.i = 0, !.pc = "tile"]

\* The next counter of this tile.
NextCounter(st) == IF st.i + 1 < st.n THEN [st EXCEPT !.i = @ + 1] ELSE NextEntry(st)

PcInit ==
  /\ pcOpt \in {[s EXCEPT !.style = y, !.shift = h, !.short = t, !.left = l, !.iter = g, !.taken = p] :
                  s \in ProfileSettings, y \in {"load", "register"}, h \in {0, 1},
                  t \in {<<>>} \cup {<< <<0, 0>>, "pl">>, << <<1, 0>>, "pl">>, << <<0, 2>>, "core">>},
                  l \in {0, 1}, g \in BOOLEAN, p \in {{}, {0}}}
  /\ pcOpt.short = <<>> => pcOpt.left = 0
  /\ pcSt = [pc |-> "new", todo |-> <<>>, at |-> 1, i |-> 0, n |-> 0, events |-> <<>>, faults |-> 0,
             perf |-> <<>>, info |-> <<>>, bcMap |-> <<>>, iterDone |-> FALSE, iterEvent |-> "none",
             streamPorts |-> {}, samples |-> {}]
  /\ pcHw = [ports |-> <<>>, counters |-> <<>>, sends |-> {}]
  /\ pcDb = <<>>

\* updateDevice, up to the loops over modules and tiles.  No device, no counters.
updateProfileDevice(found) ==
  /\ pcSt.pc = "new"
  /\ pcSt' = IF found THEN [pcSt EXCEPT !.pc = "tile", !.todo = pcOpt.cores \o getConfigMetricsVec \o pcOpt.memTiles]
             ELSE [pcSt EXCEPT !.pc = "done"]
  /\ UNCHANGED <<pcOpt, pcHw, pcDb>>

-----------------------------------------------------------------------------
\* configStreamSwitchPorts, for one event of the metric set: the first event of a
\* port reserves one of the tile's, the others share it.  Without a free port, or
\* without a stream for it, the event stays that of the metric set.
SelectPort(acc, i) ==
  LET e == acc.events[i]
      portnum == getPortNumberFromEvent(e)
      place == Place(TileMetric.tile)
      free == {q \in 0..(NumMonitorPorts - 1) \ pcOpt.taken : <<place, q>> \notin DOMAIN acc.ports}
      known == portnum \in DOMAIN acc.map
      port == IF known THEN acc.map[portnum] ELSE CHOOSE q \in free : \A r \in free : q <= r
      noStream == EntryType = "shim" /\ portnum >= Len(TileMetric.tile.streams)
      selects == IF noStream THEN -1
                 ELSE IF EntryType = "shim" THEN TileMetric.tile.streams[portnum + 1]
                 ELSE IF TileMetric.set = "aie_trace" THEN 1 - portnum
                 ELSE TileMetric.channels[1 + (portnum % 2)]
  IN IF ~isStreamSwitchPortEvent(e) \/ (~known /\ free = {}) THEN acc
     ELSE [map |-> (portnum :> port) @@ acc.map,
           ports |-> IF known THEN acc.ports ELSE (<<place, port>> :> selects) @@ acc.ports,
           mine |-> IF known \/ noStream THEN acc.mine ELSE acc.mine \cup {<<place, port>>},
           events |-> IF ~known /\ noStream THEN acc.events
                      ELSE [acc.events EXCEPT ![i] = [e EXCEPT !.port = port, !.reserved = TRUE]]]
configProfilePorts(n, events) ==
  FoldLeft(SelectPort, [map |-> <<>>, ports |-> pcHw.ports, mine |-> pcSt.streamPorts, events |-> events],
           [i \in 1..n |-> i])

\* The metric sets that may start on an iteration of the graph.
metricSupportsGraphIterator(set) == set \in {Bytes, "input_throughputs", "output_throughputs"}
FirstCore == <<getXAIECol(0), 2>>
Counter(place, mod, role, tile, i, watches, start, key) ==
  [place |-> place, mod |-> mod, role |-> role, tile |-> tile, i |-> i, watches |-> watches,
   start |-> start, key |-> key]

\* configGraphIteratorAndBroadcast, once: a counter of the first core tile and a
\* broadcast of its event to the interface tiles.  If either fails nobody looks at
\* it and the event used as a reset is not initialized ("garbage").
graphIterator(outcome, set) ==
  IF ~pcOpt.iter \/ pcSt.iterDone \/ ~metricSupportsGraphIterator(set) THEN outcome = "none"
  ELSE IF ~pcOpt.hasCores THEN outcome = "none"
  ELSE IF UsedCounters(FirstCore, "core") >= Left2(FirstCore, "core") THEN outcome = "garbage"
  ELSE outcome = "event" \/ (outcome = "garbage" /\ CanFail(FALSE))

Skipped(n) ==
  \/ ~isValidType(EntryType, Mod)
  \/ ~TileMetric.tile.active /\ (EntryType = "dma" \/ (EntryType = "core" /\ TileMetric.set # "s2mm_throughputs"))
  \/ TileMetric.set \in API /\ n < 2

\* setMetricsSettings, a tile up to its counters.  How many there are was asked
\* before the first tile was configured.
profileTile(outcome) ==
  /\ pcSt.pc = "tile" /\ pcSt.at <= Len(pcSt.todo)
  /\ LET events == EventSets(EntryType, TileMetric.set)
         left == Left2(Place(TileMetric.tile), Mod)
         n == IF Len(events) < left THEN Len(events) ELSE left
         switch == configProfilePorts(n, events)
         st == [pcSt EXCEPT !.events = switch.events, !.streamPorts = switch.mine, !.n = n,
                            !.faults = IF outcome = "garbage" THEN @ + 1 ELSE @,
                            !.iterDone = @ \/ outcome # "none",
                            !.iterEvent = IF outcome # "none" THEN outcome ELSE @]
     IN IF Skipped(n) THEN outcome = "none" /\ pcSt' = NextEntry(pcSt) /\ UNCHANGED pcHw
        ELSE /\ graphIterator(outcome, TileMetric.set)
             /\ pcSt' = IF n = 0 THEN NextEntry(st) ELSE [st EXCEPT !.pc = "counter"]
             /\ pcHw' = [pcHw EXCEPT !.ports = switch.ports,
                                     !.counters = IF outcome # "event" THEN @
                                       ELSE Append(@, Counter(FirstCore, "core", "iteration", <<>>, 0, -1, "iteration", NoKey))]
  /\ UNCHANGED <<pcOpt, pcDb>>

-----------------------------------------------------------------------------
ChannelOf(e) == IF getPortNumberFromEvent(e) = 0 THEN TileMetric.channels[1] ELSE TileMetric.channels[2]

\* Which channel or stream the database is told of: found by the number of the
\* event's port, by now that of the port reserved.
getCounterPayload(e) ==
  LET streams == TileMetric.tile.streams
  IN CASE TileMetric.set = Latency -> IF isValidLatencyTile(TileMetric.tile) THEN KeyOf(PairOf(TileMetric.tile)) ELSE NoKey
       [] TileMetric.set = Bytes -> NoKey
       [] EntryType = "shim" /\ TileMetric.tile.sub = "PLIO" ->
            <<IF getPortNumberFromEvent(e) >= Len(streams) THEN 0 ELSE streams[getPortNumberFromEvent(e) + 1]>>
       [] OTHER -> <<ChannelOf(e)>>

\* The table of the profile API: indices into perfCounters, counted from 0
BytesKey(col, row) == <<Bytes, col, row>>
LatencyKey(key) == <<Latency, key>>
InfoWith(info, key, field, index) ==
  (key :> [(IF key \in DOMAIN info THEN info[key] ELSE [src |-> 0, dest |-> 0]) EXCEPT ![field] = index]) @@ info

\* A counter was made: it is kept, and the database gets an entry.  The event that
\* starts a latency is generated with its source, that of a byte count with the
\* second counter.
Keep(st, c) ==
  /\ pcSt' = NextCounter([st EXCEPT !.perf = Append(@, c)])
  /\ pcHw' = [pcHw EXCEPT !.counters = Append(@, c),
                          !.sends = CASE c.role = "src" -> @ \cup {c.key}
                                      [] c.role = "threshold" /\ TileMetric.set = Bytes /\ ~pcSt.iterDone -> @ \cup {<<"user1", c.place>>}
                                      [] OTHER -> @]
  /\ pcDb' = Append(pcDb, [col |-> c.place[1], row |-> c.place[2], i |-> c.i, tile |-> c.tile, set |-> TileMetric.set,
                           stream |-> StreamOf(TileMetric.tile), payload |-> getCounterPayload(pcSt.events[c.i + 1])])

NewCounter(role, start, key) ==
  LET e == pcSt.events[pcSt.i + 1]
      at == <<Place(TileMetric.tile), e.port>>
  IN Counter(Place(TileMetric.tile), Mod, role, TileMetric.tile, pcSt.i,
             IF e.reserved THEN pcHw.ports[at] ELSE -1, start, key)

\* initialize, reserve and start of a counter
Reserved(ok) == ok => UsedCounters(Place(TileMetric.tile), Mod) < Left2(Place(TileMetric.tile), Mod)
CounterStep(ok) ==
  /\ pcSt.pc = "counter" /\ Reserved(ok)
  /\ ok \/ UsedCounters(Place(TileMetric.tile), Mod) >= Left2(Place(TileMetric.tile), Mod) \/ CanFail(FALSE)

\* An ordinary metric set: the first counter that fails is the last of its tile.
ordinaryCounter(ok) ==
  /\ CounterStep(ok) /\ TileMetric.set \notin API
  /\ IF ok THEN Keep(pcSt, NewCounter("plain", "event", NoKey))
     ELSE pcSt' = NextEntry(Failing(pcSt, ok)) /\ UNCHANGED <<pcHw, pcDb>>
  /\ UNCHANGED pcOpt

\* The counter of a byte count that ends with one that counts to the threshold.
configPCUsingComboEvents(ok) ==
  /\ CounterStep(ok) /\ TileMetric.set = Bytes /\ pcSt.i = 0
  /\ LET key == BytesKey(TileMetric.tile.col, TileMetric.tile.row)
         st == [pcSt EXCEPT !.info = InfoWith(@, key, "src", Len(pcSt.perf))]
         start == IF pcOpt.iter THEN pcSt.iterEvent ELSE "user1"
     IN IF ok THEN Keep(st, NewCounter("bytes", start, key))
        ELSE pcSt' = NextCounter(Failing(st, ok)) /\ UNCHANGED <<pcHw, pcDb>>
  /\ UNCHANGED pcOpt

\* The second counter of the profile API, unless no threshold was given.
thresholdCounter(ok) ==
  /\ pcSt.pc = "counter" /\ TileMetric.set \in API /\ pcSt.i = 1
  /\ IF getUserSpecifiedThreshold(TileMetric) = 0
     THEN ok = FALSE /\ pcSt' = NextCounter(pcSt) /\ UNCHANGED <<pcHw, pcDb>>
     ELSE IF ok THEN CounterStep(ok) /\ Keep(pcSt, NewCounter("threshold", "event", NoKey))
     ELSE CounterStep(ok) /\ pcSt' = NextCounter(Failing(pcSt, ok)) /\ UNCHANGED <<pcHw, pcDb>>
  /\ UNCHANGED pcOpt

\* setupBroadcastChannel: the network of the pair, made by its destination unless
\* it is there already.  Two ports of one tile need none.
PairKey(tile) == getSrcDestPairKey(PairOf(tile).src.col, PairOf(tile).src.row, StreamOf(PairOf(tile).src))
setupBroadcastChannel(tile, sent) ==
  LET p == PairOf(tile)
      net == IF p.src.col = p.dest.col THEN [event |-> "user0", to |-> p.dest.col]
             ELSE [event |-> "broadcast", to |-> p.dest.col]
  IN IF PairKey(tile) \in DOMAIN pcSt.bcMap \/ ~sent THEN pcSt.bcMap
     ELSE (PairKey(tile) :> net) @@ pcSt.bcMap

\* configInterfaceLatency at the destination
configLatencyDest(ok, sent) ==
  /\ CounterStep(ok) /\ TileMetric.set = Latency /\ pcSt.i = 0 /\ isValidLatencyTile(TileMetric.tile)
  /\ ~isSourceTile(TileMetric.tile)
  /\ sent \/ CanFail(FALSE)
  /\ LET bcMap == setupBroadcastChannel(TileMetric.tile, sent)
         key == LatencyKey(getSrcDestPairKey(TileMetric.tile.col, TileMetric.tile.row, StreamOf(TileMetric.tile)))
         reached == PairKey(TileMetric.tile) \in DOMAIN bcMap
         st == [pcSt EXCEPT !.bcMap = bcMap, !.faults = IF sent THEN @ ELSE @ + 1,
                            !.info = InfoWith(@, key, "dest", Len(pcSt.perf))]
         start == IF reached THEN "broadcast" ELSE "none"
     IN IF ok THEN Keep(st, NewCounter("dest", start, key))
        ELSE pcSt' = NextCounter(Failing(st, ok)) /\ UNCHANGED <<pcHw, pcDb>>
  /\ UNCHANGED pcOpt

\* The index is recorded as that of the next counter (mutant).
sourceIndexAfter(ok) ==
  /\ CounterStep(ok) /\ TileMetric.set = Latency /\ pcSt.i = 0 /\ isSourceTile(TileMetric.tile)
  /\ LET pair == getSrcDestPairKey(TileMetric.tile.col, TileMetric.tile.row, StreamOf(TileMetric.tile))
         key == LatencyKey(pair)
         made == ok /\ pair \in DOMAIN pcSt.bcMap
         st == [pcSt EXCEPT !.info = InfoWith(@, key, "src", Len(pcSt.perf) + 1)]
     IN IF made THEN Keep(st, NewCounter("src", "user0", key))
        ELSE /\ pcSt' = NextCounter(Failing(st, ok)) /\ UNCHANGED pcDb
             /\ pcHw' = [pcHw EXCEPT !.counters = IF ok THEN Append(@, NewCounter("lost", "user0", key)) ELSE @]
  /\ UNCHANGED pcOpt

\* configInterfaceLatency at the source, which broadcasts the event that starts
\* both counters, if the destination has set up the network; otherwise the counter,
\* reserved and started by then, is dropped.
configLatencySource(ok) ==
  /\ CounterStep(ok) /\ TileMetric.set = Latency /\ pcSt.i = 0 /\ isSourceTile(TileMetric.tile)
  /\ LET pair == getSrcDestPairKey(TileMetric.tile.col, TileMetric.tile.row, StreamOf(TileMetric.tile))
         key == LatencyKey(pair)
         made == ok /\ pair \in DOMAIN pcSt.bcMap
         st == [pcSt EXCEPT !.info = InfoWith(@, key, "src", Len(pcSt.perf))]
     IN IF made THEN Keep(st, NewCounter("src", "user0", key))
        ELSE /\ pcSt' = NextCounter(Failing(st, ok)) /\ UNCHANGED pcDb
             /\ pcHw' = [pcHw EXCEPT !.counters = IF ok THEN Append(@, NewCounter("lost", "user0", key)) ELSE @]
  /\ UNCHANGED pcOpt

metricsSet ==
  /\ pcSt.pc = "tile" /\ pcSt.at > Len(pcSt.todo)
  /\ pcSt' = [pcSt EXCEPT !.pc = "ready"]
  /\ UNCHANGED <<pcOpt, pcHw, pcDb>>

-----------------------------------------------------------------------------
\* What a poll reads for entry c of the database: indices into perfCounters from 1.
\* An entry whose key is not in the table, or whose counter is not there, is left
\* out.
Reads(c) ==
  LET d == pcDb[c]
      key == IF d.set = Bytes THEN BytesKey(d.col, d.row)
             ELSE LatencyKey(getSrcDestPairKey(d.col, d.row, d.stream))
  IN IF d.set \notin API THEN <<c>>
     ELSE IF key \notin DOMAIN pcSt.info THEN <<>>
     ELSE IF d.set = Bytes THEN <<pcSt.info[key].src + 1>>
     ELSE <<pcSt.info[key].src + 1, pcSt.info[key].dest + 1>>

pollCounters ==
  /\ pcSt.pc = "ready"
  /\ pcSt' = [pcSt EXCEPT !.pc = "polled",
                          !.samples = {[id |-> c, reads |-> Reads(c)] : c \in {b \in DOMAIN pcDb :
                                         Reads(b) # <<>> /\ Range(Reads(b)) \subseteq DOMAIN pcSt.perf}}]
  /\ UNCHANGED <<pcOpt, pcHw, pcDb>>

\* freeResources: counters and ports are given back.
freeCounters ==
  /\ pcSt.pc = "polled"
  /\ pcHw' = [pcHw EXCEPT !.counters = SelectSeq(@, LAMBDA c : c.role \in {"iteration", "lost"}),
                          !.ports = [p \in DOMAIN @ \ pcSt.streamPorts |-> @[p]]]
  /\ pcSt' = [pcSt EXCEPT !.pc = "done"]
  /\ UNCHANGED <<pcOpt, pcDb>>

PcNext ==
  \/ \E ok \in BOOLEAN :
       \/ updateProfileDevice(ok) \/ ordinaryCounter(ok) \/ configPCUsingComboEvents(ok) \/ thresholdCounter(ok)
       \/ configLatencySource(ok) \/ \E sent \in BOOLEAN : configLatencyDest(ok, sent)
  \/ \E outcome \in {"none", "event", "garbage"} : profileTile(outcome)
  \/ metricsSet \/ pollCounters \/ freeCounters

-----------------------------------------------------------------------------
\* Relative columns and those of the driver are the same.
Aligned == pcOpt.style = "register" \/ pcOpt.shift = 0

\* A port that another pair uses too, or that only its direction tells from one
\* of another pair, shares its entry of the table.
SamePort(t, u) == t.col = u.col /\ t.row = u.row /\ StreamOf(t) = StreamOf(u)
OwnKey(d) ==
  IF d.set = Bytes
  THEN Cardinality({i \in DOMAIN pcSt.todo : pcSt.todo[i].set = Bytes /\ pcSt.todo[i].tile.col = d.tile.col}) = 1
  ELSE \A i \in DOMAIN pcOpt.pairs :
         LET p == pcOpt.pairs[i]
         IN (SamePort(p.src, d.tile) \/ SamePort(p.dest, d.tile)) =>
              \A j \in DOMAIN pcOpt.pairs \ {i} :
                \A t \in {p.src, p.dest}, u \in {pcOpt.pairs[j].src, pcOpt.pairs[j].dest} : ~SamePort(t, u)

Made(tile, role) == \E k \in DOMAIN pcSt.perf : pcSt.perf[k].tile = tile /\ pcSt.perf[k].role = role
Measured(p) == Made(p.src, "src") /\ Made(p.dest, "dest") /\ KeyOf(p) \in DOMAIN pcSt.bcMap

\* The table tells what to read for this entry: the columns are the same on both
\* sides, nothing else has its key, and its counters could be configured.
Readable(d) ==
  d.set \in API => Aligned /\ OwnKey(d) /\ IF d.set = Bytes THEN Made(d.tile, "bytes") ELSE Measured(PairOf(d.tile))

\* What is sampled for an entry: of an ordinary set its own counter, of a byte count
\* that of the tile, started if it has a threshold, of a latency the two of its pair,
\* started by the same event.
SamplesRight ==
  \A c \in {b \in DOMAIN pcDb : Readable(pcDb[b])} : \E s \in pcSt.samples :
    LET d == pcDb[c]
        read == [k \in DOMAIN s.reads |-> pcSt.perf[s.reads[k]]]
    IN /\ s.id = c
       /\ CASE d.set \notin API -> read[1].tile = d.tile /\ read[1].i = d.i /\ read[1].role = "plain"
            [] d.set = Bytes ->
                 /\ read[1].tile = d.tile /\ read[1].role = "bytes"
                 /\ d.i = 1 /\ ~pcSt.iterDone => <<"user1", read[1].place>> \in pcHw.sends
            [] d.set = Latency ->
                 LET p == PairOf(d.tile)
                 IN /\ read[1].tile = p.src /\ read[1].role = "src"
                    /\ read[2].tile = p.dest /\ read[2].role = "dest"
                    /\ pcSt.bcMap[KeyOf(p)].to = p.dest.col /\ read[1].key \in pcHw.sends

\* The tiles of the pair have counters for all that is asked of them.
Enough(p) ==
  \A t \in {p.src, p.dest} :
    Cardinality({i \in DOMAIN pcSt.todo : SameTile(pcSt.todo[i].tile, t)}) * (IF p.tranx = 0 THEN 1 ELSE 2)
      <= NumCountersMod("pl")

\* Without a fault and with counters for all, each pair of ports is measured: its
\* network is there when the source looks for it.
PairsMeasured ==
  pcSt.faults = 0 /\ pcOpt.short = <<>> => \A p \in Range(pcOpt.pairs) :
    OwnKey([set |-> Latency, tile |-> p.src]) /\ Enough(p) => Measured(p)

\* Where the monitor ports of the tiles were free, the database names the stream or
\* channel that an ordinary counter watches.
PayloadRight ==
  pcOpt.taken = {} => \A c \in DOMAIN pcDb :
    pcDb[c].set \notin API \cup {"aie_trace"} /\ pcDb[c].tile.sub = "PLIO" /\ pcSt.perf[c].watches # -1 =>
      pcDb[c].payload = <<pcSt.perf[c].watches>>

\* Once setMetricsSettings is done, a poll samples every counter in the database that
\* its table can tell, from the hardware counters that were programmed for it; all
\* pairs of ports are measured that can be; and the database names what is counted.
CountersRight == pcSt.pc = "polled" => SamplesRight /\ PairsMeasured /\ PayloadRight
=============================================================================
