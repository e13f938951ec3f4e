----------------------------- MODULE AIEDtraceCT -----------------------------
(***************************************************************************)
(* AieDtraceCTWriter: the control script (CT) of an inference, from its    *)
(* metric selection, the partition of the hardware context and the places  *)
(* of the probes in the ELF.  A script writes registers when it begins;    *)
(* then the probes of each microcontroller (UC) read counters, and a list  *)
(* of labels says what each of the numbers read is.                        *)
(*                                                                         *)
(* A register is <<column, row, module, register>>.  A control register    *)
(* holds the events of two counters, which count the cycles of the event.  *)
(* Events are tuples that begin with their name.                           *)
(***************************************************************************)
EXTENDS AIEDtraceMetadata

CONSTANT
  DtraceInputs  \* [blob, ini, partitions, ops]: the configuration, the partitions the
                \* driver reports [owner, cols], the probes [file, col]

VARIABLES
  ctIn,      \* the input
  ctSel,     \* the selections, None before they are known
  ctTodo,    \* selections that have no script yet
  ctScripts  \* the scripts: [sel, counters, writes, probes]

ctVars == <<ctIn, ctSel, ctTodo, ctScripts>>

Write(c, r, mod, reg, val) == [at |-> <<c, r, mod, reg>>, val |-> val]
Reset(c, r, mod, counters) == [i \in DOMAIN counters |-> Write(c, r, mod, <<"counter", counters[i]>>, 0)]
Label(c, r, mod, ctr, ch, dir, event) ==
  [col |-> c, row |-> r, mod |-> mod, ctr |-> ctr, ch |-> ch, dir |-> dir, event |-> event]

\* The register of a counter
calculateCounterAddress(k) == <<k.col, k.row, k.mod, <<"counter", k.ctr>>>>

\* The last partition reported, whoever owns it (mutant).
lastPartition(parts) == IF parts = <<>> THEN 0 ELSE Last(parts).cols

\* The partition of this process and context, or else the last one reported
getPartitionGeometry(parts) ==
  LET own == SelectSeq(parts, LAMBDA p : p.owner = "us")
  IN  IF parts = <<>> THEN 0 ELSE IF own # <<>> THEN own[1].cols ELSE Last(parts).cols

getShimTileColumns(parts) == [i \in 1 .. getPartitionGeometry(parts) |-> i - 1]

-----------------------------------------------------------------------------
(* Interface tiles *)

isDetailedBandwidth(set) == set \in {"detailed_ddr_read_bandwidth", "detailed_ddr_write_bandwidth"}

\* Counter i - 1 of the tile: the channel, its port and whether that is a master
\* port (S2MM, output), what is counted
getBandwidthCounterConfigs(set, channel) ==
  LET Config(ch, port, master, event) == [ch |-> ch, port |-> port, master |-> master, event |-> event]
      ch    == IF channel <= 1 THEN channel ELSE 0
      write == set = "detailed_ddr_write_bandwidth"
  IN  CASE isDetailedBandwidth(set) ->
             <<Config(ch, IF write THEN 3 + 2 * ch ELSE 5 + 4 * ch, write, "running"),
               Config(ch, 0, write, "lock"),
               Config(ch, 0, write, IF write THEN "stream_starvation" ELSE "memory_starvation"),
               Config(ch, 0, write, IF write THEN "memory_backpressure" ELSE "stream_backpressure")>>
        [] set = "peak_read_bandwidth" ->
             <<Config(0, 5, FALSE, "running"), Config(0, 5, FALSE, "stalled"),
               Config(1, 9, FALSE, "running"), Config(1, 9, FALSE, "stalled")>>
        [] set = "peak_write_bandwidth" ->
             <<Config(0, 3, TRUE, "running"), Config(0, 3, TRUE, "stalled"),
               Config(1, 5, TRUE, "running"), Config(1, 5, TRUE, "stalled")>>
        [] OTHER ->
             <<Config(0, 5, FALSE, "running"), Config(1, 9, FALSE, "running"),
               Config(0, 3, TRUE, "running"), Config(1, 5, TRUE, "running")>>

Direction(master) == IF master THEN "output" ELSE "input"

\* A slot for every counter of a peak set as well (mutant).
peakSlotsUnpacked(c, set, channel) ==
  LET configs == getBandwidthCounterConfigs(set, channel)
      slots   == IF isDetailedBandwidth(set) THEN <<configs[1]>> ELSE configs
  IN  <<Write(c, 0, "interface_tile", <<"port_sel">>, [i \in DOMAIN slots |-> <<slots[i].port, slots[i].master>>])>>

\* The ports of the slots that the events of the counters name
generateStreamSwitchPortConfig(c, set, channel) ==
  LET configs == getBandwidthCounterConfigs(set, channel)
      slots   == CASE isDetailedBandwidth(set) -> <<configs[1]>>
                   [] set \in {"peak_read_bandwidth", "peak_write_bandwidth"} -> <<configs[1], configs[3]>>
                   [] OTHER -> configs
  IN  <<Write(c, 0, "interface_tile", <<"port_sel">>, [i \in DOMAIN slots |-> <<slots[i].port, slots[i].master>>])>>

generatePerfCounterConfig(c, set, channel) ==
  LET ch  == IF channel <= 1 THEN channel ELSE 0
      dir == Direction(set = "detailed_ddr_write_bandwidth")
      events ==
        CASE set = "detailed_ddr_read_bandwidth" ->
               <<<<"running", 0>>, <<"lock", dir, ch>>, <<"memory_starvation", dir, ch>>, <<"stream_backpressure", dir, ch>>>>
          [] set = "detailed_ddr_write_bandwidth" ->
               <<<<"running", 0>>, <<"lock", dir, ch>>, <<"stream_starvation", dir, ch>>, <<"memory_backpressure", dir, ch>>>>
          [] set \in {"peak_read_bandwidth", "peak_write_bandwidth"} ->
               <<<<"running", 0>>, <<"stalled", 0>>, <<"running", 1>>, <<"stalled", 1>>>>
          [] OTHER -> [i \in 1 .. 4 |-> <<"running", i - 1>>]
  IN  Reset(c, 0, "interface_tile", <<0, 1, 2, 3>>)
        \o <<Write(c, 0, "interface_tile", <<"ctrl", 0>>, <<events[1], events[2]>>),
             Write(c, 0, "interface_tile", <<"ctrl", 2>>, <<events[3], events[4]>>)>>

generateBandwidthCounters(columns, set, channel) ==
  LET configs == getBandwidthCounterConfigs(set, channel)
  IN  FlattenSeq([k \in DOMAIN columns |->
        [i \in DOMAIN configs |-> Label(columns[k], 0, "interface_tile", i - 1, configs[i].ch,
                                        Direction(configs[i].master), configs[i].event)]])

Nothing == [counters |-> <<>>, writes |-> <<>>]

appendBandwidthConfig(parts, set, channel) ==
  LET columns == getShimTileColumns(parts)
  IN  [counters |-> generateBandwidthCounters(columns, set, channel),
       writes |-> FlattenSeq([k \in DOMAIN columns |-> generateStreamSwitchPortConfig(columns[k], set, channel)
                                                         \o generatePerfCounterConfig(columns[k], set, channel)])]

-----------------------------------------------------------------------------
(* Core tiles: compute_io_bound *)

STREAM_STALL_BCAST_CHANNEL == 15
CASCADE_STALL_BCAST_CHANNEL == 14
LOCK_STALL_BCAST_CHANNEL == 13
MEMORY_STALL_BCAST_CHANNEL == 12
S2MM_BP_BCAST_CHANNEL(ch) == 11 - ch
STALL_BCAST_CHANNELS == 12 .. 15
S2MM_BP_BCAST_CHANNELS == {10, 11}
Dirs == <<"south", "west", "north", "east">>

\* Only the last group is blocked (mutant).
blockLastGroupOnly(c, r, mod, groups) ==
  FlattenSeq([i \in DOMAIN Dirs |->
    LET g == Last(groups)
    IN  IF g.open = Dirs[i] THEN <<Write(c, r, mod, <<"clear", Dirs[i]>>, g.channels)>>
        ELSE <<Write(c, r, mod, <<"block", Dirs[i]>>, g.channels)>>])

\* Each group of channels may leave by one direction at most
appendBroadcastBlockConfig(c, r, mod, groups) ==
  FlattenSeq([i \in DOMAIN Dirs |->
    LET Union(sel) == UNION {groups[g].channels : g \in {h \in DOMAIN groups : (groups[h].open = Dirs[i]) = sel}}
    IN  (IF Union(FALSE) = {} THEN <<>> ELSE <<Write(c, r, mod, <<"block", Dirs[i]>>, Union(FALSE))>>)
        \o (IF Union(TRUE) = {} THEN <<>> ELSE <<Write(c, r, mod, <<"clear", Dirs[i]>>, Union(TRUE))>>)])

Group(channels, open) == [channels |-> channels, open |-> open]
Broadcast(c, r, mod, ch, event) == Write(c, r, mod, <<"broadcast", ch>>, event)

generateComputeCoreConfig(c, r) ==
  <<Write(c, r, "aie", <<"pc_event", 2>>, "first"), Write(c, r, "aie", <<"pc_event", 3>>, "last"),
    Write(c, r, "aie", <<"group_stall">>, {"memory", "stream", "cascade", "lock"}),
    Broadcast(c, r, "aie", STREAM_STALL_BCAST_CHANNEL, <<"stream_stall">>),
    Broadcast(c, r, "aie", CASCADE_STALL_BCAST_CHANNEL, <<"cascade_stall">>),
    Broadcast(c, r, "aie", LOCK_STALL_BCAST_CHANNEL, <<"lock_stall">>),
    Broadcast(c, r, "aie", MEMORY_STALL_BCAST_CHANNEL, <<"memory_stall">>)>>
    \o appendBroadcastBlockConfig(c, r, "aie", <<Group(STALL_BCAST_CHANNELS, "east")>>)
    \o Reset(c, r, "aie", <<2, 3>>)
    \o <<Write(c, r, "aie", <<"ctrl", 1>>, <<<<"pc_range_2_3">>, <<"group_stall">>>>)>>

generateComputeMemoryConfig(c, r) ==
  LET Event(ch) == <<"broadcast", ch>>
  IN  appendBroadcastBlockConfig(c, r, "aie_memory", <<Group(STALL_BCAST_CHANNELS, "none")>>)
        \o Reset(c, r, "aie_memory", <<0, 1, 2, 3>>)
        \o <<Write(c, r, "aie_memory", <<"ctrl", 0>>, <<Event(MEMORY_STALL_BCAST_CHANNEL), Event(STREAM_STALL_BCAST_CHANNEL)>>),
             Write(c, r, "aie_memory", <<"ctrl", 2>>, <<Event(CASCADE_STALL_BCAST_CHANNEL), Event(LOCK_STALL_BCAST_CHANNEL)>>)>>

\* The tile above: the lock stall goes to the memory module, the backpressure of
\* the two channels comes back, and each module combines what it has
generateLockStarvationCoreConfig(c, r) ==
  <<Broadcast(c, r, "aie", LOCK_STALL_BCAST_CHANNEL, <<"lock_stall">>)>>
    \o appendBroadcastBlockConfig(c, r, "aie", <<Group(STALL_BCAST_CHANNELS, "east"), Group(S2MM_BP_BCAST_CHANNELS, "none")>>)
    \o <<Write(c, r, "aie", <<"combo_inputs">>,
               <<<<"lock_stall">>, <<"broadcast", S2MM_BP_BCAST_CHANNEL(0)>>,
                 <<"lock_stall">>, <<"broadcast", S2MM_BP_BCAST_CHANNEL(1)>>>>),
         Write(c, r, "aie", <<"combo_control">>, <<"and", "and">>)>>
    \o Reset(c, r, "aie", <<2, 3>>)
    \o <<Write(c, r, "aie", <<"ctrl", 1>>, <<<<"combo", 0>>, <<"combo", 1>>>>)>>

generateLockStarvationMemoryConfig(c, r) ==
  LET lock == <<"broadcast", LOCK_STALL_BCAST_CHANNEL>>
  IN  [ch \in 1 .. 2 |-> Broadcast(c, r, "aie_memory", S2MM_BP_BCAST_CHANNEL(ch - 1), <<"s2mm_backpressure", ch - 1>>)]
        \o appendBroadcastBlockConfig(c, r, "aie_memory", <<Group(STALL_BCAST_CHANNELS, "none"), Group(S2MM_BP_BCAST_CHANNELS, "west")>>)
        \o <<Write(c, r, "aie_memory", <<"combo_inputs">>, <<lock, <<"s2mm_starvation", 0>>, lock, <<"s2mm_starvation", 1>>>>),
             Write(c, r, "aie_memory", <<"combo_control">>, <<"and", "and">>)>>
        \o Reset(c, r, "aie_memory", <<0, 1>>)
        \o <<Write(c, r, "aie_memory", <<"ctrl", 0>>, <<<<"combo", 0>>, <<"combo", 1>>>>)>>

\* The two tiles at the bottom of the first column
appendComputeIoBoundConfig ==
  LET row == RowOffset
      up  == RowOffset + 1
      L(r, mod, ctr, ch, event) == Label(0, r, mod, ctr, ch, "", event)
  IN  [counters |-> <<L(row, "aie", 2, 0, "total"), L(row, "aie", 3, 0, "group_stall"),
                      L(row, "aie_memory", 0, 0, "memory_stall"), L(row, "aie_memory", 1, 0, "stream_stall"),
                      L(row, "aie_memory", 2, 0, "cascade_stall"), L(row, "aie_memory", 3, 0, "lock_stall"),
                      L(up, "aie_memory", 0, 0, "lock_starvation_ch0"), L(up, "aie_memory", 1, 1, "lock_starvation_ch1"),
                      L(up, "aie", 2, 0, "lock_backpressure_ch0"), L(up, "aie", 3, 1, "lock_backpressure_ch1")>>,
       writes |-> generateComputeCoreConfig(0, row) \o generateComputeMemoryConfig(0, row)
                    \o generateLockStarvationCoreConfig(0, up) \o generateLockStarvationMemoryConfig(0, up)]

-----------------------------------------------------------------------------
(* Memory tiles: L2-L2 transfers *)

L2L2_MAX_DST_PATHS_PER_COLUMN == 2
MEM_TILE_ROW_START == 1

\* The first path of a column has counters 0 and 1, the second 2 and 3
getL2L2CounterPoints(numCols, points) ==
  LET Earlier(i) == Cardinality({j \in 1 .. i - 1 : points[j].col = points[i].col})
      usable == {i \in DOMAIN points : points[i].col < numCols /\ Earlier(i) < L2L2_MAX_DST_PATHS_PER_COLUMN}
      Point(i, n, event) == [col |-> points[i].col, port |-> points[i].port, ctr |-> n, event |-> event]
  IN  FlattenSeq([i \in DOMAIN points |->
        IF i \notin usable THEN <<>>
        ELSE <<Point(i, 2 * Earlier(i), "running"), Point(i, 2 * Earlier(i) + 1, "stalled")>>])

\* points are those of column c
generateMemtilePerfCounterConfig(c, points) ==
  LET used == {points[i].ctr : i \in DOMAIN points}
      Event(n) == IF n \notin used THEN <<"none">>
                  ELSE LET p == points[CHOOSE i \in DOMAIN points : points[i].ctr = n] IN <<p.event, p.port>>
      Ctrl(k) == IF {2 * k, 2 * k + 1} \cap used = {} THEN <<>>
                 ELSE <<Write(c, MEM_TILE_ROW_START, "memory_tile", <<"ctrl", k>>, <<Event(2 * k), Event(2 * k + 1)>>)>>
  IN  Reset(c, MEM_TILE_ROW_START, "memory_tile", SelectSeq(<<0, 1, 2, 3>>, LAMBDA n : n \in used)) \o Ctrl(0) \o Ctrl(1)

\* All design points must fit the partition
appendL2L2Config(parts, include, ports) ==
  LET given  == parseL2L2DesignPoints(ports)
      points == getL2L2CounterPoints(getPartitionGeometry(parts), given)
      In(c)  == SelectSeq(points, LAMBDA p : p.col = c)
      columns == getShimTileColumns(parts)
  IN  IF ~include \/ columns = <<>> \/ given = <<>> \/ Len(points) # 2 * Len(given) THEN Nothing
      ELSE [counters |-> [i \in DOMAIN points |-> Label(points[i].col, MEM_TILE_ROW_START, "memory_tile", points[i].ctr,
                                                        points[i].port, "input", points[i].event)],
            writes |-> FlattenSeq([k \in DOMAIN columns |->
                         IF In(columns[k]) = <<>> THEN <<>> ELSE generateMemtilePerfCounterConfig(columns[k], In(columns[k]))])]

(* Memory tiles: the details of one MM2S channel *)

generateMemTileChannelSelectConfig(c, r, channel) == <<Write(c, r, "memory_tile", <<"channel_sel">>, channel)>>

\* The operands of the combined event in the wrong order (mutant).
comboOperandsSwapped(c, r) ==
  <<Write(c, r, "memory_tile", <<"combo_inputs">>,
          <<<<"memory_starvation">>, <<"stream_backpressure">>, <<"lock">>, <<"lock">>>>),
    Write(c, r, "memory_tile", <<"combo_control">>, <<"or", "and", "and_not">>)>>

\* combo 2 is what combo 0 and combo 1 give
generateMemTileComboConfig(c, r) ==
  <<Write(c, r, "memory_tile", <<"combo_inputs">>,
          <<<<"lock">>, <<"lock">>, <<"memory_starvation">>, <<"stream_backpressure">>>>),
    Write(c, r, "memory_tile", <<"combo_control">>, <<"and", "or", "and_not">>)>>

generateMemTilePerfCounterConfig(c, r) ==
  Reset(c, r, "memory_tile", <<0, 1, 2>>)
    \o <<Write(c, r, "memory_tile", <<"ctrl", 0>>, <<<<"memory_starvation">>, <<"stream_backpressure">>>>),
         Write(c, r, "memory_tile", <<"ctrl", 1>>, <<<<"combo", 2>>, <<"none">>>>)>>

generateMemTileCounters(columns, r, channel) ==
  LET L(c, ctr, event) == Label(c, r, "memory_tile", ctr, channel, "output", event)
  IN  FlattenSeq([k \in DOMAIN columns |-> <<L(columns[k], 0, "memtile_memory_starvation"),
                                             L(columns[k], 1, "memtile_stream_backpressure"), L(columns[k], 2, "memtile_lock_excl")>>])

\* The columns that were named, or all of the partition; the first row of memory tiles
appendMemTileConfig(parts, channel, named) ==
  LET columns == IF named = {} THEN getShimTileColumns(parts) ELSE SetToSortSeq(named, <)
      row == MEM_TILE_ROW_START
  IN  IF Gen = 1 THEN Nothing
      ELSE [counters |-> generateMemTileCounters(columns, row, channel),
            writes |-> FlattenSeq([k \in DOMAIN columns |-> generateMemTileChannelSelectConfig(columns[k], row, channel)
                                     \o generateMemTileComboConfig(columns[k], row)
                                     \o generateMemTilePerfCounterConfig(columns[k], row)])]

-----------------------------------------------------------------------------
(* Microcontrollers.  ops has a probe for each column of a file; a file that *)
(* is not one of the runtime's control files (-1) is skipped.  A UC is       *)
(* [file, lo, hi], with the columns its probes are in.                       *)

UcOrder(u, v) == u.lo < v.lo \/ (u.lo = v.lo /\ u.file < v.file)

buildAsmFileInfoList(ops) ==
  LET files == {ops[i].file : i \in DOMAIN ops} \ {-1}
      Cols(f) == {ops[i].col : i \in {j \in DOMAIN ops : ops[j].file = f}}
  IN  SetToSortSeq({[file |-> f, lo |-> Min(Cols(f)), hi |-> Max(Cols(f))] : f \in files}, UcOrder)

\* Each UC reads the columns up to the next one
applyUcSpansFromOpLoc(ucs) ==
  [i \in DOMAIN ucs |->
     [ucs[i] EXCEPT !.hi = IF i < Len(ucs) /\ ucs[i + 1].lo - 1 >= ucs[i].lo THEN ucs[i + 1].lo - 1 ELSE @]]

\* The last span ends where its probe is (mutant).
notExtended(ucs, counters) == ucs

\* and the last one those up to the last counter
extendLastUcToMaxConfiguredColumn(ucs, counters) ==
  LET last == Max({counters[i].col : i \in DOMAIN counters})
  IN  [ucs EXCEPT ![Len(ucs)].hi = IF last >= ucs[Len(ucs)].lo /\ last > @ THEN last ELSE @]

filterCountersByColumn(counters, lo, hi) == SelectSeq(counters, LAMBDA c : c.col \in lo .. hi)

\* The script: the writes, and for each UC that has counters their labels and
\* the reads that its probes make, in this order
writeCounterCTFile(ucs, writes) ==
  LET used == SelectSeq(ucs, LAMBDA u : u.counters # <<>>)
  IN  [writes |-> writes,
       probes |-> [i \in DOMAIN used |->
                     [uc |-> used[i].uc, labels |-> used[i].counters,
                      reads |-> [j \in DOMAIN used[i].counters |-> calculateCounterAddress(used[i].counters[j])]]]]

\* The script of a selection; without UCs or counters there is none
generateCT(in, sel) ==
  LET ports == resolveMemoryTileInputPorts(in.blob, in.ini.ports)
      parts == <<IF sel.bandwidth THEN appendBandwidthConfig(in.partitions, sel.set, sel.channel) ELSE Nothing,
                 IF sel.core = "compute_io_bound" THEN appendComputeIoBoundConfig ELSE Nothing,
                 appendL2L2Config(in.partitions, sel.l2l2, ports),
                 IF sel.mem = "" THEN Nothing ELSE appendMemTileConfig(in.partitions, sel.memChannel, sel.memColumns)>>
      counters == FlattenSeq([i \in 1 .. 4 |-> parts[i].counters])
      ucs      == applyUcSpansFromOpLoc(buildAsmFileInfoList(in.ops))
      extended == extendLastUcToMaxConfiguredColumn(ucs, counters)
  IN  IF ucs = <<>> \/ counters = <<>> THEN None
      ELSE [sel |-> sel, counters |-> counters] @@
           writeCounterCTFile([i \in DOMAIN extended |->
                                 [uc |-> extended[i], counters |-> filterCountersByColumn(counters, extended[i].lo, extended[i].hi)]],
                              FlattenSeq([i \in 1 .. 4 |-> parts[i].writes]))

-----------------------------------------------------------------------------
CtInit == ctIn \in DtraceInputs /\ ctSel = None /\ ctTodo = <<>> /\ ctScripts = {}

constructMetadata ==
  /\ ctSel = None
  /\ ctSel' = AieDtraceMetadata(ctIn.blob, ctIn.ini) /\ ctTodo' = ctSel'
  /\ UNCHANGED <<ctIn, ctScripts>>

\* generateCTFiles, for one selection.  An empty one has no script, and the file may
\* fail to open.
generateCTFile(opens) ==
  /\ ctTodo # <<>>
  /\ LET ct == generateCT(ctIn, Head(ctTodo))
     IN  ctScripts' = ctScripts \cup (IF ~opens \/ isEmpty(Head(ctTodo)) \/ ct = None THEN {} ELSE {ct})
  /\ ctTodo' = Tail(ctTodo)
  /\ UNCHANGED <<ctIn, ctSel>>

Generated == ctSel # None /\ ctTodo = <<>> /\ UNCHANGED ctVars

CtNext == constructMetadata \/ (\E opens \in BOOLEAN : generateCTFile(opens)) \/ Generated

-----------------------------------------------------------------------------
(* What the registers do: how the array counts, from the register layout the *)
(* comments of the writer give.  A port event of a memory tile is that of    *)
(* the port with its number.                                                 *)

Writes(ws, at) == {i \in DOMAIN ws : ws[i].at = at}
IsWritten(ws, at) == Writes(ws, at) # {}
Value(ws, at) == ws[Max(Writes(ws, at))].val

\* The control register of a counter
CounterCtrl(mod, n) == <<"ctrl", IF mod \in {"aie", "memory_tile"} THEN n \div 2 ELSE 2 * (n \div 2)>>

\* The DMA channel behind a stream switch port of an interface tile
ShimDma(port, master) ==
  IF master THEN <<"output", IF port = 3 THEN 0 ELSE IF port = 5 THEN 1 ELSE -1>>
  ELSE <<"input", IF port = 5 THEN 0 ELSE IF port = 9 THEN 1 ELSE -1>>

\* An event of one module, by itself
Native(ws, c, r, mod, e) ==
  LET At(reg) == <<c, r, mod, reg>>
      port    == e[1] \in {"running", "stalled"}
      slots   == Value(ws, At(<<"port_sel">>))
  IN  CASE mod = "interface_tile" /\ port -> <<e[1]>> \o ShimDma(slots[e[2] + 1][1], slots[e[2] + 1][2])
        [] mod = "memory_tile" -> IF port THEN <<e[1], "input", e[2]>> ELSE <<e[1], "output", Value(ws, At(<<"channel_sel">>))>>
        [] e[1] = "pc_range_2_3" -> IF Value(ws, At(<<"pc_event", 2>>)) = "first" /\ Value(ws, At(<<"pc_event", 3>>)) = "last"
                                    THEN <<"total">> ELSE <<"part">>
        [] e[1] = "group_stall" -> IF Value(ws, At(<<"group_stall">>)) = {"memory", "stream", "cascade", "lock"}
                                   THEN e ELSE <<"other_group">>
        [] OTHER -> e

\* Channels are open until they are blocked
Blocked(ws, c, r, mod, dir, ch) ==
  \E i \in Writes(ws, <<c, r, mod, <<"block", dir>>>>) :
    ch \in ws[i].val /\ \A j \in Writes(ws, <<c, r, mod, <<"clear", dir>>>>) : j > i => ch \notin ws[j].val

\* The link of the core and the memory module of a tile
OtherModule(mod) == IF mod = "aie" THEN "aie_memory" ELSE "aie"
Link(mod) == IF mod = "aie" THEN "east" ELSE "west"

\* An event that may come from the other module
Received(ws, c, r, mod, e) ==
  LET from == OtherModule(mod)
      src  == <<c, r, from, <<"broadcast", e[2]>>>>
  IN  IF e[1] # "broadcast" THEN Native(ws, c, r, mod, e)
      ELSE IF ~IsWritten(ws, src) \/ Blocked(ws, c, r, from, Link(from), e[2]) THEN <<"never">>
      ELSE Native(ws, c, r, from, Value(ws, src))

Combine(op, x, y) == IF op = "and" /\ x = y THEN x ELSE <<op, x, y>>

\* What counter n counts
Counts(ws, register) ==
  LET c     == register[1]
      r     == register[2]
      mod   == register[3]
      n     == register[4][2]
      event == Value(ws, <<c, r, mod, CounterCtrl(mod, n)>>)[(n % 2) + 1]
      ops   == Value(ws, <<c, r, mod, <<"combo_control">>>>)
      In(i) == Received(ws, c, r, mod, Value(ws, <<c, r, mod, <<"combo_inputs">>>>)[i])
      Combo(k) == Combine(ops[k + 1], In(2 * k + 1), In(2 * k + 2))
  IN  IF event[1] # "combo" THEN Received(ws, c, r, mod, event)
      ELSE IF event[2] < 2 THEN Combo(event[2]) ELSE Combine(ops[3], Combo(0), Combo(1))

\* What a label says that its counter counts
Says(k) ==
  LET Dma(event) == <<event, k.dir, k.ch>>
  IN  CASE k.event = "memtile_memory_starvation" -> Dma("memory_starvation")
        [] k.event = "memtile_stream_backpressure" -> Dma("stream_backpressure")
        [] k.event = "memtile_lock_excl" ->
             <<"and_not", Dma("lock"), <<"or", Dma("memory_starvation"), Dma("stream_backpressure")>>>>
        [] k.event \in {"lock_starvation_ch0", "lock_starvation_ch1"} ->
             <<"and", <<"lock_stall">>, <<"s2mm_starvation", k.ch>>>>
        [] k.event \in {"lock_backpressure_ch0", "lock_backpressure_ch1"} ->
             <<"and", <<"lock_stall">>, <<"s2mm_backpressure", k.ch>>>>
        [] k.mod \in {"aie", "aie_memory"} -> <<k.event>>
        [] OTHER -> Dma(k.event)

-----------------------------------------------------------------------------
Rng(seq) == {seq[i] : i \in DOMAIN seq}

\* Each counter that a probe reads begins at zero and counts what the label of
\* the read says
LabelsTrue(s) ==
  \A p \in Rng(s.probes) : \A j \in DOMAIN p.reads :
    IsWritten(s.writes, p.reads[j]) /\ Counts(s.writes, p.reads[j]) = Says(p.labels[j])

\* Counters from the first UC's column on are read, by one UC if no two begin in
\* the same column, and no counter has two labels
ReadOnce(s) ==
  LET register == [i \in DOMAIN s.counters |-> calculateCounterAddress(s.counters[i])]
      ucs == buildAsmFileInfoList(ctIn.ops)
      Readers(at) == {i \in DOMAIN s.probes : at \in Rng(s.probes[i].reads)}
      apart == \A i, j \in DOMAIN ucs : i # j => ucs[i].lo # ucs[j].lo
  IN  /\ \A at \in Rng(register) : at[1] >= ucs[1].lo => Readers(at) # {} /\ (apart => Cardinality(Readers(at)) = 1)
      /\ \A i, j \in DOMAIN register : i # j => register[i] # register[j]

\* A broadcast stays in its tile: it takes only the link to the other module, which
\* does not pass it on
Confined(s) ==
  \A w \in Rng(s.writes) : w.at[4][1] = "broadcast" =>
    LET c == w.at[1]
        r == w.at[2]
        mod == w.at[3]
        ch == w.at[4][2]
    IN  \A d \in Rng(Dirs) : /\ d # Link(mod) => Blocked(s.writes, c, r, mod, d, ch)
                             /\ Blocked(s.writes, c, r, OtherModule(mod), d, ch)

\* With the process's own partition reported: the interface tiles counted are those
\* of its columns, and nothing outside is written but in a column that was named
OwnColumns(s) ==
  \A p \in Rng(ctIn.partitions) : p.owner = "us" =>
    /\ {k.col : k \in {l \in Rng(s.counters) : l.mod = "interface_tile"}} = (IF s.sel.bandwidth THEN 0 .. p.cols - 1 ELSE {})
    /\ \A w \in Rng(s.writes) : w.at[1] < p.cols \/ w.at[1] \in s.sel.memColumns

\* Whatever the settings, the partition and the probes: in each control script
\* that generateCT writes every number read is what its label says (through port
\* slots, channel selection, broadcasts and combined events), no counter is missed
\* or read for two, no broadcast leaves its tile, and the columns are those of
\* the context's own partition.
ScriptsRight == \A s \in ctScripts : LabelsTrue(s) /\ ReadOnce(s) /\ Confined(s) /\ OwnColumns(s)
=============================================================================
