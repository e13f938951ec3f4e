-------------------------- MODULE AIEDtraceMetadata --------------------------
(***************************************************************************)
(* AieDtraceMetadata: from xrt.ini and the runtime configuration (a JSON   *)
(* blob) to one metric selection for each inference to profile.            *)
(*                                                                         *)
(* A configuration has a value for each of                                 *)
(*   aie    a metric set of the core tiles                                 *)
(*   shim   interface tiles: in xrt.ini a list of tile settings as in      *)
(*          AIEConfig, in the blob [set, chans]                            *)
(*   mem    memory tiles, [at, set, chan]: at is a column, AllColumns or   *)
(*          Bare without either, chan a channel or -1; in xrt.ini a list   *)
(*   ports  design points [col, port] of the L2-L2 transfers               *)
(* None is a key that is not there.                                        *)
(***************************************************************************)
EXTENDS AIEConfig

CONSTANT None

AllColumns == -1
Bare == -2

bandwidthMetricSets ==
  {"ddr_bandwidth", "read_bandwidth", "write_bandwidth", "peak_read_bandwidth", "peak_write_bandwidth",
   "detailed_ddr_read_bandwidth", "detailed_ddr_write_bandwidth", "off"}
coreMetricSets == {"compute_io_bound", "off"}
memTileMetricSets == {"output_channels_details", "mm2s_channels_details", "off"}

INPUT_PORTS == [at |-> Bare, set |-> "input_ports", chan |-> -1]
NUM_MEM_TILE_DMA_CHANNELS == 6
MEM_TILE_METRIC_COL == 0
max_profiled_inferences == 4

\* The selection without a metric
NoSelection ==
  [bandwidth |-> FALSE, set |-> "peak_read_bandwidth", channel |-> 0, core |-> "", l2l2 |-> FALSE, mem |-> "",
   memChannel |-> 0, memColumns |-> {}]

isEmpty(sel) == ~sel.bandwidth /\ sel.core = "" /\ ~sel.l2l2 /\ sel.mem = ""

-----------------------------------------------------------------------------
(* The runtime configuration: [top, runs], runs the explicit profile_runs *)

\* The shorthand of a whole report
NoRun == [aie |-> None, shim |-> None, mem |-> None]
expand_super_metric_set(name) ==
  LET Detailed(set, c) == [NoRun EXCEPT !.shim = [set |-> set, chans |-> <<c>>]]
  IN  IF name # "compute_io_bound" THEN <<>>
      ELSE <<[Detailed("detailed_ddr_read_bandwidth", 0) EXCEPT !.aie = "compute_io_bound"],
             Detailed("detailed_ddr_read_bandwidth", 1), Detailed("detailed_ddr_write_bandwidth", 0),
             Detailed("detailed_ddr_write_bandwidth", 1)>>

\* profile_runs is a list or the name of one; only the first four entries count.
\* Without it the four top-level keys are the only run.
parse_control_instrumentation(ci) ==
  LET given == IF ci.named # None THEN expand_super_metric_set(ci.named) ELSE ci.listed
      runs  == SubSeq(given, 1, IF Len(given) > max_profiled_inferences THEN max_profiled_inferences ELSE Len(given))
  IN  [top |-> ci.top, explicit |-> runs # <<>>,
       runs |-> IF runs # <<>> THEN runs ELSE <<[k \in DOMAIN NoRun |-> ci.top[k]]>>]

has_control_instrumentation(blob) ==
  blob # None /\ (blob.explicit \/ blob.top.ports # <<>> \/ \E k \in DOMAIN NoRun : blob.top[k] # None)

\* Ports come from the blob if it has mem_tile or the ports at the top level, and
\* then only if that mem_tile is input_ports
resolveMemoryTileInputPorts(blob, iniPorts) ==
  IF has_control_instrumentation(blob) /\ (blob.top.mem # None \/ blob.top.ports # <<>>)
  THEN (IF blob.top.mem = INPUT_PORTS THEN blob.top.ports ELSE <<>>)
  ELSE iniPorts

parseL2L2DesignPoints(ports) == SelectSeq(ports, LAMBDA p : p.col <= 255 /\ p.port \in {1, 2})

-----------------------------------------------------------------------------
(* The passes over the settings.  m is [shim, core, mem, chan0, memAll]: the *)
(* maps of the modules, from tiles to sets, and the channels.                *)

NoMaps == [shim |-> <<>>, core |-> "", mem |-> <<>>, chan0 |-> <<>>, memAll |-> TRUE]

\* A channel that is not a number (-1) is not looked for; the first one is kept
Channel0(s) == IF s.chans # <<>> /\ s.chans[1] >= 0 THEN s.chans[1] ELSE 0
AskedChannel(s) == IF s.chans # <<>> /\ \A i \in DOMAIN s.chans : s.chans[i] >= 0 THEN s.chans[1] ELSE -1

SetTiles(m, s, tiles) ==
  [m EXCEPT !.shim = [t \in tiles |-> s.set] @@ @, !.chan0 = [t \in tiles |-> Channel0(s)] @@ @]

AskedTiles(s, useColumn, lo, hi) == getInterfaceTiles("all", "all", s.set, AskedChannel(s), useColumn, lo, hi)

\* all:<set>: the first setting for a place counts; <min>:<max>:<set> and then
\* <column>:<set>: the last one for a tile does.  A single column with two
\* channels is taken by no pass.
getConfigMetricsForInterfaceTiles(list, maps) ==
  LET Known(form) == SelectSeq(list, LAMBDA s : s.form = form /\ s.set \in bandwidthMetricSets)
      New(m, tiles) == {t \in tiles : \A u \in DOMAIN m.shim : ~SameLoc(t, u)}
      all    == FoldLeft(LAMBDA m, s : SetTiles(m, s, New(m, AskedTiles(s, FALSE, 0, 0))), maps, Known("all"))
      ranges == FoldLeft(LAMBDA m, s : SetTiles(m, s, AskedTiles(s, TRUE, s.lo[1], s.hi[1])), all, Known("range"))
      single == FoldLeft(LAMBDA m, s : SetTiles(m, s, AskedTiles(s, TRUE, s.lo[1], s.lo[1])), ranges,
                         SelectSeq(Known("single"), LAMBDA s : Len(s.chans) < 2))
  IN  [single EXCEPT !.shim = [t \in {u \in DOMAIN @ : @[u] # "off"} |-> @[t]]]

\* The first known set
getConfigMetricsForAIETiles(list, maps) ==
  LET known == SelectSeq(list, LAMBDA set : set \in coreMetricSets)
  IN  IF known = <<>> \/ known[1] = "off" THEN maps ELSE [maps EXCEPT !.core = known[1]]

InRange(chan) == IF chan \in 0 .. NUM_MEM_TILE_DMA_CHANNELS - 1 THEN chan ELSE 0

\* The first setting with a known set; all columns are noted as one
getConfigMetricsForMemTiles(list, maps) ==
  LET known == SelectSeq(list, LAMBDA s : s.set \in memTileMetricSets)
      s     == known[1]
      all   == s.at \in {AllColumns, Bare}
      tile  == [col |-> IF all THEN MEM_TILE_METRIC_COL ELSE s.at, row |-> 1, sub |-> "PLIO"]
  IN  IF known = <<>> \/ known[1].set = "off" THEN maps
      ELSE [maps EXCEPT !.memAll = all, !.mem = [t \in {tile} |-> s.set],
                        !.chan0 = [t \in {tile} |-> InRange(s.chan)] @@ @]

-----------------------------------------------------------------------------
\* The single configuration: the set of the first tile that has one stands for
\* all of them
FirstTile(tiles) == CHOOSE t \in tiles : \A u \in tiles \ {t} : t.col < u.col \/ (t.col = u.col /\ t.sub = "PLIO")
buildSelectionFromConfigMetrics(m, l2l2) ==
  LET Channel(t) == m.chan0[FirstTile({u \in DOMAIN m.chan0 : SameLoc(u, t)})]
      shimTile == FirstTile(DOMAIN m.shim)
      memTile  == FirstTile(DOMAIN m.mem)
      core == [NoSelection EXCEPT !.core = m.core, !.l2l2 = l2l2]
      shim == IF m.shim = <<>> THEN core
              ELSE [core EXCEPT !.bandwidth = TRUE, !.set = m.shim[shimTile], !.channel = Channel(shimTile)]
  IN  IF m.mem = <<>> THEN shim
      ELSE [shim EXCEPT !.mem = m.mem[memTile], !.memChannel = Channel(memTile),
                        !.memColumns = IF m.memAll THEN {} ELSE {t.col : t \in DOMAIN m.mem}]

\* One entry of profile_runs
buildSelectionFromProfileRun(run, l2l2) ==
  LET shim == IF run.shim = None \/ run.shim.set \notin bandwidthMetricSets \/ run.shim.set = "off" THEN NoSelection
              ELSE [NoSelection EXCEPT !.bandwidth = TRUE, !.set = run.shim.set, !.channel = Channel0(run.shim)]
      core == IF run.aie \in coreMetricSets \ {"off"} THEN [shim EXCEPT !.core = run.aie] ELSE shim
  IN  IF run.mem = None THEN core
      ELSE IF run.mem = INPUT_PORTS THEN [core EXCEPT !.l2l2 = l2l2]
      ELSE IF run.mem.set \notin memTileMetricSets \/ run.mem.set = "off" THEN core
      ELSE [core EXCEPT !.mem = run.mem.set, !.memChannel = InRange(run.mem.chan),
                        !.memColumns = IF run.mem.at \in {AllColumns, Bare} THEN {} ELSE {run.mem.at}]

\* What holds for the whole context: a key of the first run, or else of the top level
Effective(blob, k) == IF blob.explicit /\ blob.runs[1][k] # None THEN blob.runs[1][k] ELSE blob.top[k]

\* Only xrt.ini counts, and L2-L2 does not exclude the other sets (mutant).
bothFamilies(blob, ini) ==
  LET iniL2L2 == \E i \in DOMAIN ini.mem : ini.mem[i].set = "input_ports" IN [l2l2 |-> iniL2L2, list |-> ini.mem]

\* Whether L2-L2 transfers are asked for, and the settings of the other memory tile sets
MemTileRequest(blob, ini) ==
  LET using   == has_control_instrumentation(blob)
      wanted  == using /\ blob.explicit /\ \E i \in DOMAIN blob.runs : blob.runs[i].mem = INPUT_PORTS
      field   == IF using THEN Effective(blob, "mem") ELSE None
      iniL2L2 == \E i \in DOMAIN ini.mem : ini.mem[i].set = "input_ports"
  IN  IF using /\ (field # None \/ blob.top.ports # <<>> \/ wanted)
      THEN IF wanted \/ field = INPUT_PORTS THEN [l2l2 |-> TRUE, list |-> <<>>]
           ELSE [l2l2 |-> FALSE, list |-> IF field = None THEN <<>> ELSE <<[field EXCEPT !.at = AllColumns]>>]
      ELSE [l2l2 |-> iniL2L2, list |-> IF iniL2L2 THEN <<>> ELSE ini.mem]

\* The constructor.  Without any setting the interface tiles count peak reads.
\* The L2-L2 transfers are given up if there is no valid design point.
AieDtraceMetadata(blob, ini) ==
  LET using  == has_control_instrumentation(blob)
      Blob(k) == IF using THEN Effective(blob, k) ELSE None
      All(v)  == [form |-> "all", lo |-> <<0, 0>>, hi |-> <<0, 0>>, set |-> v.set, chans |-> v.chans]
      core   == getConfigMetricsForAIETiles(IF Blob("aie") # None THEN <<Blob("aie")>> ELSE ini.aie, NoMaps)
      shim   == getConfigMetricsForInterfaceTiles(
                  IF Blob("shim") # None THEN <<All(Blob("shim"))>>
                  ELSE IF ini.shim # <<>> THEN ini.shim
                  ELSE <<All([set |-> "peak_read_bandwidth", chans |-> <<>>])>>, core)
      mem    == MemTileRequest(blob, ini)
      maps   == getConfigMetricsForMemTiles(mem.list, shim)
      l2l2   == mem.l2l2 /\ parseL2L2DesignPoints(resolveMemoryTileInputPorts(blob, ini.ports)) # <<>>
  IN  IF using /\ blob.explicit
      THEN [i \in DOMAIN blob.runs |-> buildSelectionFromProfileRun(blob.runs[i], l2l2)]
      ELSE <<buildSelectionFromConfigMetrics(maps, l2l2)>>
=============================================================================
