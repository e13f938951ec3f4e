---------------------------- MODULE MCAIESettings ----------------------------
(***************************************************************************)
(* A design of two graphs for TLC: g1 with a core and a DMA-only tile in   *)
(* column 1 and a PLIO port, g2 with a core in column 2 and a GMIO port;   *)
(* each has a kernel, and a buffer in the memory tile of its column.       *)
(* The settings of trace and profile are one part of the run and those of  *)
(* dtrace, with the control scripts made from them, the other.             *)
(***************************************************************************)
EXTENDS AIESettings, AIEDtraceCT

MCGraphs == {[name |-> "g1", core |-> {<<1, 0>>}, dma |-> {<<1, 1>>}],
             [name |-> "g2", core |-> {<<2, 0>>}, dma |-> {}]}
MCKernels == {[graph |-> "g1", names |-> {"k1"}, at |-> <<1, 0>>], [graph |-> "g2", names |-> {"k2"}, at |-> <<2, 0>>]}
MCBuffers == {[graph |-> "g1", name |-> "b1", at |-> <<1, 0>>], [graph |-> "g2", name |-> "b2", at |-> <<2, 0>>]}
MCIos == <<[graph |-> "g1", port |-> "p1", type |-> "PLIO", master |-> TRUE, col |-> 1, stream |-> 0, channel |-> 0],
           [graph |-> "g2", port |-> "p2", type |-> "GMIO", master |-> FALSE, col |-> 2, stream |-> 0, channel |-> 1]>>
MCWithin == {}
MCJunkAt == {<<0, 0>>, <<1, 1>>}

MCSupported == [trace   |-> [core |-> {"functions", "execution"}, dma |-> {"functions", "execution"},
                             mem_tile |-> {"input_channels"}, shim |-> {"input_ports", "ports_details"}, uc |-> {}],
                profile |-> [core |-> {"heat_map", "s2mm", "mm2s"}, dma |-> {"conflicts", "s2mm", "mm2s"},
                             mem_tile |-> {"s2mm", "memory_stats"}, shim |-> {"s2mm", "packets", "uc_core"},
                             uc |-> {"execution", "mmu"}]]
MCDefault == [trace   |-> [core |-> "functions", dma |-> "functions", mem_tile |-> "input_channels",
                           shim |-> "input_ports", uc |-> "functions"],
              profile |-> [core |-> "s2mm", dma |-> "s2mm", mem_tile |-> "s2mm", shim |-> "s2mm", uc |-> "execution"]]

\* metric sets that the user may write, "?" a set that nothing supports
SetsOf(p, m) ==
  CASE p = "trace" -> (CASE m = "shim"     -> {"input_ports", "ports_details", "off"}
                         [] m = "mem_tile" -> {"input_channels", "?", "off"}
                         [] OTHER          -> {"execution", "?", "off"})
    [] OTHER       -> (CASE m = "shim"     -> {"s2mm", "packets", "uc_core"}
                         [] m = "mem_tile" -> {"memory_stats", "?", "off"}
                         [] m = "uc"       -> {"mmu", "off"}
                         [] m = "core"     -> {"heat_map", "mm2s", "off"}
                         [] OTHER          -> {"conflicts", "mm2s", "?", "off"})

EntriesOf(m) == CASE m = "shim" -> {"all", "p1"} [] m = "mem_tile" -> {"all", "b1", "nil"} [] OTHER -> {"all", "k2"}
ChansOf(m) == IF m \in {"shim", "mem_tile"} THEN {<<>>, <<1>>, <<1, 0>>} ELSE {<<>>}

SomeSet(p, m) == CHOOSE set \in SetsOf(p, m) : set # "off"

\* every graph setting, entries by name and two channels with one set only
MCGraphSettings(p, src, m) ==
  IF m = "uc" THEN {}
  ELSE [graph : {"all", "g1"}, entry : {"all"}, set : SetsOf(p, m), chans : {<<>>}]
         \cup [graph : {"all", "g1"}, entry : EntriesOf(m), set : {SomeSet(p, m)}, chans : {<<>>}]
         \cup [graph : {"g1"}, entry : {"all"}, set : {SomeSet(p, m)}, chans : ChansOf(m)]

\* all three forms; channels, a range that runs backwards and one without tiles
\* in use with one set only
MCTileSettings(p, m) ==
  LET some == SomeSet(p, m)
      Setting(form, lo, hi, set, chans) == [form |-> form, lo |-> lo, hi |-> hi, set |-> set, chans |-> chans]
  IN  UNION {{Setting("all", <<0, 0>>, <<0, 0>>, set, <<>>), Setting("range", <<1, 0>>, <<2, 0>>, set, <<>>),
              Setting("single", <<2, 0>>, <<2, 0>>, set, <<>>)} : set \in SetsOf(p, m)}
        \cup {Setting("all", <<0, 0>>, <<0, 0>>, some, chans) : chans \in ChansOf(m)}
        \cup {Setting("range", <<1, 0>>, <<0, 0>>, some, chans) : chans \in ChansOf(m)}
        \cup {Setting("range", <<1, 0>>, <<2, 0>>, some, chans) : chans \in ChansOf(m)}
        \cup {Setting("range", <<3, 0>>, <<3, 0>>, some, <<>>)}
        \cup {Setting("single", <<2, 0>>, <<2, 0>>, some, chans) : chans \in ChansOf(m)}

-----------------------------------------------------------------------------
(* dtrace: configurations, each with every partition and every place of probes *)

Shim(set, chans) == [set |-> set, chans |-> chans]
MemAt(at, set, chan) == [at |-> at, set |-> set, chan |-> chan]
Point(col, port) == [col |-> col, port |-> port]

EmptyIni == [aie |-> <<>>, shim |-> <<>>, mem |-> <<>>, ports |-> <<>>]
EmptyTop == NoRun @@ [ports |-> <<>>]

TileSetting(form, lo, hi, v) == [form |-> form, lo |-> <<lo, 0>>, hi |-> <<hi, 0>>, set |-> v.set, chans |-> v.chans]

\* xrt.ini: each bandwidth set alone, a channel of each kind, sets that compete
\* for a column, the other tiles' sets, design points that are too many or too far
MCShimInis ==
  {<<TileSetting("all", 0, 0, Shim(set, <<>>))>> : set \in bandwidthMetricSets \cup {"?"}}
    \cup {<<TileSetting("all", 0, 0, Shim("detailed_ddr_write_bandwidth", chans))>> : chans \in {<<1>>, <<0, 1>>, <<-1>>, <<4>>}}
    \cup {<<TileSetting("range", 1, 2, Shim("read_bandwidth", <<>>)), TileSetting("single", 1, 1, Shim(set, chans)),
            TileSetting("all", 0, 0, Shim("ddr_bandwidth", <<>>))>> :
           set \in {"off", "peak_write_bandwidth", "detailed_ddr_read_bandwidth"}, chans \in {<<>>, <<1>>, <<0, 1>>}}
MCMemInis == {<<MemAt(Bare, "input_ports", -1)>>, <<MemAt(AllColumns, "mm2s_channels_details", 0), MemAt(1, "input_ports", -1)>>,
              <<MemAt(1, "output_channels_details", 5), MemAt(AllColumns, "off", -1)>>,
              <<MemAt(3, "mm2s_channels_details", 7)>>, <<MemAt(Bare, "off", -1)>>, <<MemAt(AllColumns, "mm2s_channels_details", 2)>>}
MCPorts == {<<>>, <<Point(0, 1), Point(1, 2), Point(0, 2)>>, <<Point(0, 2), Point(0, 2), Point(0, 1)>>, <<Point(2, 1), Point(0, 3)>>,
            <<Point(300, 1)>>}
MCInis == {[EmptyIni EXCEPT !.shim = shim] : shim \in MCShimInis}
            \cup {[EmptyIni EXCEPT !.aie = aie, !.mem = mem, !.ports = ports] :
                   aie \in {<<>>, <<"?", "compute_io_bound">>, <<"off">>}, mem \in MCMemInis, ports \in MCPorts}

\* The runtime configuration: a top level, the name of a report, a list of runs
Ci(top, named, listed) == [top |-> top, named |-> named, listed |-> listed]
MCRun(aie, shim, mem) == [aie |-> aie, shim |-> shim, mem |-> mem]
MCTops == {[EmptyTop EXCEPT !.aie = aie, !.shim = shim, !.mem = mem, !.ports = ports] :
             aie \in {None, "compute_io_bound"}, shim \in {None, Shim("detailed_ddr_read_bandwidth", <<1>>)},
             mem \in {None, INPUT_PORTS, MemAt(1, "output_channels_details", 3)}, ports \in {<<>>, <<Point(1, 2)>>}}
MCLists == {<<MCRun("compute_io_bound", None, INPUT_PORTS), MCRun(None, Shim("write_bandwidth", <<>>), None), NoRun,
              MCRun("?", Shim("off", <<>>), MemAt(2, "mm2s_channels_details", 1)), MCRun("compute_io_bound", None, None)>>,
            <<MCRun("off", Shim("?", <<>>), MemAt(AllColumns, "off", -1)), MCRun(None, Shim("detailed_ddr_write_bandwidth", <<0>>), INPUT_PORTS)>>}
MCCis == {Ci(top, None, <<>>) : top \in MCTops}
           \cup {Ci([EmptyTop EXCEPT !.mem = mem, !.ports = <<Point(0, 1)>>], named, list) :
                  mem \in {None, INPUT_PORTS}, named \in {None, "compute_io_bound", "?"}, list \in MCLists}

MCPartitions == {<<>>, <<[owner |-> "us", cols |-> 3]>>, <<[owner |-> "us", cols |-> 2], [owner |-> "other", cols |-> 3]>>,
                 <<[owner |-> "other", cols |-> 1]>>}

\* Probes: none, in a file that is not a control file, of one UC, of two, of two
\* that begin in the same column, and of one that leaves columns out on the left
Op(file, col) == [file |-> file, col |-> col]
MCOps == {<<>>, <<Op(-1, 0)>>, <<Op(0, 0)>>, <<Op(1, 2), Op(0, 0), Op(0, 0)>>, <<Op(1, 0), Op(1, 1), Op(0, 0)>>, <<Op(-1, 0), Op(0, 1)>>}

MCDtraceInputs ==
  [blob : {None}, ini : MCInis, partitions : MCPartitions, ops : MCOps]
    \cup [blob : {parse_control_instrumentation(ci) : ci \in MCCis},
          ini : {[EmptyIni EXCEPT !.mem = <<MemAt(Bare, "input_ports", -1)>>, !.ports = <<Point(1, 1)>>]},
          partitions : MCPartitions, ops : MCOps]

-----------------------------------------------------------------------------
VARIABLE part  \* the part of the run: "settings" or "dtrace"

AnyInput == CHOOSE in \in MCDtraceInputs : TRUE
CtIdle == ctIn = AnyInput /\ ctSel = <<>> /\ ctTodo = <<>> /\ ctScripts = {}
SettingsIdle == plugin = "trace" /\ ini = NoSettings /\ json = NoSettings /\ source = "none" /\ settings = NoSettings
                  /\ todo = <<>> /\ conf = NoConfig /\ crashed = FALSE

MCInit == (part = "settings" /\ Init /\ CtIdle) \/ (part = "dtrace" /\ CtInit /\ SettingsIdle)
MCNext == \/ part = "settings" /\ Next /\ UNCHANGED <<part, ctVars>>
          \/ part = "dtrace" /\ CtNext /\ UNCHANGED <<part, vars>>
MCSpec == MCInit /\ [][MCNext]_<<part, vars, ctVars>>
=============================================================================
