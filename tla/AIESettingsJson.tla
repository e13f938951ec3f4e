--------------------------- MODULE AIESettingsJson ---------------------------
(***************************************************************************)
(* The parser of the JSON settings and the steps of the ...UsingJson       *)
(* functions, for both plugins.  A module's metrics are graph settings or  *)
(* tile settings, and of the kinds all, range and single tile only one is  *)
(* meant to be given.                                                      *)
(***************************************************************************)
EXTENDS AIEConfig

\* validateTileRange drops a range that runs backwards
schemaValid(list) == SelectSeq(list, LAMBDA s : s.form = "range" => s.lo[1] <= s.hi[1] /\ s.lo[2] <= s.hi[2])

\* Of a module in both sections the first section counts
parsePluginJsonSetting(given, first) ==
  [m \in DOMAIN given |->
     LET tiles == schemaValid(given[m].tile)
     IN  IF given[m].graph # <<>> /\ (first = "graphs" \/ tiles = <<>>)
         THEN [graph |-> given[m].graph, tile |-> <<>>] ELSE [graph |-> <<>>, tile |-> tiles]]

\* The metrics before the first one that is not of the form
leading(list, form) ==
  SubSeq(list, 1, Cardinality({i \in DOMAIN list : \A j \in 1 .. i : list[j].form = form}))

-----------------------------------------------------------------------------
(* Graphs.  Interface tiles take one channel for both, other tiles need two. *)

jsonGraphSetting(conf, slot, mod, s) ==
  LET tiles == GraphTiles(mod, s)
      named == SetMetric(conf, slot, tiles, s.set)
  IN  IF Len(s.chans) >= IF mod = "shim" THEN 1 ELSE 2
      THEN SetChannels(named, {0, 1}, tiles, BothChannels(s)) ELSE named

\* Trace takes the kernels and tiles of AIE tiles for memory tiles too
graphModule(plugin, mod) == IF plugin = "trace" /\ mod # "shim" THEN "dma" ELSE mod

\* The valid settings for all graphs: step 1a applies the first, and 1b is left out
allGraphs(plugin, mod, list) == SelectSeq(list, LAMBDA s : s.graph = "all" /\ EntryOK(graphModule(plugin, mod), s))

traceJsonGraphAll(mod, list, conf) == jsonGraphSetting(conf, "aie", "dma", allGraphs("trace", mod, list)[1])

traceJsonGraphEach(mod, list, conf) ==
  FoldLeft(LAMBDA c, s : jsonGraphSetting(c, "aie", "dma", s), conf, SelectSeq(list, LAMBDA s : EntryOK("dma", s)))

profileJsonGraphAll(mod, list, conf) == jsonGraphSetting(conf, mod, mod, allGraphs("profile", mod, list)[1])

profileJsonGraphEach(mod, list, conf) ==
  FoldLeft(LAMBDA c, s : jsonGraphSetting(c, mod, mod, s), conf,
           SelectSeq(list, LAMBDA s : s.graph \in getValidGraphs \cup {"all"} /\ EntryOK(mod, s)))

traceJsonShimGraphAll(list, conf) == jsonGraphSetting(conf, "aie", "shim", allGraphs("trace", "shim", list)[1])

traceJsonShimGraphEach(list, conf) ==
  FoldLeft(LAMBDA c, s : jsonGraphSetting(c, "aie", "shim", s), conf,
           SelectSeq(list, LAMBDA s : s.graph \in getValidGraphs /\ EntryOK("shim", s)))

profileJsonShimGraphAll(list, conf) == jsonGraphSetting(conf, "shim", "shim", allGraphs("profile", "shim", list)[1])

profileJsonShimGraphEach(list, conf) ==
  FoldLeft(LAMBDA c, s : jsonGraphSetting(c, "shim", "shim", s), conf,
           SelectSeq(list, LAMBDA s : s.graph \in getValidGraphs /\ EntryOK("shim", s)))

-----------------------------------------------------------------------------
(* AIE and memory tiles, in the map slot of the plugin *)

\* getChannel0, getChannel1: a second channel that is missing is 1
jsonChannels(s) == IF Len(s.chans) = 1 THEN <<s.chans[1], 1>> ELSE s.chans

jsonTileSetting(conf, slot, tiles, s) ==
  LET named == SetMetric(conf, slot, tiles, s.set)
  IN  IF s.chans = <<>> THEN named ELSE SetChannels(named, {0, 1}, tiles, jsonChannels(s))

\* Mutant: a later setting for all tiles replaces the first
traceJsonTileAllLast(mod, list, conf) ==
  FoldLeft(LAMBDA c, s : SetMetric(c, "aie", allValidTiles(mod), s.set), conf, leading(list, "all"))

\* Step 1a: the first metric only, and only the channels it has
traceJsonTileAll(mod, list, conf) ==
  SetChannels(SetMetric(conf, "aie", allValidTiles(mod), list[1].set),
              0 .. Len(list[1].chans) - 1, allValidTiles(mod), list[1].chans)

profileJsonTileAll(mod, list, conf) ==
  SetChannels(SetMetric(conf, mod, allValidTiles(mod), list[1].set),
              0 .. Len(list[1].chans) - 1, allValidTiles(mod), list[1].chans)

\* Step 1b; isTileRangeSet, which leaves out step 1c, needs an active tile
traceJsonTileRange(mod, list, conf) ==
  FoldLeft(LAMBDA c, s : jsonTileSetting(c, "aie", Box(mod, s.lo, s.hi), s), conf, leading(list, "range"))

profileJsonTileRange(mod, list, conf) ==
  FoldLeft(LAMBDA c, s : jsonTileSetting(c, mod, Box(mod, s.lo, s.hi), s), conf, leading(list, "range"))

isTileRangeSet(mod, list) ==
  LET ranges == leading(list, "range")
  IN  \E i \in DOMAIN ranges : mod \in {"uc", "shim"} \/ Box(mod, ranges[i].lo, ranges[i].hi) # {}

\* Where step 1c finds the i-th metric: an all_tiles metric is at column and
\* row 0; col and row of a range are not initialized, junk[i]
singleAt(list, junk, i) == CASE list[i].form = "single" -> list[i].lo
                             [] list[i].form = "all"    -> <<0, 0>>
                             [] OTHER                   -> junk[i]
Indices(list) == [i \in DOMAIN list |-> i]

\* Step 1c: every metric, whatever its kind, is taken for a single tile
traceJsonTileSingle(mod, list, junk, conf) ==
  FoldLeft(LAMBDA c, i : jsonTileSetting(c, "aie", Box(mod, singleAt(list, junk, i), singleAt(list, junk, i)), list[i]),
           conf, Indices(list))

profileJsonTileSingle(mod, list, junk, conf) ==
  FoldLeft(LAMBDA c, i : jsonTileSetting(c, mod, Box(mod, singleAt(list, junk, i), singleAt(list, junk, i)), list[i]),
           conf, Indices(list))

(* Interface tiles: the last of the leading "all" metrics counts *)

traceJsonShimAll(list, conf) ==
  FoldLeft(LAMBDA c, s : SetShim(c, "aie", s, ShimTiles(s, FALSE, 0, 0)), conf, leading(list, "all"))

profileJsonShimAll(list, conf) ==
  FoldLeft(LAMBDA c, s : SetShim(c, "shim", s, ShimTiles(s, FALSE, 0, 0)), conf, leading(list, "all"))

traceJsonShimRange(list, conf) ==
  FoldLeft(LAMBDA c, s : SetShim(c, "aie", s, ShimTiles(s, TRUE, s.lo[1], s.hi[1])), conf, leading(list, "range"))

profileJsonShimRange(list, conf) ==
  FoldLeft(LAMBDA c, s : SetShim(c, "shim", s, ShimTiles(s, TRUE, s.lo[1], s.hi[1])), conf, leading(list, "range"))

traceJsonShimSingle(list, junk, conf) ==
  FoldLeft(LAMBDA c, i : LET col == singleAt(list, junk, i)[1] IN SetShim(c, "aie", list[i], ShimTiles(list[i], TRUE, col, col)),
           conf, Indices(list))

profileJsonShimSingle(list, junk, conf) ==
  FoldLeft(LAMBDA c, i : LET col == singleAt(list, junk, i)[1] IN SetShim(c, "shim", list[i], ShimTiles(list[i], TRUE, col, col)),
           conf, Indices(list))

(* Microcontrollers *)

jsonUcAll(list, conf) ==
  FoldLeft(LAMBDA c, s : SetMetric(c, "uc", getMicrocontrollers(FALSE, 0, 0), s.set), conf, leading(list, "all"))

jsonUcRange(list, conf) ==
  FoldLeft(LAMBDA c, s : SetMetric(c, "uc", getMicrocontrollers(TRUE, s.lo[1], s.hi[1]), s.set), conf, leading(list, "range"))

-----------------------------------------------------------------------------
(* The function for the plugin and the module *)

jsonGraphAll(plugin, mod, list, conf) ==
  IF plugin = "trace" THEN (IF mod = "shim" THEN traceJsonShimGraphAll(list, conf) ELSE traceJsonGraphAll(mod, list, conf))
  ELSE IF mod = "shim" THEN profileJsonShimGraphAll(list, conf) ELSE profileJsonGraphAll(mod, list, conf)

jsonGraphEach(plugin, mod, list, conf) ==
  IF plugin = "trace" THEN (IF mod = "shim" THEN traceJsonShimGraphEach(list, conf) ELSE traceJsonGraphEach(mod, list, conf))
  ELSE IF mod = "shim" THEN profileJsonShimGraphEach(list, conf) ELSE profileJsonGraphEach(mod, list, conf)

jsonTileAll(plugin, mod, list, conf) ==
  IF plugin = "trace" THEN (IF mod = "shim" THEN traceJsonShimAll(list, conf) ELSE traceJsonTileAll(mod, list, conf))
  ELSE CASE mod = "shim" -> profileJsonShimAll(list, conf)
         [] mod = "uc"   -> jsonUcAll(list, conf)
         [] OTHER        -> profileJsonTileAll(mod, list, conf)

jsonTileRange(plugin, mod, list, conf) ==
  IF plugin = "trace" THEN (IF mod = "shim" THEN traceJsonShimRange(list, conf) ELSE traceJsonTileRange(mod, list, conf))
  ELSE CASE mod = "shim" -> profileJsonShimRange(list, conf)
         [] mod = "uc"   -> jsonUcRange(list, conf)
         [] OTHER        -> profileJsonTileRange(mod, list, conf)

jsonTileSingle(plugin, mod, list, junk, conf) ==
  IF plugin = "trace" THEN (IF mod = "shim" THEN traceJsonShimSingle(list, junk, conf) ELSE traceJsonTileSingle(mod, list, junk, conf))
  ELSE IF mod = "shim" THEN profileJsonShimSingle(list, junk, conf) ELSE profileJsonTileSingle(mod, list, junk, conf)
=============================================================================
