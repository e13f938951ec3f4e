--------------------------- MODULE AIESettingsIni ---------------------------
(***************************************************************************)
(* The passes of getConfigMetricsForTiles, ...ForInterfaceTiles and        *)
(* ...ForMicrocontrollers over the settings of xrt.ini, for both plugins.  *)
(* A setting is a list of tokens between colons; which pass takes it is    *)
(* decided by its first tokens and by their number.                        *)
(***************************************************************************)
EXTENDS AIEConfig

\* A range setting read as <location>:<set> has a location for its set
NotASet == "<location>"

\* The settings of list that Take accepts, applied in their order
InOrder(step(_, _), Take(_), list, conf) == FoldLeft(step, conf, SelectSeq(list, Take))

graphSetting(conf, slot, mod, s) ==
  LET tiles == GraphTiles(mod, s)
      named == SetMetric(conf, slot, tiles, s.set)
  IN  IF s.chans = <<>> THEN named ELSE SetChannels(named, {0, 1}, tiles, BothChannels(s))

tileSetting(conf, slot, tiles, set, chans) ==
  LET named == SetMetric(conf, slot, tiles, set)
  IN  IF chans = <<>> THEN named ELSE SetChannels(named, {0, 1}, tiles, <<chans[1], Last(chans)>>)

-----------------------------------------------------------------------------
(* Trace: AIE tiles (module dma) and memory tiles *)

traceGraphPass1(mod, list, conf) ==
  InOrder(LAMBDA c, s : graphSetting(c, "aie", mod, s), LAMBDA s : s.graph = "all" /\ EntryOK(mod, s), list, conf)

\* Mutant: pass 2 takes the settings for all graphs again
traceGraphPass2Again(mod, list, conf) ==
  InOrder(LAMBDA c, s : graphSetting(c, "aie", mod, s), LAMBDA s : EntryOK(mod, s), list, conf)

traceGraphPass2(mod, list, conf) ==
  InOrder(LAMBDA c, s : graphSetting(c, "aie", mod, s), LAMBDA s : s.graph # "all" /\ EntryOK(mod, s), list, conf)

tracePass1(mod, list, conf) ==
  InOrder(LAMBDA c, s : tileSetting(c, "aie", allValidTiles(mod), s.set, s.chans), LAMBDA s : s.form = "all", list, conf)

tracePass2(mod, list, conf) ==
  InOrder(LAMBDA c, s : tileSetting(c, "aie", Box(mod, s.lo, s.hi), s.set, s.chans), LAMBDA s : s.form = "range", list, conf)

tracePass3(mod, list, conf) ==
  InOrder(LAMBDA c, s : tileSetting(c, "aie", Box(mod, s.lo, s.lo), s.set, s.chans), LAMBDA s : s.form = "single", list, conf)

(* Trace: interface tiles.  Pass 1 over the graphs does not note what it has *)
(* processed, so that pass 2 takes every setting.                            *)

traceShimGraphPass1(list, conf) ==
  InOrder(LAMBDA c, s : graphSetting(c, "aie", "shim", s), LAMBDA s : s.graph = "all" /\ EntryOK("shim", s), list, conf)

traceShimGraphPass2(list, conf) ==
  InOrder(LAMBDA c, s : graphSetting(c, "aie", "shim", s), LAMBDA s : EntryOK("shim", s), list, conf)

traceShimPass1(list, conf) ==
  InOrder(LAMBDA c, s : SetShim(c, "aie", s, ShimTiles(s, FALSE, 0, 0)), LAMBDA s : s.form = "all", list, conf)

traceShimPass2(list, conf) ==
  InOrder(LAMBDA c, s : SetShim(c, "aie", s, ShimTiles(s, TRUE, s.lo[1], s.hi[1])), LAMBDA s : s.form = "range", list, conf)

traceShimPass3(list, conf) ==
  InOrder(LAMBDA c, s : SetShim(c, "aie", s, ShimTiles(s, TRUE, s.lo[1], s.lo[1])), LAMBDA s : s.form = "single", list, conf)

-----------------------------------------------------------------------------
(* Profile: core, memory module (dma) and memory tiles *)

profileGraphPass1(mod, list, conf) ==
  InOrder(LAMBDA c, s : graphSetting(c, mod, mod, s), LAMBDA s : s.graph = "all" /\ EntryOK(mod, s), list, conf)

profileGraphPass2(mod, list, conf) ==
  InOrder(LAMBDA c, s : graphSetting(c, mod, mod, s), LAMBDA s : s.graph # "all" /\ EntryOK(mod, s), list, conf)

profilePass1(mod, list, conf) ==
  InOrder(LAMBDA c, s : tileSetting(c, mod, allValidTiles(mod), s.set, s.chans), LAMBDA s : s.form = "all", list, conf)

\* A range of three or four tokens, whose channel is not looked at
profilePass2(mod, list, conf) ==
  InOrder(LAMBDA c, s : tileSetting(c, mod, Box(mod, s.lo, s.hi), s.set, <<>>),
          LAMBDA s : s.form = "range" /\ Len(s.chans) < 2, list, conf)

\* A single tile with two channels has four tokens: pass 2 has taken it for a
\* range, in vain.  A range of five tokens is read as the single tile lo.
profilePass3(mod, list, conf) ==
  LET range(s) == s.form = "range"
  IN  InOrder(LAMBDA c, s : tileSetting(c, mod, Box(mod, s.lo, s.lo), IF range(s) THEN NotASet ELSE s.set,
                                        IF range(s) THEN <<>> ELSE s.chans),
              LAMBDA s : (s.form = "single" /\ Len(s.chans) < 2) \/ (range(s) /\ Len(s.chans) = 2), list, conf)

(* Profile: interface tiles *)

profileShimGraphPass1(list, conf) ==
  InOrder(LAMBDA c, s : graphSetting(c, "shim", "shim", s), LAMBDA s : s.graph = "all" /\ EntryOK("shim", s), list, conf)

profileShimGraphPass2(list, conf) ==
  InOrder(LAMBDA c, s : graphSetting(c, "shim", "shim", s),
          LAMBDA s : s.graph \in getValidGraphs /\ EntryOK("shim", s), list, conf)

\* "all" leaves a tile alone whose location has a set (and, to print that set,
\* gives the other kind of tile there an empty one)
profileShimPass1(list, conf) ==
  LET taken(c, s) == {t \in ShimTiles(s, FALSE, 0, 0) : \E k \in DOMAIN c.cfg : k[1] = "shim" /\ SameLoc(k[2], t)}
      printed(c, s) == {t \in taken(c, s) : <<"shim", t>> \notin DOMAIN c.cfg}
  IN  InOrder(LAMBDA c, s : SetMetric(SetShim(c, "shim", s, ShimTiles(s, FALSE, 0, 0) \ taken(c, s)),
                                      "shim", printed(c, s), "off"),
              LAMBDA s : s.form = "all", list, conf)

profileShimPass2(list, conf) ==
  InOrder(LAMBDA c, s : SetShim(c, "shim", s, ShimTiles(s, TRUE, s.lo[1], s.hi[1])), LAMBDA s : s.form = "range", list, conf)

\* Four tokens are no single tile: one with two channels is lost
profileShimPass3(list, conf) ==
  InOrder(LAMBDA c, s : SetShim(c, "shim", s, ShimTiles(s, TRUE, s.lo[1], s.lo[1])),
          LAMBDA s : s.form = "single" /\ Len(s.chans) < 2, list, conf)

(* Profile: microcontrollers.  Pass 3 takes a range again, for its last column. *)

profileUcPass1(list, conf) ==
  InOrder(LAMBDA c, s : SetMetric(c, "uc", getMicrocontrollers(FALSE, 0, 0), s.set), LAMBDA s : s.form = "all", list, conf)

profileUcPass2(list, conf) ==
  InOrder(LAMBDA c, s : SetMetric(c, "uc", getMicrocontrollers(TRUE, s.lo[1], s.hi[1]), s.set),
          LAMBDA s : s.form = "range", list, conf)

profileUcPass3(list, conf) ==
  LET col(s) == IF s.form = "range" THEN s.hi[1] ELSE s.lo[1]
  IN  InOrder(LAMBDA c, s : SetMetric(c, "uc", getMicrocontrollers(TRUE, col(s), col(s)),
                                      IF s.form = "range" THEN NotASet ELSE s.set),
              LAMBDA s : s.form # "all", list, conf)

-----------------------------------------------------------------------------
(* The function for the plugin and the module *)

graphPass1(plugin, mod, list, conf) ==
  IF plugin = "trace" THEN (IF mod = "shim" THEN traceShimGraphPass1(list, conf) ELSE traceGraphPass1(mod, list, conf))
  ELSE IF mod = "shim" THEN profileShimGraphPass1(list, conf) ELSE profileGraphPass1(mod, list, conf)

graphPass2(plugin, mod, list, conf) ==
  IF plugin = "trace" THEN (IF mod = "shim" THEN traceShimGraphPass2(list, conf) ELSE traceGraphPass2(mod, list, conf))
  ELSE IF mod = "shim" THEN profileShimGraphPass2(list, conf) ELSE profileGraphPass2(mod, list, conf)

tilePass1(plugin, mod, list, conf) ==
  IF plugin = "trace" THEN (IF mod = "shim" THEN traceShimPass1(list, conf) ELSE tracePass1(mod, list, conf))
  ELSE CASE mod = "shim" -> profileShimPass1(list, conf)
         [] mod = "uc"   -> profileUcPass1(list, conf)
         [] OTHER        -> profilePass1(mod, list, conf)

tilePass2(plugin, mod, list, conf) ==
  IF plugin = "trace" THEN (IF mod = "shim" THEN traceShimPass2(list, conf) ELSE tracePass2(mod, list, conf))
  ELSE CASE mod = "shim" -> profileShimPass2(list, conf)
         [] mod = "uc"   -> profileUcPass2(list, conf)
         [] OTHER        -> profilePass2(mod, list, conf)

tilePass3(plugin, mod, list, conf) ==
  IF plugin = "trace" THEN (IF mod = "shim" THEN traceShimPass3(list, conf) ELSE tracePass3(mod, list, conf))
  ELSE CASE mod = "shim" -> profileShimPass3(list, conf)
         [] mod = "uc"   -> profileUcPass3(list, conf)
         [] OTHER        -> profilePass3(mod, list, conf)
=============================================================================
