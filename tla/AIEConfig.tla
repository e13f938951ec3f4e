------------------------------ MODULE AIEConfig ------------------------------
(***************************************************************************)
(* The maps that AieTraceMetadata and AieProfileMetadata fill from the     *)
(* user's metric settings, and the operations on them that the passes over *)
(* the settings share.                                                     *)
(*                                                                         *)
(* A graph setting is [graph, entry, set, chans], the entry a kernel, a    *)
(* buffer or a port.  A tile setting is [form, lo, hi, set, chans] with    *)
(* form "all", "range" or "single" (at lo); lo and hi are <<column, row>>  *)
(* as the user counts them.  chans has the channels given, at most two.    *)
(***************************************************************************)
EXTENDS AIEMetadata

CONSTANTS
  Supported,  \* [plugin -> [module -> the metric sets it supports]]
  Default,    \* [plugin -> [module -> the set used for an unsupported one]]
  GmioSets    \* trace sets only for GMIO interface tiles

\* configMetrics is one map for trace and one for each module for profile
Slot(plugin, mod) == IF plugin = "trace" THEN "aie" ELSE mod

NoConfig == [cfg |-> <<>>, chan |-> <<>>, pair |-> <<>>]

SetMetric(conf, slot, tiles, set) == [conf EXCEPT !.cfg = [k \in {slot} \X tiles |-> set] @@ @]

SetChannels(conf, which, tiles, c) == [conf EXCEPT !.chan = [k \in which \X tiles |-> c[k[1] + 1]] @@ @]

\* one channel stands for both
BothChannels(s) == IF s.chans = <<>> THEN <<0, 1>> ELSE <<s.chans[1], Last(s.chans)>>

ValidEntries(mod) == CASE mod = "shim"     -> getValidPorts
                       [] mod = "mem_tile" -> getValidBuffers
                       [] OTHER            -> getValidKernels

EntryOK(mod, s) == s.entry = "all" \/ s.entry \in ValidEntries(mod)

\* Tiles used by the design, and those of them in a box of the user's coordinates
allValidTiles(mod) == getTiles("all", mod, "all")
Box(mod, lo, hi) ==
  LET offset == IF mod = "mem_tile" THEN 1 ELSE RowOffset
  IN  {t \in allValidTiles(mod) : t.col \in lo[1] .. hi[1] /\ t.row \in lo[2] + offset .. hi[2] + offset}

GraphTiles(mod, s) == IF mod = "shim" THEN getInterfaceTiles(s.graph, s.entry, s.set, -1, FALSE, 0, 0)
                      ELSE getTiles(s.graph, mod, s.entry)

\* Interface tiles of the columns lo to hi (or all), filtered by the first channel if given
ShimTiles(s, useColumn, lo, hi) ==
  getInterfaceTiles("all", "all", s.set, IF s.chans = <<>> THEN -1 ELSE s.chans[1], useColumn, lo, hi)

SetShim(conf, slot, s, tiles) == SetChannels(SetMetric(conf, slot, tiles, s.set), {0, 1}, tiles, BothChannels(s))

\* Validation of a module's map: the keys it looks at, what becomes of their sets
ValidSet(plugin, mod, set) == IF set \in Supported[plugin][mod] THEN set ELSE Default[plugin][mod]

validateTraceTiles(mod, conf) ==
  LET mine == {k \in DOMAIN conf.cfg : k[2] \in allValidTiles(mod)}
      off  == {k \in mine : conf.cfg[k] = "off"}
  IN  [conf EXCEPT !.cfg = [k \in DOMAIN @ \ off |-> IF k \in mine THEN ValidSet("trace", mod, @[k]) ELSE @[k]]]

validateTraceShim(conf) ==
  LET mine == {k \in DOMAIN conf.cfg : k[2].row = 0}
      off  == {k \in mine : conf.cfg[k] = "off" \/ (k[2].sub = "PLIO" /\ conf.cfg[k] \in GmioSets)}
  IN  [conf EXCEPT !.cfg = [k \in DOMAIN @ \ off |-> IF k \in mine THEN ValidSet("trace", "shim", @[k]) ELSE @[k]]]

\* The module that counts the other half of an AIE tile, and the sets it shares with mod
PairModule(mod) == CASE mod = "core" -> "dma" [] mod = "dma" -> "core" [] OTHER -> "none"
PairedSets(mod) == IF PairModule(mod) = "none" THEN {} ELSE Supported["profile"][PairModule(mod)]

validateProfileTiles(mod, conf) ==
  LET mine   == {k \in DOMAIN conf.cfg : k[1] = mod}
      off    == {k \in mine : conf.cfg[k] = "off"}
      set(k) == ValidSet("profile", mod, conf.cfg[k])
      paired == {k \in mine \ off : set(k) \in PairedSets(mod)}
      tiles  == {k[2] : k \in paired}
      \* a set that has no pair gives way to one the tile was paired with before
      kept(k) == IF k \notin paired /\ k[2] \in DOMAIN conf.pair THEN conf.pair[k[2]] ELSE set(k)
  IN  [conf EXCEPT !.cfg = [k \in {PairModule(mod)} \X tiles |-> set(<<mod, k[2]>>)]
                             @@ [k \in mine \ off |-> kept(k)]
                             @@ [k \in DOMAIN @ \ mine |-> @[k]],
                   !.pair = [t \in tiles |-> set(<<mod, t>>)] @@ @]

\* Interface tiles and microcontrollers of the profile plugin
validateProfileRow0(mod, conf) ==
  LET mine == {k \in DOMAIN conf.cfg : k[1] = mod}
      off  == {k \in mine : conf.cfg[k] = "off"}
  IN  [conf EXCEPT !.cfg = [k \in DOMAIN @ \ off |-> IF k \in mine THEN ValidSet("profile", mod, @[k]) ELSE @[k]]]

validate(plugin, mod, conf) ==
  IF plugin = "trace" THEN (IF mod = "shim" THEN validateTraceShim(conf) ELSE validateTraceTiles(mod, conf))
  ELSE IF mod \in {"shim", "uc"} THEN validateProfileRow0(mod, conf) ELSE validateProfileTiles(mod, conf)
=============================================================================
