----------------------------- MODULE AIESettings -----------------------------
(***************************************************************************)
(* How AieTraceMetadata and AieProfileMetadata turn the user's metric      *)
(* settings into one metric set for each tile: the choice between xrt.ini  *)
(* and the JSON file, then, module after module, the passes over the       *)
(* settings and the validation.                                            *)
(***************************************************************************)
EXTENDS AIESettingsIni, AIESettingsJson

CONSTANTS
  GraphSettings(_, _, _), \* graph settings that the user may give, by plugin, source and module
  TileSettings(_, _),   \* tile settings, by plugin and module
  MaxSettings,          \* bound on the settings given
  MaxColumn,            \* last column of the array
  JunkAt                \* what an uninitialized column and row may be

ASSUME SettingsAssumption == MaxSettings \in Nat /\ MaxColumn \in Nat /\ JunkAt # {}

VARIABLES
  plugin,    \* the plugin whose metadata is constructed
  ini, json, \* [module -> [graph, tile]]: the settings of xrt.ini (or of the
             \* runtime configuration that replaces it) and of the JSON file
  source,    \* "none" before the constructor, then "ini" or "json"
  settings,  \* the settings in force
  todo,      \* passes to come, as pairs of a module and a pass
  conf,      \* the maps
  crashed

vars == <<plugin, ini, json, source, settings, todo, conf, crashed>>
input == <<plugin, ini, json, source, settings>>

\* The modules in the order in which they are processed
Modules(p) == IF p = "trace" THEN <<"dma", "mem_tile", "shim">> ELSE <<"core", "dma", "shim", "mem_tile", "uc">>
AllModules == {"core", "dma", "shim", "mem_tile", "uc"}

NoSettings == [m \in AllModules |-> [graph |-> <<>>, tile |-> <<>>]]
Given(given) == {m \in AllModules : given[m].graph # <<>> \/ given[m].tile # <<>>}
NumSettings == LET num(f) == FoldSet(LAMBDA m, n : n + Len(f[m].graph) + Len(f[m].tile), 0, AllModules)
               IN  num(ini) + num(json)

Init ==
  /\ plugin \in {"trace", "profile"}
  /\ ini = NoSettings /\ json = NoSettings /\ settings = NoSettings
  /\ source = "none" /\ todo = <<>> /\ conf = NoConfig /\ crashed = FALSE

\* The user writes a setting (microcontrollers have no graph settings)
WriteIni(m, kind, s) ==
  /\ source = "none" /\ NumSettings < MaxSettings
  /\ ini' = [ini EXCEPT ![m][kind] = Append(@, s)]
  /\ UNCHANGED <<plugin, json, source, settings, todo, conf, crashed>>

WriteJson(m, kind, s) ==
  /\ source = "none" /\ NumSettings < MaxSettings
  /\ json' = [json EXCEPT ![m][kind] = Append(@, s)]
  /\ UNCHANGED <<plugin, ini, source, settings, todo, conf, crashed>>

\* Passes over a module's settings; a module without settings has none, nor memory tiles of AIE1
PassesIni(given, m) ==
  IF m \notin Given(given) \/ (Gen = 1 /\ m = "mem_tile") THEN <<>>
  ELSE IF m = "uc" THEN <<"tile_all", "tile_range", "tile_single", "validate">>
  ELSE <<"graph_all", "graph_each", "tile_all", "tile_range", "tile_single", "validate">>

PassesJson(p, given, m) ==
  LET graph == given[m].graph
      tile  == given[m].tile
  IN  IF m \notin Given(given) \/ (Gen = 1 /\ m = "mem_tile") THEN <<>>
      ELSE Append(IF graph # <<>> THEN (IF allGraphs(p, m, graph) # <<>> THEN <<"graph_all">> ELSE <<"graph_each">>)
                  ELSE IF leading(tile, "all") # <<>> THEN <<"tile_all">>
                  ELSE IF isTileRangeSet(m, tile) THEN <<"tile_range">>
                  ELSE <<"tile_single">>, "validate")

AllPasses(passes(_)) ==
  FlattenSeq([i \in DOMAIN Modules(plugin) |->
                LET m == Modules(plugin)[i] IN [j \in DOMAIN passes(m) |-> <<m, passes(m)[j]>>]])

\* The constructor: the JSON file counts if it has a valid setting, unless the
\* process is elevated or (trace only) the runtime configuration is given
Construct(blob, root, first) ==
  LET parsed == parsePluginJsonSetting(json, first)
      useXdpJson == ~blob /\ ~root /\ Given(parsed) # {}
  IN  /\ source = "none" /\ (blob => plugin = "trace")
      /\ source' = IF useXdpJson THEN "json" ELSE "ini"
      /\ settings' = IF useXdpJson THEN parsed ELSE ini
      /\ todo' = IF useXdpJson THEN AllPasses(LAMBDA m : PassesJson(plugin, parsed, m))
                 ELSE AllPasses(LAMBDA m : PassesIni(ini, m))
      /\ UNCHANGED <<plugin, ini, json, conf, crashed>>

\* One pass of the current module
Pass(from, m, name) == source = from /\ todo # <<>> /\ Head(todo) = <<m, name>>
Passed(c) == conf' = c /\ todo' = Tail(todo) /\ UNCHANGED <<input, crashed>>

IniGraphAll(m)   == Pass("ini", m, "graph_all")   /\ Passed(graphPass1(plugin, m, settings[m].graph, conf))
IniGraphEach(m)  == Pass("ini", m, "graph_each")  /\ Passed(graphPass2(plugin, m, settings[m].graph, conf))
IniTileAll(m)    == Pass("ini", m, "tile_all")    /\ Passed(tilePass1(plugin, m, settings[m].tile, conf))
IniTileRange(m)  == Pass("ini", m, "tile_range")  /\ Passed(tilePass2(plugin, m, settings[m].tile, conf))
IniTileSingle(m) == Pass("ini", m, "tile_single") /\ Passed(tilePass3(plugin, m, settings[m].tile, conf))

JsonGraphAll(m)   == Pass("json", m, "graph_all")  /\ Passed(jsonGraphAll(plugin, m, settings[m].graph, conf))
JsonGraphEach(m)  == Pass("json", m, "graph_each") /\ Passed(jsonGraphEach(plugin, m, settings[m].graph, conf))
JsonTileAll(m)    == Pass("json", m, "tile_all")   /\ Passed(jsonTileAll(plugin, m, settings[m].tile, conf))
JsonTileRange(m)  == Pass("json", m, "tile_range") /\ Passed(jsonTileRange(plugin, m, settings[m].tile, conf))
JsonTileSingle(m) ==
  /\ Pass("json", m, "tile_single") /\ m # "uc"
  /\ \E junk \in [DOMAIN settings[m].tile -> JunkAt] :
       Passed(jsonTileSingle(plugin, m, settings[m].tile, junk, conf))

\* The column of a single microcontroller is read from the front of an empty vector
JsonUcSingle ==
  /\ Pass("json", "uc", "tile_single")
  /\ crashed' = TRUE /\ todo' = <<>>
  /\ UNCHANGED <<input, conf>>

IniValidate(m)  == Pass("ini", m, "validate")  /\ Passed(validate(plugin, m, conf))
JsonValidate(m) == Pass("json", m, "validate") /\ Passed(validate(plugin, m, conf))

Constructed == source # "none" /\ todo = <<>> /\ UNCHANGED vars

Next ==
  \/ \E i \in DOMAIN Modules(plugin) :
       LET m == Modules(plugin)[i]
       IN  \/ \E s \in GraphSettings(plugin, "ini", m) : WriteIni(m, "graph", s)
           \/ \E s \in GraphSettings(plugin, "json", m) : WriteJson(m, "graph", s)
           \/ \E s \in TileSettings(plugin, m) : WriteIni(m, "tile", s) \/ WriteJson(m, "tile", s)
           \/ IniGraphAll(m)
           \/ IniGraphEach(m)
           \/ IniTileAll(m)
           \/ IniTileRange(m)
           \/ IniTileSingle(m)
           \/ IniValidate(m)
           \/ JsonGraphAll(m)
           \/ JsonGraphEach(m)
           \/ JsonTileAll(m)
           \/ JsonTileRange(m)
           \/ JsonTileSingle(m)
           \/ JsonValidate(m)
  \/ \E blob, root \in BOOLEAN, first \in {"graphs", "tiles"} : Construct(blob, root, first)
  \/ JsonUcSingle
  \/ Constructed

Spec == Init /\ [][Next]_vars

-----------------------------------------------------------------------------
Done == source # "none" /\ todo = <<>> /\ ~crashed

TypeOK ==
  /\ plugin \in {"trace", "profile"} /\ source \in {"none", "ini", "json"} /\ crashed \in BOOLEAN
  /\ DOMAIN conf.cfg \subseteq ({"aie"} \cup AllModules) \X {k[2] : k \in DOMAIN conf.cfg}
  /\ DOMAIN conf.chan \subseteq {0, 1} \X {k[2] : k \in DOMAIN conf.chan}
  /\ \A i \in DOMAIN todo : todo[i][1] \in Given(settings)

\* What a setting means, by itself: the tiles of module m it is for
Covers(m, s) ==
  IF "graph" \in DOMAIN s THEN GraphTiles(m, s)
  ELSE CASE m = "uc"   -> getMicrocontrollers(s.form # "all", s.lo[1], IF s.form = "range" THEN s.hi[1] ELSE s.lo[1])
         [] m = "shim" -> ShimTiles(s, s.form # "all", s.lo[1], IF s.form = "range" THEN s.hi[1] ELSE s.lo[1])
         [] OTHER      -> CASE s.form = "all"   -> allValidTiles(m)
                            [] s.form = "range" -> Box(m, s.lo, s.hi)
                            [] OTHER            -> Box(m, s.lo, s.lo)

\* and how specific it is; profile's "all" interface tiles come before graphs, the first one for good
Rank(m, s, i) ==
  IF "graph" \in DOMAIN s THEN (IF s.graph = "all" THEN 10 ELSE 20) + i
  ELSE CASE s.form = "all"   -> IF plugin = "profile" /\ source = "ini" /\ m = "shim" THEN 9 - i ELSE 30 + i
         [] s.form = "range" -> 40 + i
         [] OTHER            -> 50 + i

Usable(m, s) == "graph" \in DOMAIN s => /\ EntryOK(m, s)
                                        /\ m = "shim" /\ plugin = "profile" => s.graph \in getValidGraphs \cup {"all"}

\* The set that the most specific, then latest, of a list of settings gives tile t
Winner(m, t, list) ==
  LET for == {i \in DOMAIN list : Usable(m, list[i]) /\ t \in Covers(m, list[i])}
  IN  IF for = {} THEN "none"
      ELSE LET set == list[CHOOSE i \in for : \A j \in for : Rank(m, list[j], j) <= Rank(m, list[i], i)].set
           IN  IF set = "off" \/ (plugin = "trace" /\ m = "shim" /\ t.sub = "PLIO" /\ set \in GmioSets) THEN "off"
               ELSE ValidSet(plugin, m, set)

\* A set that both halves of an AIE tile count is given to both: that of the
\* memory module, or else that of the core, unless the memory module is off
Promised(m, t, list(_)) ==
  LET shared == Supported["profile"]["core"] \cap Supported["profile"]["dma"]
      core == Winner("core", t, list("core"))
      dma  == Winner("dma", t, list("dma"))
      both == IF dma \in shared THEN dma ELSE IF dma # "off" /\ core \in shared THEN core ELSE "none"
  IN  IF plugin = "profile" /\ m \in {"core", "dma"} /\ both # "none" THEN both ELSE Winner(m, t, list(m))

Configured(m, t) == LET k == <<Slot(plugin, m), t>> IN IF k \in DOMAIN conf.cfg THEN conf.cfg[k] ELSE "none"

ModuleTiles(m) == CASE m = "shim" -> {IoTile(Ios[i]) : i \in DOMAIN Ios} \cup getMicrocontrollers(FALSE, 0, 0)
                    [] m = "uc"   -> getMicrocontrollers(TRUE, 0, MaxColumn)
                    [] OTHER      -> allValidTiles(m)

Resolved(m, list(_)) ==
  \A t \in ModuleTiles(m) : Configured(m, t) = (LET p == Promised(m, t, list) IN IF p = "off" THEN "none" ELSE p)

ListedIni(m) == settings[m].graph \o settings[m].tile

\* A single tile of profile with two channels, or a range of memory tiles: the
\* passes over xrt.ini tell their kind by the number of tokens, and mistake it
TwoChannels(m, s) ==
  /\ plugin = "profile" /\ m \in {"shim", "mem_tile"} /\ Len(s.chans) = 2
  /\ s.form = "single" \/ (m = "mem_tile" /\ s.form = "range")

\* xrt.ini: whatever the order of the settings, each tile ends with the set of
\* the most specific one for it (a tile over a range, over all tiles, over a
\* graph, over all graphs), the latest of equals, the default in place of an
\* unsupported set, and nothing if it is off; a set of both halves of a tile
\* reaches both.  The exceptions, of which nothing is said: interface tiles
\* with settings for one and for all graphs in the trace plugin, ranges of
\* microcontrollers, and in the profile plugin the interface and memory tiles
\* when a single one has two channels or a range of memory tiles has: the code
\* then drops the setting or reads a tile as a range, although the formats in its
\* comments end in "[:<channel0>[:<channel1>]]".  It is about the sets, not about
\* the channels that go with them.
IniResolved ==
  Done /\ source = "ini" =>
    \A i \in DOMAIN Modules(plugin) :
      LET m == Modules(plugin)[i]
      IN  \/ m = "uc" /\ \E j \in DOMAIN settings[m].tile : settings[m].tile[j].form = "range"
          \/ /\ plugin = "trace" /\ m = "shim"
             /\ {settings[m].graph[j].graph = "all" : j \in DOMAIN settings[m].graph} = BOOLEAN
          \/ \E j \in DOMAIN settings[m].tile : TwoChannels(m, settings[m].tile[j])
          \/ Resolved(m, ListedIni)

\* The settings of a module in the JSON file are of one kind.
OneKind(m) ==
  LET g == settings[m].graph
      t == settings[m].tile
  IN  /\ Cardinality({g[i].graph = "all" : i \in DOMAIN g}) <= 1
      /\ \A i \in DOMAIN g : Usable(m, g[i])
      /\ \A i, j \in DOMAIN t : t[i].form = t[j].form

\* Trace's graph settings of memory tiles, which the code looks up among the AIE tiles
MemTileGraphs == plugin = "trace" /\ settings["mem_tile"].graph # <<>>

\* Ranges of AIE or memory tiles none of which is in use
EmptyRanges(m) == LET t == settings[m].tile IN t # <<>> /\ t[1].form = "range" /\ ~isTileRangeSet(m, t)

\* What the ...UsingJson functions count: the first setting for all graphs and
\* for all AIE or memory tiles, every setting of the other kinds
ListedJson(m) ==
  LET g == settings[m].graph
      t == settings[m].tile
      firstOf(list) == SubSeq(list, 1, 1)
  IN  IF g # <<>> THEN (IF g[1].graph = "all" THEN firstOf(g) ELSE g)
      ELSE IF t # <<>> /\ t[1].form = "all" /\ m \notin {"shim", "uc"} THEN firstOf(t) ELSE t

DoneJson == Done /\ source = "json" /\ \A i \in DOMAIN Modules(plugin) : OneKind(Modules(plugin)[i])

\* The JSON file, when the settings of each module are of one kind: each tile
\* ends with the set of the latest setting for it that counts.  Excepted are two
\* kinds of files, for which it is not so: with a graph setting of trace's memory
\* tiles, whose set the code gives to AIE tiles of the graph, and with ranges of a
\* module that have no tile in use, of which the code takes each for a single tile
\* at a column and row that were never set.
JsonResolved ==
  DoneJson /\ ~MemTileGraphs /\ (\A m \in AllModules : ~EmptyRanges(m)) =>
    \A i \in DOMAIN Modules(plugin) : Resolved(Modules(plugin)[i], ListedJson)
=============================================================================
