---------------------------- MODULE AIEMetadata ----------------------------
(***************************************************************************)
(* AIEControlConfigFiletype: what the metadata of a compiled design says   *)
(* of its tiles, and the tiles that the name of a graph, of a kernel,      *)
(* buffer or port, and of a metric set stands for.                         *)
(*                                                                         *)
(* A name is a string without structure; Within has the pairs <<a, b>> of  *)
(* names where the text a occurs in the text b.  A tile is the key of the  *)
(* plugins' maps: column, row and, for interface tiles, PLIO or GMIO.      *)
(***************************************************************************)
EXTENDS Integers, Sequences, FiniteSets, SequencesExt

CONSTANTS
  Gen,        \* hardware generation
  RowOffset,  \* row of the first AIE tile
  Graphs,     \* event graphs: [name, core, dma], the latter sets of <<column, row>>
  Kernels,    \* kernel to tile mapping: [graph, names, at]
  Buffers,    \* shared buffers: [graph, name, at]
  Ios,        \* sequence of [graph, port, type, master, col, stream, channel],
              \* in the order of the hash map of getAllIOs
  UcColumns,  \* columns of the microcontrollers that the metadata lists
  Within,     \* pairs of names, the first a part of the second
  OutSets, InSets, BothSets,  \* metric sets for master ports, slave ports, both
  UcSets      \* interface metric sets that count in the microcontrollers

ASSUME MetadataAssumption == Gen \in Nat /\ RowOffset \in Nat /\ Within \subseteq STRING \X STRING

\* Tiles, with the rows as the hardware counts them
Tile(at, offset) == [col |-> at[1], row |-> at[2] + offset, sub |-> "PLIO"]
IoTile(io) == [col |-> io.col, row |-> 0, sub |-> io.type]
UcTile(c) == [col |-> c, row |-> 0, sub |-> "PLIO"]
SameLoc(s, t) == s.col = t.col /\ s.row = t.row

Named(part, whole) == part = "all" \/ part = whole \/ <<part, whole>> \in Within

getValidGraphs == {g.name : g \in Graphs}
getValidKernels == UNION {k.names : k \in Kernels}
getValidBuffers == IF Gen = 1 THEN {} ELSE {b.name : b \in Buffers}
getValidPorts == {Ios[i].port : i \in DOMAIN Ios}

\* The search is reversed: the listed graph is a part of the requested name
getEventTiles(graph, type) ==
  UNION {{Tile(at, RowOffset) : at \in IF type = "core" THEN g.core ELSE g.dma} :
           g \in {h \in Graphs : graph = "all" \/ Named(h.name, graph)}}

getAllAIETiles(graph) == getEventTiles(graph, "core") \cup getEventTiles(graph, "dma")

getMemoryTiles(graph, buffer) ==
  IF Gen = 1 THEN {}
  ELSE {Tile(b.at, 1) : b \in {c \in Buffers : Named(graph, c.graph) /\ Named(buffer, c.name)}}

getTiles(graph, type, entry) ==
  IF type = "mem_tile" THEN getMemoryTiles(graph, entry)
  ELSE IF type = "dma" \/ entry = "all" THEN getAllAIETiles(graph)
  ELSE {Tile(k.at, RowOffset) : k \in {m \in Kernels : Named(graph, m.graph) /\ entry \in m.names}}

\* A listed microcontroller is returned whatever columns are asked for
getMicrocontrollers(useColumn, minCol, maxCol) ==
  IF Gen < 5 THEN {}
  ELSE IF UcColumns # {} THEN {UcTile(c) : c \in UcColumns}
  ELSE {UcTile(c) : c \in IF useColumn THEN minCol .. maxCol ELSE {0}}

Polarity(io, set) == set \in BothSets \cup (IF io.master THEN OutSets ELSE InSets)

IoMatches(io, graph, port, set, id, useColumn, minCol, maxCol) ==
  /\ port \in {"all", io.port}
  /\ useColumn \/ Named(graph, io.graph)
  /\ Polarity(io, set)
  /\ useColumn => io.col \in minCol .. maxCol
  /\ id >= 0 => id = IF io.type = "PLIO" THEN io.stream ELSE io.channel

\* One tile for each column: the first port found decides PLIO or GMIO
getInterfaceTiles(graph, port, set, id, useColumn, minCol, maxCol) ==
  LET found == SelectSeq(Ios, LAMBDA io : IoMatches(io, graph, port, set, id, useColumn, minCol, maxCol))
  IN  IF set \in UcSets THEN getMicrocontrollers(FALSE, 0, 0)
      ELSE {IoTile(found[i]) : i \in {j \in DOMAIN found : \A k \in 1 .. j - 1 : found[k].col # found[j].col}}
=============================================================================
