--------------------------- MODULE AIEHangDetect ----------------------------
(***************************************************************************)
(* How AIEStatusPlugin::pollDeadlock decides that cores and graphs hang.   *)
(* Its thread goes over the graphs and the tiles of each, pass after pass. *)
(* Every turn reads the status register of a core, which changes as the    *)
(* core likes between two reads.                                           *)
(***************************************************************************)
EXTENDS Integers, Sequences, FiniteSets, Functions

CONSTANTS
  GraphTiles,            \* mGraphCoreTilesMap: the tiles of each graph, in order
  CoreHangThreshold,     \* CORE_HANG_COUNT_THRESHOLD (100 in the code)
  GraphHangThreshold     \* GRAPH_HANG_COUNT_THRESHOLD (50)

Graphs == 1..Len(GraphTiles)
TilesOf(g) == Range(GraphTiles[g])
Tiles == UNION {TilesOf(g) : g \in Graphs}

\* The compiler places a tile in one graph, and a graph on at least one tile.
ASSUME HangAssumption ==
  /\ GraphTiles \in Seq(Range(GraphTiles)) /\ GraphTiles # <<>>
  /\ \A g \in Graphs : GraphTiles[g] \in Seq(TilesOf(g))
  /\ \A g \in Graphs : IsInjective(GraphTiles[g]) /\ GraphTiles[g] # <<>>
  /\ \A g, h \in Graphs : g # h => TilesOf(g) \cap TilesOf(h) = {}
  /\ GraphHangThreshold \in Nat \ {0} /\ CoreHangThreshold \in Nat
  /\ GraphHangThreshold < CoreHangThreshold

\* What the masks tell apart: reset, done or not enabled; running; and two kinds
\* of stall.
Statuses == {"inactive", "running", "lock stall", "stream stall"}
Stalls == {"lock stall", "stream stall"}

\* Beyond the larger threshold the counters are compared no more.
MaxStuck == CoreHangThreshold + 1

VARIABLES
  graph, next,         \* the graph and the index of its tile the thread is at
  coreStuckCount,      \* coreStuckCountMap
  coreStatus,          \* coreStatusMap
  graphStall,          \* graphStallTotalMap
  found, stuckTile,    \* foundStuckCores and stuckTile
  errorTiles,          \* errorTileSet
  warning,             \* what the last step reports, if anything
  alarms               \* history: the graphs reported as hanging

hangVars == <<graph, next, coreStuckCount, coreStatus, graphStall, found, stuckTile,
          errorTiles, warning, alarms>>

NoWarning == [kind |-> "none", graph |-> 1, tile |-> CHOOSE t \in Tiles : TRUE]

HangTypeOK ==
  /\ graph \in Graphs /\ next \in 1..(Cardinality(Tiles) + 1)
  /\ coreStuckCount \in [Tiles -> 0..MaxStuck]
  /\ coreStatus \in [Tiles -> Statuses]
  /\ graphStall \in [Graphs -> Nat]
  /\ found \in BOOLEAN /\ stuckTile \in Tiles
  /\ errorTiles \subseteq Tiles
  /\ warning \in [kind : {"none", "graph", "core", "error"}, graph : Graphs, tile : Tiles]
  /\ alarms \subseteq Graphs

HangInit ==
  /\ graph = 1 /\ next = 1
  /\ coreStuckCount = [t \in Tiles |-> 0]
  /\ coreStatus = [t \in Tiles |-> "inactive"]
  /\ graphStall = [g \in Graphs |-> 0]
  /\ found = FALSE /\ stuckTile = NoWarning.tile
  /\ errorTiles = {} /\ warning = NoWarning
  /\ alarms = {}

-----------------------------------------------------------------------------
InHang(t) == coreStuckCount[t] >= GraphHangThreshold

\* The counter of a core goes on only for the same stall as at the last look.
StuckCount(t, status) ==
  IF status \in Stalls /\ status = coreStatus[t]
  THEN IF coreStuckCount[t] = MaxStuck THEN MaxStuck ELSE coreStuckCount[t] + 1
  ELSE 0

neverDown(t, count) ==
  IF count = GraphHangThreshold THEN graphStall[graph] + 1 ELSE graphStall[graph]

countsLate(t, count) ==
  LET total == graphStall[graph]
  IN
  IF InHang(t) /\ count = 0 /\ total > 0 THEN total - 1
  ELSE IF count = GraphHangThreshold + 1 THEN total + 1
  ELSE total

\* "Is this core contributing to entire graph hang?"
GraphStall(t, count) ==
  LET total == graphStall[graph]
  IN
  IF InHang(t) /\ count = 0 /\ total > 0 THEN total - 1
  ELSE IF count = GraphHangThreshold THEN total + 1
  ELSE total

\* The look at one tile.
CheckTile(status, error) ==
  LET t == GraphTiles[graph][next]
      count == StuckCount(t, status)
  IN
  /\ next <= Len(GraphTiles[graph])
  /\ coreStuckCount' = [coreStuckCount EXCEPT ![t] = count]
  /\ graphStall' = [graphStall EXCEPT ![graph] = GraphStall(t, count)]
  /\ IF count = CoreHangThreshold
     THEN found' = TRUE /\ stuckTile' = t
     ELSE UNCHANGED <<found, stuckTile>>
  /\ coreStatus' = [coreStatus EXCEPT ![t] = status]
  /\ IF error /\ t \notin errorTiles
     THEN /\ errorTiles' = errorTiles \cup {t}
          /\ warning' = [kind |-> "error", graph |-> graph, tile |-> t]
     ELSE warning' = NoWarning /\ UNCHANGED errorTiles
  /\ next' = next + 1
  /\ UNCHANGED <<graph, alarms>>

\* After the tiles of a graph: one warning at most.  After the last graph the
\* thread sleeps and starts over, with foundStuckCores cleared.
GraphDone ==
  LET last == graph = Len(GraphTiles)
  IN
  /\ next > Len(GraphTiles[graph])
  /\ IF graphStall[graph] = Len(GraphTiles[graph])
     THEN /\ warning' = [NoWarning EXCEPT !.kind = "graph", !.graph = graph]
          /\ graphStall' = [graphStall EXCEPT ![graph] = 0]
          /\ found' = (found /\ ~last)
          /\ alarms' = alarms \cup {graph}
     ELSE /\ warning' = IF found
                        THEN [kind |-> "core", graph |-> graph, tile |-> stuckTile]
                        ELSE NoWarning
          /\ found' = FALSE
          /\ UNCHANGED <<graphStall, alarms>>
  /\ next' = 1 /\ graph' = IF last THEN 1 ELSE graph + 1
  /\ UNCHANGED <<coreStuckCount, coreStatus, stuckTile, errorTiles>>

HangNext ==
  \/ \E status \in Statuses, error \in BOOLEAN : CheckTile(status, error)
  \/ GraphDone

HangSpec == HangInit /\ [][HangNext]_hangVars

-----------------------------------------------------------------------------
\* "Potential deadlock/hang found" is said of a graph only when every one of its
\* cores has kept the same stall for the threshold of passes, however cores have
\* come and gone, and although a warning sets the counter of the graph back to 0.
NoFalseAlarm ==
  warning.kind = "graph" => \A t \in TilesOf(warning.graph) : InHang(t)

\* The first hang of a graph is never missed: until it has been reported, the
\* counter is the number of its cores that hang, so the pass that finds all of them
\* stuck reports it.
FirstHangReported ==
  \A g \in Graphs : g \notin alarms =>
    graphStall[g] = Cardinality({t \in TilesOf(g) : InHang(t)})

\* The warnings about hangs are right: none for a graph that runs, and the first
\* hang of a graph is reported.
HangsReported == NoFalseAlarm /\ FirstHangReported
=============================================================================
