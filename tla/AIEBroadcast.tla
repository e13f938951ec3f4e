---------------------------- MODULE AIEBroadcast ----------------------------
(***************************************************************************)
(* The two-channel broadcast network of AIE trace: one channel carries an  *)
(* event east along the interface row of a partition, the other carries it *)
(* north from there to the modules of each column.  It resets the timers   *)
(* of all tiles at once and starts trace in all tiles at once.             *)
(*                                                                         *)
(* A node is a broadcast switch: "A" and "B" of an interface tile, "M" of  *)
(* a memory tile or memory module, "C" of a core module.                   *)
(***************************************************************************)
EXTENDS Integers, FiniteSets

CONSTANTS NumCols, NumRows

ASSUME GridAssumption == NumCols \in Nat \ {0} /\ NumRows \in Nat \ {0}

Column == 0..(NumCols - 1)
Row == 0..(NumRows - 1)
Dirs == {"north", "south", "east", "west"}
Outside == <<-1, -1, "outside">>

getModuleType(row, rowOffset) ==
  IF row = 0 THEN "shim" ELSE IF row < rowOffset THEN "mem_tile" ELSE "core"

\* Which switches a tile has.
Switches(row, off) ==
  CASE getModuleType(row, off) = "shim" -> {"A", "B"}
    [] getModuleType(row, off) = "mem_tile" -> {"M"}
    [] getModuleType(row, off) = "core" -> {"C", "M"}

Nodes(off) == UNION {{<<c, r, s>> : s \in Switches(r, off)} : c \in Column, r \in Row}

\* The wires between switches: A and B of an interface tile are neighbours, as
\* are the two modules of an AIE tile.
Neighbour(n, dir, off) ==
  LET c == n[1] r == n[2] s == n[3]
      Entry(col, row) ==
        IF col \notin Column \/ row \notin Row THEN Outside
        ELSE <<col, row, IF row = 0 THEN IF dir = "west" THEN "B" ELSE "A"
                         ELSE IF getModuleType(row, off) = "mem_tile" THEN "M"
                         ELSE IF dir = "west" \/ (s = "M" /\ dir # "east" /\ getModuleType(r, off) = "core")
                              THEN "M" ELSE "C">>
  IN CASE dir = "north" -> Entry(c, r + 1)
       [] dir = "south" -> Entry(c, r - 1)
       [] dir = "east" -> IF s = "A" THEN <<c, r, "B">> ELSE IF s = "C" THEN <<c, r, "M">> ELSE Entry(c + 1, r)
       [] dir = "west" -> IF s = "B" THEN <<c, r, "A">>
                          ELSE IF s = "M" /\ getModuleType(r, off) = "core" THEN <<c, r, "C">>
                          ELSE Entry(c - 1, r)

Clean == [sources |-> {}, blocked |-> {}]

\* The channel east does not know where the partition ends (mutant).
BlocksNoEnd(n, off) ==
  CASE n[3] \in {"A", "B"} -> {<<1, d>> : d \in IF n[3] = "A" THEN Dirs \ {"north"} ELSE {}}
                                \cup {<<2, d>> : d \in Dirs \ {"east"}}
    [] n[3] = "C" -> {<<1, d>> : d \in {"south", "west"} \cup IF n[2] # NumRows - 1 THEN {} ELSE {"north"}}
    [] n[3] = "M" -> {<<1, d>> : d \in IF getModuleType(n[2], off) = "mem_tile" /\ n[2] # NumRows - 1
                                        THEN Dirs \ {"north"} ELSE Dirs}

\* The directions each switch blocks, by channel: the first channel goes north
\* and from the core to the memory module, the second goes east.
Blocks(n, off) ==
  LET top == n[2] = NumRows - 1
      North == IF top THEN Dirs ELSE Dirs \ {"north"}
      East == IF n[3] = "B" /\ n[1] = NumCols - 1 THEN Dirs ELSE Dirs \ {"east"}
  IN CASE n[3] = "A" -> {<<1, d>> : d \in North} \cup {<<2, d>> : d \in East}
       [] n[3] = "B" -> {<<2, d>> : d \in East}
       [] n[3] = "C" -> {<<1, d>> : d \in {"south", "west"} \cup IF top THEN {"north"} ELSE {}}
       [] n[3] = "M" -> {<<1, d>> : d \in IF getModuleType(n[2], off) = "mem_tile" THEN North ELSE Dirs}

\* build2ChannelBroadcastNetwork: event enters both channels in the first
\* column; in the others what comes on the second channel enters the first.
build2ChannelBroadcastNetwork(net, event, off) ==
  [sources |-> net.sources
     \cup {[at |-> <<0, 0, "A">>, ch |-> ch, event |-> event] : ch \in {1, 2}}
     \cup {[at |-> <<c, 0, "A">>, ch |-> 1, event |-> "BROADCAST_2"] : c \in Column \ {0}},
   blocked |-> net.blocked \cup UNION {{<<n, b>> : b \in Blocks(n, off)} : n \in Nodes(off)}]

reset2ChannelBroadcastNetwork(net, off) ==
  [sources |-> {s \in net.sources : ~(s.at[3] = "A" /\ (s.ch = 1 \/ s.at[1] = 0))},
   blocked |-> {b \in net.blocked : b[1] \notin Nodes(off)}]

\* Where the signal on a channel gets to from the switches it enters.
Spread(net, from, ch, off) ==
  LET reach[k \in 0..Cardinality(Nodes(off))] ==
        IF k = 0 THEN from
        ELSE LET prev == reach[k - 1]
             IN prev \cup {Neighbour(p[1], p[2], off) :
                  p \in {q \in (prev \ {Outside}) \X Dirs : <<q[1], <<ch, q[2]>>>> \notin net.blocked}}
  IN reach[Cardinality(Nodes(off))]

\* The switches that see each channel when event happens in the first
\* interface tile.
Delivered(net, event, off) ==
  LET Entry(ch, ev) == {s.at : s \in {s \in net.sources : s.ch = ch /\ s.event = ev}}
      second == Spread(net, Entry(2, event), 2, off)
      first == Spread(net, Entry(1, event) \cup (Entry(1, "BROADCAST_2") \cap second), 1, off)
  IN [ch \in {1, 2} |-> IF ch = 1 THEN first ELSE second]
=============================================================================
