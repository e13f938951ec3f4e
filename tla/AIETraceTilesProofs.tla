------------------------ MODULE AIETraceTilesProofs -------------------------
(***************************************************************************)
(* Proofs about the configuration of AIE trace on tiles: that the tiles in *)
(* the static database are traced as they are recorded there, and that     *)
(* every module that is on can start and ends by the flush, for partitions *)
(* of any size, any lists of tiles and any number of errors.               *)
(***************************************************************************)
EXTENDS AIETraceTiles, FiniteSetTheorems, WellFoundedInduction, TLAPS

(* The broadcast network: what build2ChannelBroadcastNetwork lets a signal *)
(* reach                                                                   *)

\* Induction over the naturals, for sets.
LEMMA Induct ==
  ASSUME NEW S, 0 \in S, \A n \in Nat : n \in S => n + 1 \in S
  PROVE  \A n \in Nat : n \in S
<1> SUFFICES ASSUME NEW n \in Nat, n \notin S PROVE FALSE OBVIOUS
<1>1. IsWellFoundedOn(OpToRel(<, Nat), Nat) BY NatLessThanWellFounded
<1>2. PICK m \in Nat \ S : \A y \in Nat \ S : ~(<<y, m>> \in OpToRel(<, Nat)) BY <1>1, WFMin
<1>3. m # 0 /\ m - 1 \in Nat /\ m - 1 < m
  <2>1. m \in Nat /\ m # 0 OBVIOUS
  <2> QED BY <2>1
<1>4. m - 1 \notin S
  <2>1. (m - 1) + 1 = m BY <1>3
  <2> QED BY <1>2, <1>3, <2>1
<1>5. <<m - 1, m>> \in Nat \X Nat BY <1>3
<1>6. <<m - 1, m>> \in OpToRel(<, Nat) BY <1>3, <1>5 DEF OpToRel
<1> QED BY <1>2, <1>3, <1>4, <1>6

\* A signal goes from switches one wire further.
Turn(net, ch, off, prev) ==
  prev \cup {Neighbour(p[1], p[2], off) :
    p \in {q \in (prev \ {Outside}) \X Dirs : <<q[1], <<ch, q[2]>>>> \notin net.blocked}}

\* f is where a signal gets in up to n turns
Spreads(f, net, from, ch, off, n) ==
  f = [k \in 0..n |-> IF k = 0 THEN from ELSE Turn(net, ch, off, f[k - 1])]

\* There is such a signal.
LEMMA SpreadsExists ==
  ASSUME NEW net, NEW from, NEW ch, NEW off, NEW N \in Nat
  PROVE  \E f : Spreads(f, net, from, ch, off, N)
<1> DEFINE Good == {n \in Nat : \E f : Spreads(f, net, from, ch, off, n)}
<1>1. 0 \in Good
  <2>1. Spreads([k \in 0..0 |-> from], net, from, ch, off, 0) BY DEF Spreads
  <2> QED BY <2>1
<1>2. ASSUME NEW n \in Nat, n \in Good PROVE n + 1 \in Good
  <2>1. PICK f : Spreads(f, net, from, ch, off, n) BY <1>2
  <2>2. PICK e : e = Turn(net, ch, off, f[n]) OBVIOUS
  <2>3. PICK h : h = [k \in 0..(n + 1) |-> IF k = n + 1 THEN e ELSE f[k]] OBVIOUS
  <2>4. ASSUME NEW k \in 0..(n + 1)
        PROVE  h[k] = IF k = 0 THEN from ELSE Turn(net, ch, off, h[k - 1])
    <3>1. CASE k = n + 1 BY <2>2, <2>3, <3>1
    <3>2. CASE k # n + 1
      <4>1. k \in 0..n BY <3>2
      <4>2. f[k] = IF k = 0 THEN from ELSE Turn(net, ch, off, f[k - 1]) BY <2>1, <4>1 DEF Spreads
      <4>3. h[k] = f[k] BY <2>3, <3>2
      <4>4. CASE k = 0 BY <4>2, <4>3, <4>4
      <4>5. CASE k # 0
        <5>1. h[k - 1] = f[k - 1] BY <2>3, <4>1, <4>5
        <5> QED BY <4>2, <4>3, <4>5, <5>1
      <4> QED BY <4>4, <4>5
    <3> QED BY <3>1, <3>2
  <2>5. Spreads(h, net, from, ch, off, n + 1) BY <2>3, <2>4 DEF Spreads
  <2> QED BY <2>5
<1>3. \A n \in Nat : n \in Good
  <2> HIDE DEF Good
  <2> QED BY <1>1, <1>2, Induct
<1> QED BY <1>3

\* A node, by its parts.
LEMMA NodeIs ==
  ASSUME NEW off
  PROVE  /\ \A n \in Nodes(off) : \E c \in Column : \E r \in Row : \E s \in Switches(r, off) : n = <<c, r, s>>
         /\ \A c \in Column : \A r \in Row : \A s \in Switches(r, off) : <<c, r, s>> \in Nodes(off)
<1>1. ASSUME NEW n \in Nodes(off) PROVE \E c \in Column : \E r \in Row : \E s \in Switches(r, off) : n = <<c, r, s>>
  BY <1>1 DEF Nodes
<1>2. ASSUME NEW c \in Column, NEW r \in Row, NEW s \in Switches(r, off) PROVE <<c, r, s>> \in Nodes(off)
  <2>1. PICK W : W = {<<c, r, t>> : t \in Switches(r, off)} OBVIOUS
  <2>2. W \in {{<<b, q, t>> : t \in Switches(q, off)} : b \in Column, q \in Row} BY <2>1
  <2>3. <<c, r, s>> \in W BY <2>1
  <2> QED BY <2>2, <2>3 DEF Nodes
<1> QED BY <1>1, <1>2

\* The switches of a row.
LEMMA SwitchesIs ==
  ASSUME NEW off \in {1, 2}, NEW r \in Row
  PROVE  /\ r \in Nat
         /\ r = 0 => Switches(r, off) = {"A", "B"}
         /\ r # 0 /\ r < off => Switches(r, off) = {"M"}
         /\ r # 0 /\ ~(r < off) => Switches(r, off) = {"C", "M"}
<1>1. r \in Nat BY DEF Row
<1> QED BY <1>1 DEF Switches, getModuleType

\* A function is an injection when different elements have different values.
LEMMA InjectionIs ==
  ASSUME NEW S, NEW T, NEW f, f = [x \in S |-> f[x]], \A x \in S : f[x] \in T,
         \A x \in S : \A y \in S : f[x] = f[y] => x = y
  PROVE  f \in Injection(S, T)
<1>1. f \in [S -> T] OBVIOUS
<1>2. IsInjective(f)
  <2>1. DOMAIN f = S OBVIOUS
  <2> QED BY <2>1 DEF IsInjective
<1> QED BY <1>1, <1>2 DEF Injection

\* A partition has finitely many switches: at least one in each row, and two in
\* each column.
LEMMA NodeCount ==
  ASSUME NEW off \in {1, 2}
  PROVE  /\ Cardinality(Nodes(off)) \in Nat
         /\ NumRows <= Cardinality(Nodes(off)) /\ 2 * NumCols <= Cardinality(Nodes(off))
<1> USE GridAssumption
<1>1. /\ IsFiniteSet(Column) /\ Cardinality(Column) = NumCols
      /\ IsFiniteSet(Row) /\ Cardinality(Row) = NumRows
  <2>1. PICK a \in Int, b \in Int : a = NumCols - 1 /\ b = NumRows - 1 OBVIOUS
  <2>2. IsFiniteSet(0..a) /\ Cardinality(0..a) = (IF 0 > a THEN 0 ELSE a - 0 + 1) BY FS_Interval
  <2>3. IsFiniteSet(0..b) /\ Cardinality(0..b) = (IF 0 > b THEN 0 ELSE b - 0 + 1) BY FS_Interval
  <2> QED BY <2>1, <2>2, <2>3 DEF Column, Row
<1>2. IsFiniteSet({"A", "B"}) /\ Cardinality({"A", "B"}) = 2 /\ IsFiniteSet({"A", "B", "C", "M"})
  <2>1. {"A", "B"} = {"A"} \cup {"B"} /\ "B" \notin {"A"} OBVIOUS
  <2>2. {"A", "B", "C"} = {"A", "B"} \cup {"C"} /\ {"A", "B", "C", "M"} = {"A", "B", "C"} \cup {"M"} OBVIOUS
  <2>3. IsFiniteSet({"A"}) /\ Cardinality({"A"}) = 1 BY FS_Singleton
  <2>4. IsFiniteSet({"A", "B"}) /\ Cardinality({"A", "B"}) = 2
    <3>1. IsFiniteSet({"A"} \cup {"B"})
            /\ Cardinality({"A"} \cup {"B"}) = IF "B" \in {"A"} THEN Cardinality({"A"}) ELSE Cardinality({"A"}) + 1
      BY <2>3, FS_AddElement
    <3> QED BY <2>1, <2>3, <3>1
  <2>5. IsFiniteSet({"A", "B", "C"}) BY <2>2, <2>4, FS_AddElement
  <2> QED BY <2>2, <2>4, <2>5, FS_AddElement
<1>3. IsFiniteSet(Nodes(off))
  <2> DEFINE S == Column \X (Row \X {"A", "B", "C", "M"})
  <2>1. PICK f : f = [n \in Nodes(off) |-> <<n[1], <<n[2], n[3]>>>>] OBVIOUS
  <2>2. IsFiniteSet(S) BY <1>1, <1>2, FS_Product
  <2>3. \A n \in Nodes(off) : \E c \in Column : \E r \in Row : \E s \in {"A", "B", "C", "M"} : n = <<c, r, s>>
    BY NodeIs, SwitchesIs
  <2>4. \A n \in Nodes(off) : f[n] \in S BY <2>1, <2>3
  <2>5. ASSUME NEW n \in Nodes(off), NEW m \in Nodes(off), f[n] = f[m] PROVE n = m
    <3>1. n[1] = m[1] /\ n[2] = m[2] /\ n[3] = m[3] BY <2>1, <2>5
    <3> QED BY <2>3, <3>1
  <2>6. f \in Injection(Nodes(off), S)
    <3> HIDE DEF S
    <3> QED BY <2>1, <2>4, <2>5, InjectionIs
  <2> QED BY <2>2, <2>6, FS_Injection
<1>4. NumRows <= Cardinality(Nodes(off))
  <2>1. PICK f : f = [r \in Row |-> <<0, r, IF r = 0 THEN "A" ELSE IF r < off THEN "M" ELSE "C">>] OBVIOUS
  <2>2. 0 \in Column BY DEF Column
  <2>3. ASSUME NEW r \in Row PROVE f[r] \in Nodes(off)
    <3>1. (IF r = 0 THEN "A" ELSE IF r < off THEN "M" ELSE "C") \in Switches(r, off) BY SwitchesIs
    <3> QED BY <2>1, <2>2, <3>1, NodeIs
  <2>4. ASSUME NEW r \in Row, NEW q \in Row, f[r] = f[q] PROVE r = q
    <3>1. f[r][2] = r /\ f[q][2] = q BY <2>1
    <3> QED BY <2>4, <3>1
  <2>5. f \in Injection(Row, Nodes(off)) BY <2>1, <2>3, <2>4, InjectionIs
  <2> QED BY <1>1, <1>3, <2>5, FS_Injection
<1>5. 2 * NumCols <= Cardinality(Nodes(off))
  <2> DEFINE S == Column \X {"A", "B"}
  <2>1. PICK f : f = [x \in S |-> <<x[1], 0, x[2]>>] OBVIOUS
  <2>2. 0 \in Row BY DEF Row
  <2>3. ASSUME NEW x \in S PROVE f[x] \in Nodes(off)
    <3>1. x[2] \in Switches(0, off) /\ x[1] \in Column BY <2>2, SwitchesIs
    <3> QED BY <2>1, <2>2, <3>1, NodeIs
  <2>4. ASSUME NEW x \in S, NEW y \in S, f[x] = f[y] PROVE x = y
    <3>1. f[x][1] = x[1] /\ f[x][3] = x[2] /\ f[y][1] = y[1] /\ f[y][3] = y[2] BY <2>1
    <3>2. x[1] = y[1] /\ x[2] = y[2] BY <2>4, <3>1
    <3> QED BY <3>2
  <2>5. f \in Injection(S, Nodes(off))
    <3> HIDE DEF S
    <3> QED BY <2>1, <2>3, <2>4, InjectionIs
  <2>6. IsFiniteSet(S) /\ Cardinality(S) = NumCols * 2 BY <1>1, <1>2, FS_Product
  <2>7. Cardinality(S) <= Cardinality(Nodes(off)) BY <1>3, <2>5, FS_Injection
  <2> QED BY <2>6, <2>7
<1> QED BY <1>3, <1>4, <1>5, FS_CardinalityType

\* Where a signal gets to is where it gets in as many turns as there are switches.
LEMMA SpreadIs ==
  ASSUME NEW net, NEW from, NEW ch, NEW off \in {1, 2}
  PROVE  \E f : /\ Spreads(f, net, from, ch, off, Cardinality(Nodes(off)))
                /\ Spread(net, from, ch, off) = f[Cardinality(Nodes(off))]
<1>1. PICK N \in Nat : N = Cardinality(Nodes(off)) BY NodeCount
<1>2. PICK t : t = CHOOSE h : Spreads(h, net, from, ch, off, N) OBVIOUS
<1>3. Spreads(t, net, from, ch, off, N) BY <1>2, SpreadsExists
<1>4. Spread(net, from, ch, off) = t[N] BY <1>1, <1>2, Zenon DEF Spread, Spreads, Turn
<1> QED BY <1>1, <1>3, <1>4

\* A signal stays where no wire that is open leads out.
LEMMA SpreadStays ==
  ASSUME NEW net, NEW from, NEW ch, NEW off \in {1, 2}, NEW S, from \subseteq S,
         \A n \in S : \A d \in Dirs : n # Outside /\ <<n, <<ch, d>>>> \notin net.blocked => Neighbour(n, d, off) \in S
  PROVE  Spread(net, from, ch, off) \subseteq S
<1>1. PICK N \in Nat : N = Cardinality(Nodes(off)) BY NodeCount
<1>2. PICK f : Spreads(f, net, from, ch, off, N) /\ Spread(net, from, ch, off) = f[N] BY <1>1, SpreadIs
<1> DEFINE Good == {k \in Nat : k <= N => f[k] \subseteq S}
<1>3. 0 \in Good BY <1>2 DEF Spreads
<1>4. ASSUME NEW k \in Nat, k \in Good PROVE k + 1 \in Good
  <2> SUFFICES ASSUME k + 1 <= N PROVE f[k + 1] \subseteq S OBVIOUS
  <2>1. f[k] \subseteq S BY <1>4
  <2>2. f[k + 1] = Turn(net, ch, off, f[k])
    <3>1. k + 1 \in 0..N /\ k + 1 # 0 /\ (k + 1) - 1 = k OBVIOUS
    <3> QED BY <1>2, <3>1 DEF Spreads
  <2>3. ASSUME NEW x \in Turn(net, ch, off, f[k]) PROVE x \in S
    <3>1. CASE x \in f[k] BY <2>1, <3>1
    <3>2. CASE x \notin f[k]
      <4>1. PICK q \in (f[k] \ {Outside}) \X Dirs :
              <<q[1], <<ch, q[2]>>>> \notin net.blocked /\ x = Neighbour(q[1], q[2], off)
        BY <2>3, <3>2 DEF Turn
      <4>2. q[1] \in S /\ q[1] # Outside /\ q[2] \in Dirs BY <2>1
      <4> QED BY <4>1, <4>2
    <3> QED BY <3>1, <3>2
  <2> QED BY <2>2, <2>3
<1>5. \A k \in Nat : k \in Good
  <2> HIDE DEF Good
  <2> QED BY <1>3, <1>4, Induct
<1>6. f[N] \subseteq S BY <1>5
<1> QED BY <1>2, <1>6

\* A turn keeps what was reached and takes the signal over each open wire.
LEMMA TurnReaches ==
  ASSUME NEW net, NEW from, NEW ch, NEW off, NEW N \in Nat, NEW f, Spreads(f, net, from, ch, off, N),
         NEW k \in Nat, k + 1 <= N, NEW n \in f[k]
  PROVE  /\ n \in f[k + 1]
         /\ \A d \in Dirs : n # Outside /\ <<n, <<ch, d>>>> \notin net.blocked => Neighbour(n, d, off) \in f[k + 1]
<1>1. f[k + 1] = Turn(net, ch, off, f[k])
  <2>1. k + 1 \in 0..N /\ k + 1 # 0 /\ (k + 1) - 1 = k OBVIOUS
  <2> QED BY <2>1 DEF Spreads
<1>2. n \in f[k + 1] BY <1>1 DEF Turn
<1>3. ASSUME NEW d \in Dirs, n # Outside, <<n, <<ch, d>>>> \notin net.blocked
      PROVE  Neighbour(n, d, off) \in f[k + 1]
  <2>1. PICK q : q = <<n, d>> OBVIOUS
  <2>2. q \in (f[k] \ {Outside}) \X Dirs /\ q[1] = n /\ q[2] = d BY <1>3, <2>1
  <2>3. PICK Q : Q = {p \in (f[k] \ {Outside}) \X Dirs : <<p[1], <<ch, p[2]>>>> \notin net.blocked} OBVIOUS
  <2>4. q \in Q BY <1>3, <2>2, <2>3
  <2>5. Turn(net, ch, off, f[k]) = f[k] \cup {Neighbour(p[1], p[2], off) : p \in Q} BY <2>3 DEF Turn
  <2> QED BY <1>1, <2>2, <2>4, <2>5
<1> QED BY <1>2, <1>3

\* What is reached stays reached.
LEMMA SpreadKeeps ==
  ASSUME NEW net, NEW from, NEW ch, NEW off, NEW N \in Nat, NEW f, Spreads(f, net, from, ch, off, N),
         NEW j \in Nat, j <= N, NEW n \in f[j]
  PROVE  n \in f[N]
<1> DEFINE Good == {k \in Nat : j + k <= N => n \in f[j + k]}
<1>1. 0 \in Good
  <2>1. j + 0 = j OBVIOUS
  <2> QED BY <2>1
<1>2. ASSUME NEW k \in Nat, k \in Good PROVE k + 1 \in Good
  <2> SUFFICES ASSUME j + (k + 1) <= N PROVE n \in f[j + (k + 1)] OBVIOUS
  <2>1. PICK m \in Nat : m = j + k OBVIOUS
  <2>2. m + 1 <= N /\ m + 1 = j + (k + 1) /\ n \in f[m] BY <1>2, <2>1
  <2>3. n \in f[m + 1] BY <2>2, TurnReaches
  <2> QED BY <2>2, <2>3
<1>3. \A k \in Nat : k \in Good
  <2> HIDE DEF Good
  <2> QED BY <1>1, <1>2, Induct
<1>4. N - j \in Nat /\ j + (N - j) = N OBVIOUS
<1>5. N - j \in Good
  <2> HIDE DEF Good
  <2> QED BY <1>3, <1>4
<1> QED BY <1>4, <1>5

\* The network on which event goes to all modules
Built(event, off) == build2ChannelBroadcastNetwork(Clean, event, off)

\* The switch of a tile that the first channel comes to
Main(r, off) == IF r = 0 THEN "A" ELSE IF r < off THEN "M" ELSE "C"

\* In the network a switch blocks the directions of Blocks and no others.
LEMMA BuiltBlocks ==
  ASSUME NEW event, NEW off, NEW n \in Nodes(off), NEW b
  PROVE  <<n, b>> \in Built(event, off).blocked <=> b \in Blocks(n, off)
<1>1. PICK B : B = UNION {{<<m, x>> : x \in Blocks(m, off)} : m \in Nodes(off)} OBVIOUS
<1>2. Built(event, off).blocked = B BY <1>1 DEF Built, build2ChannelBroadcastNetwork, Clean
<1>3. ASSUME <<n, b>> \in B PROVE b \in Blocks(n, off)
  <2>1. PICK m \in Nodes(off) : <<n, b>> \in {<<m, x>> : x \in Blocks(m, off)} BY <1>1, <1>3
  <2>2. PICK x \in Blocks(m, off) : <<n, b>> = <<m, x>> BY <2>1
  <2> QED BY <2>2
<1>4. ASSUME b \in Blocks(n, off) PROVE <<n, b>> \in B
  <2>1. PICK W : W = {<<n, x>> : x \in Blocks(n, off)} OBVIOUS
  <2>2. W \in {{<<m, x>> : x \in Blocks(m, off)} : m \in Nodes(off)} BY <2>1
  <2>3. <<n, b>> \in W BY <1>4, <2>1
  <2> QED BY <1>1, <2>2, <2>3
<1> QED BY <1>2, <1>3, <1>4

\* What the switches of the interface row block.
LEMMA ShimWires ==
  ASSUME NEW event, NEW off \in {1, 2}, NEW c \in Column, NEW d \in Dirs
  PROVE  /\ <<c, 0, "A">> \in Nodes(off) /\ <<c, 0, "B">> \in Nodes(off)
         /\ <<<<c, 0, "A">>, <<2, d>>>> \notin Built(event, off).blocked <=> d = "east"
         /\ <<<<c, 0, "B">>, <<2, d>>>> \notin Built(event, off).blocked <=> d = "east" /\ c # NumCols - 1
         /\ <<<<c, 0, "A">>, <<1, d>>>> \notin Built(event, off).blocked <=> d = "north" /\ 0 # NumRows - 1
<1>1. 0 \in Row /\ c \in Nat BY GridAssumption DEF Row, Column
<1>2. PICK a : a = <<c, 0, "A">> OBVIOUS
<1>3. PICK b : b = <<c, 0, "B">> OBVIOUS
<1>4. a \in Nodes(off) /\ b \in Nodes(off)
  <2>1. "A" \in Switches(0, off) /\ "B" \in Switches(0, off) BY <1>1, SwitchesIs
  <2> QED BY <1>1, <1>2, <1>3, <2>1, NodeIs
<1>5. /\ a[1] = c /\ a[2] = 0 /\ a[3] = "A"
      /\ b[1] = c /\ b[2] = 0 /\ b[3] = "B" BY <1>2, <1>3
<1>6. <<2, d>> \notin Blocks(a, off) <=> d = "east" BY <1>5 DEF Blocks, Dirs
<1>7. <<2, d>> \notin Blocks(b, off) <=> d = "east" /\ c # NumCols - 1 BY <1>5 DEF Blocks, Dirs
<1>8. <<1, d>> \notin Blocks(a, off) <=> d = "north" /\ 0 # NumRows - 1 BY <1>5 DEF Blocks, Dirs
<1> QED BY <1>2, <1>3, <1>4, <1>6, <1>7, <1>8, BuiltBlocks

\* What the switches above it block on the first channel.
LEMMA TileWires ==
  ASSUME NEW event, NEW off \in {1, 2}, NEW c \in Column, NEW r \in Row, r # 0, NEW d \in Dirs
  PROVE  /\ r < off => /\ <<c, r, "M">> \in Nodes(off)
                       /\ <<<<c, r, "M">>, <<1, d>>>> \notin Built(event, off).blocked <=> d = "north" /\ r # NumRows - 1
         /\ ~(r < off) =>
              /\ <<c, r, "C">> \in Nodes(off) /\ <<c, r, "M">> \in Nodes(off)
              /\ <<<<c, r, "M">>, <<1, d>>>> \in Built(event, off).blocked
              /\ <<<<c, r, "C">>, <<1, d>>>> \notin Built(event, off).blocked
                   <=> d = "east" \/ (d = "north" /\ r # NumRows - 1)
<1>1. r \in Nat /\ c \in Nat BY GridAssumption DEF Row, Column
<1>2. PICK x : x = <<c, r, "C">> OBVIOUS
<1>3. PICK m : m = <<c, r, "M">> OBVIOUS
<1>4. m \in Nodes(off) /\ (~(r < off) => x \in Nodes(off))
  <2>1. "M" \in Switches(r, off) /\ (~(r < off) => "C" \in Switches(r, off)) BY SwitchesIs
  <2> QED BY <1>2, <1>3, <2>1, NodeIs
<1>5. /\ x[1] = c /\ x[2] = r /\ x[3] = "C"
      /\ m[1] = c /\ m[2] = r /\ m[3] = "M" BY <1>2, <1>3
<1>6. getModuleType(r, off) = (IF r < off THEN "mem_tile" ELSE "core") BY DEF getModuleType
<1>7. r < off => (<<1, d>> \notin Blocks(m, off) <=> d = "north" /\ r # NumRows - 1)
  BY <1>5, <1>6 DEF Blocks, Dirs
<1>8. ~(r < off) => <<1, d>> \in Blocks(m, off) BY <1>5, <1>6 DEF Blocks, Dirs
<1>9. <<1, d>> \notin Blocks(x, off) <=> d = "east" \/ (d = "north" /\ r # NumRows - 1)
  BY <1>5 DEF Blocks, Dirs
<1> QED BY <1>2, <1>3, <1>4, <1>7, <1>8, <1>9, BuiltBlocks

\* Where the open wires lead.
LEMMA Wires ==
  ASSUME NEW off \in {1, 2}, NEW c \in Column
  PROVE  /\ Neighbour(<<c, 0, "A">>, "east", off) = <<c, 0, "B">>
         /\ c # NumCols - 1 => c + 1 \in Column /\ Neighbour(<<c, 0, "B">>, "east", off) = <<c + 1, 0, "A">>
         /\ \A r \in Row : /\ ~(r < off) /\ r # 0 => Neighbour(<<c, r, "C">>, "east", off) = <<c, r, "M">>
                           /\ r # NumRows - 1 =>
                                /\ r + 1 \in Row
                                /\ Neighbour(<<c, r, Main(r, off)>>, "north", off) = <<c, r + 1, Main(r + 1, off)>>
<1>1. NumCols \in Nat \ {0} /\ NumRows \in Nat \ {0} BY GridAssumption
<1>2. c \in 0..(NumCols - 1) /\ 0 \in Row BY <1>1 DEF Column, Row
<1>3. Neighbour(<<c, 0, "A">>, "east", off) = <<c, 0, "B">> BY DEF Neighbour
<1>4. ASSUME c # NumCols - 1
      PROVE  c + 1 \in Column /\ Neighbour(<<c, 0, "B">>, "east", off) = <<c + 1, 0, "A">>
  <2>1. c + 1 \in Column BY <1>1, <1>2, <1>4 DEF Column
  <2> QED BY <1>2, <2>1 DEF Neighbour
<1>5. ASSUME NEW r \in Row, ~(r < off), r # 0 PROVE Neighbour(<<c, r, "C">>, "east", off) = <<c, r, "M">>
  BY DEF Neighbour
<1>6. ASSUME NEW r \in Row, r # NumRows - 1
      PROVE  r + 1 \in Row /\ Neighbour(<<c, r, Main(r, off)>>, "north", off) = <<c, r + 1, Main(r + 1, off)>>
  <2>1. r \in 0..(NumRows - 1) BY DEF Row
  <2>2. r + 1 \in Row /\ r + 1 # 0 BY <1>1, <1>6, <2>1 DEF Row
  <2>3. PICK s : s = Main(r, off) OBVIOUS
  <2>4. s = "M" => r < off /\ r # 0 BY <2>3 DEF Main
  <2>5. s = "M" => getModuleType(r, off) = "mem_tile" BY <2>4 DEF getModuleType
  <2>6. getModuleType(r + 1, off) = (IF r + 1 < off THEN "mem_tile" ELSE "core") BY <2>2 DEF getModuleType
  <2>7. Main(r + 1, off) = (IF r + 1 < off THEN "M" ELSE "C") BY <2>2 DEF Main
  <2>8. Neighbour(<<c, r, s>>, "north", off) = <<c, r + 1, IF r + 1 < off THEN "M" ELSE "C">>
    BY <2>1, <2>2, <2>5, <2>6 DEF Neighbour
  <2> QED BY <2>2, <2>3, <2>7, <2>8
<1> QED BY <1>3, <1>4, <1>5, <1>6

\* The second channel takes the event along the interface row and nowhere else.
LEMMA RowReached ==
  ASSUME NEW event, NEW off \in {1, 2}, NEW S, S = Spread(Built(event, off), {<<0, 0, "A">>}, 2, off)
  PROVE  /\ \A c \in Column : <<c, 0, "A">> \in S
         /\ \A n \in S : \E c \in Column : n = <<c, 0, "A">> \/ n = <<c, 0, "B">>
<1> DEFINE net == Built(event, off)
           from == {<<0, 0, "A">>}
<1>1. PICK N \in Nat : N = Cardinality(Nodes(off)) /\ 2 * NumCols <= N BY NodeCount
<1>2. PICK f : Spreads(f, net, from, 2, off, N) /\ S = f[N] BY <1>1, SpreadIs
<1>3. NumCols \in Nat \ {0} BY GridAssumption
<1> HIDE DEF net
<1> DEFINE Good == {c \in Nat : c \in Column => <<c, 0, "A">> \in f[2 * c]}
<1>4. 0 \in Good
  <2>1. f[0] = from BY <1>2 DEF Spreads
  <2>2. 2 * 0 = 0 OBVIOUS
  <2> QED BY <2>1, <2>2
<1>5. ASSUME NEW c \in Nat, c \in Good PROVE c + 1 \in Good
  <2> SUFFICES ASSUME c + 1 \in Column PROVE <<c + 1, 0, "A">> \in f[2 * (c + 1)] OBVIOUS
  <2>1. c \in Column /\ c # NumCols - 1 /\ c + 1 <= NumCols - 1 BY <1>3 DEF Column
  <2>2. PICK k \in Nat : k = 2 * c OBVIOUS
  <2>3. k + 1 \in Nat /\ (k + 1) + 1 <= N /\ k + 1 <= N /\ (k + 1) + 1 = 2 * (c + 1) BY <1>1, <1>3, <2>1, <2>2
  <2>4. PICK a : a = <<c, 0, "A">> OBVIOUS
  <2>5. PICK b : b = <<c, 0, "B">> OBVIOUS
  <2>6. a \in f[k] BY <1>5, <2>1, <2>2, <2>4
  <2>7. a # Outside /\ b # Outside BY <2>4, <2>5 DEF Outside
  <2>8. "east" \in Dirs BY DEF Dirs
  <2>9. <<a, <<2, "east">>>> \notin net.blocked /\ <<b, <<2, "east">>>> \notin net.blocked
    BY <2>1, <2>4, <2>5, <2>8, ShimWires DEF net
  <2>10. Neighbour(a, "east", off) = b /\ Neighbour(b, "east", off) = <<c + 1, 0, "A">>
    BY <2>1, <2>4, <2>5, Wires
  <2>11. b \in f[k + 1] BY <1>2, <2>3, <2>6, <2>7, <2>8, <2>9, <2>10, TurnReaches
  <2>12. PICK j \in Nat : j = k + 1 BY <2>3
  <2>13. b \in f[j] /\ j + 1 <= N BY <2>3, <2>11, <2>12
  <2>14. Neighbour(b, "east", off) \in f[j + 1] BY <1>2, <2>7, <2>8, <2>9, <2>13, TurnReaches
  <2>15. j + 1 = 2 * (c + 1) BY <2>3, <2>12
  <2> QED BY <2>10, <2>14, <2>15
<1>6. \A c \in Nat : c \in Good
  <2> HIDE DEF Good
  <2> QED BY <1>4, <1>5, Induct
<1>7. ASSUME NEW c \in Column PROVE <<c, 0, "A">> \in S
  <2>1. c \in Nat /\ c <= NumCols - 1 BY <1>3 DEF Column
  <2>2. PICK k \in Nat : k = 2 * c BY <2>1
  <2>3. k <= N BY <1>1, <1>3, <2>1, <2>2
  <2>4. <<c, 0, "A">> \in f[k] BY <1>6, <2>1, <2>2
  <2> QED BY <1>2, <2>3, <2>4, SpreadKeeps
<1>8. PICK T : T = {n \in Nodes(off) : \E c \in Column : n = <<c, 0, "A">> \/ n = <<c, 0, "B">>} OBVIOUS
<1>9. ASSUME NEW n \in T, NEW d \in Dirs, <<n, <<2, d>>>> \notin net.blocked PROVE Neighbour(n, d, off) \in T
  <2>1. PICK c \in Column : n = <<c, 0, "A">> \/ n = <<c, 0, "B">> BY <1>8
  <2>2. d = "east" /\ (n = <<c, 0, "B">> => c # NumCols - 1) BY <1>9, <2>1, ShimWires DEF net
  <2>3. CASE n = <<c, 0, "A">>
    <3>1. Neighbour(n, d, off) = <<c, 0, "B">> /\ <<c, 0, "B">> \in Nodes(off) BY <2>2, <2>3, Wires, ShimWires
    <3> QED BY <1>8, <3>1
  <2>4. CASE n = <<c, 0, "B">>
    <3>1. PICK e \in Column : e = c + 1 /\ Neighbour(n, d, off) = <<e, 0, "A">> BY <2>2, <2>4, Wires
    <3>2. <<e, 0, "A">> \in Nodes(off) BY <2>2, ShimWires
    <3> QED BY <1>8, <3>1, <3>2
  <2> QED BY <2>1, <2>3, <2>4
<1>10. from \subseteq T
  <2>1. 0 \in Column BY <1>3 DEF Column
  <2>2. "east" \in Dirs BY DEF Dirs
  <2>3. <<0, 0, "A">> \in Nodes(off) BY <2>1, <2>2, ShimWires
  <2> QED BY <1>8, <2>1, <2>3
<1>11. S \subseteq T
  <2> HIDE DEF from
  <2> QED BY <1>9, <1>10, SpreadStays DEF net, from
<1> QED BY <1>7, <1>8, <1>11

\* The first channel takes the event from the interface row to every module.
LEMMA ColumnsReached ==
  ASSUME NEW event, NEW off \in {1, 2}, NEW from, from = {<<c, 0, "A">> : c \in Column},
         NEW S, S = Spread(Built(event, off), from, 1, off)
  PROVE  /\ \A n \in Nodes(off) : n[3] # "B" => n \in S
         /\ S \subseteq Nodes(off)
<1> DEFINE net == Built(event, off)
<1>1. PICK N \in Nat : N = Cardinality(Nodes(off)) /\ NumRows <= N BY NodeCount
<1>2. PICK f : Spreads(f, net, from, 1, off, N) /\ S = f[N]
  <2>1. PICK b : b = Built(event, off) OBVIOUS
  <2>2. PICK g : g = from OBVIOUS
  <2>3. \E f : /\ Spreads(f, b, g, 1, off, Cardinality(Nodes(off)))
               /\ Spread(b, g, 1, off) = f[Cardinality(Nodes(off))]
    BY SpreadIs
  <2> QED BY <1>1, <2>1, <2>2, <2>3
<1>3. NumRows \in Nat \ {0} BY GridAssumption
<1> HIDE DEF net
<1>4. "north" \in Dirs /\ "east" \in Dirs BY DEF Dirs
<1>4a. PICK B : B = net.blocked OBVIOUS
<1>4b. ASSUME NEW c \in Column, NEW r \in Row, r # 0, NEW d \in Dirs
       PROVE  /\ r < off => /\ <<c, r, "M">> \in Nodes(off)
                            /\ <<<<c, r, "M">>, <<1, d>>>> \notin B <=> d = "north" /\ r # NumRows - 1
              /\ ~(r < off) => /\ <<c, r, "C">> \in Nodes(off) /\ <<c, r, "M">> \in Nodes(off)
                               /\ <<<<c, r, "M">>, <<1, d>>>> \in B
                               /\ <<<<c, r, "C">>, <<1, d>>>> \notin B <=> d = "east" \/ (d = "north" /\ r # NumRows - 1)
  <2>1. B = Built(event, off).blocked BY <1>4a DEF net
  <2>2. /\ r < off => /\ <<c, r, "M">> \in Nodes(off)
                      /\ <<<<c, r, "M">>, <<1, d>>>> \notin Built(event, off).blocked <=> d = "north" /\ r # NumRows - 1
        /\ ~(r < off) =>
             /\ <<c, r, "C">> \in Nodes(off) /\ <<c, r, "M">> \in Nodes(off)
             /\ <<<<c, r, "M">>, <<1, d>>>> \in Built(event, off).blocked
             /\ <<<<c, r, "C">>, <<1, d>>>> \notin Built(event, off).blocked
                  <=> d = "east" \/ (d = "north" /\ r # NumRows - 1)
    BY <1>4b, TileWires
  <2> QED BY <2>1, <2>2
<1>5. ASSUME NEW c \in Column, NEW r \in Row
      PROVE  /\ <<c, r, Main(r, off)>> \in Nodes(off) /\ <<c, r, Main(r, off)>> # Outside
             /\ r # NumRows - 1 => <<<<c, r, Main(r, off)>>, <<1, "north">>>> \notin net.blocked
  <2>1. CASE r = 0
    BY <1>4, <2>1, ShimWires DEF net, Main, Outside
  <2>2. CASE r # 0
    <3>1. <<c, r, Main(r, off)>> # Outside BY <2>2 DEF Main, Outside
    <3>2. CASE r < off BY <1>4, <1>4a, <1>4b, <2>2, <3>1, <3>2 DEF Main
    <3>3. CASE ~(r < off) BY <1>4, <1>4a, <1>4b, <2>2, <3>1, <3>3 DEF Main
    <3> QED BY <3>2, <3>3
  <2> QED BY <2>1, <2>2
<1> DEFINE Good == {r \in Nat : r \in Row => \A c \in Column : <<c, r, Main(r, off)>> \in f[r]}
<1>6. 0 \in Good
  <2>1. f[0] = from BY <1>2 DEF Spreads
  <2>2. Main(0, off) = "A" BY DEF Main
  <2> QED BY <2>1, <2>2
<1>7. ASSUME NEW r \in Nat, r \in Good PROVE r + 1 \in Good
  <2> SUFFICES ASSUME r + 1 \in Row, NEW c \in Column PROVE <<c, r + 1, Main(r + 1, off)>> \in f[r + 1] OBVIOUS
  <2>1. r \in Row /\ r # NumRows - 1 /\ r + 1 <= N BY <1>1, <1>3 DEF Row
  <2>2. PICK a : a = <<c, r, Main(r, off)>> OBVIOUS
  <2>3. a \in f[r] /\ a # Outside /\ <<a, <<1, "north">>>> \notin net.blocked BY <1>5, <1>7, <2>1, <2>2
  <2>4. Neighbour(a, "north", off) = <<c, r + 1, Main(r + 1, off)>> BY <2>1, <2>2, Wires
  <2>5. Neighbour(a, "north", off) \in f[r + 1] BY <1>2, <1>4, <2>1, <2>3, TurnReaches
  <2> QED BY <2>4, <2>5
<1>8. \A r \in Nat : r \in Good
  <2> HIDE DEF Good
  <2> QED BY <1>6, <1>7, Induct
<1>9. ASSUME NEW n \in Nodes(off), n[3] # "B" PROVE n \in S
  <2>1. PICK c \in Column, r \in Row : \E s \in Switches(r, off) : n = <<c, r, s>> BY NodeIs
  <2>2. PICK s \in Switches(r, off) : n = <<c, r, s>> BY <2>1
  <2>3. s # "B" BY <1>9, <2>2
  <2>4. r \in Nat /\ r + 1 <= N BY <1>1, <1>3 DEF Row
  <2>5. PICK m : m = <<c, r, Main(r, off)>> OBVIOUS
  <2>6. m \in f[r] BY <1>8, <2>4, <2>5
  <2>7. CASE s = Main(r, off)
    <3>1. r <= N BY <2>4
    <3> QED BY <1>2, <2>2, <2>4, <2>5, <2>6, <2>7, <3>1, SpreadKeeps
  <2>8. CASE s # Main(r, off)
    <3>1. r # 0 /\ ~(r < off) /\ s = "M" /\ Main(r, off) = "C" BY <2>3, <2>8, SwitchesIs DEF Main
    <3>2. m = <<c, r, "C">> /\ n = <<c, r, "M">> BY <2>2, <2>5, <3>1
    <3>3. m # Outside BY <1>5, <2>5
    <3>4. <<m, <<1, "east">>>> \notin net.blocked BY <1>4, <1>4a, <1>4b, <3>1, <3>2
    <3>5. Neighbour(m, "east", off) = n BY <3>1, <3>2, Wires
    <3>6. PICK k \in Nat : k = r + 1 BY <2>4
    <3>7. Neighbour(m, "east", off) \in f[r + 1] BY <1>2, <1>4, <2>4, <2>6, <3>3, <3>4, TurnReaches
    <3>8. n \in f[k] /\ k <= N BY <2>4, <3>5, <3>6, <3>7
    <3>9. n \in f[N] BY <1>2, <3>8, SpreadKeeps
    <3> QED BY <1>2, <3>9
  <2> QED BY <2>7, <2>8
<1>10. PICK T : T = {n \in Nodes(off) : n[3] # "B"} OBVIOUS
<1>11. ASSUME NEW n \in T, NEW d \in Dirs, <<n, <<1, d>>>> \notin net.blocked PROVE Neighbour(n, d, off) \in T
  <2>1. PICK c \in Column, r \in Row : \E s \in Switches(r, off) : n = <<c, r, s>> BY <1>10, NodeIs
  <2>2. PICK s \in Switches(r, off) : n = <<c, r, s>> BY <2>1
  <2>3. s # "B" BY <1>10, <2>2
  <2>4. s = Main(r, off) \/ (s = "M" /\ ~(r < off) /\ r # 0) BY <2>3, SwitchesIs DEF Main
  <2>5. s = Main(r, off) /\ ((d = "north" /\ r # NumRows - 1) \/ (d = "east" /\ s = "C" /\ r # 0 /\ ~(r < off)))
    <3>1. CASE r = 0 BY <1>11, <2>2, <2>3, <2>4, <3>1, ShimWires DEF net, Main
    <3>2. CASE r # 0 /\ r < off BY <1>4a, <1>4b, <1>11, <2>2, <2>3, <2>4, <3>2 DEF Main
    <3>3. CASE r # 0 /\ ~(r < off)
      <4>1. s # "M"
        <5> SUFFICES ASSUME s = "M" PROVE FALSE OBVIOUS
        <5>1. <<<<c, r, "M">>, <<1, d>>>> \in net.blocked BY <1>4a, <1>4b, <3>3
        <5> QED BY <1>11, <2>2, <5>1
      <4>2. s = "C" BY <2>4, <3>3, <4>1 DEF Main
      <4> QED BY <1>4a, <1>4b, <1>11, <2>2, <2>4, <3>3, <4>1, <4>2
    <3> QED BY <3>1, <3>2, <3>3
  <2>6. CASE d = "north" /\ r # NumRows - 1
    <3>1. PICK q \in Row : q = r + 1 /\ Neighbour(n, d, off) = <<c, q, Main(q, off)>> BY <2>2, <2>5, <2>6, Wires
    <3>2. <<c, q, Main(q, off)>> \in Nodes(off) BY <1>5
    <3> QED BY <1>10, <3>1, <3>2 DEF Main
  <2>7. CASE d = "east" /\ s = "C" /\ r # 0 /\ ~(r < off)
    <3>1. Neighbour(n, d, off) = <<c, r, "M">> BY <2>2, <2>7, Wires
    <3>2. <<c, r, "M">> \in Nodes(off) BY <1>4, <1>4b, <2>7
    <3> QED BY <1>10, <3>1, <3>2
  <2> QED BY <2>5, <2>6, <2>7
<1>12. from \subseteq T
  <2>1. \A c \in Column : <<c, 0, "A">> \in T BY <1>4, <1>10, ShimWires
  <2> QED BY <2>1
<1>13. S \subseteq T BY <1>11, <1>12, SpreadStays DEF net
<1> QED BY <1>9, <1>10, <1>13

\* In the network that is built, the event gets to every interface tile on the second
\* channel and to all other modules on the first, and does not leave the partition.
LEMMA Delivers ==
  ASSUME NEW event, event # "BROADCAST_2", NEW off \in {1, 2},
         NEW got, got = Delivered(Built(event, off), event, off)
  PROVE  /\ \A c \in Column : <<c, 0, "A">> \in got[2]
         /\ \A n \in Nodes(off) : n[3] # "B" => n \in got[1]
         /\ Outside \notin got[1] \cup got[2]
<1>1. PICK src : src = Built(event, off).sources OBVIOUS
<1>2. src = {[at |-> <<0, 0, "A">>, ch |-> ch, event |-> event] : ch \in {1, 2}}
              \cup {[at |-> <<c, 0, "A">>, ch |-> 1, event |-> "BROADCAST_2"] : c \in Column \ {0}}
  BY <1>1 DEF Built, build2ChannelBroadcastNetwork, Clean
<1>3. PICK in2 : in2 = {s.at : s \in {s \in src : s.ch = 2 /\ s.event = event}} OBVIOUS
<1>4. PICK in1 : in1 = {s.at : s \in {s \in src : s.ch = 1 /\ s.event = event}} OBVIOUS
<1>5. PICK rest : rest = {s.at : s \in {s \in src : s.ch = 1 /\ s.event = "BROADCAST_2"}} OBVIOUS
<1>5a. PICK enter : enter = [ch \in {1, 2} |-> [at |-> <<0, 0, "A">>, ch |-> ch, event |-> event]] OBVIOUS
<1>5b. PICK pass : pass = [c \in Column \ {0} |-> [at |-> <<c, 0, "A">>, ch |-> 1, event |-> "BROADCAST_2"]] OBVIOUS
<1>5c. /\ \A ch \in {1, 2} : enter[ch] \in src
       /\ \A c \in Column \ {0} : pass[c] \in src
       /\ \A s \in src : (\E ch \in {1, 2} : s = enter[ch]) \/ (\E c \in Column \ {0} : s = pass[c])
  BY <1>2, <1>5a, <1>5b
<1>5d. /\ \A ch \in {1, 2} : enter[ch].at = <<0, 0, "A">> /\ enter[ch].ch = ch /\ enter[ch].event = event
       /\ \A c \in Column \ {0} : pass[c].at = <<c, 0, "A">> /\ pass[c].ch = 1 /\ pass[c].event = "BROADCAST_2"
  BY <1>5a, <1>5b
<1>6. in2 = {<<0, 0, "A">>}
  <2>1. <<0, 0, "A">> \in in2 BY <1>3, <1>5c, <1>5d
  <2>2. ASSUME NEW x \in in2 PROVE x = <<0, 0, "A">>
    <3>1. PICK s \in src : s.ch = 2 /\ s.event = event /\ x = s.at BY <1>3
    <3> QED BY <1>5c, <1>5d, <3>1
  <2> QED BY <2>1, <2>2
<1>7. in1 = {<<0, 0, "A">>}
  <2>1. <<0, 0, "A">> \in in1 BY <1>4, <1>5c, <1>5d
  <2>2. ASSUME NEW x \in in1 PROVE x = <<0, 0, "A">>
    <3>1. PICK s \in src : s.ch = 1 /\ s.event = event /\ x = s.at BY <1>4
    <3> QED BY <1>5c, <1>5d, <3>1
  <2> QED BY <2>1, <2>2
<1>8. rest = {<<c, 0, "A">> : c \in Column \ {0}}
  <2>1. \A c \in Column \ {0} : <<c, 0, "A">> \in rest BY <1>5, <1>5c, <1>5d
  <2>2. ASSUME NEW x \in rest PROVE \E c \in Column \ {0} : x = <<c, 0, "A">>
    <3>1. PICK s \in src : s.ch = 1 /\ s.event = "BROADCAST_2" /\ x = s.at BY <1>5
    <3> QED BY <1>5c, <1>5d, <3>1
  <2> QED BY <2>1, <2>2
<1>9. PICK second : second = Spread(Built(event, off), in2, 2, off) OBVIOUS
<1>10. PICK first : first = Spread(Built(event, off), in1 \cup (rest \cap second), 1, off) OBVIOUS
<1>11. got[2] = second /\ got[1] = first
  BY <1>1, <1>3, <1>4, <1>5, <1>9, <1>10 DEF Delivered
<1>12. /\ \A c \in Column : <<c, 0, "A">> \in second
       /\ \A n \in second : \E c \in Column : n = <<c, 0, "A">> \/ n = <<c, 0, "B">>
  BY <1>6, <1>9, RowReached
<1>13. 0 \in Column BY GridAssumption DEF Column
<1>14. in1 \cup (rest \cap second) = {<<c, 0, "A">> : c \in Column} BY <1>7, <1>8, <1>12, <1>13
<1>15. (\A n \in Nodes(off) : n[3] # "B" => n \in first) /\ first \subseteq Nodes(off)
  BY <1>10, <1>14, ColumnsReached
<1>16. Outside \notin first
  <2>1. Outside \notin Nodes(off)
    <3> SUFFICES ASSUME Outside \in Nodes(off) PROVE FALSE OBVIOUS
    <3>1. PICK c \in Column, r \in Row : \E s \in Switches(r, off) : Outside = <<c, r, s>> BY NodeIs
    <3>2. c = -1 BY <3>1 DEF Outside
    <3> QED BY <3>2, GridAssumption DEF Column
  <2> QED BY <1>15, <2>1
<1>17. Outside \notin second BY <1>12 DEF Outside
<1> QED BY <1>11, <1>12, <1>15, <1>16, <1>17

-----------------------------------------------------------------------------
(* AieTrace: the tiles in the database                                     *)

\* Records, by their fields
IsUnit(m) == m = [state |-> m.state, start |-> m.start, stop |-> m.stop, events |-> m.events,
                  packet |-> m.packet, flushed |-> m.flushed]
IsCfg(c) == c = [loc |-> c.loc, set |-> c.set, core |-> c.core, mem |-> c.mem, pl |-> c.pl, bc |-> c.bc,
                 mask |-> c.mask, counters |-> c.counters]
IsCur(c) == c = [coreEvents |-> c.coreEvents, memoryEvents |-> c.memoryEvents,
                 interfaceEvents |-> c.interfaceEvents, cfg |-> c.cfg] /\ IsCfg(c.cfg)
IsSt(s) == s = [pc |-> s.pc, at |-> s.at, cur |-> s.cur, coreStart |-> s.coreStart, memStart |-> s.memStart,
                plStart |-> s.plStart, coreEnd |-> s.coreEnd, flushLocs |-> s.flushLocs,
                perfCounters |-> s.perfCounters, streamPorts |-> s.streamPorts, faults |-> s.faults,
                timers |-> s.timers] /\ IsCur(s.cur)
IsDev(d) == d = [mods |-> d.mods, counters |-> d.counters, ports |-> d.ports]
             /\ \A u \in DOMAIN d.mods : IsUnit(d.mods[u])

\* What TilesRecorded asks of a module m that configuration c of a tile describes
Resolved(cfg, e) == IF e.bc < 0 THEN e.event ELSE cfg.bc[e.bc]
Agrees(cfg, c, m, layer) ==
  /\ m.state = "on" /\ m.packet = c.packet /\ m.stop = Resolved(cfg, c.stop)
  /\ m.events = [k \in DOMAIN c.events |-> Resolved(cfg, c.events[k])]
  /\ layer \/ m.start \in {Resolved(cfg, c.start), "COMBO_EVENT_0"}

\* and of all modules of a tile of that type
Traced(cfg, mods, type, layer) ==
  /\ type = "core" => /\ <<cfg.loc, "core">> \in DOMAIN mods
                      /\ Agrees(cfg, cfg.core, mods[<<cfg.loc, "core">>], layer)
  /\ type # "shim" => /\ <<cfg.loc, "mem">> \in DOMAIN mods
                      /\ Agrees(cfg, cfg.mem, mods[<<cfg.loc, "mem">>], layer)
  /\ type = "shim" => /\ <<cfg.loc, "pl">> \in DOMAIN mods
                      /\ Agrees(cfg, cfg.pl, mods[<<cfg.loc, "pl">>], layer)
  /\ isDmaSet(cfg.set) \/ cfg.mask = DOMAIN cfg.bc

\* Another tile is still traced as the database says.
LEMMA TracedWith ==
  ASSUME NEW cfg, NEW mods, NEW type, NEW layer, Traced(cfg, mods, type, layer),
         NEW loc, loc # cfg.loc, NEW mod, NEW m
  PROVE  Traced(cfg, With(mods, <<loc, mod>>, m), type, layer)
<1>1. PICK more : more = With(mods, <<loc, mod>>, m) OBVIOUS
<1>2. \A v \in DOMAIN mods : v # <<loc, mod>> => v \in DOMAIN more /\ more[v] = mods[v] BY <1>1 DEF With
<1>3. <<cfg.loc, "core">> # <<loc, mod>> /\ <<cfg.loc, "mem">> # <<loc, mod>> /\ <<cfg.loc, "pl">> # <<loc, mod>>
  OBVIOUS
<1> QED BY <1>1, <1>2, <1>3 DEF Traced

-----------------------------------------------------------------------------
(* What the stages change                                                  *)

\* The type of the tile at a location, and whether the start is broadcast
TypeIn(o, loc) == getModuleType(loc[2], Offset(o.gen))
Casts(o) == o.multi /\ o.broadcast /\ o.start # "layer"

\* The settings, which never change
OptOK(o) ==
  /\ o.tiles \in TileLists /\ o.start \in {"none", "delay", "delay2", "iteration", "user", "layer"}
  /\ o.multi \in BOOLEAN /\ o.broadcast \in BOOLEAN /\ o.left \in {0, 1}
  /\ <<o.shim, o.gen>> \in Styles /\ (o.shim = "edge" => ~o.multi /\ o.start # "layer")
  /\ o.layer \in BOOLEAN /\ (o.layer => o.start = "layer") /\ o.shift \in Nat
  /\ \A i \in DOMAIN o.tiles : o.tiles[i].loc[1] - o.shift \in Column
  /\ \A i \in DOMAIN o.tiles : o.tiles[i].set \in SetsOf(TypeIn(o, o.tiles[i].loc))

\* The members that most stages leave alone
Same(s, s2) ==
  /\ IsSt(s2) /\ s2.memStart = s.memStart /\ s2.plStart = s.plStart /\ s2.coreEnd = s.coreEnd
  /\ s2.timers = s.timers
SameStarts(s, s2) == Same(s, s2) /\ s2.coreStart = s.coreStart /\ s2.flushLocs = s.flushLocs

\* The tiles of the settings.
LEMMA TileShape ==
  ASSUME NEW o, OptOK(o)
  PROVE  /\ Len(o.tiles) \in Nat /\ DOMAIN o.tiles = 1..Len(o.tiles)
         /\ \A i \in 1..Len(o.tiles) : /\ o.tiles[i].loc \in Nat \X Row /\ o.tiles[i].active \in BOOLEAN
                                       /\ o.tiles[i].set \in SetsOf(TypeIn(o, o.tiles[i].loc))
         /\ \A i, j \in 1..Len(o.tiles) : o.tiles[i].loc = o.tiles[j].loc => i = j
         /\ Offset(o.gen) \in {1, 2}
         /\ \A loc : TypeIn(o, loc) \in {"core", "mem_tile", "shim"}
<1>1. PICK t : t = o.tiles OBVIOUS
<1>2. /\ t \in Seq([loc : Nat \X Row, set : STRING, active : BOOLEAN])
      /\ \A i, j \in DOMAIN t : t[i].loc = t[j].loc => i = j
  BY <1>1, TilesAssumption DEF OptOK
<1>3. Len(t) \in Nat /\ DOMAIN t = 1..Len(t) /\ \A i \in 1..Len(t) : t[i].loc \in Nat \X Row /\ t[i].active \in BOOLEAN
  <2>1. PICK S : S = [loc : Nat \X Row, set : STRING, active : BOOLEAN] OBVIOUS
  <2>2. t \in Seq(S) BY <1>2, <2>1
  <2>3. Len(t) \in Nat /\ DOMAIN t = 1..Len(t) /\ \A i \in 1..Len(t) : t[i] \in S BY <2>2
  <2>4. \A r \in S : r.loc \in Nat \X Row /\ r.active \in BOOLEAN BY <2>1
  <2> QED BY <2>3, <2>4
<1>4. \A i \in 1..Len(t) : t[i].set \in SetsOf(TypeIn(o, t[i].loc)) BY <1>1, <1>3 DEF OptOK
<1>5. Offset(o.gen) \in {1, 2} /\ \A loc : TypeIn(o, loc) \in {"core", "mem_tile", "shim"}
  BY DEF Offset, TypeIn, getModuleType
<1> QED BY <1>1, <1>2, <1>3, <1>4, <1>5

\* setMetricsSettings
LEMMA SetupIs ==
  ASSUME NEW o, o = ttOpt, NEW s, s = ttSt, IsSt(s), setMetricsSettings
  PROVE  /\ s.pc = "new" /\ ttOpt' = o /\ ttDev' = ttDev /\ ttDb' = ttDb
         /\ IsSt(ttSt') /\ ttSt'.pc = "tile" /\ ttSt'.at = s.at /\ ttSt'.cur = s.cur
         /\ ttSt'.flushLocs = s.flushLocs
         /\ ttSt'.coreStart = (IF o.start = "user" THEN "INSTR_EVENT_0"
                               ELSE IF Casts(o) THEN "BROADCAST_1_CORE" ELSE s.coreStart)
         /\ ttSt'.memStart = (IF Casts(o) THEN "BROADCAST_1" ELSE s.memStart)
         /\ ttSt'.plStart = (IF Casts(o) THEN "BROADCAST_2" ELSE s.plStart)
         /\ ttSt'.coreEnd = (IF o.shim = "edge" THEN "INSTR_EVENT_1" ELSE s.coreEnd)
BY DEF setMetricsSettings, Broadcasts, Casts, IsSt

\* beginTile: the tile is left out or done with, or its events are those of its set.
LEMMA BeginIs ==
  ASSUME NEW o, o = ttOpt, NEW s, s = ttSt, IsSt(s), OptOK(o), s.at \in 1..(Len(o.tiles) + 1), beginTile
  PROVE  /\ s.pc = "tile" /\ s.at \in 1..Len(o.tiles)
         /\ ttOpt' = o /\ ttDev' = ttDev /\ ttNet' = ttNet /\ ttDb' = ttDb
         /\ Same(s, ttSt') /\ ttSt'.coreStart = s.coreStart /\ s.flushLocs \subseteq ttSt'.flushLocs
         /\ \/ ttSt'.pc = "tile" /\ ttSt'.at = s.at + 1
            \/ ttSt'.pc = "failed" /\ ttSt'.at = s.at
            \/ /\ ttSt'.pc = "counters" /\ ttSt'.at = s.at
               /\ o.tiles[s.at].loc \in ttSt'.flushLocs
               /\ TypeIn(o, o.tiles[s.at].loc) = "core" => o.tiles[s.at].set \in {"functions", "all_dma"}
               /\ ttSt'.cur = [coreEvents |-> coreEventSets(o.tiles[s.at].set),
                               memoryEvents |-> IF TypeIn(o, o.tiles[s.at].loc) = "core"
                                                THEN memoryEventSets(o.tiles[s.at].set)
                                                ELSE memoryTileEventSets(o.tiles[s.at].set),
                               interfaceEvents |-> interfaceTileEventSets(o.tiles[s.at].set),
                               cfg |-> NewConfig(o.tiles[s.at])]
<1>1. s.pc = "tile" /\ s.at \in 1..Len(o.tiles)
      /\ ttOpt' = o /\ ttDev' = ttDev /\ ttNet' = ttNet /\ ttDb' = ttDb
  <2>1. s.pc = "tile" /\ s.at <= Len(o.tiles) /\ ttOpt' = o /\ ttDev' = ttDev /\ ttNet' = ttNet /\ ttDb' = ttDb
    BY DEF beginTile
  <2> QED BY <2>1, TileShape
<1>2. PICK t : t = o.tiles[s.at] OBVIOUS
<1>3. PICK type : type = TypeIn(o, t.loc) OBVIOUS
<1>4. PICK cur : cur = [coreEvents |-> coreEventSets(t.set),
                        memoryEvents |-> IF type = "core" THEN memoryEventSets(t.set) ELSE memoryTileEventSets(t.set),
                        interfaceEvents |-> interfaceTileEventSets(t.set), cfg |-> NewConfig(t)]
  OBVIOUS
<1>5. IsCur(cur) BY <1>4 DEF IsCur, IsCfg, NewConfig
<1>6. PICK seen : seen = [s EXCEPT !.flushLocs = s.flushLocs \cup {t.loc}] OBVIOUS
<1>7. /\ Tile = t /\ Loc = t.loc /\ Type = type /\ Remember(ttSt) = seen
  BY <1>2, <1>3, <1>6 DEF Tile, Loc, Type, TypeAt, TypeIn, Remember
<1>8. /\ ~(type = "core" /\ t.set = "execution" /\ t.active)
      /\ ttSt' = IF type = "core" /\ ~isDmaSet(t.set) /\ ~t.active THEN NextTile(s)
                 ELSE IF t.set = "unavailable" THEN NextTile(seen)
                 ELSE IF ~tileHasFreeRsc(t.loc, t.set) THEN [seen EXCEPT !.pc = "failed"]
                 ELSE [seen EXCEPT !.pc = "counters", !.cur = cur]
  BY <1>4, <1>7 DEF beginTile
<1>9. CASE ttSt' = NextTile(s) BY <1>1, <1>9 DEF NextTile, IsSt, Same
<1>10. CASE ttSt' = NextTile(seen) BY <1>1, <1>6, <1>10 DEF NextTile, IsSt, Same
<1>11. CASE ttSt' = [seen EXCEPT !.pc = "failed"] BY <1>1, <1>6, <1>11 DEF IsSt, Same
<1>12. CASE ttSt' = [seen EXCEPT !.pc = "counters", !.cur = cur]
             /\ ~(type = "core" /\ ~isDmaSet(t.set) /\ ~t.active) /\ t.set # "unavailable"
  <2>1. /\ Same(s, ttSt') /\ ttSt'.coreStart = s.coreStart /\ ttSt'.flushLocs = s.flushLocs \cup {t.loc}
        /\ ttSt'.pc = "counters" /\ ttSt'.at = s.at /\ ttSt'.cur = cur
    BY <1>5, <1>6, <1>12 DEF IsSt, Same
  <2>2. type = "core" => t.set \in {"functions", "all_dma"}
    <3>1. t.set \in SetsOf(type) /\ t.active \in BOOLEAN BY <1>1, <1>2, <1>3, TileShape
    <3> QED BY <1>8, <1>12, <3>1 DEF SetsOf, isDmaSet
  <2> QED BY <1>1, <1>2, <1>3, <1>4, <2>1, <2>2
<1> QED BY <1>8, <1>9, <1>10, <1>11, <1>12

\* The events that modules trace
Words == {"call", "port", "select", "stream switch", "PERF_CNT_0_CORE", "mem counter"}

\* A slot, a counter or a port that a tile has left is a number.
LEMMA LeftIs ==
  ASSUME NEW o, o = ttOpt, OptOK(o), NEW loc, NEW kind
  PROVE  Left(loc, kind) \in Nat
BY DEF Left, OptOK, Plenty

\* TraceModule: the module is left alone, reserved or on, with as many events
\* as it has slots; the configuration of the tile says the same.
ModuleDone(st, dev, st2, dev2, u, start, stop, events, packet, rec, next) ==
  /\ SameStarts(st, st2) /\ st2.at = st.at /\ IsDev(dev2)
  /\ \/ /\ st2.pc = "ready" /\ st2.cur = st.cur /\ dev2.counters = dev.counters
        /\ \/ dev2.mods = dev.mods
           \/ \E got : dev2.mods = With(dev.mods, u, TraceUnit("reserved", start, stop, got, packet))
     \/ st2.pc = "failed" /\ st2.cur = st.cur /\ dev2.mods = dev.mods
     \/ \E n \in 0..Len(events) :
          /\ st2.pc = next /\ st2.cur = [st.cur EXCEPT !.cfg = rec[n]] /\ dev2.counters = dev.counters
          /\ dev2.mods = With(dev.mods, u, TraceUnit("on", start, stop, SubSeq(events, 1, n), packet))

\* TraceModule does one of these.
LEMMA ModuleIs ==
  ASSUME NEW f \in {"ok", "cntr", "control", "slot", "mode"}, NEW mod, NEW st, IsSt(st), NEW dev, IsDev(dev),
         NEW slots, slots \in Nat, NEW start, NEW stop, NEW events, events \in Seq(Words), NEW packet, NEW rec,
         \A n \in 0..Len(events) : IsCfg(rec[n]), NEW next, f = "slot" => Len(events) > 0,
         NEW loc, loc = Loc,
         TraceModule(f, mod, st, dev, slots, start, stop, events, packet, rec, next)
  PROVE  ModuleDone(st, dev, ttSt', ttDev', <<loc, mod>>, start, stop, events, packet, rec, next)
<1>1. PICK n : n = IF f = "slot" THEN Len(events) - 1 ELSE IF slots < Len(events) THEN slots ELSE Len(events) OBVIOUS
<1>2. n \in 0..Len(events) BY <1>1
<1>3. PICK got : got = SubSeq(events, 1, n) OBVIOUS
<1> DEFINE Put(state) == [dev EXCEPT !.mods = With(dev.mods, <<loc, mod>>, TraceUnit(state, start, stop, got, packet))]
           At(pc) == [st EXCEPT !.pc = pc, !.faults = Faults(f)]
<1>4. (CASE f = "cntr" -> ttSt' = At("ready") /\ ttDev' = dev
       [] f = "control" -> ttSt' = At("failed") /\ ttDev' = Freed(dev, st)
       [] f = "mode" -> ttSt' = At("ready") /\ ttDev' = Put("reserved")
       [] f \in {"ok", "slot"} -> ttSt' = [At(next) EXCEPT !.cur.cfg = rec[n]] /\ ttDev' = Put("on"))
  BY <1>1, <1>3, Zenon DEF TraceModule
<1>5. ASSUME NEW pc PROVE SameStarts(st, At(pc)) /\ At(pc).at = st.at /\ At(pc).pc = pc /\ At(pc).cur = st.cur
  <2>1. PICK x : x = Faults(f) OBVIOUS
  <2>2. PICK a : a = [st EXCEPT !.pc = pc, !.faults = x] OBVIOUS
  <2>3. At(pc) = a BY <2>1, <2>2
  <2>4. IsSt(a) /\ SameStarts(st, a) /\ a.at = st.at /\ a.pc = pc /\ a.cur = st.cur BY <2>2 DEF IsSt, SameStarts, Same
  <2> HIDE DEF At
  <2> QED BY <2>3, <2>4
<1>6. ASSUME NEW state
      PROVE  /\ IsDev(Put(state)) /\ Put(state).counters = dev.counters
             /\ Put(state).mods = With(dev.mods, <<loc, mod>>, TraceUnit(state, start, stop, got, packet))
  <2>1. PICK m : m = TraceUnit(state, start, stop, got, packet) OBVIOUS
  <2>2. IsUnit(m) BY <2>1 DEF IsUnit, TraceUnit
  <2>3. PICK more : more = With(dev.mods, <<loc, mod>>, m) OBVIOUS
  <2>4. \A u \in DOMAIN more : IsUnit(more[u])
    <3>1. \A u \in DOMAIN dev.mods : IsUnit(dev.mods[u]) BY DEF IsDev
    <3>2. /\ DOMAIN more = DOMAIN dev.mods \cup {<<loc, mod>>} /\ more[<<loc, mod>>] = m
          /\ \A v \in DOMAIN dev.mods : v # <<loc, mod>> => more[v] = dev.mods[v]
      BY <2>3 DEF With
    <3> QED BY <2>2, <3>1, <3>2
  <2>5. Put(state) = [dev EXCEPT !.mods = more] BY <2>1, <2>3
  <2> HIDE DEF Put
  <2>6. IsDev(Put(state)) /\ Put(state).counters = dev.counters /\ Put(state).mods = more BY <2>4, <2>5 DEF IsDev
  <2> QED BY <2>1, <2>3, <2>6
<1>7. CASE f = "cntr"
  <2>1. ttSt' = At("ready") /\ ttDev' = dev BY <1>4, <1>7
  <2> HIDE DEF At
  <2> QED BY <1>5, <2>1 DEF ModuleDone
<1>8. CASE f = "control"
  <2>1. ttSt' = At("failed") /\ ttDev' = Freed(dev, st) BY <1>4, <1>8
  <2>2. IsDev(ttDev') /\ ttDev'.mods = dev.mods BY <2>1 DEF Freed, IsDev
  <2> HIDE DEF At
  <2> QED BY <1>5, <2>1, <2>2 DEF ModuleDone
<1>9. CASE f = "mode"
  <2>1. ttSt' = At("ready") /\ ttDev' = Put("reserved") BY <1>4, <1>9
  <2> HIDE DEF At, Put
  <2> QED BY <1>5, <1>6, <2>1 DEF ModuleDone
<1>10. CASE f \in {"ok", "slot"}
  <2>1. ttSt' = [At(next) EXCEPT !.cur.cfg = rec[n]] /\ ttDev' = Put("on") BY <1>4, <1>10
  <2>2. IsCfg(rec[n]) BY <1>2
  <2>3. PICK a : a = At(next) OBVIOUS
  <2>4. IsSt(a) /\ SameStarts(st, a) /\ a.at = st.at /\ a.pc = next /\ a.cur = st.cur BY <1>5, <2>3 DEF SameStarts, Same
  <2> HIDE DEF At, Put
  <2>5. PICK c : c = [st.cur EXCEPT !.cfg = rec[n]] OBVIOUS
  <2>6. IsCur(c) BY <2>2, <2>5 DEF IsCur, IsSt
  <2>7. ttSt' = [a EXCEPT !.cur = c] BY <2>1, <2>3, <2>4, <2>5 DEF IsSt
  <2>8. SameStarts(a, ttSt') /\ ttSt'.at = a.at /\ ttSt'.pc = a.pc /\ ttSt'.cur = c
    BY <2>4, <2>6, <2>7 DEF IsSt, SameStarts, Same
  <2>9. SameStarts(st, ttSt') /\ ttSt'.at = st.at /\ ttSt'.pc = next BY <2>4, <2>8 DEF SameStarts, Same
  <2>10. /\ IsDev(ttDev') /\ ttDev'.counters = dev.counters
         /\ ttDev'.mods = With(dev.mods, <<loc, mod>>, TraceUnit("on", start, stop, SubSeq(events, 1, n), packet))
    BY <1>3, <1>6, <2>1
  <2> QED BY <1>2, <2>5, <2>8, <2>9, <2>10 DEF ModuleDone
<1> QED BY <1>7, <1>8, <1>9, <1>10

\* The counters of the workaround and of a delayed start, and what cores start on
NumsIn(o) == IF o.gen = 1 THEN 1 ELSE 0
DelaysIn(o) == CASE o.start = "delay" -> 1 [] o.start = "delay2" -> 2 [] o.start = "iteration" -> 1 [] OTHER -> 0
StartIn(o, s) == IF DelaysIn(o) = 0 THEN s.coreStart ELSE CounterEvent[NumsIn(o) + DelaysIn(o)]

\* executionTile: the core is traced and the database is told, unless its trace
\* control was not to be had.
LEMMA ExecutionIs ==
  ASSUME NEW o, o = ttOpt, NEW s, s = ttSt, NEW d, d = ttDev, NEW db, db = ttDb, IsSt(s), IsDev(d), OptOK(o),
         s.at \in 1..(Len(o.tiles) + 1), NEW f \in {"ok", "control", "start"}, executionTile(f)
  PROVE  /\ s.pc = "tile" /\ s.at \in 1..Len(o.tiles) /\ ttOpt' = o /\ ttNet' = ttNet
         /\ TypeIn(o, o.tiles[s.at].loc) = "core" /\ o.tiles[s.at].set = "execution"
         /\ Same(s, ttSt') /\ ttSt'.coreStart = s.coreStart /\ ttSt'.pc = "tile" /\ ttSt'.at = s.at + 1
         /\ ttSt'.flushLocs = s.flushLocs \cup {o.tiles[s.at].loc}
         /\ \/ ttDev' = d /\ ttDb' = db
            \/ /\ IsDev(ttDev') /\ ttDev'.counters = d.counters /\ ttDb' = Append(db, NewConfig(o.tiles[s.at]))
               /\ \E state : ttDev'.mods = With(d.mods, <<o.tiles[s.at].loc, "core">>,
                                                TraceUnit(state, s.coreStart, s.coreEnd, <<"TRUE">>, 0))
<1>1. PICK t : t = o.tiles[s.at] OBVIOUS
<1>2. Tile = t /\ Loc = t.loc /\ Type = TypeIn(o, t.loc) BY <1>1 DEF Tile, Loc, Type, TypeAt, TypeIn
<1>3. s.at \in 1..Len(o.tiles)
  <2>1. s.at <= Len(o.tiles) BY DEF executionTile
  <2> QED BY <2>1, TileShape
<1>4. PICK x : x = Faults(f) OBVIOUS
<1>5. /\ s.pc = "tile" /\ ttOpt' = o /\ ttNet' = ttNet /\ TypeIn(o, t.loc) = "core" /\ t.set = "execution"
      /\ ttSt' = NextTile([Remember(s) EXCEPT !.faults = x])
  BY <1>2, <1>4 DEF executionTile
<1>6. /\ Same(s, ttSt') /\ ttSt'.coreStart = s.coreStart /\ ttSt'.pc = "tile" /\ ttSt'.at = s.at + 1
      /\ ttSt'.flushLocs = s.flushLocs \cup {t.loc}
  <2>1. PICK r : r = [s EXCEPT !.flushLocs = s.flushLocs \cup {t.loc}] OBVIOUS
  <2>2. Remember(s) = r BY <1>2, <2>1 DEF Remember
  <2>3. IsSt(r) BY <2>1 DEF IsSt
  <2>4. PICK q : q = [r EXCEPT !.faults = x] OBVIOUS
  <2>5. ttSt' = [q EXCEPT !.at = q.at + 1, !.pc = "tile"] BY <1>5, <2>2, <2>4 DEF NextTile
  <2>6. /\ r.memStart = s.memStart /\ r.plStart = s.plStart /\ r.coreEnd = s.coreEnd /\ r.timers = s.timers
        /\ r.coreStart = s.coreStart /\ r.at = s.at /\ r.flushLocs = s.flushLocs \cup {t.loc} BY <2>1 DEF IsSt
  <2>7. IsSt(q) /\ q.memStart = r.memStart /\ q.plStart = r.plStart /\ q.coreEnd = r.coreEnd /\ q.timers = r.timers
        /\ q.coreStart = r.coreStart /\ q.at = r.at /\ q.flushLocs = r.flushLocs BY <2>3, <2>4 DEF IsSt
  <2>8. IsSt(ttSt') /\ ttSt'.memStart = q.memStart /\ ttSt'.plStart = q.plStart /\ ttSt'.coreEnd = q.coreEnd
        /\ ttSt'.timers = q.timers /\ ttSt'.coreStart = q.coreStart /\ ttSt'.at = q.at + 1 /\ ttSt'.pc = "tile"
        /\ ttSt'.flushLocs = q.flushLocs BY <2>5, <2>7 DEF IsSt
  <2> QED BY <2>6, <2>7, <2>8 DEF Same
<1>7. CASE f = "control" 
  <2>1. ttDev' = d /\ ttDb' = db BY <1>7 DEF executionTile
  <2> QED BY <1>1, <1>3, <1>5, <1>6, <2>1
<1>8. CASE f # "control"
  <2>1. PICK state : state = IF f = "start" THEN "reserved" ELSE "on" OBVIOUS
  <2>2. PICK m : m = TraceUnit(state, s.coreStart, s.coreEnd, <<"TRUE">>, 0) OBVIOUS
  <2>3. PICK more : more = With(d.mods, <<t.loc, "core">>, m) OBVIOUS
  <2>4. ttDev' = [d EXCEPT !.mods = more] /\ ttDb' = Append(db, NewConfig(t))
    BY <1>2, <1>8, <2>1, <2>2, <2>3 DEF executionTile
  <2>5. \A u \in DOMAIN more : IsUnit(more[u])
    <3>1. IsUnit(m) BY <2>2 DEF IsUnit, TraceUnit
    <3>2. \A u \in DOMAIN d.mods : IsUnit(d.mods[u]) BY DEF IsDev
    <3>3. /\ DOMAIN more = DOMAIN d.mods \cup {<<t.loc, "core">>} /\ more[<<t.loc, "core">>] = m
          /\ \A v \in DOMAIN d.mods : v # <<t.loc, "core">> => more[v] = d.mods[v]
      BY <2>3 DEF With
    <3> QED BY <3>1, <3>2, <3>3
  <2>6. IsDev(ttDev') /\ ttDev'.counters = d.counters /\ ttDev'.mods = more BY <2>4, <2>5 DEF IsDev
  <2> QED BY <1>1, <1>3, <1>5, <1>6, <2>2, <2>3, <2>4, <2>6
<1> QED BY <1>7, <1>8

\* reserveCounters: there are no counters, or all are had and traced, or
\* configuration fails.
MemCounter == "mem counter"
CountersDone(o, s, d, s2, d2) ==
  /\ SameStarts(s, s2) /\ s2.at = s.at /\ IsDev(d2) /\ d2.mods = d.mods
  /\ \/ s2.pc = "failed" /\ s2.cur = s.cur
     \/ /\ d2 = d /\ s2.cur = s.cur
        /\ \/ TypeIn(o, o.tiles[s.at].loc) = "core" /\ s2.pc = "core"
           \/ TypeIn(o, o.tiles[s.at].loc) = "mem_tile" /\ s2.pc = "mem"
           \/ TypeIn(o, o.tiles[s.at].loc) = "shim" /\ s2.pc = "pl"
     \/ /\ TypeIn(o, o.tiles[s.at].loc) = "core" /\ s2.pc = "core"
        /\ \E got : /\ d2.counters = d.counters \cup got
                    /\ s2.cur = [coreEvents |-> Append(s.cur.coreEvents, "PERF_CNT_0_CORE"),
                                    memoryEvents |-> Append(s.cur.memoryEvents, MemCounter),
                                    interfaceEvents |-> s.cur.interfaceEvents,
                                    cfg |-> [s.cur.cfg EXCEPT !.counters = got]]

\* reserveCounters does one of these.
LEMMA CountersAre ==
  ASSUME NEW o, o = ttOpt, NEW s, s = ttSt, NEW d, d = ttDev, IsSt(s), IsDev(d), OptOK(o),
         NEW f \in {"ok", "core", "mem"}, reserveCounters(f)
  PROVE  /\ s.pc = "counters" /\ ttOpt' = o /\ ttNet' = ttNet /\ ttDb' = ttDb
         /\ CountersDone(o, s, d, ttSt', ttDev')
<1>1. PICK t : t = o.tiles[s.at] OBVIOUS
<1>2. PICK type : type = TypeIn(o, t.loc) OBVIOUS
<1>3. Tile = t /\ Loc = t.loc /\ Type = type BY <1>1, <1>2 DEF Tile, Loc, Type, TypeAt, TypeIn
<1>4. type \in {"core", "mem_tile", "shim"} BY <1>2, TileShape
<1>5. s.pc = "counters" /\ ttOpt' = o /\ ttNet' = ttNet /\ ttDb' = ttDb BY DEF reserveCounters
<1> DEFINE has(mod) == [loc |-> t.loc, mod |-> mod, id |-> 0]
<1>6. PICK got : got = CASE f = "ok" -> {has("core"), has("mem")} [] f = "core" -> {has("mem")} [] f = "mem" -> {has("core")}
  OBVIOUS
<1>7. PICK x : x = Faults(f) OBVIOUS
<1>8. PICK pcs : pcs = s.perfCounters \cup {<<c.loc, c.mod, c.id>> : c \in got} OBVIOUS
<1>9. PICK listed : listed = [s EXCEPT !.perfCounters = pcs, !.faults = x] OBVIOUS
<1>10. PICK to : to = Goto(CASE type = "core" -> "core" [] type = "mem_tile" -> "mem" [] type = "shim" -> "pl", "ok") OBVIOUS
<1>11. IF type # "core" \/ NumCounters = 0
       THEN ttSt' = to /\ ttDev' = d
       ELSE IF f = "ok"
       THEN /\ ttSt' = [listed EXCEPT !.pc = "core",
                           !.cur.coreEvents = Append(@, CounterEvent[1]),
                           !.cur.memoryEvents = Append(@, "mem counter"),
                           !.cur.cfg.counters = got]
            /\ ttDev' = [d EXCEPT !.counters = @ \cup got]
       ELSE /\ ttSt' = [listed EXCEPT !.pc = "failed"]
            /\ ttDev' = Freed([d EXCEPT !.counters = @ \cup got], listed)
  <2>1. listed = [ttSt EXCEPT !.perfCounters = @ \cup {<<c.loc, c.mod, c.id>> : c \in got}, !.faults = Faults(f)]
    BY <1>7, <1>8, <1>9
  <2> QED BY <1>3, <1>6, <1>10, <2>1, Zenon DEF reserveCounters
<1>12. /\ SameStarts(s, listed) /\ listed.at = s.at /\ listed.cur = s.cur /\ IsSt(listed)
  BY <1>9 DEF SameStarts, Same, IsSt
<1>13. CASE type # "core" \/ NumCounters = 0
  <2>1. ttSt' = to /\ ttDev' = d BY <1>11, <1>13
  <2>2. PICK p : p = CASE type = "core" -> "core" [] type = "mem_tile" -> "mem" [] type = "shim" -> "pl" OBVIOUS
  <2>3. PICK y : y = Faults("ok") OBVIOUS
  <2>4. to = [s EXCEPT !.pc = p, !.faults = y] BY <1>10, <2>2, <2>3 DEF Goto
  <2>5. SameStarts(s, to) /\ to.at = s.at /\ to.cur = s.cur /\ to.pc = p BY <2>4 DEF SameStarts, Same, IsSt
  <2>6. (type = "core" /\ p = "core") \/ (type = "mem_tile" /\ p = "mem") \/ (type = "shim" /\ p = "pl") BY <1>4, <2>2
  <2> QED BY <1>1, <1>2, <1>5, <2>1, <2>5, <2>6 DEF CountersDone
<1>14. CASE ~(type # "core" \/ NumCounters = 0) /\ f = "ok"
  <2>1. /\ ttSt' = [listed EXCEPT !.pc = "core", !.cur.coreEvents = Append(@, CounterEvent[1]),
                           !.cur.memoryEvents = Append(@, "mem counter"), !.cur.cfg.counters = got]
        /\ ttDev' = [d EXCEPT !.counters = @ \cup got]
    BY <1>11, <1>14
  <2>2. PICK cur : cur = [coreEvents |-> Append(s.cur.coreEvents, "PERF_CNT_0_CORE"),
                          memoryEvents |-> Append(s.cur.memoryEvents, "mem counter"),
                          interfaceEvents |-> s.cur.interfaceEvents,
                          cfg |-> [s.cur.cfg EXCEPT !.counters = got]] OBVIOUS
  <2>3. IsCur(cur) BY <2>2 DEF IsSt, IsCur, IsCfg
  <2>4. PICK ce : ce = Append(s.cur.coreEvents, "PERF_CNT_0_CORE") OBVIOUS
  <2>5. PICK me : me = Append(s.cur.memoryEvents, "mem counter") OBVIOUS
  <2>6. CounterEvent[1] = "PERF_CNT_0_CORE" BY DEF CounterEvent
  <2>7. ttSt' = [listed EXCEPT !.pc = "core", !.cur.coreEvents = ce, !.cur.memoryEvents = me, !.cur.cfg.counters = got]
    BY <1>12, <2>1, <2>4, <2>5, <2>6 DEF IsSt, IsCur
  <2>8. /\ SameStarts(listed, ttSt') /\ ttSt'.at = listed.at /\ ttSt'.pc = "core" /\ IsSt(ttSt')
        /\ ttSt'.cur.coreEvents = ce /\ ttSt'.cur.memoryEvents = me
        /\ ttSt'.cur.interfaceEvents = s.cur.interfaceEvents
        /\ ttSt'.cur.cfg = [s.cur.cfg EXCEPT !.counters = got]
    BY <1>12, <2>7 DEF SameStarts, Same, IsSt, IsCur, IsCfg
  <2>9. ttSt'.cur = cur BY <2>2, <2>4, <2>5, <2>8 DEF IsSt, IsCur
  <2>10. SameStarts(s, ttSt') BY <1>12, <2>8 DEF SameStarts, Same
  <2>11. IsDev(ttDev') /\ ttDev'.mods = d.mods /\ ttDev'.counters = d.counters \cup got BY <2>1 DEF IsDev
  <2>12. \E g : /\ ttDev'.counters = d.counters \cup g
                /\ ttSt'.cur = [coreEvents |-> Append(s.cur.coreEvents, "PERF_CNT_0_CORE"),
                                memoryEvents |-> Append(s.cur.memoryEvents, "mem counter"),
                                interfaceEvents |-> s.cur.interfaceEvents,
                                cfg |-> [s.cur.cfg EXCEPT !.counters = g]]
    BY <2>2, <2>9, <2>11, Zenon
  <2>13. type = "core" /\ ttSt'.at = s.at BY <1>12, <1>14, <2>8
  <2> QED BY <1>1, <1>2, <1>5, <2>8, <2>10, <2>11, <2>12, <2>13, Zenon DEF CountersDone, MemCounter
<1>15. CASE ~(type # "core" \/ NumCounters = 0) /\ f # "ok"
  <2>1. ttSt' = [listed EXCEPT !.pc = "failed"] /\ ttDev' = Freed([d EXCEPT !.counters = @ \cup got], listed)
    BY <1>11, <1>15
  <2>2. SameStarts(listed, ttSt') /\ ttSt'.at = listed.at /\ ttSt'.pc = "failed" /\ ttSt'.cur = listed.cur
    BY <1>12, <2>1 DEF SameStarts, Same, IsSt
  <2>3. SameStarts(s, ttSt') BY <1>12, <2>2 DEF SameStarts, Same
  <2>4. IsDev(ttDev') /\ ttDev'.mods = d.mods BY <2>1 DEF IsDev, Freed
  <2> QED BY <1>1, <1>5, <1>12, <2>2, <2>3, <2>4 DEF CountersDone
<1> QED BY <1>13, <1>14, <1>15

\* MemoryConfig describes the module: each event directly or by the channel that
\* brings it.
LEMMA MemoryConfigIs ==
  ASSUME NEW c0, c0 = Cur.cfg, IsCfg(c0), NEW type, type = Type,
         NEW events \in Seq(Words), NEW n \in 0..Len(events), NEW start, NEW stop,
         NEW c, c = MemoryConfig(events, n, start, stop)
  PROVE  /\ IsCfg(c) /\ c.loc = c0.loc /\ c.set = c0.set /\ c.core = c0.core /\ c.counters = c0.counters
         /\ c.mem.packet = (IF type = "mem_tile" THEN 3 ELSE 1)
         /\ Resolved(c, c.mem.start) = start /\ Resolved(c, c.mem.stop) = stop
         /\ DOMAIN c.mem.events = 1..n /\ \A i \in 1..n : Resolved(c, c.mem.events[i]) = events[i]
         /\ c.mask = (IF isCoreModuleEvent(stop) THEN DOMAIN c.bc ELSE {})
         /\ type # "core" => DOMAIN c.bc = {}
<1> DEFINE Via(e, id) == IF isCoreModuleEvent(e) /\ Type = "core" THEN Channel(id) ELSE Own(e)
<1> DEFINE traced == [i \in 1..n |-> Via(events[i], i + 1)]
           used == {v.bc : v \in {Via(start, 0), Via(stop, 1)} \cup {traced[i] : i \in 1..n}} \ {-1}
           bc == [id \in used |-> CASE id = 0 -> start [] id = 1 -> stop [] OTHER -> events[id - 1]]
           mem == [start |-> Via(start, 0), stop |-> Via(stop, 1), events |-> traced,
                   packet |-> IF Type = "mem_tile" THEN 3 ELSE 1]
           mask == IF isCoreModuleEvent(stop) THEN used ELSE {}
<1>1. c = [Cur.cfg EXCEPT !.mem = mem, !.bc = bc, !.mask = mask] BY Zenon DEF MemoryConfig
<1>2. traced = [i \in 1..n |-> Via(events[i], i + 1)] OBVIOUS
<1>3. used = {v.bc : v \in {Via(start, 0), Via(stop, 1)} \cup {traced[i] : i \in 1..n}} \ {-1} OBVIOUS
<1>4. bc = [id \in used |-> CASE id = 0 -> start [] id = 1 -> stop [] OTHER -> events[id - 1]] OBVIOUS
<1>5. mem = [start |-> Via(start, 0), stop |-> Via(stop, 1), events |-> traced,
             packet |-> IF Type = "mem_tile" THEN 3 ELSE 1] OBVIOUS
<1>6. mask = IF isCoreModuleEvent(stop) THEN used ELSE {} OBVIOUS
<1> HIDE DEF mask, mem, bc, used, traced
<1>7. c = [c0 EXCEPT !.mem = mem, !.bc = bc, !.mask = mask] BY <1>1
<1>8. /\ IsCfg(c) /\ c.loc = c0.loc /\ c.set = c0.set /\ c.core = c0.core /\ c.counters = c0.counters
      /\ c.mem = mem /\ c.bc = bc /\ c.mask = mask
  BY <1>7 DEF IsCfg
<1>9. mem.start = Via(start, 0) /\ mem.stop = Via(stop, 1) /\ mem.events = traced
      /\ mem.packet = (IF type = "mem_tile" THEN 3 ELSE 1)
  BY <1>5
<1>10. ASSUME NEW e, NEW id \in Nat
      PROVE  /\ Via(e, id) = IF isCoreModuleEvent(e) /\ type = "core" THEN [event |-> "broadcast", bc |-> id]
                             ELSE [event |-> e, bc |-> -1]
             /\ Via(e, id).bc \in Int
             /\ ~(isCoreModuleEvent(e) /\ type = "core") => Via(e, id).bc = -1 /\ Resolved(c, Via(e, id)) = e
             /\ isCoreModuleEvent(e) /\ type = "core" => Via(e, id).bc = id /\ Resolved(c, Via(e, id)) = c.bc[id]
  BY DEF Channel, Own, Resolved
<1>11. DOMAIN traced = 1..n /\ \A i \in 1..n : traced[i] = Via(events[i], i + 1) BY <1>2
<1> HIDE DEF Via
<1>12. n \in Nat /\ \A i \in 1..n : i + 1 \in Nat /\ i + 1 # 0 /\ i + 1 # 1 /\ i + 1 # -1 /\ (i + 1) - 1 = i OBVIOUS
<1>13. Resolved(c, c.mem.start) = start
  <2>1. CASE isCoreModuleEvent(start) /\ type = "core"
    <3>1. Via(start, 0).bc = 0 /\ Resolved(c, Via(start, 0)) = c.bc[0] BY <1>10, <2>1
    <3>2. 0 \in used BY <1>3, <3>1
    <3>3. bc[0] = start BY <1>4, <3>2
    <3> QED BY <1>8, <1>9, <3>1, <3>3
  <2>2. CASE ~(isCoreModuleEvent(start) /\ type = "core") BY <1>8, <1>9, <1>10, <2>2
  <2> QED BY <2>1, <2>2
<1>14. Resolved(c, c.mem.stop) = stop
  <2>1. CASE isCoreModuleEvent(stop) /\ type = "core"
    <3>1. Via(stop, 1).bc = 1 /\ Resolved(c, Via(stop, 1)) = c.bc[1] BY <1>10, <2>1
    <3>2. 1 \in used BY <1>3, <3>1
    <3>3. bc[1] = stop BY <1>4, <3>2
    <3> QED BY <1>8, <1>9, <3>1, <3>3
  <2>2. CASE ~(isCoreModuleEvent(stop) /\ type = "core") BY <1>8, <1>9, <1>10, <2>2
  <2> QED BY <2>1, <2>2
<1>15. ASSUME NEW i \in 1..n PROVE Resolved(c, traced[i]) = events[i]
  <2>1. PICK j : j = i + 1 OBVIOUS
  <2>2. j \in Nat /\ j # 0 /\ j # 1 /\ j # -1 /\ j - 1 = i BY <1>12, <2>1
  <2>3. PICK e : e = events[i] OBVIOUS
  <2>4. traced[i] = Via(e, j) BY <1>11, <2>1, <2>3
  <2>5. CASE isCoreModuleEvent(e) /\ type = "core"
    <3>1. Via(e, j).bc = j /\ Resolved(c, Via(e, j)) = c.bc[j] BY <1>10, <2>2, <2>5
    <3>2. j \in used BY <1>3, <2>2, <2>4, <3>1
    <3>3. bc[j] = events[j - 1] BY <1>4, <2>2, <3>2
    <3> QED BY <1>8, <2>2, <2>3, <2>4, <3>1, <3>3
  <2>6. CASE ~(isCoreModuleEvent(e) /\ type = "core") BY <1>10, <2>2, <2>3, <2>4, <2>6
  <2> QED BY <2>5, <2>6
<1>16. type # "core" => used = {}
  <2> SUFFICES ASSUME type # "core", NEW w \in used PROVE FALSE OBVIOUS
  <2>1. PICK v \in {Via(start, 0), Via(stop, 1)} \cup {traced[i] : i \in 1..n} : w = v.bc BY <1>3
  <2>2. w # -1 BY <1>3
  <2>3. Via(start, 0).bc = -1 /\ Via(stop, 1).bc = -1 BY <1>10
  <2>4. \A i \in 1..n : traced[i].bc = -1 BY <1>10, <1>11, <1>12
  <2> QED BY <2>1, <2>2, <2>3, <2>4
<1>17. DOMAIN bc = used BY <1>4
<1> QED BY <1>6, <1>8, <1>9, <1>11, <1>13, <1>14, <1>15, <1>16, <1>17

\* The configuration of a module names its events itself, without channels
AllOwn(c) == c.start.bc < 0 /\ c.stop.bc < 0 /\ \A k \in DOMAIN c.events : c.events[k].bc < 0

\* What memory modules and memory tiles start and end on
MemStart(o, s) ==
  LET core == TypeIn(o, o.tiles[s.at].loc) = "core"
  IN IF Casts(o) /\ core THEN "BROADCAST_1_MEM" ELSE IF core /\ isDmaSet(o.tiles[s.at].set) THEN "TRUE"
     ELSE IF core THEN s.coreStart ELSE s.memStart
MemStop(o, s) ==
  LET core == TypeIn(o, o.tiles[s.at].loc) = "core"
  IN IF core /\ isDmaSet(o.tiles[s.at].set) THEN "USER_EVENT_0_MEM" ELSE IF core THEN s.coreEnd ELSE "USER_EVENT_1_MEM"

\* The module is left as it was or was just reserved.
Unchanged(mods, u, mods2) == mods2 = mods \/ \E m : m.state = "reserved" /\ IsUnit(m) /\ mods2 = With(mods, u, m)

\* Stream ports leave the rest alone.
LEMMA PortsAre ==
  ASSUME NEW s, s = ttSt, IsSt(s), NEW d, d = ttDev, IsDev(d), NEW asked \in Seq(Words)
  PROVE  /\ configStreamSwitchPorts(asked) \in Seq(Words) /\ Len(configStreamSwitchPorts(asked)) = Len(asked)
         /\ SameStarts(s, PortSt(asked)) /\ PortSt(asked).at = s.at /\ PortSt(asked).cur = s.cur
         /\ IsDev(PortDev(asked)) /\ PortDev(asked).mods = d.mods /\ PortDev(asked).counters = d.counters
<1>1. configStreamSwitchPorts(asked) \in Seq(Words) /\ Len(configStreamSwitchPorts(asked)) = Len(asked)
  <2>1. Len(asked) \in Nat /\ DOMAIN asked = 1..Len(asked) /\ \A i \in 1..Len(asked) : asked[i] \in Words OBVIOUS
  <2>2. PICK q : q = configStreamSwitchPorts(asked) OBVIOUS
  <2>3. q = [i \in DOMAIN asked |-> IF HasPorts(asked) /\ asked[i] = "port" THEN "stream switch" ELSE asked[i]]
    BY <2>2 DEF configStreamSwitchPorts
  <2>4. ASSUME NEW i \in 1..Len(asked) PROVE q[i] \in Words
    <3>1. q[i] = IF HasPorts(asked) /\ asked[i] = "port" THEN "stream switch" ELSE asked[i] BY <2>1, <2>3, Zenon
    <3>2. q[i] = "stream switch" \/ q[i] = asked[i] BY <3>1, Zenon
    <3> QED BY <2>1, <3>2 DEF Words
  <2>5. q = [i \in 1..Len(asked) |-> q[i]]
    <3>1. DOMAIN q = 1..Len(asked) BY <2>1, <2>3, Zenon
    <3>2. q = [i \in DOMAIN q |-> q[i]] BY <2>3, Zenon
    <3> QED BY <3>1, <3>2, Zenon
  <2>6. q \in [1..Len(asked) -> Words] BY <2>4, <2>5
  <2>7. q \in Seq(Words) /\ Len(q) = Len(asked) BY <2>1, <2>6
  <2> QED BY <2>2, <2>7
<1>2. SameStarts(s, PortSt(asked)) /\ PortSt(asked).at = s.at /\ PortSt(asked).cur = s.cur
  <2>1. PICK p : p = IF HasPorts(asked) THEN {Loc} ELSE {} OBVIOUS
  <2>2. PICK a : a = PortSt(asked) OBVIOUS
  <2>3. a = [s EXCEPT !.streamPorts = p] BY <2>1, <2>2 DEF PortSt
  <2>4. IsSt(a) /\ SameStarts(s, a) /\ a.at = s.at /\ a.cur = s.cur BY <2>3 DEF IsSt, SameStarts, Same
  <2> QED BY <2>2, <2>4
<1>3. IsDev(PortDev(asked)) /\ PortDev(asked).mods = d.mods /\ PortDev(asked).counters = d.counters
  <2>1. PICK p : p = d.ports \cup IF HasPorts(asked) THEN {Loc} ELSE {} OBVIOUS
  <2>2. PICK a : a = PortDev(asked) OBVIOUS
  <2>3. a = [d EXCEPT !.ports = p] BY <2>1, <2>2 DEF PortDev
  <2>4. IsDev(a) /\ a.mods = d.mods /\ a.counters = d.counters BY <2>3 DEF IsDev
  <2> QED BY <2>2, <2>4
<1> QED BY <1>1, <1>2, <1>3

\* interfaceTrace
InterfaceDone(o, s, d, s2, d2) ==
  /\ SameStarts(s, s2) /\ s2.at = s.at /\ IsDev(d2)
  /\ \/ /\ s2.pc = "ready" /\ s2.cur = s.cur /\ d2.counters = d.counters
        /\ Unchanged(d.mods, <<o.tiles[s.at].loc, "pl">>, d2.mods)
     \/ s2.pc = "failed" /\ s2.cur = s.cur /\ d2.mods = d.mods
     \/ /\ s2.pc = "add" /\ d2.counters = d.counters
        /\ \E c, m : /\ IsCfg(c) /\ c.loc = s.cur.cfg.loc /\ c.set = s.cur.cfg.set
                     /\ c.counters = s.cur.cfg.counters /\ c.bc = s.cur.cfg.bc /\ c.mask = s.cur.cfg.mask
                     /\ s2.cur = [s.cur EXCEPT !.cfg = c] /\ IsUnit(m)
                     /\ d2.mods = With(d.mods, <<o.tiles[s.at].loc, "pl">>, m)
                     /\ m.start = (IF Casts(o) /\ o.tiles[s.at].loc[1] = 0 THEN "COMBO_EVENT_0" ELSE s.plStart)
                     /\ m.stop = "USER_EVENT_1_PL" /\ m.state = "on"
                     /\ Agrees(c, c.pl, m, o.start = "layer")

\* interfaceTrace does one of these.
LEMMA InterfaceIs ==
  ASSUME NEW o, o = ttOpt, NEW s, s = ttSt, NEW d, d = ttDev, IsSt(s), IsDev(d), OptOK(o),
         s.cur.interfaceEvents \in Seq(Words), s.cur.interfaceEvents # <<>>,
         NEW f \in {"ok", "cntr", "control", "slot", "mode"}, interfaceTrace(f)
  PROVE  /\ s.pc = "pl" /\ ttOpt' = o /\ ttNet' = ttNet /\ ttDb' = ttDb
         /\ InterfaceDone(o, s, d, ttSt', ttDev')
<1>1. PICK loc : loc = o.tiles[s.at].loc OBVIOUS
<1>2. Loc = loc /\ (Broadcasts <=> Casts(o)) BY <1>1 DEF Tile, Loc, Broadcasts, Casts
<1>3. PICK asked : asked = s.cur.interfaceEvents OBVIOUS
<1>4. PICK events : events = configStreamSwitchPorts(asked) OBVIOUS
<1>5. events \in Seq(Words) /\ Len(events) = Len(asked) /\ Len(asked) > 0 BY <1>3, <1>4, PortsAre
<1>6. PICK start : start = IF Casts(o) /\ loc[1] = 0 THEN "COMBO_EVENT_0" ELSE s.plStart OBVIOUS
<1>7. PICK st : st = IF f \in {"cntr", "control"} THEN s ELSE PortSt(asked) OBVIOUS
<1>8. PICK dev : dev = IF f \in {"cntr", "control"} THEN d ELSE PortDev(asked) OBVIOUS
<1>9. SameStarts(s, st) /\ st.at = s.at /\ st.cur = s.cur /\ IsDev(dev) /\ dev.mods = d.mods /\ dev.counters = d.counters
  <2>1. SameStarts(s, s) BY DEF SameStarts, Same
  <2> QED BY <1>3, <1>7, <1>8, <2>1, PortsAre
<1> DEFINE rec == [n \in 0..Len(events) |-> [s.cur.cfg EXCEPT !.pl =
                    [start |-> Own(s.plStart), stop |-> Own("USER_EVENT_1_PL"),
                     events |-> [i \in 1..n |-> Own(events[i])], packet |-> 4]]]
<1>10. /\ s.pc = "pl" /\ ttOpt' = o /\ ttNet' = ttNet /\ ttDb' = ttDb
       /\ TraceModule(f, "pl", st, dev, Left(loc, "plSlot"), start, "USER_EVENT_1_PL", events, 4, rec, "add")
  BY <1>2, <1>3, <1>4, <1>6, <1>7, <1>8, Zenon DEF interfaceTrace, Cur
<1>11. ASSUME NEW n \in 0..Len(events), NEW c, c = rec[n]
       PROVE  /\ IsCfg(c) /\ c.loc = s.cur.cfg.loc /\ c.set = s.cur.cfg.set
              /\ c.counters = s.cur.cfg.counters /\ c.bc = s.cur.cfg.bc /\ c.mask = s.cur.cfg.mask
              /\ c.pl.start = Own(s.plStart) /\ c.pl.stop = Own("USER_EVENT_1_PL") /\ c.pl.packet = 4
              /\ DOMAIN c.pl.events = 1..n /\ \A i \in 1..n : c.pl.events[i] = Own(events[i])
  <2>1. PICK es : es = [i \in 1..n |-> Own(events[i])] OBVIOUS
  <2>2. PICK pl : pl = [start |-> Own(s.plStart), stop |-> Own("USER_EVENT_1_PL"), events |-> es, packet |-> 4] OBVIOUS
  <2>3. c = [s.cur.cfg EXCEPT !.pl = pl] BY <1>11, <2>1, <2>2
  <2>4. IsCfg(s.cur.cfg) BY DEF IsSt, IsCur
  <2> QED BY <2>1, <2>2, <2>3, <2>4 DEF IsCfg
<1>12. PICK slots : slots = Left(loc, "plSlot") OBVIOUS
<1>13. slots \in Nat BY <1>12, LeftIs
<1> HIDE DEF rec
<1>14. IsSt(st) BY <1>9 DEF SameStarts, Same
<1>15. \A n \in 0..Len(events) : IsCfg(rec[n]) BY <1>11
<1>16. /\ SameStarts(st, ttSt') /\ ttSt'.at = st.at /\ IsDev(ttDev')
       /\ \/ /\ ttSt'.pc = "ready" /\ ttSt'.cur = st.cur /\ ttDev'.counters = dev.counters
             /\ \/ ttDev'.mods = dev.mods
                \/ \E got : ttDev'.mods = With(dev.mods, <<loc, "pl">>, TraceUnit("reserved", start, "USER_EVENT_1_PL", got, 4))
          \/ ttSt'.pc = "failed" /\ ttSt'.cur = st.cur /\ ttDev'.mods = dev.mods
          \/ \E n \in 0..Len(events) :
               /\ ttSt'.pc = "add" /\ ttSt'.cur = [st.cur EXCEPT !.cfg = rec[n]] /\ ttDev'.counters = dev.counters
               /\ ttDev'.mods = With(dev.mods, <<loc, "pl">>,
                                     TraceUnit("on", start, "USER_EVENT_1_PL", SubSeq(events, 1, n), 4))
  <2>1. PICK r : r = rec OBVIOUS
  <2>2. TraceModule(f, "pl", st, dev, slots, start, "USER_EVENT_1_PL", events, 4, r, "add") BY <1>10, <1>12, <2>1
  <2>3. \A n \in 0..Len(events) : IsCfg(r[n]) BY <1>15, <2>1
  <2>4. loc = Loc /\ (f = "slot" => Len(events) > 0) BY <1>2, <1>5
  <2>5. IsDev(dev) BY <1>9
  <2>6. ModuleDone(st, dev, ttSt', ttDev', <<loc, "pl">>, start, "USER_EVENT_1_PL", events, 4, r, "add")
    BY <1>5, <1>14, <1>13, <2>2, <2>3, <2>4, <2>5, ModuleIs, Zenon
  <2> QED BY <2>1, <2>6, Zenon DEF ModuleDone
<1>17. SameStarts(s, ttSt') /\ ttSt'.at = s.at /\ IsDev(ttDev') BY <1>9, <1>16 DEF SameStarts, Same
<1>18. CASE /\ ttSt'.pc = "ready" /\ ttSt'.cur = st.cur /\ ttDev'.counters = dev.counters
            /\ \/ ttDev'.mods = dev.mods
               \/ \E got : ttDev'.mods = With(dev.mods, <<loc, "pl">>, TraceUnit("reserved", start, "USER_EVENT_1_PL", got, 4))
  <2>1. \A got : LET m == TraceUnit("reserved", start, "USER_EVENT_1_PL", got, 4) IN IsUnit(m) /\ m.state = "reserved"
    BY DEF IsUnit, TraceUnit
  <2>2. Unchanged(d.mods, <<loc, "pl">>, ttDev'.mods) BY <1>9, <1>18, <2>1 DEF Unchanged
  <2> QED BY <1>1, <1>9, <1>10, <1>17, <1>18, <2>2 DEF InterfaceDone
<1>19. CASE ttSt'.pc = "failed" /\ ttSt'.cur = st.cur /\ ttDev'.mods = dev.mods
  BY <1>1, <1>9, <1>10, <1>17, <1>19 DEF InterfaceDone
<1>20. ASSUME NEW n \in 0..Len(events), ttSt'.pc = "add", ttSt'.cur = [st.cur EXCEPT !.cfg = rec[n]],
              ttDev'.counters = dev.counters,
              ttDev'.mods = With(dev.mods, <<loc, "pl">>, TraceUnit("on", start, "USER_EVENT_1_PL", SubSeq(events, 1, n), 4))
       PROVE  \E c, m : /\ IsCfg(c) /\ c.loc = s.cur.cfg.loc /\ c.set = s.cur.cfg.set
                        /\ c.counters = s.cur.cfg.counters /\ c.bc = s.cur.cfg.bc /\ c.mask = s.cur.cfg.mask
                        /\ ttSt'.cur = [s.cur EXCEPT !.cfg = c] /\ IsUnit(m)
                        /\ ttDev'.mods = With(d.mods, <<loc, "pl">>, m)
                        /\ m.start = start
                        /\ m.stop = "USER_EVENT_1_PL" /\ m.state = "on"
                        /\ Agrees(c, c.pl, m, o.start = "layer")
  <2>1. PICK c : c = rec[n] OBVIOUS
  <2>2. PICK got : got = SubSeq(events, 1, n) OBVIOUS
  <2>3. PICK m : m = TraceUnit("on", start, "USER_EVENT_1_PL", got, 4) OBVIOUS
  <2>4. IsUnit(m) /\ m.start = start /\ m.stop = "USER_EVENT_1_PL" /\ m.state = "on" /\ m.packet = 4 /\ m.events = got
    BY <2>3 DEF IsUnit, TraceUnit
  <2>5. /\ IsCfg(c) /\ c.loc = s.cur.cfg.loc /\ c.set = s.cur.cfg.set
        /\ c.counters = s.cur.cfg.counters /\ c.bc = s.cur.cfg.bc /\ c.mask = s.cur.cfg.mask
        /\ c.pl.start = Own(s.plStart) /\ c.pl.stop = Own("USER_EVENT_1_PL") /\ c.pl.packet = 4
        /\ DOMAIN c.pl.events = 1..n /\ \A i \in 1..n : c.pl.events[i] = Own(events[i])
    BY <1>11, <2>1
  <2>6. \A e : Resolved(c, Own(e)) = e BY DEF Resolved, Own
  <2>7. got = [k \in 1..n |-> events[k]] BY <1>5, <2>2
  <2>8. got = [k \in DOMAIN c.pl.events |-> Resolved(c, c.pl.events[k])] BY <2>5, <2>6, <2>7
  <2>9. m.start \in {Resolved(c, c.pl.start), "COMBO_EVENT_0"} /\ m.stop = Resolved(c, c.pl.stop)
    BY <1>6, <2>4, <2>5, <2>6
  <2>10. Agrees(c, c.pl, m, o.start = "layer") BY <2>4, <2>5, <2>8, <2>9 DEF Agrees
  <2>11. ttDev'.mods = With(d.mods, <<loc, "pl">>, m) /\ ttSt'.cur = [s.cur EXCEPT !.cfg = c]
    BY <1>9, <1>20, <2>1, <2>2, <2>3
  <2> QED BY <2>4, <2>5, <2>10, <2>11, Zenon
<1>21. ASSUME NEW n \in 0..Len(events), ttSt'.pc = "add", ttSt'.cur = [st.cur EXCEPT !.cfg = rec[n]],
              ttDev'.counters = dev.counters,
              ttDev'.mods = With(dev.mods, <<loc, "pl">>, TraceUnit("on", start, "USER_EVENT_1_PL", SubSeq(events, 1, n), 4))
       PROVE  /\ ttSt'.pc = "add" /\ ttDev'.counters = d.counters
              /\ \E c, m : /\ IsCfg(c) /\ c.loc = s.cur.cfg.loc /\ c.set = s.cur.cfg.set
                           /\ c.counters = s.cur.cfg.counters /\ c.bc = s.cur.cfg.bc /\ c.mask = s.cur.cfg.mask
                           /\ ttSt'.cur = [s.cur EXCEPT !.cfg = c] /\ IsUnit(m)
                           /\ ttDev'.mods = With(d.mods, <<loc, "pl">>, m)
                           /\ m.start = (IF Casts(o) /\ loc[1] = 0 THEN "COMBO_EVENT_0" ELSE s.plStart)
                           /\ m.stop = "USER_EVENT_1_PL" /\ m.state = "on"
                           /\ Agrees(c, c.pl, m, o.start = "layer")
  BY <1>6, <1>9, <1>20, <1>21, Zenon
<1> QED BY <1>1, <1>10, <1>16, <1>17, <1>18, <1>19, <1>21, Zenon DEF InterfaceDone

\* memoryTrace
MemoryDone(o, s, d, s2, d2) ==
  /\ SameStarts(s, s2) /\ s2.at = s.at /\ IsDev(d2)
  /\ \/ /\ s2.pc = "ready" /\ s2.cur = s.cur /\ d2.counters = d.counters
        /\ Unchanged(d.mods, <<o.tiles[s.at].loc, "mem">>, d2.mods)
     \/ s2.pc = "failed" /\ s2.cur = s.cur /\ d2.mods = d.mods
     \/ /\ s2.pc = "add" /\ d2.counters = d.counters
        /\ \E c, m : /\ IsCfg(c) /\ c.loc = s.cur.cfg.loc /\ c.set = s.cur.cfg.set
                     /\ c.counters = s.cur.cfg.counters /\ c.core = s.cur.cfg.core
                     /\ isDmaSet(o.tiles[s.at].set) \/ c.mask = DOMAIN c.bc
                     /\ s2.cur = [s.cur EXCEPT !.cfg = c] /\ IsUnit(m)
                     /\ d2.mods = With(d.mods, <<o.tiles[s.at].loc, "mem">>, m)
                     /\ m.start = MemStart(o, s) /\ m.stop = MemStop(o, s) /\ m.state = "on"
                     /\ Agrees(c, c.mem, m, o.start = "layer")

\* memoryTrace does one of these.
LEMMA MemoryIs ==
  ASSUME NEW o, o = ttOpt, NEW s, s = ttSt, NEW d, d = ttDev, IsSt(s), IsDev(d), OptOK(o),
         s.cur.memoryEvents \in Seq(Words), s.coreEnd \in {"INSTR_EVENT_1", "USER_EVENT_3"},
         NEW f \in {"ok", "cntr", "control", "slot", "mode"}, memoryTrace(f)
  PROVE  /\ s.pc = "mem" /\ ttOpt' = o /\ ttNet' = ttNet /\ ttDb' = ttDb
         /\ MemoryDone(o, s, d, ttSt', ttDev')
<1>1. PICK t : t = o.tiles[s.at] OBVIOUS
<1>2. PICK loc : loc = t.loc OBVIOUS
<1>3. PICK type : type = TypeIn(o, loc) OBVIOUS
<1>4. Tile = t /\ Loc = loc /\ Type = type /\ (Broadcasts <=> Casts(o))
  BY <1>1, <1>2, <1>3 DEF Tile, Loc, Type, TypeAt, TypeIn, Broadcasts, Casts
<1>5. PICK asked : asked = s.cur.memoryEvents OBVIOUS
<1>6. PICK events : events = configStreamSwitchPorts(asked) OBVIOUS
<1>7. events \in Seq(Words) /\ Len(events) = Len(asked) BY <1>5, <1>6, PortsAre
<1>8. PICK start : start = MemStart(o, s) OBVIOUS
<1>9. PICK stop : stop = MemStop(o, s) OBVIOUS
<1>10. PICK packet : packet = IF type = "mem_tile" THEN 3 ELSE 1 OBVIOUS
<1>11. PICK st : st = PortSt(asked) OBVIOUS
<1>12. PICK dev : dev = PortDev(asked) OBVIOUS
<1>13. SameStarts(s, st) /\ st.at = s.at /\ st.cur = s.cur /\ IsDev(dev) /\ dev.mods = d.mods /\ dev.counters = d.counters
  BY <1>5, <1>11, <1>12, PortsAre
<1> DEFINE rec == [n \in 0..Len(events) |-> MemoryConfig(events, n, start, stop)]
<1>14. /\ s.pc = "mem" /\ ttOpt' = o /\ ttNet' = ttNet /\ ttDb' = ttDb /\ (f # "slot" \/ Len(asked) > 0)
       /\ TraceModule(f, "mem", st, dev, Left(loc, "memSlot"), start, stop, events, packet, rec, "add")
  <2>1. PICK combo : combo = configComboEvents OBVIOUS
  <2>2. PICK start2 : start2 = IF Broadcasts /\ Type = "core" THEN "BROADCAST_1_MEM" ELSE IF combo # <<>> THEN combo[1]
                  ELSE IF Type = "core" THEN ttSt.coreStart ELSE ttSt.memStart OBVIOUS
  <2>3. PICK stop2 : stop2 = IF combo # <<>> THEN combo[2] ELSE IF Type = "core" THEN ttSt.coreEnd ELSE "USER_EVENT_1_MEM"
    OBVIOUS
  <2>4. combo = IF type = "core" /\ isDmaSet(t.set) THEN <<"TRUE", "USER_EVENT_0_MEM">> ELSE <<>>
    BY <1>4, <2>1 DEF configComboEvents
  <2>5. start2 = start /\ stop2 = stop
    <3>1. CASE type = "core" /\ isDmaSet(t.set)
      <4>1. combo = <<"TRUE", "USER_EVENT_0_MEM">> BY <2>4, <3>1
      <4>2. combo # <<>> /\ combo[1] = "TRUE" /\ combo[2] = "USER_EVENT_0_MEM" BY <4>1
      <4> QED BY <1>1, <1>4, <1>2, <1>3, <1>8, <1>9, <2>2, <2>3, <3>1, <4>2 DEF MemStart, MemStop
    <3>2. CASE ~(type = "core" /\ isDmaSet(t.set))
      <4>1. combo = <<>> BY <2>4, <3>2
      <4> QED BY <1>1, <1>4, <1>2, <1>3, <1>8, <1>9, <2>2, <2>3, <3>2, <4>1 DEF MemStart, MemStop
    <3> QED BY <3>1, <3>2
  <2>6. Left(Loc, "memSlot") = Left(loc, "memSlot") /\ packet = IF Type = "mem_tile" THEN 3 ELSE 1
    BY <1>4, <1>10
  <2>7. asked = Cur.memoryEvents BY <1>5 DEF Cur
  <2>8. s.pc = "mem" /\ ttOpt' = o /\ ttNet' = ttNet /\ ttDb' = ttDb /\ (f # "slot" \/ Len(asked) > 0)
    BY <2>7 DEF memoryTrace
  <2>9. TraceModule(f, "mem", PortSt(Cur.memoryEvents), PortDev(Cur.memoryEvents), Left(Loc, "memSlot"),
                    start2, stop2, configStreamSwitchPorts(Cur.memoryEvents), IF Type = "mem_tile" THEN 3 ELSE 1,
                    [n \in 0..Len(configStreamSwitchPorts(Cur.memoryEvents)) |->
                       MemoryConfig(configStreamSwitchPorts(Cur.memoryEvents), n, start2, stop2)], "add")
    BY <2>1, <2>2, <2>3, Zenon DEF memoryTrace
  <2>10. events = configStreamSwitchPorts(Cur.memoryEvents) /\ st = PortSt(Cur.memoryEvents)
         /\ dev = PortDev(Cur.memoryEvents)
    BY <1>6, <1>11, <1>12, <2>7
  <2> QED BY <2>5, <2>6, <2>8, <2>9, <2>10, Zenon
<1>15. ASSUME NEW n \in 0..Len(events), NEW c, c = rec[n]
       PROVE  /\ IsCfg(c) /\ c.loc = s.cur.cfg.loc /\ c.set = s.cur.cfg.set
              /\ c.counters = s.cur.cfg.counters /\ c.core = s.cur.cfg.core
              /\ c.mem.packet = packet
              /\ Resolved(c, c.mem.start) = start /\ Resolved(c, c.mem.stop) = stop
              /\ DOMAIN c.mem.events = 1..n /\ \A i \in 1..n : Resolved(c, c.mem.events[i]) = events[i]
              /\ isDmaSet(t.set) \/ c.mask = DOMAIN c.bc
  <2>1. c = MemoryConfig(events, n, start, stop) BY <1>15
  <2>2. PICK c0 : c0 = s.cur.cfg OBVIOUS
  <2>3. IsCfg(c0) /\ c0 = Cur.cfg BY <2>2 DEF IsSt, IsCur, Cur
  <2>4. /\ IsCfg(c) /\ c.loc = c0.loc /\ c.set = c0.set /\ c.core = c0.core /\ c.counters = c0.counters
        /\ c.mem.packet = (IF type = "mem_tile" THEN 3 ELSE 1)
        /\ Resolved(c, c.mem.start) = start /\ Resolved(c, c.mem.stop) = stop
        /\ DOMAIN c.mem.events = 1..n /\ \A i \in 1..n : Resolved(c, c.mem.events[i]) = events[i]
        /\ c.mask = (IF isCoreModuleEvent(stop) THEN DOMAIN c.bc ELSE {})
        /\ type # "core" => DOMAIN c.bc = {}
    BY <1>4, <1>7, <2>1, <2>3, MemoryConfigIs
  <2>5. isDmaSet(t.set) \/ c.mask = DOMAIN c.bc
    <3>1. CASE type = "core" /\ ~isDmaSet(t.set)
      <4>1. stop = s.coreEnd BY <1>1, <1>2, <1>3, <1>9, <3>1 DEF MemStop
      <4>2. isCoreModuleEvent(stop) BY <4>1 DEF isCoreModuleEvent
      <4> QED BY <2>4, <4>2
    <3>2. CASE type # "core" BY <2>4, <3>2
    <3> QED BY <3>1, <3>2
  <2> QED BY <1>10, <2>2, <2>4, <2>5
<1>16. PICK slots : slots = Left(loc, "memSlot") OBVIOUS
<1>17. slots \in Nat BY <1>16, LeftIs
<1> HIDE DEF rec
<1>18. IsSt(st) BY <1>13 DEF SameStarts, Same
<1>19. PICK r : r = rec OBVIOUS
<1>20. ModuleDone(st, dev, ttSt', ttDev', <<loc, "mem">>, start, stop, events, packet, r, "add")
  <2>1. TraceModule(f, "mem", st, dev, slots, start, stop, events, packet, r, "add") BY <1>14, <1>16, <1>19, Zenon
  <2>2. \A n \in 0..Len(events) : IsCfg(r[n]) BY <1>15, <1>19
  <2>3. loc = Loc /\ (f = "slot" => Len(events) > 0) BY <1>4, <1>7, <1>14
  <2>4. IsDev(dev) BY <1>13
  <2> QED BY <1>7, <1>18, <1>17, <2>1, <2>2, <2>3, <2>4, ModuleIs, Zenon
<1>21. SameStarts(s, ttSt') /\ ttSt'.at = s.at /\ IsDev(ttDev') BY <1>13, <1>20 DEF SameStarts, Same, ModuleDone
<1>22. CASE /\ ttSt'.pc = "ready" /\ ttSt'.cur = st.cur /\ ttDev'.counters = dev.counters
            /\ \/ ttDev'.mods = dev.mods
               \/ \E got : ttDev'.mods = With(dev.mods, <<loc, "mem">>, TraceUnit("reserved", start, stop, got, packet))
  <2>1. \A got : LET m == TraceUnit("reserved", start, stop, got, packet) IN IsUnit(m) /\ m.state = "reserved"
    BY DEF IsUnit, TraceUnit
  <2>2. Unchanged(d.mods, <<loc, "mem">>, ttDev'.mods) BY <1>13, <1>22, <2>1 DEF Unchanged
  <2> QED BY <1>1, <1>2, <1>13, <1>14, <1>21, <1>22, <2>2 DEF MemoryDone
<1>23. CASE ttSt'.pc = "failed" /\ ttSt'.cur = st.cur /\ ttDev'.mods = dev.mods
  BY <1>1, <1>13, <1>14, <1>21, <1>23 DEF MemoryDone
<1>24. ASSUME NEW n \in 0..Len(events), ttSt'.pc = "add", ttSt'.cur = [st.cur EXCEPT !.cfg = r[n]],
              ttDev'.counters = dev.counters,
              ttDev'.mods = With(dev.mods, <<loc, "mem">>, TraceUnit("on", start, stop, SubSeq(events, 1, n), packet))
       PROVE  /\ ttSt'.pc = "add" /\ ttDev'.counters = d.counters
              /\ \E c, m : /\ IsCfg(c) /\ c.loc = s.cur.cfg.loc /\ c.set = s.cur.cfg.set
                           /\ c.counters = s.cur.cfg.counters /\ c.core = s.cur.cfg.core
                           /\ isDmaSet(t.set) \/ c.mask = DOMAIN c.bc
                           /\ ttSt'.cur = [s.cur EXCEPT !.cfg = c] /\ IsUnit(m)
                           /\ ttDev'.mods = With(d.mods, <<loc, "mem">>, m)
                           /\ m.start = start /\ m.stop = stop /\ m.state = "on"
                           /\ Agrees(c, c.mem, m, o.start = "layer")
  <2>1. PICK c : c = rec[n] OBVIOUS
  <2>2. PICK got : got = SubSeq(events, 1, n) OBVIOUS
  <2>3. PICK m : m = TraceUnit("on", start, stop, got, packet) OBVIOUS
  <2>4. IsUnit(m) /\ m.start = start /\ m.stop = stop /\ m.state = "on" /\ m.packet = packet /\ m.events = got
    BY <2>3 DEF IsUnit, TraceUnit
  <2>5. /\ IsCfg(c) /\ c.loc = s.cur.cfg.loc /\ c.set = s.cur.cfg.set
        /\ c.counters = s.cur.cfg.counters /\ c.core = s.cur.cfg.core
        /\ c.mem.packet = packet
        /\ Resolved(c, c.mem.start) = start /\ Resolved(c, c.mem.stop) = stop
        /\ DOMAIN c.mem.events = 1..n /\ \A i \in 1..n : Resolved(c, c.mem.events[i]) = events[i]
        /\ isDmaSet(t.set) \/ c.mask = DOMAIN c.bc
    BY <1>15, <2>1
  <2>6. got = [k \in 1..n |-> events[k]] BY <1>7, <2>2
  <2>7. got = [k \in DOMAIN c.mem.events |-> Resolved(c, c.mem.events[k])] BY <2>5, <2>6
  <2>8. m.start \in {Resolved(c, c.mem.start), "COMBO_EVENT_0"} /\ m.stop = Resolved(c, c.mem.stop)
    BY <2>4, <2>5
  <2>9. Agrees(c, c.mem, m, o.start = "layer") BY <2>4, <2>5, <2>7, <2>8 DEF Agrees
  <2>10. ttDev'.mods = With(d.mods, <<loc, "mem">>, m) /\ ttSt'.cur = [s.cur EXCEPT !.cfg = c]
         /\ ttDev'.counters = d.counters
    BY <1>13, <1>19, <1>24, <2>1, <2>2, <2>3
  <2> QED BY <1>24, <2>4, <2>5, <2>9, <2>10, Zenon
<1>25. \/ /\ ttSt'.pc = "ready" /\ ttSt'.cur = st.cur /\ ttDev'.counters = dev.counters
          /\ \/ ttDev'.mods = dev.mods
             \/ \E got : ttDev'.mods = With(dev.mods, <<loc, "mem">>, TraceUnit("reserved", start, stop, got, packet))
       \/ ttSt'.pc = "failed" /\ ttSt'.cur = st.cur /\ ttDev'.mods = dev.mods
       \/ \E n \in 0..Len(events) :
          /\ ttSt'.pc = "add" /\ ttSt'.cur = [st.cur EXCEPT !.cfg = r[n]] /\ ttDev'.counters = dev.counters
          /\ ttDev'.mods = With(dev.mods, <<loc, "mem">>, TraceUnit("on", start, stop, SubSeq(events, 1, n), packet))
  BY <1>20, Zenon DEF ModuleDone
<1>26. CASE \E n \in 0..Len(events) :
          /\ ttSt'.pc = "add" /\ ttSt'.cur = [st.cur EXCEPT !.cfg = r[n]] /\ ttDev'.counters = dev.counters
          /\ ttDev'.mods = With(dev.mods, <<loc, "mem">>, TraceUnit("on", start, stop, SubSeq(events, 1, n), packet))
  BY <1>1, <1>2, <1>8, <1>9, <1>14, <1>21, <1>24, <1>26, Zenon DEF MemoryDone
<1> QED BY <1>22, <1>23, <1>25, <1>26, Zenon

\* What may go wrong in coreTrace
CoreFaults == {"ok", "cntr", "control", "slot", "mode", "delay", "delay high"}

\* coreTrace
CoreDone(o, s, d, s2, d2) ==
  /\ Same(s, s2) /\ s2.flushLocs = s.flushLocs /\ s2.at = s.at /\ IsDev(d2)
  /\ s2.coreStart \in {s.coreStart, StartIn(o, s)}
  /\ \/ /\ s2.pc = "ready" /\ s2.cur = s.cur /\ d.counters \subseteq d2.counters
        /\ Unchanged(d.mods, <<o.tiles[s.at].loc, "core">>, d2.mods)
     \/ s2.pc = "failed" /\ s2.cur = s.cur /\ d2.mods = d.mods
     \/ /\ s2.pc = "mem" /\ d.counters \subseteq d2.counters /\ s2.coreStart = StartIn(o, s)
        /\ DelaysIn(o) # 0 =>
             [loc |-> o.tiles[s.at].loc, mod |-> "core", id |-> NumsIn(o) + DelaysIn(o) - 1] \in d2.counters
        /\ \E c, m : /\ IsCfg(c) /\ c.loc = s.cur.cfg.loc /\ c.set = s.cur.cfg.set
                     /\ c.counters = s.cur.cfg.counters
                     /\ s2.cur = [s.cur EXCEPT !.cfg = c] /\ IsUnit(m)
                     /\ d2.mods = With(d.mods, <<o.tiles[s.at].loc, "core">>, m)
                     /\ m.start = StartIn(o, s) /\ m.stop = s.coreEnd /\ m.state = "on"
                     /\ Agrees(c, c.core, m, o.start = "layer") /\ AllOwn(c.core)

\* coreTrace does one of these.
LEMMA CoreIs ==
  ASSUME NEW o, o = ttOpt, NEW s, s = ttSt, NEW d, d = ttDev, IsSt(s), IsDev(d), OptOK(o),
         s.cur.coreEvents \in Seq(Words), s.cur.coreEvents # <<>>,
         NEW f \in CoreFaults, coreTrace(f)
  PROVE  /\ s.pc = "core" /\ ttOpt' = o /\ ttNet' = ttNet /\ ttDb' = ttDb
         /\ CoreDone(o, s, d, ttSt', ttDev')
<1>1. PICK loc : loc = o.tiles[s.at].loc OBVIOUS
<1>2. Loc = loc /\ NumCounters = NumsIn(o) /\ DelayCounters = DelaysIn(o)
  <2>1. DelayCounters = DelaysIn(o) BY Zenon DEF DelayCounters, DelaysIn
  <2> QED BY <1>1, <2>1 DEF Tile, Loc, NumCounters, NumsIn
<1>3. PICK events : events = s.cur.coreEvents OBVIOUS
<1>4. events \in Seq(Words) /\ Len(events) > 0
  <2>1. events \in Seq(Words) /\ events # <<>> BY <1>3
  <2>2. Len(events) \in Nat /\ Len(events) # 0 BY <2>1
  <2> QED BY <2>1, <2>2
<1>5. PICK start : start = StartIn(o, s) OBVIOUS
<1>6. PICK more : more = StartCounters(f) OBVIOUS
<1>7. PICK dev : dev = [d EXCEPT !.counters = d.counters \cup more] OBVIOUS
<1>8. IsDev(dev) /\ dev.mods = d.mods /\ dev.counters = d.counters \cup more BY <1>7 DEF IsDev
<1>9. PICK st : st = [s EXCEPT !.coreStart = start] OBVIOUS
<1>10. Same(s, st) /\ st.flushLocs = s.flushLocs /\ st.at = s.at /\ st.cur = s.cur /\ st.coreStart = start /\ IsSt(st)
  BY <1>9 DEF IsSt, Same
<1> DEFINE rec == [n \in 0..Len(events) |-> [s.cur.cfg EXCEPT !.core =
                   [start |-> Own(start), stop |-> Own(s.coreEnd), packet |-> 0,
                    events |-> [i \in 1..n |-> Own(events[i])]]]]
<1>11. /\ s.pc = "core" /\ ttOpt' = o /\ ttNet' = ttNet /\ ttDb' = ttDb
       /\ IF f \in {"delay", "delay high"} THEN ttSt' = Goto("ready", f) /\ ttDev' = dev
          ELSE TraceModule(f, "core", st, dev, Left(loc, "coreSlot"), start, s.coreEnd, events, 0, rec, "mem")
  <2>1. start = IF DelayCounters = 0 THEN ttSt.coreStart ELSE CounterEvent[NumCounters + DelayCounters]
    BY <1>2, <1>5 DEF StartIn
  <2>2. dev = [ttDev EXCEPT !.counters = @ \cup StartCounters(f)] BY <1>6, <1>7
  <2>3. /\ s.pc = "core" /\ ttOpt' = o /\ ttNet' = ttNet /\ ttDb' = ttDb
        /\ IF f \in {"delay", "delay high"} THEN ttSt' = Goto("ready", f) /\ ttDev' = dev
           ELSE TraceModule(f, "core", [ttSt EXCEPT !.coreStart = start], dev, Left(Loc, "coreSlot"), start,
                            ttSt.coreEnd, ttSt.cur.coreEvents, 0,
                            [n \in 0..Len(ttSt.cur.coreEvents) |-> [ttSt.cur.cfg EXCEPT !.core =
                               [start |-> Own(start), stop |-> Own(ttSt.coreEnd), packet |-> 0,
                                events |-> [i \in 1..n |-> Own(ttSt.cur.coreEvents[i])]]]], "mem")
    BY <2>1, <2>2, Zenon DEF coreTrace, Cur
  <2> QED BY <1>2, <1>3, <1>9, <2>3, Zenon
<1>12. ASSUME NEW n \in 0..Len(events), NEW c, c = rec[n]
       PROVE  /\ IsCfg(c) /\ c.loc = s.cur.cfg.loc /\ c.set = s.cur.cfg.set /\ c.counters = s.cur.cfg.counters
              /\ c.core.start = Own(start) /\ c.core.stop = Own(s.coreEnd) /\ c.core.packet = 0
              /\ DOMAIN c.core.events = 1..n /\ \A i \in 1..n : c.core.events[i] = Own(events[i])
  <2>1. PICK es : es = [i \in 1..n |-> Own(events[i])] OBVIOUS
  <2>2. PICK co : co = [start |-> Own(start), stop |-> Own(s.coreEnd), packet |-> 0, events |-> es] OBVIOUS
  <2>3. c = [s.cur.cfg EXCEPT !.core = co] BY <1>12, <2>1, <2>2
  <2>4. IsCfg(s.cur.cfg) BY DEF IsSt, IsCur
  <2> QED BY <2>1, <2>2, <2>3, <2>4 DEF IsCfg
<1> HIDE DEF rec
<1>13. CASE f \in {"delay", "delay high"}
  <2>1. PICK x : x = Faults(f) OBVIOUS
  <2>2. ttDev' = dev /\ ttSt' = [s EXCEPT !.pc = "ready", !.faults = x] BY <1>11, <1>13, <2>1 DEF Goto
  <2>3. Same(s, ttSt') /\ ttSt'.flushLocs = s.flushLocs /\ ttSt'.at = s.at /\ ttSt'.pc = "ready" /\ ttSt'.cur = s.cur
        /\ ttSt'.coreStart = s.coreStart
    BY <2>2 DEF Same, IsSt
  <2>4. Unchanged(d.mods, <<o.tiles[s.at].loc, "core">>, ttDev'.mods) BY <1>8, <2>2 DEF Unchanged
  <2>5. d.counters \subseteq ttDev'.counters /\ IsDev(ttDev') BY <1>8, <2>2
  <2> QED BY <1>11, <2>3, <2>4, <2>5, Zenon DEF CoreDone
<1>14. CASE f \notin {"delay", "delay high"}
  <2>1. PICK slots : slots = Left(loc, "coreSlot") OBVIOUS
  <2>2. slots \in Nat BY <2>1, LeftIs
  <2>3. PICK stop : stop = s.coreEnd OBVIOUS
  <2>4. PICK r : r = rec OBVIOUS
  <2>5. TraceModule(f, "core", st, dev, slots, start, stop, events, 0, r, "mem") BY <1>11, <1>14, <2>1, <2>3, <2>4, Zenon
  <2>6. ModuleDone(st, dev, ttSt', ttDev', <<loc, "core">>, start, stop, events, 0, r, "mem")
    <3>1. \A n \in 0..Len(events) : IsCfg(r[n]) BY <1>12, <2>4
    <3>2. loc = Loc /\ (f = "slot" => Len(events) > 0) BY <1>2, <1>4
    <3>3. f \in {"ok", "cntr", "control", "slot", "mode"} BY <1>14, Zenon DEF CoreFaults
    <3> QED BY <1>4, <1>8, <1>10, <2>2, <2>5, <3>1, <3>2, <3>3, ModuleIs, Zenon
  <2>7. Same(s, ttSt') /\ ttSt'.flushLocs = s.flushLocs /\ ttSt'.at = s.at /\ IsDev(ttDev') /\ ttSt'.coreStart = start
    BY <1>10, <2>6 DEF SameStarts, Same, ModuleDone
  <2>8. \/ /\ ttSt'.pc = "ready" /\ ttSt'.cur = st.cur /\ ttDev'.counters = dev.counters
           /\ \/ ttDev'.mods = dev.mods
              \/ \E got : ttDev'.mods = With(dev.mods, <<loc, "core">>, TraceUnit("reserved", start, stop, got, 0))
        \/ ttSt'.pc = "failed" /\ ttSt'.cur = st.cur /\ ttDev'.mods = dev.mods
        \/ \E n \in 0..Len(events) :
           /\ ttSt'.pc = "mem" /\ ttSt'.cur = [st.cur EXCEPT !.cfg = r[n]] /\ ttDev'.counters = dev.counters
           /\ ttDev'.mods = With(dev.mods, <<loc, "core">>, TraceUnit("on", start, stop, SubSeq(events, 1, n), 0))
    BY <2>6, Zenon DEF ModuleDone
  <2>9. CASE /\ ttSt'.pc = "ready" /\ ttSt'.cur = st.cur /\ ttDev'.counters = dev.counters
             /\ \/ ttDev'.mods = dev.mods
                \/ \E got : ttDev'.mods = With(dev.mods, <<loc, "core">>, TraceUnit("reserved", start, stop, got, 0))
    <3>1. \A got : LET m == TraceUnit("reserved", start, stop, got, 0) IN IsUnit(m) /\ m.state = "reserved"
      BY DEF IsUnit, TraceUnit
    <3>2. Unchanged(d.mods, <<loc, "core">>, ttDev'.mods) BY <1>8, <2>9, <3>1 DEF Unchanged
    <3>3. d.counters \subseteq ttDev'.counters BY <1>8, <2>9
    <3> QED BY <1>1, <1>5, <1>10, <1>11, <2>7, <2>9, <3>2, <3>3 DEF CoreDone
  <2>10. CASE ttSt'.pc = "failed" /\ ttSt'.cur = st.cur /\ ttDev'.mods = dev.mods
    BY <1>1, <1>5, <1>8, <1>10, <1>11, <2>7, <2>10 DEF CoreDone
  <2>11. ASSUME NEW n \in 0..Len(events), ttSt'.pc = "mem", ttSt'.cur = [st.cur EXCEPT !.cfg = r[n]],
                ttDev'.counters = dev.counters,
                ttDev'.mods = With(dev.mods, <<loc, "core">>, TraceUnit("on", start, stop, SubSeq(events, 1, n), 0))
         PROVE  /\ d.counters \subseteq ttDev'.counters
                /\ DelaysIn(o) # 0 => [loc |-> loc, mod |-> "core", id |-> NumsIn(o) + DelaysIn(o) - 1] \in ttDev'.counters
                /\ \E c, m : /\ IsCfg(c) /\ c.loc = s.cur.cfg.loc /\ c.set = s.cur.cfg.set
                             /\ c.counters = s.cur.cfg.counters
                             /\ ttSt'.cur = [s.cur EXCEPT !.cfg = c] /\ IsUnit(m)
                             /\ ttDev'.mods = With(d.mods, <<loc, "core">>, m)
                             /\ m.start = start /\ m.stop = s.coreEnd /\ m.state = "on"
                             /\ Agrees(c, c.core, m, o.start = "layer") /\ AllOwn(c.core)
    <3>1. PICK c : c = rec[n] OBVIOUS
    <3>2. PICK got : got = SubSeq(events, 1, n) OBVIOUS
    <3>3. PICK m : m = TraceUnit("on", start, stop, got, 0) OBVIOUS
    <3>4. IsUnit(m) /\ m.start = start /\ m.stop = s.coreEnd /\ m.state = "on" /\ m.packet = 0 /\ m.events = got
      BY <2>3, <3>3 DEF IsUnit, TraceUnit
    <3>5. /\ IsCfg(c) /\ c.loc = s.cur.cfg.loc /\ c.set = s.cur.cfg.set /\ c.counters = s.cur.cfg.counters
          /\ c.core.start = Own(start) /\ c.core.stop = Own(s.coreEnd) /\ c.core.packet = 0
          /\ DOMAIN c.core.events = 1..n /\ \A i \in 1..n : c.core.events[i] = Own(events[i])
      BY <1>12, <3>1
    <3>6. \A e : Resolved(c, Own(e)) = e /\ Own(e).bc < 0
      <4>1. \A e : Own(e).bc = -1 /\ Own(e).event = e BY DEF Own
      <4> QED BY <4>1 DEF Resolved
    <3>7. got = [k \in 1..n |-> events[k]]
      <4>1. events \in Seq(Words) BY <1>4
      <4> QED BY <3>2, <4>1
    <3>8. got = [k \in DOMAIN c.core.events |-> Resolved(c, c.core.events[k])] BY <3>5, <3>6, <3>7
    <3>9. m.start \in {Resolved(c, c.core.start), "COMBO_EVENT_0"} /\ m.stop = Resolved(c, c.core.stop)
      BY <3>4, <3>5, <3>6
    <3>10. Agrees(c, c.core, m, o.start = "layer") BY <3>4, <3>5, <3>8, <3>9 DEF Agrees
    <3>11. ttDev'.mods = With(d.mods, <<loc, "core">>, m) /\ ttSt'.cur = [s.cur EXCEPT !.cfg = c]
      BY <1>8, <1>10, <2>4, <2>11, <3>1, <3>2, <3>3
    <3>12. AllOwn(c.core) BY <3>5, <3>6 DEF AllOwn
    <3>13. ASSUME DelaysIn(o) # 0
           PROVE  [loc |-> loc, mod |-> "core", id |-> NumsIn(o) + DelaysIn(o) - 1] \in more
      <4>1. DelaysIn(o) \in {1, 2} /\ NumsIn(o) \in {0, 1} BY <3>13 DEF DelaysIn, NumsIn, OptOK
      <4>2. PICK k : k = NumsIn(o) + DelaysIn(o) - 1 OBVIOUS
      <4>3. more = [loc : {loc}, mod : {"core"}, id : NumsIn(o)..(NumsIn(o) - 1 + DelaysIn(o))]
        BY <1>2, <1>6, <1>14 DEF StartCounters
      <4>4. k \in NumsIn(o)..(NumsIn(o) - 1 + DelaysIn(o))
        <5>1. PICK a, b : a = NumsIn(o) /\ b = DelaysIn(o) OBVIOUS
        <5>2. a \in {0, 1} /\ b \in {1, 2} /\ k = a + b - 1 BY <4>1, <4>2, <5>1
        <5>3. k \in a..(a - 1 + b) BY <5>2
        <5> QED BY <5>1, <5>3
      <4> QED BY <4>2, <4>3, <4>4
    <3>14. d.counters \subseteq ttDev'.counters
           /\ (DelaysIn(o) # 0 => [loc |-> loc, mod |-> "core", id |-> NumsIn(o) + DelaysIn(o) - 1] \in ttDev'.counters)
      BY <1>8, <2>11, <3>13
    <3> QED BY <3>4, <3>5, <3>10, <3>11, <3>12, <3>14, Zenon
  <2>12. CASE \E n \in 0..Len(events) :
           /\ ttSt'.pc = "mem" /\ ttSt'.cur = [st.cur EXCEPT !.cfg = r[n]] /\ ttDev'.counters = dev.counters
           /\ ttDev'.mods = With(dev.mods, <<loc, "core">>, TraceUnit("on", start, stop, SubSeq(events, 1, n), 0))
    <3>1. ttSt'.coreStart \in {s.coreStart, StartIn(o, s)} BY <1>5, <2>7
    <3> QED BY <1>1, <1>5, <1>11, <2>7, <2>11, <2>12, <3>1, Zenon DEF CoreDone
  <2> QED BY <2>8, <2>9, <2>10, <2>12, Zenon
<1> QED BY <1>13, <1>14

\* addAIECfgTile
LEMMA AddIs ==
  ASSUME NEW s, s = ttSt, IsSt(s), addAIECfgTile
  PROVE  /\ s.pc = "add" /\ ttOpt' = ttOpt /\ ttDev' = ttDev /\ ttNet' = ttNet /\ ttDb' = Append(ttDb, s.cur.cfg)
         /\ SameStarts(s, ttSt') /\ ttSt'.pc = "tile" /\ ttSt'.at = s.at + 1
BY DEF addAIECfgTile, NextTile, Cur, SameStarts, Same, IsSt

\* tilesDone
LEMMA DoneIs ==
  ASSUME NEW s, s = ttSt, IsSt(s), tilesDone
  PROVE  /\ s.pc = "tile" /\ ttOpt' = ttOpt /\ ttDev' = ttDev /\ ttNet' = ttNet /\ ttDb' = ttDb
         /\ SameStarts(s, ttSt') /\ ttSt'.pc = "ready" /\ ttSt'.at = s.at
BY DEF tilesDone, SameStarts, Same, IsSt

\* traceConfigured
LEMMA ConfiguredIs ==
  ASSUME NEW s, s = ttSt, IsSt(s), traceConfigured
  PROVE  /\ s.pc = "ready" /\ ttOpt.start # "layer" /\ ttOpt' = ttOpt /\ ttDev' = ttDev /\ ttNet' = ttNet /\ ttDb' = ttDb
         /\ SameStarts(s, ttSt') /\ ttSt'.pc = "tracing" /\ ttSt'.at = s.at
BY DEF traceConfigured, SameStarts, Same, IsSt

\* freeResources: counters go, modules stay.
LEMMA FreeIs ==
  ASSUME NEW s, s = ttSt, IsSt(s), NEW d, d = ttDev, IsDev(d), freeResources
  PROVE  /\ s.pc \in {"tracing", "failed"} /\ ttOpt' = ttOpt /\ ttNet' = ttNet /\ ttDb' = ttDb
         /\ IsDev(ttDev') /\ ttDev'.mods = d.mods
         /\ SameStarts(s, ttSt') /\ ttSt'.pc = "released" /\ ttSt'.at = s.at
<1>1. s.pc \in {"tracing", "failed"} /\ ttOpt' = ttOpt /\ ttNet' = ttNet /\ ttDb' = ttDb BY DEF freeResources
<1>2. SameStarts(s, ttSt') /\ ttSt'.pc = "released" /\ ttSt'.at = s.at BY DEF freeResources, SameStarts, Same, IsSt
<1>3. ttDev' = Freed(d, s) BY DEF freeResources
<1>4. IsDev(ttDev') /\ ttDev'.mods = d.mods BY <1>3 DEF Freed, IsDev
<1> QED BY <1>1, <1>2, <1>4

\* configureWindowedEventTrace: the tiles it goes over get the starts of the
\* window and the others keep theirs, or nothing is changed.
LEMMA WindowIs ==
  ASSUME NEW s, s = ttSt, IsSt(s), NEW d, d = ttDev, IsDev(d), NEW f \in {"ok", "window"},
         configureWindowedEventTrace(f)
  PROVE  /\ s.pc = "ready" /\ ttOpt.start = "layer" /\ ttOpt' = ttOpt /\ ttDb' = ttDb
         /\ SameStarts(s, ttSt') /\ ttSt'.pc = "tracing" /\ ttSt'.at = s.at
         /\ \/ ttDev' = d /\ ttNet' = ttNet
            \/ /\ ttNet' = build2ChannelBroadcastNetwork(ttNet, "PERF_CNT_0_PL", Offset(ttOpt.gen))
               /\ IsDev(ttDev') /\ d.counters \subseteq ttDev'.counters /\ DOMAIN ttDev'.mods = DOMAIN d.mods
               /\ ttOpt.layer => LayerCounter \in ttDev'.counters
               /\ \A u \in DOMAIN d.mods :
                    /\ ttDev'.mods[u].start = (IF u[1] \in WindowLocs THEN WindowStart(u) ELSE d.mods[u].start)
                    /\ ttDev'.mods[u].state = d.mods[u].state
                    /\ ttDev'.mods[u].stop = d.mods[u].stop /\ ttDev'.mods[u].events = d.mods[u].events
                    /\ ttDev'.mods[u].packet = d.mods[u].packet
<1>1. s.pc = "ready" /\ ttOpt.start = "layer" /\ ttOpt' = ttOpt /\ ttDb' = ttDb /\ ttSt' = Goto("tracing", f)
  BY DEF configureWindowedEventTrace
<1>2. SameStarts(s, ttSt') /\ ttSt'.pc = "tracing" /\ ttSt'.at = s.at
  <2>1. PICK x : x = Faults(f) OBVIOUS
  <2>2. ttSt' = [s EXCEPT !.pc = "tracing", !.faults = x] BY <1>1, <2>1 DEF Goto
  <2> QED BY <2>2 DEF SameStarts, Same, IsSt
<1>3. CASE f = "ok"
  <2> DEFINE Begins(u) == IF u[1] \in WindowLocs THEN WindowStart(u) ELSE d.mods[u].start
  <2>1. PICK mods : mods = [u \in DOMAIN d.mods |-> [d.mods[u] EXCEPT !.start = Begins(u)]] OBVIOUS
  <2>2. PICK more, cs : more = (IF ttOpt.layer THEN {LayerCounter} ELSE {}) /\ cs = d.counters \cup more OBVIOUS
  <2>3. ttDev' = [d EXCEPT !.mods = mods, !.counters = cs]
        /\ ttNet' = build2ChannelBroadcastNetwork(ttNet, "PERF_CNT_0_PL", Offset(ttOpt.gen))
    <3>1. ttDev' = [d EXCEPT !.mods = [u \in DOMAIN @ |-> [@[u] EXCEPT !.start = Begins(u)]],
                             !.counters = @ \cup IF ttOpt.layer THEN {LayerCounter} ELSE {}]
          /\ ttNet' = build2ChannelBroadcastNetwork(ttNet, "PERF_CNT_0_PL", Offset(ttOpt.gen))
      BY <1>3, Zenon DEF configureWindowedEventTrace
    <3> HIDE DEF Begins
    <3>2. ttDev' = [d EXCEPT !.mods = mods, !.counters = @ \cup more] BY <2>1, <2>2, <3>1, Zenon
    <3> QED BY <2>2, <3>1, <3>2 DEF IsDev
  <2> HIDE DEF Begins
  <2>4. ASSUME NEW u \in DOMAIN d.mods
        PROVE  /\ IsUnit(mods[u]) /\ mods[u].start = Begins(u) /\ mods[u].state = d.mods[u].state
               /\ mods[u].stop = d.mods[u].stop /\ mods[u].events = d.mods[u].events
               /\ mods[u].packet = d.mods[u].packet
    <3>1. PICK m, w : m = d.mods[u] /\ w = Begins(u) OBVIOUS
    <3>2. IsUnit(m) BY <3>1 DEF IsDev
    <3>3. PICK m2 : m2 = mods[u] OBVIOUS
    <3>4. m2 = [m EXCEPT !.start = w] BY <2>1, <3>1, <3>3
    <3>5. IsUnit(m2) /\ m2.start = w /\ m2.state = m.state /\ m2.stop = m.stop /\ m2.events = m.events /\ m2.packet = m.packet
      BY <3>2, <3>4 DEF IsUnit
    <3> QED BY <3>1, <3>3, <3>5
  <2>5. DOMAIN mods = DOMAIN d.mods BY <2>1
  <2>6. IsDev(ttDev') /\ ttDev'.mods = mods /\ ttDev'.counters = cs BY <2>3, <2>4, <2>5 DEF IsDev
  <2>7. d.counters \subseteq cs /\ (ttOpt.layer => LayerCounter \in cs) BY <2>2
  <2>8. \A u \in DOMAIN d.mods : mods[u].start = IF u[1] \in WindowLocs THEN WindowStart(u) ELSE d.mods[u].start
    BY <2>4 DEF Begins
  <2> QED BY <1>1, <1>2, <2>3, <2>4, <2>5, <2>6, <2>7, <2>8
<1>4. CASE f = "window"
  <2>1. ttDev' = d /\ ttNet' = ttNet BY <1>4 DEF configureWindowedEventTrace
  <2> QED BY <1>1, <1>2, <2>1
<1> QED BY <1>3, <1>4

\* The event flushTraceModules generates in a tile
EndEvent(o, s, loc) ==
  CASE TypeIn(o, loc) = "core" -> s.coreEnd [] TypeIn(o, loc) = "mem_tile" -> "USER_EVENT_1_MEM"
    [] TypeIn(o, loc) = "shim" -> "USER_EVENT_1_PL"

\* flushTraceModules
LEMMA FlushIs ==
  ASSUME NEW o, o = ttOpt, NEW s, s = ttSt, IsSt(s), NEW d, d = ttDev, IsDev(d), flushTraceModules
  PROVE  /\ s.pc = "released" /\ ttOpt' = ttOpt /\ ttNet' = ttNet /\ ttDb' = ttDb
         /\ Same(s, ttSt') /\ ttSt'.coreStart = s.coreStart /\ ttSt'.pc = "ended" /\ ttSt'.at = s.at
         /\ IsDev(ttDev') /\ ttDev'.counters = d.counters /\ DOMAIN ttDev'.mods = DOMAIN d.mods
         /\ \A u \in DOMAIN d.mods :
              /\ ttDev'.mods[u].start = d.mods[u].start /\ ttDev'.mods[u].state = d.mods[u].state
              /\ ttDev'.mods[u].stop = d.mods[u].stop /\ ttDev'.mods[u].events = d.mods[u].events
              /\ ttDev'.mods[u].packet = d.mods[u].packet
              /\ u[1] \in s.flushLocs /\ d.mods[u].stop = EndEvent(o, s, u[1]) => ttDev'.mods[u].flushed
<1>1. s.pc = "released" /\ ttOpt' = ttOpt /\ ttNet' = ttNet /\ ttDb' = ttDb BY DEF flushTraceModules
<1>2. Same(s, ttSt') /\ ttSt'.coreStart = s.coreStart /\ ttSt'.pc = "ended" /\ ttSt'.at = s.at
  <2>1. ttSt' = [s EXCEPT !.pc = "ended", !.flushLocs = {}] BY DEF flushTraceModules
  <2> QED BY <2>1 DEF Same, IsSt
<1> DEFINE Ends(u, m) == u[1] \in s.flushLocs /\ m.stop = EndEvent(o, s, u[1])
<1>3. PICK mods : mods = [u \in DOMAIN d.mods |-> [d.mods[u] EXCEPT !.flushed = Ends(u, d.mods[u])]] OBVIOUS
<1>4. ttDev' = [d EXCEPT !.mods = mods]
  <2>1. ttDev' = [d EXCEPT !.mods = [u \in DOMAIN @ |-> [@[u] EXCEPT !.flushed = Ends(u, d.mods[u])]]]
    BY Zenon DEF flushTraceModules, EndEvent, TypeAt, TypeIn
  <2> QED BY <1>3, <2>1, Zenon
<1> HIDE DEF Ends
<1>5. ASSUME NEW u \in DOMAIN d.mods
      PROVE  /\ IsUnit(mods[u]) /\ mods[u].start = d.mods[u].start /\ mods[u].state = d.mods[u].state
             /\ mods[u].stop = d.mods[u].stop /\ mods[u].events = d.mods[u].events
             /\ mods[u].packet = d.mods[u].packet /\ mods[u].flushed = Ends(u, d.mods[u])
  <2>1. PICK m, w : m = d.mods[u] /\ w = Ends(u, d.mods[u]) OBVIOUS
  <2>2. IsUnit(m) BY <2>1 DEF IsDev
  <2>3. PICK m2 : m2 = mods[u] OBVIOUS
  <2>4. m2 = [m EXCEPT !.flushed = w] BY <1>3, <2>1, <2>3, Zenon
  <2>5. IsUnit(m2) /\ m2.start = m.start /\ m2.state = m.state /\ m2.stop = m.stop /\ m2.events = m.events
        /\ m2.packet = m.packet /\ m2.flushed = w
    BY <2>2, <2>4 DEF IsUnit
  <2> QED BY <2>1, <2>3, <2>5, Zenon
<1>6. DOMAIN mods = DOMAIN d.mods BY <1>3, Zenon
<1>7. IsDev(ttDev') /\ ttDev'.mods = mods /\ ttDev'.counters = d.counters BY <1>4, <1>5, <1>6 DEF IsDev
<1>8. \A u \in DOMAIN d.mods : u[1] \in s.flushLocs /\ d.mods[u].stop = EndEvent(o, s, u[1]) => mods[u].flushed
  BY <1>5, Zenon DEF Ends
<1> QED BY <1>1, <1>2, <1>5, <1>6, <1>7, <1>8

-----------------------------------------------------------------------------
(* The invariant of TilesRecorded                                          *)

\* The database is a list; where a tile is configured, and where counters may be gone
IsList(db) == \E S : db \in Seq(S)
Working == {"counters", "core", "mem", "pl", "add"}
Over == {"failed", "released", "ended"}

\* A tile of the database was configured before and is traced as it says.
RecAt(o, s, d, cfg) ==
  /\ \E j \in 1..Len(o.tiles) : j < s.at /\ cfg.loc = o.tiles[j].loc
  /\ cfg.set # "execution" => /\ Traced(cfg, d.mods, TypeIn(o, cfg.loc), o.start = "layer")
                              /\ s.pc \notin Over => cfg.counters \subseteq d.counters
DbOK(o, s, d, db) == IsList(db) /\ \A i \in DOMAIN db : RecAt(o, s, d, db[i])

\* Where the implementation is
StOK(o, s) ==
  /\ IsSt(s) /\ s.at \in 1..(Len(o.tiles) + 1)
  /\ s.pc \in Working => s.at \in 1..Len(o.tiles)
  /\ s.coreEnd = IF o.shim # "edge" THEN "USER_EVENT_3" ELSE IF s.pc = "new" THEN "DISABLED" ELSE "INSTR_EVENT_1"

\* What the configuration of the tile at hand says so far is so.
CurAt(o, s, d, t, cfg) ==
  /\ cfg.loc = t.loc /\ cfg.set = t.set /\ cfg.counters \subseteq d.counters
  /\ s.cur.coreEvents \in Seq(Words) /\ s.cur.memoryEvents \in Seq(Words) /\ s.cur.interfaceEvents \in Seq(Words)
  /\ TypeIn(o, t.loc) = "core" => s.cur.coreEvents # <<>>
  /\ TypeIn(o, t.loc) = "shim" => s.cur.interfaceEvents # <<>> /\ cfg.mask = DOMAIN cfg.bc
  /\ s.pc = "core" => TypeIn(o, t.loc) = "core"
  /\ s.pc = "mem" => TypeIn(o, t.loc) # "shim"
  /\ s.pc = "pl" => TypeIn(o, t.loc) = "shim"
  /\ s.pc = "mem" /\ TypeIn(o, t.loc) = "core" =>
       /\ <<t.loc, "core">> \in DOMAIN d.mods
       /\ Agrees(cfg, cfg.core, d.mods[<<t.loc, "core">>], o.start = "layer") /\ AllOwn(cfg.core)
  /\ s.pc = "add" => Traced(cfg, d.mods, TypeIn(o, t.loc), o.start = "layer")
CurOK(o, s, d) == s.pc \in Working => CurAt(o, s, d, o.tiles[s.at], s.cur.cfg)

\* The invariant, with the values of the variables as parameters
TInv(o, s, d, db) == OptOK(o) /\ StOK(o, s) /\ IsDev(d) /\ CurOK(o, s, d) /\ DbOK(o, s, d, db)
TilesInv == TInv(ttOpt, ttSt, ttDev, ttDb)

\* A configuration without channels means the same with other channels.
LEMMA AgreesOwn ==
  ASSUME NEW a, NEW b, NEW c, NEW m, NEW layer, Agrees(a, c, m, layer), AllOwn(c)
  PROVE  Agrees(b, c, m, layer)
<1>1. \A e : e.bc < 0 => Resolved(a, e) = Resolved(b, e) BY DEF Resolved
<1>2. Resolved(a, c.start) = Resolved(b, c.start) /\ Resolved(a, c.stop) = Resolved(b, c.stop) BY <1>1 DEF AllOwn
<1>3. \A k \in DOMAIN c.events : Resolved(a, c.events[k]) = Resolved(b, c.events[k]) BY <1>1 DEF AllOwn
<1>4. [k \in DOMAIN c.events |-> Resolved(a, c.events[k])] = [k \in DOMAIN c.events |-> Resolved(b, c.events[k])] BY <1>3
<1> QED BY <1>2, <1>4 DEF Agrees

\* The database with one more tile.
Longer(db2, db, e) == IsList(db2) /\ \A i \in DOMAIN db2 : db2[i] = e \/ \E j \in DOMAIN db : db2[i] = db[j]

\* addAIECfgTile appends.
LEMMA DbAppend ==
  ASSUME NEW db, IsList(db), NEW e, NEW db2, db2 = Append(db, e)
  PROVE  Longer(db2, db, e)
<1>1. PICK S : db \in Seq(S) BY DEF IsList
<1>2. PICK T : T = S \cup {e} OBVIOUS
<1>3. db \in Seq(T) /\ e \in T
  <2>1. Len(db) \in Nat /\ DOMAIN db = 1..Len(db) /\ \A i \in 1..Len(db) : db[i] \in T BY <1>1, <1>2
  <2>2. db = [i \in 1..Len(db) |-> db[i]] BY <1>1
  <2> QED BY <1>2, <2>1, <2>2
<1>4. PICK n : n = Len(db) OBVIOUS
<1>5. n \in Nat /\ DOMAIN db = 1..n BY <1>3, <1>4
<1>6. db2 \in Seq(T) /\ Len(db2) = n + 1 BY <1>3, <1>4
<1>7. DOMAIN db2 = 1..(n + 1) BY <1>5, <1>6
<1>8. db2[n + 1] = e /\ \A i \in 1..n : db2[i] = db[i] BY <1>3, <1>4
<1>9. \A i \in 1..(n + 1) : i = n + 1 \/ i \in 1..n BY <1>5
<1>10. \A i \in DOMAIN db2 : db2[i] = e \/ \E j \in DOMAIN db : db2[i] = db[j] BY <1>5, <1>7, <1>8, <1>9
<1> QED BY <1>6, <1>10 DEF IsList, Longer

\* Modules of one tile at most are others than before.
OneTile(mods, mods2, loc) == mods2 = mods \/ \E mod, m : mods2 = With(mods, <<loc, mod>>, m)

\* Tiles of the database are not touched by the next ones.
LEMMA DbKeeps ==
  ASSUME NEW o, NEW s, NEW d, NEW db, NEW s2, NEW d2, OptOK(o), DbOK(o, s, d, db),
         s.at \in Nat, s2.at \in Nat, s.at <= s2.at, NEW loc, \A j \in 1..Len(o.tiles) : j < s.at => o.tiles[j].loc # loc,
         OneTile(d.mods, d2.mods, loc),
         s2.pc \in Over \/ (s.pc \notin Over /\ d.counters \subseteq d2.counters)
  PROVE  DbOK(o, s2, d2, db)
<1>1. IsList(db) BY DEF DbOK
<1>2. ASSUME NEW i \in DOMAIN db PROVE RecAt(o, s2, d2, db[i])
  <2>1. PICK cfg : cfg = db[i] OBVIOUS
  <2>2. RecAt(o, s, d, cfg) BY <2>1 DEF DbOK
  <2>3. PICK j \in 1..Len(o.tiles) : j < s.at /\ cfg.loc = o.tiles[j].loc BY <2>2 DEF RecAt
  <2>4. j < s2.at /\ cfg.loc # loc BY <2>3, TileShape
  <2>5. ASSUME cfg.set # "execution" PROVE Traced(cfg, d2.mods, TypeIn(o, cfg.loc), o.start = "layer")
    <3>1. Traced(cfg, d.mods, TypeIn(o, cfg.loc), o.start = "layer") BY <2>2, <2>5 DEF RecAt
    <3>2. PICK type, layer, mods : type = TypeIn(o, cfg.loc) /\ layer = (o.start = "layer") /\ mods = d.mods BY Zenon
    <3>3. Traced(cfg, mods, type, layer) BY <3>1, <3>2
    <3>4. CASE d2.mods = d.mods BY <3>1, <3>4
    <3>5. ASSUME NEW mod, NEW m, d2.mods = With(mods, <<loc, mod>>, m) PROVE Traced(cfg, d2.mods, type, layer)
      <4>1. Traced(cfg, With(mods, <<loc, mod>>, m), type, layer) BY <2>4, <3>3, TracedWith
      <4> QED BY <3>5, <4>1
    <3> QED BY <3>2, <3>4, <3>5 DEF OneTile
  <2>6. ASSUME cfg.set # "execution", s2.pc \notin Over PROVE cfg.counters \subseteq d2.counters
    BY <2>2, <2>6 DEF RecAt
  <2> QED BY <2>1, <2>3, <2>4, <2>5, <2>6 DEF RecAt
<1> QED BY <1>1, <1>2 DEF DbOK

\* Nor by the window and the flush.
LEMMA DbSame ==
  ASSUME NEW o, NEW s, NEW d, NEW db, NEW s2, NEW d2, OptOK(o), DbOK(o, s, d, db), s2.at = s.at,
         DOMAIN d2.mods = DOMAIN d.mods,
         \A u \in DOMAIN d.mods : /\ d2.mods[u].state = d.mods[u].state /\ d2.mods[u].stop = d.mods[u].stop
                                  /\ d2.mods[u].events = d.mods[u].events /\ d2.mods[u].packet = d.mods[u].packet
                                  /\ (o.start = "layer") \/ d2.mods[u].start = d.mods[u].start,
         s2.pc \in Over \/ (s.pc \notin Over /\ d.counters \subseteq d2.counters)
  PROVE  DbOK(o, s2, d2, db)
<1>1. IsList(db) BY DEF DbOK
<1>2. ASSUME NEW i \in DOMAIN db PROVE RecAt(o, s2, d2, db[i])
  <2>1. PICK cfg : cfg = db[i] OBVIOUS
  <2>2. RecAt(o, s, d, cfg) BY <2>1 DEF DbOK
  <2>3. ASSUME cfg.set # "execution" PROVE Traced(cfg, d2.mods, TypeIn(o, cfg.loc), o.start = "layer")
    <3>1. Traced(cfg, d.mods, TypeIn(o, cfg.loc), o.start = "layer") BY <2>2, <2>3 DEF RecAt
    <3> QED BY <3>1 DEF Traced, Agrees
  <2>4. ASSUME cfg.set # "execution", s2.pc \notin Over PROVE cfg.counters \subseteq d2.counters
    BY <2>2, <2>4 DEF RecAt
  <2> QED BY <2>1, <2>2, <2>3, <2>4 DEF RecAt
<1> QED BY <1>1, <1>2 DEF DbOK

\* The tile at hand was not configured before.
LEMMA FreshLoc ==
  ASSUME NEW o, OptOK(o), NEW at, at \in 1..Len(o.tiles)
  PROVE  \A j \in 1..Len(o.tiles) : j < at => o.tiles[j].loc # o.tiles[at].loc
BY TileShape

\* The sets of events
LEMMA EventsOfSets ==
  ASSUME NEW set
  PROVE  /\ coreEventSets(set) \in Seq(Words) /\ memoryEventSets(set) \in Seq(Words)
         /\ memoryTileEventSets(set) \in Seq(Words) /\ interfaceTileEventSets(set) \in Seq(Words)
         /\ set \in {"functions", "all_dma"} => coreEventSets(set) # <<>>
         /\ set = "input_ports" => interfaceTileEventSets(set) # <<>>
<1>1. PICK a, b, c : a = "call" /\ b = "port" /\ c = "select" OBVIOUS
<1>2. a \in Words /\ b \in Words /\ c \in Words BY <1>1, Zenon DEF Words
<1>3. PICK W : W = Words OBVIOUS
<1>4. <<>> \in Seq(W) /\ <<a>> \in Seq(W) /\ <<b>> \in Seq(W) /\ <<a, b>> \in Seq(W) /\ <<b, c>> \in Seq(W)
      /\ <<a>> # <<>> /\ <<b>> # <<>>
  BY <1>2, <1>3
<1>5. coreEventSets(set) \in {<<a>>, <<>>} /\ memoryEventSets(set) \in {<<a>>, <<a, b>>, <<>>}
      /\ memoryTileEventSets(set) \in {<<b, c>>, <<>>} /\ interfaceTileEventSets(set) \in {<<b>>, <<>>}
  BY <1>1 DEF coreEventSets, memoryEventSets, memoryTileEventSets, interfaceTileEventSets
<1>6. (set \in {"functions", "all_dma"} => coreEventSets(set) = <<a>>)
      /\ (set = "input_ports" => interfaceTileEventSets(set) = <<b>>)
  BY <1>1 DEF coreEventSets, interfaceTileEventSets
<1> QED BY <1>3, <1>4, <1>5, <1>6

\* The counters of the workaround are traced too.
LEMMA MoreEvents ==
  ASSUME NEW es, es \in Seq(Words)
  PROVE  /\ Append(es, "PERF_CNT_0_CORE") \in Seq(Words) /\ Append(es, MemCounter) \in Seq(Words)
         /\ Append(es, "PERF_CNT_0_CORE") # <<>>
<1>1. PICK a, b, W : a = "PERF_CNT_0_CORE" /\ b = MemCounter /\ W = Words BY Zenon
<1>2. a \in W /\ b \in W BY <1>1, Zenon DEF Words, MemCounter
<1>3. es \in Seq(W) BY <1>1
<1>4. Append(es, a) \in Seq(W) /\ Append(es, b) \in Seq(W) /\ Len(Append(es, a)) = Len(es) + 1 /\ Len(es) \in Nat
  BY <1>2, <1>3
<1>5. Append(es, a) # <<>> BY <1>4
<1> QED BY <1>1, <1>4, <1>5, Zenon

\* A stage before the last leaves the database alone.
LEMMA StageKeeps ==
  ASSUME NEW o, NEW s, NEW d, NEW db, TInv(o, s, d, db), NEW s2, NEW d2, s.pc \in Working, IsDev(d2),
         Same(s, s2), s2.at = s.at, s2.pc \in Working \cup {"ready", "failed"},
         OneTile(d.mods, d2.mods, o.tiles[s.at].loc),
         s2.pc = "failed" \/ d.counters \subseteq d2.counters,
         CurOK(o, s2, d2)
  PROVE  TInv(o, s2, d2, db)
<1>1. OptOK(o) /\ StOK(o, s) /\ DbOK(o, s, d, db) BY DEF TInv
<1>2. s.at \in 1..Len(o.tiles) /\ s.pc \notin Over /\ s.pc # "new" BY <1>1 DEF StOK, Working, Over
<1>3. StOK(o, s2) BY <1>1, <1>2 DEF StOK, Same, Working
<1>4. PICK loc : loc = o.tiles[s.at].loc OBVIOUS
<1>5. \A j \in 1..Len(o.tiles) : j < s.at => o.tiles[j].loc # loc BY <1>1, <1>2, <1>4, FreshLoc
<1>6. s2.pc \in Over \/ (s.pc \notin Over /\ d.counters \subseteq d2.counters) BY <1>2 DEF Over
<1>7. OneTile(d.mods, d2.mods, loc) BY <1>4
<1>8. s.at \in Nat /\ s2.at \in Nat /\ s.at <= s2.at BY <1>2, TileShape, <1>1
<1>9. DbOK(o, s2, d2, db) BY <1>1, <1>5, <1>6, <1>7, <1>8, DbKeeps
<1> QED BY <1>1, <1>3, <1>9 DEF TInv

\* So do the steps that follow the tiles.
LEMMA CalmKeeps ==
  ASSUME NEW o, NEW s, NEW d, NEW db, TInv(o, s, d, db), NEW s2, NEW d2, IsDev(d2), s.pc # "new",
         Same(s, s2), s2.at = s.at, s2.pc \notin Working, s2.pc # "new", d2.mods = d.mods,
         s2.pc \in Over \/ (s.pc \notin Over /\ d.counters \subseteq d2.counters)
  PROVE  TInv(o, s2, d2, db)
<1>1. OptOK(o) /\ StOK(o, s) /\ DbOK(o, s, d, db) BY DEF TInv
<1>2. StOK(o, s2) BY <1>1 DEF StOK, Same
<1>3. s.at \in Nat /\ s2.at \in Nat /\ s.at <= s2.at BY <1>1, TileShape DEF StOK
<1>4. DbOK(o, s2, d2, db)
  <2>1. \A u \in DOMAIN d.mods : /\ d2.mods[u].state = d.mods[u].state /\ d2.mods[u].stop = d.mods[u].stop
                                 /\ d2.mods[u].events = d.mods[u].events /\ d2.mods[u].packet = d.mods[u].packet
                                 /\ (o.start = "layer") \/ d2.mods[u].start = d.mods[u].start
    OBVIOUS
  <2>2. DOMAIN d2.mods = DOMAIN d.mods OBVIOUS
  <2> QED BY <1>1, <2>1, <2>2, DbSame
<1>5. CurOK(o, s2, d2) BY DEF CurOK
<1> QED BY <1>1, <1>2, <1>4, <1>5 DEF TInv

\* setMetricsSettings keeps the invariant: the database is empty.
LEMMA SetupKeeps ==
  ASSUME NEW o, o = ttOpt, NEW s, s = ttSt, NEW d, d = ttDev, NEW db, db = ttDb, TInv(o, s, d, db), setMetricsSettings
  PROVE  TInv(ttOpt', ttSt', ttDev', ttDb')
<1>1. OptOK(o) /\ StOK(o, s) /\ DbOK(o, s, d, db) /\ IsDev(d) BY DEF TInv
<1>2. IsSt(s) BY <1>1 DEF StOK
<1>3. PICK s2 : s2 = ttSt' OBVIOUS
<1>4. /\ s.pc = "new" /\ ttOpt' = o /\ ttDev' = d /\ ttDb' = db
      /\ IsSt(s2) /\ s2.pc = "tile" /\ s2.at = s.at
      /\ s2.coreEnd = (IF o.shim = "edge" THEN "INSTR_EVENT_1" ELSE s.coreEnd)
  BY <1>2, <1>3, SetupIs
<1>5. StOK(o, s2) BY <1>1, <1>4 DEF StOK, Working
<1>6. CurOK(o, s2, d) BY <1>4 DEF CurOK, Working
<1>7. DbOK(o, s2, d, db) BY <1>1, <1>4 DEF DbOK, RecAt, Over
<1> QED BY <1>1, <1>3, <1>4, <1>5, <1>6, <1>7 DEF TInv

\* beginTile: the tile at hand has the events of its set.
LEMMA BeginKeeps ==
  ASSUME NEW o, o = ttOpt, NEW s, s = ttSt, NEW d, d = ttDev, NEW db, db = ttDb, TInv(o, s, d, db), beginTile
  PROVE  TInv(ttOpt', ttSt', ttDev', ttDb')
<1>1. OptOK(o) /\ StOK(o, s) /\ DbOK(o, s, d, db) /\ IsDev(d) BY DEF TInv
<1>2. IsSt(s) /\ s.at \in 1..(Len(o.tiles) + 1) BY <1>1 DEF StOK
<1>3. PICK s2 : s2 = ttSt' OBVIOUS
<1>4. PICK t : t = o.tiles[s.at] OBVIOUS
<1>5. PICK type : type = TypeIn(o, t.loc) OBVIOUS
<1>6. /\ s.pc = "tile" /\ s.at \in 1..Len(o.tiles) /\ ttOpt' = o /\ ttDev' = d /\ ttDb' = db /\ Same(s, s2)
      /\ \/ s2.pc = "tile" /\ s2.at = s.at + 1
         \/ s2.pc = "failed" /\ s2.at = s.at
         \/ /\ s2.pc = "counters" /\ s2.at = s.at
            /\ type = "core" => t.set \in {"functions", "all_dma"}
            /\ s2.cur = [coreEvents |-> coreEventSets(t.set),
                         memoryEvents |-> IF type = "core" THEN memoryEventSets(t.set) ELSE memoryTileEventSets(t.set),
                         interfaceEvents |-> interfaceTileEventSets(t.set), cfg |-> NewConfig(t)]
  BY <1>1, <1>2, <1>3, <1>4, <1>5, BeginIs
<1>7. StOK(o, s2)
  <2>1. s2.at \in 1..(Len(o.tiles) + 1) BY <1>1, <1>6, TileShape
  <2>2. s2.pc \in Working => s2.at \in 1..Len(o.tiles) BY <1>6 DEF Working
  <2> QED BY <1>1, <1>6, <2>1, <2>2 DEF StOK, Same
<1>8. DbOK(o, s2, d, db)
  <2>1. s.at \in Nat /\ s2.at \in Nat /\ s.at <= s2.at BY <1>1, <1>6, TileShape
  <2>2. s2.pc \in Over \/ (s.pc \notin Over /\ d.counters \subseteq d.counters) BY <1>6 DEF Over
  <2>3. \A j \in 1..Len(o.tiles) : j < s.at => o.tiles[j].loc # t.loc BY <1>1, <1>4, <1>6, FreshLoc
  <2>4. OneTile(d.mods, d.mods, t.loc) BY DEF OneTile
  <2> QED BY <1>1, <2>1, <2>2, <2>3, <2>4, DbKeeps
<1>9. CurOK(o, s2, d)
  <2> SUFFICES ASSUME s2.pc \in Working PROVE CurAt(o, s2, d, o.tiles[s2.at], s2.cur.cfg) BY DEF CurOK
  <2>1. /\ s2.pc = "counters" /\ s2.at = s.at
        /\ type = "core" => t.set \in {"functions", "all_dma"}
        /\ s2.cur = [coreEvents |-> coreEventSets(t.set),
                     memoryEvents |-> IF type = "core" THEN memoryEventSets(t.set) ELSE memoryTileEventSets(t.set),
                     interfaceEvents |-> interfaceTileEventSets(t.set), cfg |-> NewConfig(t)]
    BY <1>6 DEF Working
  <2>2. PICK cfg : cfg = s2.cur.cfg OBVIOUS
  <2>3. cfg = NewConfig(t) BY <2>1, <2>2
  <2>4. cfg.loc = t.loc /\ cfg.set = t.set /\ cfg.counters = {} /\ cfg.bc = <<>> /\ cfg.mask = {} BY <2>3 DEF NewConfig
  <2>5. cfg.mask = DOMAIN cfg.bc BY <2>4
  <2>6. /\ s2.cur.coreEvents \in Seq(Words) /\ s2.cur.memoryEvents \in Seq(Words) /\ s2.cur.interfaceEvents \in Seq(Words)
        /\ t.set \in {"functions", "all_dma"} => s2.cur.coreEvents # <<>>
        /\ t.set = "input_ports" => s2.cur.interfaceEvents # <<>>
    BY <2>1, EventsOfSets
  <2>7. type = "shim" => t.set = "input_ports"
    <3>1. t.set \in SetsOf(type) BY <1>1, <1>4, <1>5, <1>6, TileShape
    <3> QED BY <3>1 DEF SetsOf
  <2> QED BY <1>4, <1>5, <2>1, <2>2, <2>4, <2>5, <2>6, <2>7 DEF CurAt
<1> QED BY <1>1, <1>3, <1>6, <1>7, <1>8, <1>9 DEF TInv

\* executionTile: tiles with execution trace are only listed.
LEMMA ExecutionKeeps ==
  ASSUME NEW o, o = ttOpt, NEW s, s = ttSt, NEW d, d = ttDev, NEW db, db = ttDb, TInv(o, s, d, db),
         NEW f \in {"ok", "control", "start"}, executionTile(f)
  PROVE  TInv(ttOpt', ttSt', ttDev', ttDb')
<1>1. OptOK(o) /\ StOK(o, s) /\ DbOK(o, s, d, db) /\ IsDev(d) BY DEF TInv
<1>2. IsSt(s) /\ s.at \in 1..(Len(o.tiles) + 1) BY <1>1 DEF StOK
<1>3. PICK s2, d2, db2 : s2 = ttSt' /\ d2 = ttDev' /\ db2 = ttDb' OBVIOUS
<1>4. PICK t : t = o.tiles[s.at] OBVIOUS
<1>5. /\ s.pc = "tile" /\ s.at \in 1..Len(o.tiles) /\ ttOpt' = o /\ t.set = "execution"
      /\ Same(s, s2) /\ s2.pc = "tile" /\ s2.at = s.at + 1
      /\ \/ d2 = d /\ db2 = db
         \/ /\ IsDev(d2) /\ d2.counters = d.counters /\ db2 = Append(db, NewConfig(t))
            /\ \E state : d2.mods = With(d.mods, <<t.loc, "core">>,
                                         TraceUnit(state, s.coreStart, s.coreEnd, <<"TRUE">>, 0))
  BY <1>1, <1>2, <1>3, <1>4, ExecutionIs
<1>6. StOK(o, s2)
  <2>1. s2.at \in 1..(Len(o.tiles) + 1) BY <1>1, <1>5, TileShape
  <2> QED BY <1>1, <1>5, <2>1 DEF StOK, Same, Working
<1>7. CurOK(o, s2, d2) BY <1>5 DEF CurOK, Working
<1>8. IsDev(d2) BY <1>1, <1>5
<1>9. DbOK(o, s2, d2, db)
  <2>1. s.at \in Nat /\ s2.at \in Nat /\ s.at <= s2.at BY <1>1, <1>5, TileShape
  <2>2. s2.pc \in Over \/ (s.pc \notin Over /\ d.counters \subseteq d2.counters) BY <1>5 DEF Over
  <2>3. PICK loc : loc = t.loc OBVIOUS
  <2>4. \A j \in 1..Len(o.tiles) : j < s.at => o.tiles[j].loc # loc BY <1>1, <1>4, <1>5, <2>3, FreshLoc
  <2>5. OneTile(d.mods, d2.mods, loc) BY <1>5, <2>3 DEF OneTile
  <2> QED BY <1>1, <2>1, <2>2, <2>4, <2>5, DbKeeps, Zenon
<1>10. DbOK(o, s2, d2, db2)
  <2>1. CASE db2 = db BY <1>9, <2>1
  <2>2. CASE db2 = Append(db, NewConfig(t))
    <3>1. PICK e : e = NewConfig(t) OBVIOUS
    <3>2. e.loc = t.loc /\ e.set = "execution" BY <1>5, <3>1 DEF NewConfig
    <3>3. \E j \in 1..Len(o.tiles) : j < s2.at /\ e.loc = o.tiles[j].loc BY <1>4, <1>5, <3>2
    <3>4. RecAt(o, s2, d2, e) BY <3>2, <3>3 DEF RecAt
    <3>5. Longer(db2, db, e)
      <4>1. IsList(db) /\ db2 = Append(db, e) BY <1>9, <2>2, <3>1 DEF DbOK
      <4> QED BY <4>1, DbAppend, Zenon
    <3> QED BY <1>9, <3>4, <3>5 DEF DbOK, Longer
  <2> QED BY <1>5, <2>1, <2>2
<1> QED BY <1>1, <1>3, <1>5, <1>6, <1>7, <1>8, <1>10 DEF TInv

\* reserveCounters: counters are traced, or configuration fails.
LEMMA CountersKeep ==
  ASSUME NEW o, o = ttOpt, NEW s, s = ttSt, NEW d, d = ttDev, NEW db, db = ttDb, TInv(o, s, d, db),
         NEW f \in {"ok", "core", "mem"}, reserveCounters(f)
  PROVE  TInv(ttOpt', ttSt', ttDev', ttDb')
<1>1. OptOK(o) /\ StOK(o, s) /\ CurOK(o, s, d) /\ IsDev(d) BY DEF TInv
<1>2. IsSt(s) BY <1>1 DEF StOK
<1>3. PICK s2, d2 : s2 = ttSt' /\ d2 = ttDev' OBVIOUS
<1>4. PICK t : t = o.tiles[s.at] OBVIOUS
<1>5. PICK type : type = TypeIn(o, t.loc) OBVIOUS
<1>6. /\ s.pc = "counters" /\ ttOpt' = o /\ ttDb' = db
      /\ SameStarts(s, s2) /\ s2.at = s.at /\ IsDev(d2) /\ d2.mods = d.mods
      /\ \/ s2.pc = "failed" /\ s2.cur = s.cur
         \/ /\ d2 = d /\ s2.cur = s.cur
            /\ \/ type = "core" /\ s2.pc = "core"
               \/ type = "mem_tile" /\ s2.pc = "mem"
               \/ type = "shim" /\ s2.pc = "pl"
         \/ /\ type = "core" /\ s2.pc = "core"
            /\ \E got : /\ d2.counters = d.counters \cup got
                        /\ s2.cur = [coreEvents |-> Append(s.cur.coreEvents, "PERF_CNT_0_CORE"),
                                     memoryEvents |-> Append(s.cur.memoryEvents, MemCounter),
                                     interfaceEvents |-> s.cur.interfaceEvents,
                                     cfg |-> [s.cur.cfg EXCEPT !.counters = got]]
  <2>1. s.pc = "counters" /\ ttOpt' = o /\ ttDb' = db /\ CountersDone(o, s, d, s2, d2) BY <1>1, <1>2, <1>3, CountersAre
  <2> QED BY <1>4, <1>5, <2>1, Zenon DEF CountersDone
<1>7. CurAt(o, s, d, t, s.cur.cfg) BY <1>1, <1>4, <1>6 DEF CurOK, Working
<1>8. CurOK(o, s2, d2)
  <2> SUFFICES ASSUME s2.pc \in Working PROVE CurAt(o, s2, d2, t, s2.cur.cfg) BY <1>4, <1>6 DEF CurOK
  <2>1. s2.pc # "failed" BY DEF Working
  <2>2. CASE /\ d2 = d /\ s2.cur = s.cur
             /\ \/ type = "core" /\ s2.pc = "core"
                \/ type = "mem_tile" /\ s2.pc = "mem"
                \/ type = "shim" /\ s2.pc = "pl"
    BY <1>5, <1>7, <2>2 DEF CurAt
  <2>3. ASSUME type = "core", s2.pc = "core", NEW got, d2.counters = d.counters \cup got,
               s2.cur = [coreEvents |-> Append(s.cur.coreEvents, "PERF_CNT_0_CORE"),
                         memoryEvents |-> Append(s.cur.memoryEvents, MemCounter),
                         interfaceEvents |-> s.cur.interfaceEvents, cfg |-> [s.cur.cfg EXCEPT !.counters = got]]
        PROVE  CurAt(o, s2, d2, t, s2.cur.cfg)
    <3>1. PICK c, c2 : c = s.cur.cfg /\ c2 = s2.cur.cfg OBVIOUS
    <3>2. IsCfg(c) BY <1>2, <3>1 DEF IsSt, IsCur
    <3>3. c2 = [c EXCEPT !.counters = got] BY <2>3, <3>1
    <3>4. c2.loc = c.loc /\ c2.set = c.set /\ c2.counters = got /\ c2.bc = c.bc /\ c2.mask = c.mask
      BY <3>2, <3>3 DEF IsCfg
    <3>5. PICK ce, me : ce = Append(s.cur.coreEvents, "PERF_CNT_0_CORE") /\ me = Append(s.cur.memoryEvents, MemCounter)
      OBVIOUS
    <3>6. ce \in Seq(Words) /\ me \in Seq(Words) /\ ce # <<>>
      <4>1. s.cur.coreEvents \in Seq(Words) /\ s.cur.memoryEvents \in Seq(Words) BY <1>7 DEF CurAt
      <4> QED BY <3>5, <4>1, MoreEvents, Zenon
    <3>7. s2.cur.coreEvents = ce /\ s2.cur.memoryEvents = me /\ s2.cur.interfaceEvents = s.cur.interfaceEvents
      BY <2>3, <3>5
    <3> QED BY <1>5, <1>7, <2>3, <3>1, <3>4, <3>6, <3>7 DEF CurAt
  <2> QED BY <1>6, <2>1, <2>2, <2>3
<1>9. /\ s.pc \in Working /\ s2.pc \in Working \cup {"ready", "failed"} /\ Same(s, s2)
      /\ OneTile(d.mods, d2.mods, o.tiles[s.at].loc) /\ (s2.pc = "failed" \/ d.counters \subseteq d2.counters)
  BY <1>6 DEF Working, SameStarts, OneTile
<1>10. TInv(o, s2, d2, db) BY <1>6, <1>8, <1>9, StageKeeps
<1> QED BY <1>3, <1>6, <1>10

\* coreTrace: the core module agrees with what is recorded of it.
LEMMA CoreKeeps ==
  ASSUME NEW o, o = ttOpt, NEW s, s = ttSt, NEW d, d = ttDev, NEW db, db = ttDb, TInv(o, s, d, db),
         NEW f \in CoreFaults, coreTrace(f)
  PROVE  TInv(ttOpt', ttSt', ttDev', ttDb')
<1>1. OptOK(o) /\ StOK(o, s) /\ CurOK(o, s, d) /\ IsDev(d) BY DEF TInv
<1>2. IsSt(s) BY <1>1 DEF StOK
<1>3. PICK s2, d2 : s2 = ttSt' /\ d2 = ttDev' OBVIOUS
<1>4. PICK t : t = o.tiles[s.at] OBVIOUS
<1>5. PICK type, layer : type = TypeIn(o, t.loc) /\ layer = (o.start = "layer") BY Zenon
<1>6. s.pc = "core" BY DEF coreTrace
<1>7. CurAt(o, s, d, t, s.cur.cfg) BY <1>1, <1>4, <1>6 DEF CurOK, Working
<1>8. s.cur.coreEvents \in Seq(Words) /\ s.cur.coreEvents # <<>> /\ type = "core" BY <1>5, <1>6, <1>7 DEF CurAt
<1>9. /\ s.pc = "core" /\ ttOpt' = o /\ ttDb' = db /\ Same(s, s2) /\ s2.at = s.at /\ IsDev(d2)
      /\ \/ /\ s2.pc = "ready" /\ s2.cur = s.cur /\ d.counters \subseteq d2.counters
            /\ Unchanged(d.mods, <<t.loc, "core">>, d2.mods)
         \/ s2.pc = "failed" /\ s2.cur = s.cur /\ d2.mods = d.mods
         \/ /\ s2.pc = "mem" /\ d.counters \subseteq d2.counters
            /\ \E c, m : /\ IsCfg(c) /\ c.loc = s.cur.cfg.loc /\ c.set = s.cur.cfg.set
                         /\ c.counters = s.cur.cfg.counters
                         /\ s2.cur = [s.cur EXCEPT !.cfg = c] /\ IsUnit(m)
                         /\ d2.mods = With(d.mods, <<t.loc, "core">>, m)
                         /\ Agrees(c, c.core, m, layer) /\ AllOwn(c.core)
  <2>1. s.pc = "core" /\ ttOpt' = o /\ ttDb' = db /\ CoreDone(o, s, d, s2, d2) BY <1>1, <1>2, <1>3, <1>8, CoreIs
  <2> QED BY <1>4, <1>5, <2>1, Zenon DEF CoreDone
<1>10. CASE s2.pc \in {"ready", "failed"}
  <2>1. CurOK(o, s2, d2) BY <1>10 DEF CurOK, Working
  <2>2. /\ s.pc \in Working /\ s2.pc \in Working \cup {"ready", "failed"}
        /\ OneTile(d.mods, d2.mods, o.tiles[s.at].loc) /\ (s2.pc = "failed" \/ d.counters \subseteq d2.counters)
    BY <1>4, <1>9, <1>10 DEF Working, OneTile, Unchanged
  <2>3. TInv(o, s2, d2, db) BY <1>9, <2>1, <2>2, StageKeeps
  <2> QED BY <1>3, <1>9, <2>3
<1>11. CASE s2.pc = "mem"
  <2>1. PICK c, m : /\ IsCfg(c) /\ c.loc = s.cur.cfg.loc /\ c.set = s.cur.cfg.set
                    /\ c.counters = s.cur.cfg.counters
                    /\ s2.cur = [s.cur EXCEPT !.cfg = c] /\ IsUnit(m)
                    /\ d2.mods = With(d.mods, <<t.loc, "core">>, m)
                    /\ Agrees(c, c.core, m, layer) /\ AllOwn(c.core)
    BY <1>9, <1>11
  <2>2. d.counters \subseteq d2.counters BY <1>9, <1>11
  <2>3. /\ s2.cur.cfg = c /\ s2.cur.coreEvents = s.cur.coreEvents /\ s2.cur.memoryEvents = s.cur.memoryEvents
        /\ s2.cur.interfaceEvents = s.cur.interfaceEvents
    BY <1>2, <2>1 DEF IsSt, IsCur
  <2>4. <<t.loc, "core">> \in DOMAIN d2.mods /\ d2.mods[<<t.loc, "core">>] = m BY <2>1 DEF With
  <2>5. CurAt(o, s2, d2, t, c)
    <3>1. c.loc = t.loc /\ c.set = t.set /\ c.counters \subseteq d2.counters BY <1>7, <2>1, <2>2 DEF CurAt
    <3> QED BY <1>5, <1>7, <1>8, <1>11, <2>1, <2>3, <2>4, <3>1 DEF CurAt
  <2>6. CurOK(o, s2, d2) BY <1>4, <1>9, <2>3, <2>5 DEF CurOK
  <2>7. /\ s.pc \in Working /\ s2.pc \in Working \cup {"ready", "failed"} BY <1>9, <1>11 DEF Working
  <2>8. OneTile(d.mods, d2.mods, o.tiles[s.at].loc) BY <1>4, <2>1 DEF OneTile
  <2>9. TInv(o, s2, d2, db) BY <1>9, <2>2, <2>6, <2>7, <2>8, StageKeeps
  <2> QED BY <1>3, <1>9, <2>9
<1> QED BY <1>9, <1>10, <1>11

\* memoryTrace: the memory module agrees, with the channels the core uses.
LEMMA MemoryKeeps ==
  ASSUME NEW o, o = ttOpt, NEW s, s = ttSt, NEW d, d = ttDev, NEW db, db = ttDb, TInv(o, s, d, db),
         NEW f \in {"ok", "cntr", "control", "slot", "mode"}, memoryTrace(f)
  PROVE  TInv(ttOpt', ttSt', ttDev', ttDb')
<1>1. OptOK(o) /\ StOK(o, s) /\ CurOK(o, s, d) /\ IsDev(d) BY DEF TInv
<1>2. IsSt(s) BY <1>1 DEF StOK
<1>3. PICK s2, d2 : s2 = ttSt' /\ d2 = ttDev' OBVIOUS
<1>4. PICK t : t = o.tiles[s.at] OBVIOUS
<1>5. PICK type, layer : type = TypeIn(o, t.loc) /\ layer = (o.start = "layer") BY Zenon
<1>6. s.pc = "mem" BY DEF memoryTrace
<1>7. CurAt(o, s, d, t, s.cur.cfg) BY <1>1, <1>4, <1>6 DEF CurOK, Working
<1>8. s.cur.memoryEvents \in Seq(Words) /\ type # "shim" /\ s.coreEnd \in {"INSTR_EVENT_1", "USER_EVENT_3"}
  BY <1>1, <1>5, <1>6, <1>7 DEF CurAt, StOK
<1>9. /\ s.pc = "mem" /\ ttOpt' = o /\ ttDb' = db /\ SameStarts(s, s2) /\ s2.at = s.at /\ IsDev(d2)
      /\ \/ /\ s2.pc = "ready" /\ s2.cur = s.cur /\ d2.counters = d.counters
            /\ Unchanged(d.mods, <<t.loc, "mem">>, d2.mods)
         \/ s2.pc = "failed" /\ s2.cur = s.cur /\ d2.mods = d.mods
         \/ /\ s2.pc = "add" /\ d2.counters = d.counters
            /\ \E c, m : /\ IsCfg(c) /\ c.loc = s.cur.cfg.loc /\ c.set = s.cur.cfg.set
                         /\ c.counters = s.cur.cfg.counters /\ c.core = s.cur.cfg.core
                         /\ isDmaSet(t.set) \/ c.mask = DOMAIN c.bc
                         /\ s2.cur = [s.cur EXCEPT !.cfg = c] /\ IsUnit(m)
                         /\ d2.mods = With(d.mods, <<t.loc, "mem">>, m)
                         /\ Agrees(c, c.mem, m, layer)
  <2>1. s.pc = "mem" /\ ttOpt' = o /\ ttDb' = db /\ MemoryDone(o, s, d, s2, d2) BY <1>1, <1>2, <1>3, <1>8, MemoryIs
  <2> QED BY <1>4, <1>5, <2>1, Zenon DEF MemoryDone
<1>10. CASE s2.pc \in {"ready", "failed"}
  <2>1. CurOK(o, s2, d2) BY <1>10 DEF CurOK, Working
  <2>2. /\ s.pc \in Working /\ s2.pc \in Working \cup {"ready", "failed"} /\ Same(s, s2)
        /\ OneTile(d.mods, d2.mods, o.tiles[s.at].loc) /\ (s2.pc = "failed" \/ d.counters \subseteq d2.counters)
    BY <1>4, <1>9, <1>10 DEF Working, OneTile, Unchanged, SameStarts
  <2>3. TInv(o, s2, d2, db) BY <1>9, <2>1, <2>2, StageKeeps
  <2> QED BY <1>3, <1>9, <2>3
<1>11. CASE s2.pc = "add"
  <2>1. PICK c, m : /\ IsCfg(c) /\ c.loc = s.cur.cfg.loc /\ c.set = s.cur.cfg.set
                    /\ c.counters = s.cur.cfg.counters /\ c.core = s.cur.cfg.core
                    /\ isDmaSet(t.set) \/ c.mask = DOMAIN c.bc
                    /\ s2.cur = [s.cur EXCEPT !.cfg = c] /\ IsUnit(m)
                    /\ d2.mods = With(d.mods, <<t.loc, "mem">>, m)
                    /\ Agrees(c, c.mem, m, layer)
    BY <1>9, <1>11
  <2>2. d.counters \subseteq d2.counters BY <1>9, <1>11
  <2>3. /\ s2.cur.cfg = c /\ s2.cur.coreEvents = s.cur.coreEvents /\ s2.cur.memoryEvents = s.cur.memoryEvents
        /\ s2.cur.interfaceEvents = s.cur.interfaceEvents
    BY <1>2, <2>1 DEF IsSt, IsCur
  <2>4. <<t.loc, "mem">> \in DOMAIN d2.mods /\ d2.mods[<<t.loc, "mem">>] = m BY <2>1 DEF With
  <2>5. c.loc = t.loc /\ c.set = t.set /\ c.counters \subseteq d2.counters BY <1>7, <2>1, <2>2 DEF CurAt
  <2>6. ASSUME type = "core"
        PROVE  <<t.loc, "core">> \in DOMAIN d2.mods /\ Agrees(c, c.core, d2.mods[<<t.loc, "core">>], layer)
    <3>1. PICK a, k, n : a = s.cur.cfg /\ k = a.core /\ n = d.mods[<<t.loc, "core">>] OBVIOUS
    <3>2. <<t.loc, "core">> \in DOMAIN d.mods /\ Agrees(a, k, n, layer) /\ AllOwn(k)
      BY <1>5, <1>6, <1>7, <2>6, <3>1 DEF CurAt
    <3>3. Agrees(c, k, n, layer) BY <3>2, AgreesOwn
    <3>4. <<t.loc, "core">> \in DOMAIN d2.mods /\ d2.mods[<<t.loc, "core">>] = n BY <2>1, <3>1, <3>2 DEF With
    <3> QED BY <2>1, <3>1, <3>3, <3>4
  <2>7. Traced(c, d2.mods, type, layer) BY <1>8, <2>1, <2>4, <2>5, <2>6 DEF Traced
  <2>8. CurAt(o, s2, d2, t, c)
    BY <1>5, <1>7, <1>8, <1>11, <2>3, <2>5, <2>7 DEF CurAt
  <2>9. CurOK(o, s2, d2) BY <1>4, <1>9, <2>3, <2>8 DEF CurOK
  <2>10. s.pc \in Working /\ s2.pc \in Working \cup {"ready", "failed"} /\ Same(s, s2)
    BY <1>9, <1>11 DEF Working, SameStarts
  <2>11. OneTile(d.mods, d2.mods, o.tiles[s.at].loc)
    <3>1. d2.mods = With(d.mods, <<o.tiles[s.at].loc, "mem">>, m) BY <1>4, <2>1
    <3> QED BY <3>1 DEF OneTile
  <2>12. TInv(o, s2, d2, db) BY <1>9, <2>2, <2>9, <2>10, <2>11, StageKeeps
  <2> QED BY <1>3, <1>9, <2>12
<1> QED BY <1>9, <1>10, <1>11

\* interfaceTrace: the interface tile agrees.
LEMMA InterfaceKeeps ==
  ASSUME NEW o, o = ttOpt, NEW s, s = ttSt, NEW d, d = ttDev, NEW db, db = ttDb, TInv(o, s, d, db),
         NEW f \in {"ok", "cntr", "control", "slot", "mode"}, interfaceTrace(f)
  PROVE  TInv(ttOpt', ttSt', ttDev', ttDb')
<1>1. OptOK(o) /\ StOK(o, s) /\ CurOK(o, s, d) /\ IsDev(d) BY DEF TInv
<1>2. IsSt(s) BY <1>1 DEF StOK
<1>3. PICK s2, d2 : s2 = ttSt' /\ d2 = ttDev' OBVIOUS
<1>4. PICK t : t = o.tiles[s.at] OBVIOUS
<1>5. PICK type, layer : type = TypeIn(o, t.loc) /\ layer = (o.start = "layer") BY Zenon
<1>6. s.pc = "pl" BY DEF interfaceTrace
<1>7. CurAt(o, s, d, t, s.cur.cfg) BY <1>1, <1>4, <1>6 DEF CurOK, Working
<1>8. s.cur.interfaceEvents \in Seq(Words) /\ s.cur.interfaceEvents # <<>> /\ type = "shim" BY <1>5, <1>6, <1>7 DEF CurAt
<1>9. /\ s.pc = "pl" /\ ttOpt' = o /\ ttDb' = db /\ SameStarts(s, s2) /\ s2.at = s.at /\ IsDev(d2)
      /\ \/ /\ s2.pc = "ready" /\ s2.cur = s.cur /\ d2.counters = d.counters
            /\ Unchanged(d.mods, <<t.loc, "pl">>, d2.mods)
         \/ s2.pc = "failed" /\ s2.cur = s.cur /\ d2.mods = d.mods
         \/ /\ s2.pc = "add" /\ d2.counters = d.counters
            /\ \E c, m : /\ IsCfg(c) /\ c.loc = s.cur.cfg.loc /\ c.set = s.cur.cfg.set
                         /\ c.counters = s.cur.cfg.counters /\ c.bc = s.cur.cfg.bc /\ c.mask = s.cur.cfg.mask
                         /\ s2.cur = [s.cur EXCEPT !.cfg = c] /\ IsUnit(m)
                         /\ d2.mods = With(d.mods, <<t.loc, "pl">>, m)
                         /\ Agrees(c, c.pl, m, layer)
  <2>1. s.pc = "pl" /\ ttOpt' = o /\ ttDb' = db /\ InterfaceDone(o, s, d, s2, d2) BY <1>1, <1>2, <1>3, <1>8, InterfaceIs
  <2> QED BY <1>4, <1>5, <2>1, Zenon DEF InterfaceDone
<1>10. CASE s2.pc \in {"ready", "failed"}
  <2>1. CurOK(o, s2, d2) BY <1>10 DEF CurOK, Working
  <2>2. /\ s.pc \in Working /\ s2.pc \in Working \cup {"ready", "failed"} /\ Same(s, s2)
        /\ OneTile(d.mods, d2.mods, o.tiles[s.at].loc) /\ (s2.pc = "failed" \/ d.counters \subseteq d2.counters)
    BY <1>4, <1>9, <1>10 DEF Working, OneTile, Unchanged, SameStarts
  <2>3. TInv(o, s2, d2, db) BY <1>9, <2>1, <2>2, StageKeeps
  <2> QED BY <1>3, <1>9, <2>3
<1>11. CASE s2.pc = "add"
  <2>1. PICK c, m : /\ IsCfg(c) /\ c.loc = s.cur.cfg.loc /\ c.set = s.cur.cfg.set
                    /\ c.counters = s.cur.cfg.counters /\ c.bc = s.cur.cfg.bc /\ c.mask = s.cur.cfg.mask
                    /\ s2.cur = [s.cur EXCEPT !.cfg = c] /\ IsUnit(m)
                    /\ d2.mods = With(d.mods, <<t.loc, "pl">>, m)
                    /\ Agrees(c, c.pl, m, layer)
    BY <1>9, <1>11
  <2>2. d.counters \subseteq d2.counters BY <1>9, <1>11
  <2>3. /\ s2.cur.cfg = c /\ s2.cur.coreEvents = s.cur.coreEvents /\ s2.cur.memoryEvents = s.cur.memoryEvents
        /\ s2.cur.interfaceEvents = s.cur.interfaceEvents
    BY <1>2, <2>1 DEF IsSt, IsCur
  <2>4. <<t.loc, "pl">> \in DOMAIN d2.mods /\ d2.mods[<<t.loc, "pl">>] = m BY <2>1 DEF With
  <2>5. c.loc = t.loc /\ c.set = t.set /\ c.counters \subseteq d2.counters /\ c.mask = DOMAIN c.bc
    <3>1. s.cur.cfg.mask = DOMAIN s.cur.cfg.bc BY <1>5, <1>7, <1>8 DEF CurAt
    <3> QED BY <1>7, <2>1, <2>2, <3>1 DEF CurAt
  <2>6. Traced(c, d2.mods, type, layer) BY <1>8, <2>1, <2>4, <2>5 DEF Traced
  <2>7. CurAt(o, s2, d2, t, c)
    BY <1>5, <1>7, <1>8, <1>11, <2>3, <2>5, <2>6 DEF CurAt
  <2>8. CurOK(o, s2, d2) BY <1>4, <1>9, <2>3, <2>7 DEF CurOK
  <2>9. s.pc \in Working /\ s2.pc \in Working \cup {"ready", "failed"} /\ Same(s, s2)
    BY <1>9, <1>11 DEF Working, SameStarts
  <2>10. OneTile(d.mods, d2.mods, o.tiles[s.at].loc)
    <3>1. \E mod, n : d2.mods = With(d.mods, <<t.loc, mod>>, n) BY <2>1, Zenon
    <3> QED BY <1>4, <3>1, Zenon DEF OneTile
  <2>11. TInv(o, s2, d2, db) BY <1>9, <2>2, <2>8, <2>9, <2>10, StageKeeps
  <2> QED BY <1>3, <1>9, <2>11
<1> QED BY <1>9, <1>10, <1>11

\* addAIECfgTile: a tile is recorded once its modules agree.
LEMMA AddKeeps ==
  ASSUME NEW o, o = ttOpt, NEW s, s = ttSt, NEW d, d = ttDev, NEW db, db = ttDb, TInv(o, s, d, db), addAIECfgTile
  PROVE  TInv(ttOpt', ttSt', ttDev', ttDb')
<1>1. OptOK(o) /\ StOK(o, s) /\ CurOK(o, s, d) /\ IsDev(d) /\ DbOK(o, s, d, db) BY DEF TInv
<1>2. IsSt(s) BY <1>1 DEF StOK
<1>3. PICK s2, db2 : s2 = ttSt' /\ db2 = ttDb' OBVIOUS
<1>4. PICK t, e, loc : t = o.tiles[s.at] /\ e = s.cur.cfg /\ loc = t.loc OBVIOUS
<1>5. /\ s.pc = "add" /\ ttOpt' = o /\ ttDev' = d /\ db2 = Append(db, e)
      /\ Same(s, s2) /\ s2.pc = "tile" /\ s2.at = s.at + 1
  BY <1>2, <1>3, <1>4, AddIs DEF SameStarts
<1>6. CurAt(o, s, d, t, e) BY <1>1, <1>4, <1>5 DEF CurOK, Working
<1>7. s.at \in 1..Len(o.tiles) BY <1>1, <1>5 DEF StOK, Working
<1>8. StOK(o, s2)
  <2>1. s2.at \in 1..(Len(o.tiles) + 1) BY <1>1, <1>5, <1>7, TileShape
  <2> QED BY <1>1, <1>5, <2>1 DEF StOK, Same, Working
<1>9. CurOK(o, s2, d) BY <1>5 DEF CurOK, Working
<1>10. DbOK(o, s2, d, db)
  <2>1. s.at \in Nat /\ s2.at \in Nat /\ s.at <= s2.at BY <1>1, <1>5, <1>7, TileShape
  <2>2. s2.pc \in Over \/ (s.pc \notin Over /\ d.counters \subseteq d.counters) BY <1>5 DEF Over
  <2>3. \A j \in 1..Len(o.tiles) : j < s.at => o.tiles[j].loc # loc BY <1>1, <1>4, <1>7, FreshLoc
  <2>4. OneTile(d.mods, d.mods, loc) BY DEF OneTile
  <2> QED BY <1>1, <2>1, <2>2, <2>3, <2>4, DbKeeps
<1>11. RecAt(o, s2, d, e)
  <2>1. e.loc = o.tiles[s.at].loc /\ s.at < s2.at BY <1>4, <1>5, <1>6, <1>7, <1>1, TileShape DEF CurAt
  <2>2. Traced(e, d.mods, TypeIn(o, e.loc), o.start = "layer") /\ e.counters \subseteq d.counters
    BY <1>4, <1>5, <1>6 DEF CurAt
  <2> QED BY <1>7, <2>1, <2>2 DEF RecAt
<1>12. Longer(db2, db, e)
  <2>1. IsList(db) BY <1>1 DEF DbOK
  <2> QED BY <1>5, <2>1, DbAppend
<1>13. DbOK(o, s2, d, db2) BY <1>10, <1>11, <1>12 DEF DbOK, Longer
<1> QED BY <1>1, <1>3, <1>5, <1>8, <1>9, <1>13 DEF TInv

\* The steps after the tiles change no events.
LEMMA RestKeeps ==
  ASSUME NEW o, o = ttOpt, NEW s, s = ttSt, NEW d, d = ttDev, NEW db, db = ttDb, TInv(o, s, d, db),
         tilesDone \/ traceConfigured \/ freeResources \/ flushTraceModules
           \/ \E f \in {"ok", "window"} : configureWindowedEventTrace(f)
  PROVE  TInv(ttOpt', ttSt', ttDev', ttDb')
<1>1. OptOK(o) /\ StOK(o, s) /\ CurOK(o, s, d) /\ IsDev(d) /\ DbOK(o, s, d, db) BY DEF TInv
<1>2. IsSt(s) BY <1>1 DEF StOK
<1>3. PICK s2, d2 : s2 = ttSt' /\ d2 = ttDev' OBVIOUS
<1>4. CASE tilesDone \/ traceConfigured
  <2>1. /\ s.pc \in {"tile", "ready"} /\ ttOpt' = o /\ d2 = d /\ ttDb' = db /\ Same(s, s2)
        /\ s2.pc \in {"ready", "tracing"} /\ s2.at = s.at
    BY <1>2, <1>3, <1>4, DoneIs, ConfiguredIs DEF SameStarts
  <2>2. TInv(o, s2, d2, db) BY <1>1, <2>1, CalmKeeps DEF Working, Over
  <2> QED BY <1>3, <2>1, <2>2
<1>5. CASE freeResources
  <2>1. /\ s.pc \in {"tracing", "failed"} /\ ttOpt' = o /\ IsDev(d2) /\ d2.mods = d.mods /\ ttDb' = db /\ Same(s, s2)
        /\ s2.pc = "released" /\ s2.at = s.at
    BY <1>1, <1>2, <1>3, <1>5, FreeIs DEF SameStarts
  <2>2. TInv(o, s2, d2, db) BY <1>1, <2>1, CalmKeeps DEF Working, Over
  <2> QED BY <1>3, <2>1, <2>2
<1>6. CASE flushTraceModules
  <2>1. /\ s.pc = "released" /\ ttOpt' = o /\ ttDb' = db
        /\ Same(s, s2) /\ s2.pc = "ended" /\ s2.at = s.at
        /\ IsDev(d2) /\ d2.counters = d.counters /\ DOMAIN d2.mods = DOMAIN d.mods
        /\ \A u \in DOMAIN d.mods :
             /\ d2.mods[u].state = d.mods[u].state /\ d2.mods[u].stop = d.mods[u].stop
             /\ d2.mods[u].events = d.mods[u].events /\ d2.mods[u].packet = d.mods[u].packet
             /\ (o.start = "layer") \/ d2.mods[u].start = d.mods[u].start
    BY <1>1, <1>2, <1>3, <1>6, FlushIs
  <2>2. DbOK(o, s2, d2, db)
    <3>1. s2.pc \in Over \/ (s.pc \notin Over /\ d.counters \subseteq d2.counters) BY <2>1 DEF Over
    <3> QED BY <1>1, <2>1, <3>1, DbSame
  <2>3. StOK(o, s2) BY <1>1, <2>1 DEF StOK, Same, Working
  <2>4. CurOK(o, s2, d2) BY <2>1 DEF CurOK, Working
  <2> QED BY <1>1, <1>3, <2>1, <2>2, <2>3, <2>4 DEF TInv
<1>7. ASSUME NEW f \in {"ok", "window"}, configureWindowedEventTrace(f) PROVE TInv(ttOpt', ttSt', ttDev', ttDb')
  <2>1. /\ s.pc = "ready" /\ o.start = "layer" /\ ttOpt' = o /\ ttDb' = db
        /\ Same(s, s2) /\ s2.pc = "tracing" /\ s2.at = s.at
        /\ IsDev(d2) /\ d.counters \subseteq d2.counters /\ DOMAIN d2.mods = DOMAIN d.mods
        /\ \A u \in DOMAIN d.mods :
             /\ d2.mods[u].state = d.mods[u].state /\ d2.mods[u].stop = d.mods[u].stop
             /\ d2.mods[u].events = d.mods[u].events /\ d2.mods[u].packet = d.mods[u].packet
             /\ (o.start = "layer") \/ d2.mods[u].start = d.mods[u].start
    BY <1>1, <1>2, <1>3, <1>7, WindowIs DEF SameStarts
  <2>2. DbOK(o, s2, d2, db)
    <3>1. s2.pc \in Over \/ (s.pc \notin Over /\ d.counters \subseteq d2.counters) BY <2>1 DEF Over
    <3> QED BY <1>1, <2>1, <3>1, DbSame
  <2>3. StOK(o, s2) BY <1>1, <2>1 DEF StOK, Same, Working
  <2>4. CurOK(o, s2, d2) BY <2>1 DEF CurOK, Working
  <2> QED BY <1>1, <1>3, <2>1, <2>2, <2>3, <2>4 DEF TInv
<1> QED BY <1>4, <1>5, <1>6, <1>7

\* The invariant holds at first.
LEMMA TilesInit ==
  ASSUME TtInit
  PROVE  TilesInv
<1>1. PICK o, s, d, db : o = ttOpt /\ s = ttSt /\ d = ttDev /\ db = ttDb OBVIOUS
<1>2. OptOK(o)
  <2>1. /\ o.tiles \in TileLists /\ o.start \in {"none", "delay", "delay2", "iteration", "user", "layer"}
        /\ o.multi \in BOOLEAN /\ o.broadcast \in BOOLEAN /\ o.left \in {0, 1}
    BY <1>1 DEF TtInit
  <2>2. <<o.shim, o.gen>> \in Styles /\ (o.shim = "edge" => ~o.multi /\ o.start # "layer") BY <1>1 DEF TtInit
  <2>3. \A i \in DOMAIN o.tiles : o.tiles[i].set \in SetsOf(TypeIn(o, o.tiles[i].loc))
    BY <1>1, Zenon DEF TtInit, TypeAt, TypeIn
  <2>4. \A i \in DOMAIN o.tiles : o.tiles[i].loc[1] - o.shift \in Column BY <1>1, Zenon DEF TtInit
  <2>5. o.layer \in BOOLEAN /\ (o.layer => o.start = "layer") BY <1>1 DEF TtInit
  <2>6. o.shift \in Nat
    <3>1. o.shift \in ColShifts BY <1>1 DEF TtInit
    <3> QED BY <3>1, TilesAssumption
  <2> QED BY <2>1, <2>2, <2>3, <2>4, <2>5, <2>6 DEF OptOK
<1>3. StOK(o, s)
  <2>1. PICK cfg : cfg = NewConfig(o.tiles[1]) OBVIOUS
  <2>2. IsCfg(cfg) BY <2>1 DEF NewConfig, IsCfg
  <2>3. PICK cur : cur = [coreEvents |-> <<>>, memoryEvents |-> <<>>, interfaceEvents |-> <<>>, cfg |-> cfg] OBVIOUS
  <2>4. IsCur(cur) BY <2>2, <2>3 DEF IsCur
  <2>5. s = [pc |-> "new", at |-> 1, cur |-> cur,
             coreStart |-> "ACTIVE", memStart |-> "TRUE", plStart |-> "TRUE",
             coreEnd |-> IF o.shim = "edge" THEN "DISABLED" ELSE "USER_EVENT_3",
             flushLocs |-> {}, perfCounters |-> {}, streamPorts |-> {}, faults |-> 0, timers |-> {}]
    BY <1>1, <2>1, <2>3 DEF TtInit
  <2>6. IsSt(s) /\ s.at = 1 /\ s.pc = "new" /\ s.coreEnd = IF o.shim = "edge" THEN "DISABLED" ELSE "USER_EVENT_3"
    BY <2>4, <2>5 DEF IsSt
  <2>7. 1 \in 1..(Len(o.tiles) + 1) BY <1>2, TileShape
  <2> QED BY <2>6, <2>7 DEF StOK, Working
<1>4. IsDev(d)
  <2>1. d = [mods |-> <<>>, counters |-> {}, ports |-> {}] BY <1>1 DEF TtInit
  <2> QED BY <2>1 DEF IsDev
<1>5. CurOK(o, s, d)
  <2>1. s.pc = "new" BY <1>1 DEF TtInit
  <2> QED BY <2>1 DEF CurOK, Working
<1>6. DbOK(o, s, d, db)
  <2>1. db = <<>> BY <1>1 DEF TtInit
  <2>2. DOMAIN db = {} /\ db \in Seq({}) BY <2>1
  <2> QED BY <2>2 DEF DbOK, IsList
<1> QED BY <1>1, <1>2, <1>3, <1>4, <1>5, <1>6 DEF TilesInv, TInv

\* Every step keeps it.
LEMMA TilesNext ==
  ASSUME TilesInv, [TtNext]_ttVars
  PROVE  TilesInv'
<1>1. PICK o, s, d, db : o = ttOpt /\ s = ttSt /\ d = ttDev /\ db = ttDb OBVIOUS
<1>2. TInv(o, s, d, db) BY <1>1 DEF TilesInv
<1> SUFFICES TInv(ttOpt', ttSt', ttDev', ttDb') BY DEF TilesInv
<1>3. CASE UNCHANGED ttVars BY <1>1, <1>2, <1>3 DEF ttVars
<1>4. CASE setMetricsSettings BY <1>1, <1>2, <1>4, SetupKeeps
<1>5. CASE beginTile BY <1>1, <1>2, <1>5, BeginKeeps
<1>6. CASE addAIECfgTile BY <1>1, <1>2, <1>6, AddKeeps
<1>7. CASE tilesDone \/ traceConfigured \/ freeResources \/ flushTraceModules
             \/ \E f \in {"ok", "window"} : configureWindowedEventTrace(f)
  BY <1>1, <1>2, <1>7, RestKeeps
<1>8. CASE \E f \in {"ok", "control", "start"} : executionTile(f) BY <1>1, <1>2, <1>8, ExecutionKeeps
<1>9. CASE \E f \in {"ok", "core", "mem"} : reserveCounters(f) BY <1>1, <1>2, <1>9, CountersKeep
<1>10. CASE \E f \in CoreFaults : coreTrace(f) BY <1>1, <1>2, <1>10, CoreKeeps
<1>11. CASE \E f \in {"ok", "cntr", "control", "slot", "mode"} : memoryTrace(f) BY <1>1, <1>2, <1>11, MemoryKeeps
<1>12. CASE \E f \in {"ok", "cntr", "control", "slot", "mode"} : interfaceTrace(f) BY <1>1, <1>2, <1>12, InterfaceKeeps
<1> QED BY <1>3, <1>4, <1>5, <1>6, <1>7, <1>8, <1>9, <1>10, <1>11, <1>12, Zenon DEF TtNext, CoreFaults

\* What the invariant says of the database is TilesRecorded.
LEMMA TilesInvRecords ==
  ASSUME TilesInv
  PROVE  TilesRecorded
<1>1. PICK o, s, d, db : o = ttOpt /\ s = ttSt /\ d = ttDev /\ db = ttDb OBVIOUS
<1>2. DbOK(o, s, d, db) BY <1>1 DEF TilesInv, TInv
<1>3. ASSUME NEW i \in DOMAIN ttDb, ttDb[i].set # "execution"
      PROVE  LET cfg == ttDb[i]
                 Resolve(e) == IF e.bc < 0 THEN e.event ELSE cfg.bc[e.bc]
                 Agree(c, m) ==
                   /\ m.state = "on" /\ m.packet = c.packet /\ m.stop = Resolve(c.stop)
                   /\ m.events = [k \in DOMAIN c.events |-> Resolve(c.events[k])]
                   /\ ttOpt.start = "layer" \/ m.start \in {Resolve(c.start), "COMBO_EVENT_0"}
             IN /\ TypeAt(cfg.loc) = "core" => Agree(cfg.core, ttDev.mods[<<cfg.loc, "core">>])
                /\ TypeAt(cfg.loc) # "shim" => Agree(cfg.mem, ttDev.mods[<<cfg.loc, "mem">>])
                /\ TypeAt(cfg.loc) = "shim" => Agree(cfg.pl, ttDev.mods[<<cfg.loc, "pl">>])
                /\ isDmaSet(cfg.set) \/ cfg.mask = DOMAIN cfg.bc
                /\ ttSt.pc \notin {"failed", "released", "ended"} => cfg.counters \subseteq ttDev.counters
  <2>1. PICK cfg : cfg = ttDb[i] OBVIOUS
  <2>2. RecAt(o, s, d, cfg) BY <1>1, <1>2, <1>3, <2>1 DEF DbOK
  <2>3. /\ Traced(cfg, d.mods, TypeIn(o, cfg.loc), o.start = "layer")
        /\ s.pc \notin {"failed", "released", "ended"} => cfg.counters \subseteq d.counters
    BY <1>3, <2>1, <2>2 DEF RecAt, Over
  <2>4. TypeIn(o, cfg.loc) = TypeAt(cfg.loc) BY <1>1 DEF TypeIn, TypeAt
  <2>5. Traced(ttDb[i], ttDev.mods, TypeAt(ttDb[i].loc), ttOpt.start = "layer") BY <1>1, <2>1, <2>3, <2>4
  <2>6. ttSt.pc \notin {"failed", "released", "ended"} => ttDb[i].counters \subseteq ttDev.counters BY <1>1, <2>1, <2>3
  <2> QED BY <2>5, <2>6, Zenon DEF Traced, Agrees, Resolved
<1> QED BY <1>3, Zenon DEF TilesRecorded

\* For every list of tiles and every shortage and error of the driver, the tiles
\* in the static database are traced as they are recorded there: modules on, the
\* events in their slots, start, end, packet type and channels as the code of
\* setMetricsSettings told the database, until a failure releases the counters.
THEOREM TilesAreRecorded == TtSpec => []TilesRecorded
<1>1. TtInit => TilesInv BY TilesInit
<1>2. TilesInv /\ [TtNext]_ttVars => TilesInv' BY TilesNext
<1>3. TilesInv => TilesRecorded BY TilesInvRecords
<1> QED BY <1>1, <1>2, <1>3, PTL DEF TtSpec

-----------------------------------------------------------------------------
(* The invariant of WindowRight                                            *)

\* Taking the network down leaves nothing of it.
LEMMA ResetBuilt ==
  ASSUME NEW event, NEW off \in {1, 2}
  PROVE  reset2ChannelBroadcastNetwork(Built(event, off), off) = Clean
<1>1. PICK net : net = Built(event, off) OBVIOUS
<1>2. net.sources = {[at |-> <<0, 0, "A">>, ch |-> ch, event |-> event] : ch \in {1, 2}}
                      \cup {[at |-> <<c, 0, "A">>, ch |-> 1, event |-> "BROADCAST_2"] : c \in Column \ {0}}
  BY <1>1 DEF Built, build2ChannelBroadcastNetwork, Clean
<1>3. net.blocked = UNION {{<<n, b>> : b \in Blocks(n, off)} : n \in Nodes(off)}
  BY <1>1 DEF Built, build2ChannelBroadcastNetwork, Clean
<1>4. \A x \in net.sources : x.at[3] = "A" /\ (x.ch = 1 \/ x.at[1] = 0) BY <1>2
<1>5. \A b \in net.blocked : b[1] \in Nodes(off)
  <2>1. ASSUME NEW b \in net.blocked PROVE b[1] \in Nodes(off)
    <3>1. PICK n \in Nodes(off) : b \in {<<n, x>> : x \in Blocks(n, off)} BY <1>3
    <3>2. PICK x \in Blocks(n, off) : b = <<n, x>> BY <3>1
    <3> QED BY <3>2
  <2> QED BY <2>1
<1>6. PICK S : S = {x \in net.sources : ~(x.at[3] = "A" /\ (x.ch = 1 \/ x.at[1] = 0))} OBVIOUS
<1>7. PICK B : B = {b \in net.blocked : b[1] \notin Nodes(off)} OBVIOUS
<1>8. S = {} /\ B = {} BY <1>4, <1>5, <1>6, <1>7
<1>9. reset2ChannelBroadcastNetwork(net, off) = [sources |-> S, blocked |-> B]
  BY <1>6, <1>7, Zenon DEF reset2ChannelBroadcastNetwork
<1> QED BY <1>1, <1>8, <1>9 DEF Clean

\* Without a network no signal gets anywhere.
LEMMA CleanDelivers ==
  ASSUME NEW event, NEW off \in {1, 2}, NEW got, got = Delivered(Clean, event, off)
  PROVE  got[1] = {} /\ got[2] = {}
<1>1. Clean.sources = {} BY DEF Clean
<1>2. PICK in2 : in2 = {s.at : s \in {s \in Clean.sources : s.ch = 2 /\ s.event = event}} OBVIOUS
<1>3. PICK in1 : in1 = {s.at : s \in {s \in Clean.sources : s.ch = 1 /\ s.event = event}} OBVIOUS
<1>4. PICK rest : rest = {s.at : s \in {s \in Clean.sources : s.ch = 1 /\ s.event = "BROADCAST_2"}} OBVIOUS
<1>5. in1 = {} /\ in2 = {} /\ rest = {} BY <1>1, <1>2, <1>3, <1>4
<1>6. PICK second : second = Spread(Clean, in2, 2, off) OBVIOUS
<1>7. PICK first : first = Spread(Clean, in1 \cup (rest \cap second), 1, off) OBVIOUS
<1>8. got = [ch \in {1, 2} |-> IF ch = 1 THEN first ELSE second]
  BY <1>2, <1>3, <1>4, <1>6, <1>7, Zenon DEF Delivered
<1>9. ASSUME NEW from, from = {}, NEW ch PROVE Spread(Clean, from, ch, off) = {}
  <2>1. PICK S : S = {} OBVIOUS
  <2>2. /\ from \subseteq S
        /\ \A n \in S : \A d \in Dirs : n # Outside /\ <<n, <<ch, d>>>> \notin Clean.blocked => Neighbour(n, d, off) \in S
    BY <1>9, <2>1
  <2>3. Spread(Clean, from, ch, off) \subseteq S BY <2>2, SpreadStays
  <2> QED BY <2>1, <2>3
<1>10. second = {} BY <1>5, <1>6, <1>9
<1>11. first = {}
  <2>1. in1 \cup (rest \cap second) = {} BY <1>5
  <2> QED BY <1>7, <1>9, <2>1
<1> QED BY <1>8, <1>10, <1>11

\* The timers of all modules are reset at once.
LEMMA TimersReset ==
  ASSUME NEW off, off = Offset(ttOpt.gen), off \in {1, 2},
         NEW got, got = Delivered(Built("COMBO_EVENT_0", off), "COMBO_EVENT_0", off)
  PROVE  Timed(got) = {n \in Nodes(off) : n[3] # "B"}
<1>1. /\ \A c \in Column : <<c, 0, "A">> \in got[2]
      /\ \A n \in Nodes(off) : n[3] # "B" => n \in got[1]
      /\ Outside \notin got[1] \cup got[2]
  BY Delivers
<1>2. ASSUME NEW n \in Nodes(off)
      PROVE  /\ n[3] \in {"A", "B", "C", "M"}
             /\ n[3] = "A" => n \in got[2]
  <2>1. PICK c \in Column, r \in Row : n \in {<<c, r, w>> : w \in Switches(r, off)} BY DEF Nodes
  <2>2. PICK w \in Switches(r, off) : n = <<c, r, w>> BY <2>1
  <2>3. r \in Nat BY GridAssumption DEF Row
  <2>4. w \in {"A", "B", "C", "M"} /\ (w = "A" => r = 0) BY <2>3, SwitchesIs
  <2> QED BY <1>1, <2>2, <2>4
<1>3. PICK T : T = {n \in Nodes(off) : \/ n[3] = "A" /\ (IF n[1] = 0 THEN TRUE ELSE n \in got[2])
                                       \/ n[3] \in {"C", "M"} /\ n \in got[1]} OBVIOUS
<1>4. Timed(got) = T \cup ({Outside} \cap (got[1] \cup got[2])) BY <1>3, Zenon DEF Timed
<1>5. {Outside} \cap (got[1] \cup got[2]) = {} BY <1>1
<1>6. T = {n \in Nodes(off) : n[3] # "B"} BY <1>1, <1>2, <1>3
<1> QED BY <1>4, <1>5, <1>6

\* The module that a tile of that type has
Fits(type, mod) == /\ type = "shim" => mod = "pl"
                   /\ type = "mem_tile" => mod = "mem"
                   /\ type = "core" => mod \in {"core", "mem"}
UnitAt(o, u) == \E j \in 1..Len(o.tiles) : \E mod \in {"core", "mem", "pl"} :
                  u = <<o.tiles[j].loc, mod>> /\ Fits(TypeIn(o, o.tiles[j].loc), mod)

\* Its tile has execution trace.
Runs(o, u) == \E i \in DOMAIN o.tiles : o.tiles[i].loc = u[1] /\ o.tiles[i].set = "execution"

\* The event e happens in u by itself, by a counter of cs or by the broadcast.
CanStart(o, u, e, cs) ==
  \/ e \in {"ACTIVE", "TRUE", "INSTR_EVENT_0"}
  \/ \E k \in 1..3 : e = CounterEvent[k] /\ [loc |-> u[1], mod |-> "core", id |-> k - 1] \in cs
  \/ Casts(o) /\ u[2] \in {"core", "mem"} /\ e \in {"BROADCAST_1", "BROADCAST_1_CORE", "BROADCAST_1_MEM"}
  \/ Casts(o) /\ u[2] = "pl" /\ e = "BROADCAST_2"
  \/ Casts(o) /\ u = <<<<0, 0>>, "pl">> /\ e = "COMBO_EVENT_0"

\* The start of a window
WinStart(o, u) ==
  CASE TypeIn(o, u[1]) = "shim" -> IF u[1][1] = 0 THEN "PERF_CNT_0_PL" ELSE "BROADCAST_2"
    [] TypeIn(o, u[1]) = "mem_tile" -> "BROADCAST_1"
    [] TypeIn(o, u[1]) = "core" -> IF u[2] = "core" THEN "BROADCAST_1_CORE" ELSE "BROADCAST_1_MEM"

\* A window that starts with a layer is set up.
Layered(o, net) == o.layer /\ net # Clean

\* The window reaches u: always without a shift, else at the columns of the metadata.
WinLocs(o) == {<<o.tiles[i].loc[1] - o.shift, o.tiles[i].loc[2]>> : i \in DOMAIN o.tiles}
Named(o, u) == o.shift = 0 \/ u[1] \in WinLocs(o)

\* What u starts on once configured, before and after the window is set up
StartOK(o, net, u, e, cs) ==
  IF Layered(o, net) THEN Named(o, u) => e = WinStart(o, u)
  ELSE Runs(o, u) \/ CanStart(o, u, e, cs)

\* A module m that is on can start, and ends by the flush.
UnitOK(o, s, cs, net, u, m) ==
  /\ UnitAt(o, u)
  /\ m.state = "on" =>
       /\ s.pc \notin Over => StartOK(o, net, u, m.start, cs)
       /\ s.pc # "ended" => u[1] \in s.flushLocs /\ m.stop \in {EndEvent(o, s, u[1]), "USER_EVENT_0_MEM"}
       /\ s.pc = "ended" => m.flushed \/ m.stop = "USER_EVENT_0_MEM"
UnitsOK(o, s, d, net) == \A u \in DOMAIN d.mods : UnitOK(o, s, d.counters, net, u, d.mods[u])

\* The broadcast network
NetOK(o, s, net) ==
  IF s.pc = "new" THEN net = Clean
  ELSE \/ Casts(o) /\ net = Built("COMBO_EVENT_0", Offset(o.gen))
       \/ ~Casts(o) /\ net = Clean
       \/ o.start = "layer" /\ net = Built("PERF_CNT_0_PL", Offset(o.gen)) /\ s.pc \in {"tracing", "released", "ended"}

\* The members that say when trace starts
StartsOK(o, s, d) ==
  /\ s.pc = "new" => /\ s.coreStart = "ACTIVE" /\ s.memStart = "TRUE" /\ s.plStart = "TRUE" /\ DOMAIN d.mods = {}
  /\ s.pc # "new" =>
       /\ s.memStart = (IF Casts(o) THEN "BROADCAST_1" ELSE "TRUE")
       /\ s.plStart = (IF Casts(o) THEN "BROADCAST_2" ELSE "TRUE")
       /\ DelaysIn(o) = 0 => s.coreStart \in {"ACTIVE", "INSTR_EVENT_0"} \cup IF Casts(o) THEN {"BROADCAST_1_CORE"} ELSE {}
       /\ o.multi => s.timers = {n \in Nodes(Offset(o.gen)) : n[3] # "B"}

\* The tile at hand will be flushed, and its core can start.
TileOK(o, s, d) ==
  s.pc \in Working =>
    /\ o.tiles[s.at].loc \in s.flushLocs
    /\ s.pc = "mem" /\ TypeIn(o, o.tiles[s.at].loc) = "core" =>
         CanStart(o, <<o.tiles[s.at].loc, "core">>, s.coreStart, d.counters)

\* The invariant
CountsOK(o, s, d, net) == s.pc = "tracing" /\ Layered(o, net) => LayerCounter \in d.counters
WInv(o, s, d, net) ==
  NetOK(o, s, net) /\ StartsOK(o, s, d) /\ TileOK(o, s, d) /\ UnitsOK(o, s, d, net) /\ CountsOK(o, s, d, net)
WindowInv == TilesInv /\ WInv(ttOpt, ttSt, ttDev, ttNet)

\* Counters that come do no harm.
LEMMA MoreCounters ==
  ASSUME NEW o, NEW net, NEW u, NEW e, NEW a, NEW b, a \subseteq b
  PROVE  (CanStart(o, u, e, a) => CanStart(o, u, e, b)) /\ (StartOK(o, net, u, e, a) => StartOK(o, net, u, e, b))
<1>1. CanStart(o, u, e, a) => CanStart(o, u, e, b) BY DEF CanStart
<1> QED BY <1>1 DEF StartOK

\* There is no window before its turn.
LEMMA NoWindow ==
  ASSUME NEW o, OptOK(o), NEW s, NEW net, NetOK(o, s, net), s.pc \notin {"tracing", "released", "ended"}
  PROVE  ~Layered(o, net)
<1>1. o.layer => net = Clean BY DEF OptOK, NetOK, Casts
<1> QED BY <1>1 DEF Layered

\* The modules after a stage.
LEMMA UnitsKeep ==
  ASSUME NEW o, NEW s, NEW d, NEW net, NEW s2, NEW d2, UnitsOK(o, s, d, net), Same(s, s2),
         s.flushLocs \subseteq s2.flushLocs, s.pc # "ended", s2.pc # "ended",
         s2.pc \in Over \/ (s.pc \notin Over /\ d.counters \subseteq d2.counters),
         NEW v, d2.mods = d.mods \/ \E m : d2.mods = With(d.mods, v, m) /\ UnitOK(o, s2, d2.counters, net, v, m)
  PROVE  UnitsOK(o, s2, d2, net)
<1>1. ASSUME NEW u \in DOMAIN d.mods PROVE UnitOK(o, s2, d2.counters, net, u, d.mods[u])
  <2>1. PICK m : m = d.mods[u] OBVIOUS
  <2>2. UnitOK(o, s, d.counters, net, u, m) BY <2>1 DEF UnitsOK
  <2>3. EndEvent(o, s2, u[1]) = EndEvent(o, s, u[1])
    <3>1. s2.coreEnd = s.coreEnd BY DEF Same
    <3> QED BY <3>1 DEF EndEvent
  <2>4. ASSUME m.state = "on", s2.pc \notin Over PROVE StartOK(o, net, u, m.start, d2.counters)
    <3>1. s.pc \notin Over /\ d.counters \subseteq d2.counters BY <2>4
    <3>2. StartOK(o, net, u, m.start, d.counters) BY <2>2, <2>4, <3>1 DEF UnitOK
    <3> QED BY <3>1, <3>2, MoreCounters
  <2>5. ASSUME m.state = "on" PROVE u[1] \in s2.flushLocs /\ m.stop \in {EndEvent(o, s2, u[1]), "USER_EVENT_0_MEM"}
    BY <2>2, <2>3, <2>5 DEF UnitOK
  <2>6. UnitAt(o, u) BY <2>2 DEF UnitOK
  <2>7. UnitOK(o, s2, d2.counters, net, u, m) BY <2>4, <2>5, <2>6 DEF UnitOK
  <2> QED BY <2>1, <2>7
<1>2. CASE d2.mods = d.mods BY <1>1, <1>2 DEF UnitsOK
<1>3. ASSUME NEW m, d2.mods = With(d.mods, v, m), UnitOK(o, s2, d2.counters, net, v, m) PROVE UnitsOK(o, s2, d2, net)
  <2>1. PICK more : more = d2.mods OBVIOUS
  <2>2. /\ DOMAIN more = DOMAIN d.mods \cup {v} /\ more[v] = m
        /\ \A u \in DOMAIN d.mods : u # v => more[u] = d.mods[u]
    BY <1>3, <2>1 DEF With
  <2>3. \A u \in DOMAIN more : UnitOK(o, s2, d2.counters, net, u, more[u]) BY <1>1, <1>3, <2>2
  <2> QED BY <2>1, <2>3 DEF UnitsOK
<1> QED BY <1>2, <1>3

\* A stage that adds at most one module and leaves the network alone.
LEMMA WinStep ==
  ASSUME NEW o, NEW s, NEW d, NEW net, NEW s2, NEW d2, WInv(o, s, d, net), Same(s, s2),
         s.flushLocs \subseteq s2.flushLocs, s.pc \notin {"new", "ended"}, s2.pc \notin {"new", "ended"},
         s.pc \in {"tracing", "released"} => s2.pc \in {"tracing", "released"},
         s2.pc # "tracing" \/ ~Layered(o, net),
         DelaysIn(o) = 0 => s2.coreStart = s.coreStart, TileOK(o, s2, d2),
         s2.pc \in Over \/ (s.pc \notin Over /\ d.counters \subseteq d2.counters),
         NEW v, d2.mods = d.mods \/ \E m : d2.mods = With(d.mods, v, m) /\ UnitOK(o, s2, d2.counters, net, v, m)
  PROVE  WInv(o, s2, d2, net)
<1>1. NetOK(o, s2, net) BY DEF WInv, NetOK
<1>2. StartsOK(o, s2, d2)
  <2>1. StartsOK(o, s, d) BY DEF WInv
  <2> QED BY <2>1 DEF StartsOK, Same
<1>3. UnitsOK(o, s, d, net) /\ s.pc # "ended" /\ s2.pc # "ended" BY DEF WInv
<1>4. UnitsOK(o, s2, d2, net) BY <1>3, UnitsKeep
<1>5. CountsOK(o, s2, d2, net) BY DEF CountsOK
<1> QED BY <1>1, <1>2, <1>4, <1>5 DEF WInv

\* A module that was only reserved
LEMMA ReservedOK ==
  ASSUME NEW o, NEW s, NEW cs, NEW net, NEW u, UnitAt(o, u), NEW m, m.state = "reserved"
  PROVE  UnitOK(o, s, cs, net, u, m)
BY DEF UnitOK

\* The module of the tile at hand
LEMMA TileHas ==
  ASSUME NEW o, OptOK(o), NEW j \in 1..Len(o.tiles), NEW mod \in {"core", "mem", "pl"},
         Fits(TypeIn(o, o.tiles[j].loc), mod)
  PROVE  UnitAt(o, <<o.tiles[j].loc, mod>>)
BY DEF UnitAt

\* What cores start on happens in them,
LEMMA CoreCanStart ==
  ASSUME NEW o, OptOK(o), NEW s, NEW d, StartsOK(o, s, d), s.pc # "new", NEW loc, NEW cs,
         DelaysIn(o) # 0 => [loc |-> loc, mod |-> "core", id |-> NumsIn(o) + DelaysIn(o) - 1] \in cs
  PROVE  CanStart(o, <<loc, "core">>, StartIn(o, s), cs)
<1>1. PICK u : u = <<loc, "core">> OBVIOUS
<1>2. u[1] = loc /\ u[2] = "core" BY <1>1
<1>3. CASE DelaysIn(o) = 0
  <2>1. s.coreStart \in {"ACTIVE", "INSTR_EVENT_0"} \cup IF Casts(o) THEN {"BROADCAST_1_CORE"} ELSE {}
    BY <1>3 DEF StartsOK
  <2>2. StartIn(o, s) = s.coreStart BY <1>3 DEF StartIn
  <2>3. CASE s.coreStart \in {"ACTIVE", "INSTR_EVENT_0"} BY <1>1, <2>2, <2>3 DEF CanStart
  <2>4. CASE Casts(o) /\ s.coreStart = "BROADCAST_1_CORE" BY <1>1, <1>2, <2>2, <2>4 DEF CanStart
  <2> QED BY <2>1, <2>3, <2>4
<1>4. CASE DelaysIn(o) # 0
  <2>1. DelaysIn(o) \in {1, 2} /\ NumsIn(o) \in {0, 1} BY <1>4 DEF DelaysIn, NumsIn
  <2>2. PICK k : k = NumsIn(o) + DelaysIn(o) OBVIOUS
  <2>3. k \in 1..3 BY <2>1, <2>2
  <2>4. StartIn(o, s) = CounterEvent[k] BY <1>4, <2>2 DEF StartIn
  <2>5. [loc |-> u[1], mod |-> "core", id |-> k - 1] \in cs
    <3>1. PICK x, y : x = NumsIn(o) + DelaysIn(o) - 1 /\ y = k - 1 OBVIOUS
    <3>2. x = y BY <2>1, <2>2, <3>1
    <3>3. [loc |-> loc, mod |-> "core", id |-> x] \in cs BY <1>4, <3>1, Zenon
    <3> QED BY <1>2, <3>1, <3>2, <3>3, Zenon
  <2> QED BY <1>1, <2>3, <2>4, <2>5 DEF CanStart
<1> QED BY <1>3, <1>4

\* and in the memory modules beside them, unless the start is broadcast.
LEMMA MemoryCanStart ==
  ASSUME NEW o, NEW loc, NEW e, NEW cs, CanStart(o, <<loc, "core">>, e, cs), ~Casts(o)
  PROVE  CanStart(o, <<loc, "mem">>, e, cs)
<1>1. PICK u, v : u = <<loc, "core">> /\ v = <<loc, "mem">> OBVIOUS
<1>2. u[1] = v[1] BY <1>1
<1>3. CanStart(o, u, e, cs) BY <1>1
<1> QED BY <1>1, <1>2, <1>3 DEF CanStart

\* setMetricsSettings: the network for the timers is gone when the one for the
\* start is built.
LEMMA SetupWins ==
  ASSUME NEW o, o = ttOpt, NEW s, s = ttSt, NEW d, d = ttDev, NEW db, db = ttDb, TInv(o, s, d, db),
         NEW net, net = ttNet, WInv(o, s, d, net), setMetricsSettings
  PROVE  WInv(ttOpt', ttSt', ttDev', ttNet')
<1>1. OptOK(o) /\ StOK(o, s) BY DEF TInv
<1>2. IsSt(s) BY <1>1 DEF StOK
<1>3. PICK s2 : s2 = ttSt' OBVIOUS
<1>4. /\ s.pc = "new" /\ ttOpt' = o /\ ttDev' = d
      /\ s2.pc = "tile"
      /\ s2.coreStart = (IF o.start = "user" THEN "INSTR_EVENT_0"
                           ELSE IF Casts(o) THEN "BROADCAST_1_CORE" ELSE s.coreStart)
      /\ s2.memStart = (IF Casts(o) THEN "BROADCAST_1" ELSE s.memStart)
      /\ s2.plStart = (IF Casts(o) THEN "BROADCAST_2" ELSE s.plStart)
  BY <1>2, <1>3, SetupIs
<1>5. /\ net = Clean /\ s.coreStart = "ACTIVE" /\ s.memStart = "TRUE" /\ s.plStart = "TRUE" /\ DOMAIN d.mods = {}
  BY <1>4 DEF WInv, NetOK, StartsOK
<1>6. PICK off : off = Offset(o.gen) OBVIOUS
<1>7. off \in {1, 2} /\ off = Offset(ttOpt.gen) BY <1>1, <1>6, TileShape
<1>8. SyncNet(net) = Built("COMBO_EVENT_0", off) BY <1>5, <1>7 DEF SyncNet, Built
<1>9. timerSyncronization(net) = Clean
  BY <1>7, <1>8, ResetBuilt DEF timerSyncronization
<1>10. ttNet' = IF Casts(o) THEN Built("COMBO_EVENT_0", off) ELSE Clean
  <2>1. PICK synced : synced = IF ttOpt.multi THEN timerSyncronization(ttNet) ELSE ttNet OBVIOUS
  <2>2. synced = Clean BY <1>5, <1>9, <2>1
  <2>3. ttNet' = IF Broadcasts THEN build2ChannelBroadcastNetwork(synced, "COMBO_EVENT_0", off) ELSE synced
    BY <1>7, <2>1, Zenon DEF setMetricsSettings
  <2>4. Broadcasts <=> Casts(o) BY DEF Broadcasts, Casts
  <2> QED BY <2>2, <2>3, <2>4 DEF Built
<1>11. o.multi => s2.timers = {n \in Nodes(off) : n[3] # "B"}
  <2> SUFFICES ASSUME o.multi PROVE s2.timers = {n \in Nodes(off) : n[3] # "B"} OBVIOUS
  <2>1. PICK got : got = Delivered(Built("COMBO_EVENT_0", off), "COMBO_EVENT_0", off) OBVIOUS
  <2>2. PICK x : x = Timed(got) OBVIOUS
  <2>3. Timed(Delivered(SyncNet(ttNet), "COMBO_EVENT_0", off)) = x BY <1>8, <2>1, <2>2
  <2>4. PICK a, b, c, e :
          s2 = [s EXCEPT !.pc = "tile", !.timers = x, !.coreStart = a, !.memStart = b, !.plStart = c, !.coreEnd = e]
    <3>1. s2 = [s EXCEPT !.pc = "tile",
             !.timers = IF ttOpt.multi THEN Timed(Delivered(SyncNet(ttNet), "COMBO_EVENT_0", off)) ELSE {},
             !.coreStart = IF ttOpt.start = "user" THEN "INSTR_EVENT_0"
                           ELSE IF Broadcasts THEN "BROADCAST_1_CORE" ELSE @,
             !.memStart = IF Broadcasts THEN "BROADCAST_1" ELSE @,
             !.plStart = IF Broadcasts THEN "BROADCAST_2" ELSE @,
             !.coreEnd = IF ttOpt.shim = "edge" THEN "INSTR_EVENT_1" ELSE @]
      BY <1>3, <1>7, Zenon DEF setMetricsSettings
    <3>2. PICK y : y = IF ttOpt.multi THEN Timed(Delivered(SyncNet(ttNet), "COMBO_EVENT_0", off)) ELSE {} OBVIOUS
    <3>3. y = x BY <2>3, <3>2
    <3>4. s2 = [s EXCEPT !.pc = "tile", !.timers = y,
             !.coreStart = IF ttOpt.start = "user" THEN "INSTR_EVENT_0"
                           ELSE IF Broadcasts THEN "BROADCAST_1_CORE" ELSE @,
             !.memStart = IF Broadcasts THEN "BROADCAST_1" ELSE @,
             !.plStart = IF Broadcasts THEN "BROADCAST_2" ELSE @,
             !.coreEnd = IF ttOpt.shim = "edge" THEN "INSTR_EVENT_1" ELSE @]
      BY <3>1, <3>2, Zenon
    <3> QED BY <3>3, <3>4
  <2>5. s2.timers = x BY <1>2, <2>4 DEF IsSt
  <2> QED BY <1>7, <2>1, <2>2, <2>5, TimersReset
<1>12. NetOK(o, s2, ttNet') BY <1>4, <1>6, <1>10 DEF NetOK
<1>13. StartsOK(o, s2, d) BY <1>4, <1>5, <1>6, <1>11 DEF StartsOK
<1>14. TileOK(o, s2, d) BY <1>4 DEF TileOK, Working
<1>15. UnitsOK(o, s2, d, ttNet') BY <1>5 DEF UnitsOK
<1>16. CountsOK(o, s2, d, ttNet') BY <1>4 DEF CountsOK
<1> QED BY <1>3, <1>4, <1>12, <1>13, <1>14, <1>15, <1>16 DEF WInv

\* beginTile
LEMMA BeginWins ==
  ASSUME NEW o, o = ttOpt, NEW s, s = ttSt, NEW d, d = ttDev, NEW db, db = ttDb, TInv(o, s, d, db),
         NEW net, net = ttNet, WInv(o, s, d, net), beginTile
  PROVE  WInv(ttOpt', ttSt', ttDev', ttNet')
<1>1. OptOK(o) /\ StOK(o, s) BY DEF TInv
<1>2. IsSt(s) /\ s.at \in 1..(Len(o.tiles) + 1) BY <1>1 DEF StOK
<1>3. PICK s2 : s2 = ttSt' OBVIOUS
<1>4. /\ s.pc = "tile" /\ ttOpt' = o /\ ttDev' = d /\ ttNet' = net
      /\ Same(s, s2) /\ s2.coreStart = s.coreStart /\ s.flushLocs \subseteq s2.flushLocs
      /\ \/ s2.pc \in {"tile", "failed"}
         \/ s2.pc = "counters" /\ s2.at = s.at /\ o.tiles[s.at].loc \in s2.flushLocs
  BY <1>1, <1>2, <1>3, BeginIs
<1>5. TileOK(o, s2, d) BY <1>4 DEF TileOK, Working
<1>6. /\ s.pc \notin {"new", "ended"} /\ s2.pc \notin {"new", "ended"}
      /\ s.pc \in {"tracing", "released"} => s2.pc \in {"tracing", "released"}
      /\ s2.pc # "tracing" \/ ~Layered(o, net)
      /\ s2.pc \in Over \/ (s.pc \notin Over /\ d.counters \subseteq d.counters)
  BY <1>4 DEF Over
<1>7. WInv(o, s2, d, net) BY <1>4, <1>5, <1>6, WinStep
<1> QED BY <1>3, <1>4, <1>7

\* executionTile
LEMMA ExecutionWins ==
  ASSUME NEW o, o = ttOpt, NEW s, s = ttSt, NEW d, d = ttDev, NEW db, db = ttDb, TInv(o, s, d, db),
         NEW net, net = ttNet, WInv(o, s, d, net), NEW f \in {"ok", "control", "start"}, executionTile(f)
  PROVE  WInv(ttOpt', ttSt', ttDev', ttNet')
<1>1. OptOK(o) /\ StOK(o, s) /\ IsDev(d) BY DEF TInv
<1>2. IsSt(s) /\ s.at \in 1..(Len(o.tiles) + 1) BY <1>1 DEF StOK
<1>3. PICK s2, d2 : s2 = ttSt' /\ d2 = ttDev' OBVIOUS
<1>4. PICK loc, v, es : loc = o.tiles[s.at].loc /\ v = <<loc, "core">> /\ es = <<"TRUE">> OBVIOUS
<1>5. /\ s.pc = "tile" /\ s.at \in 1..Len(o.tiles) /\ ttOpt' = o /\ ttNet' = net
      /\ TypeIn(o, loc) = "core" /\ o.tiles[s.at].set = "execution"
      /\ Same(s, s2) /\ s2.coreStart = s.coreStart /\ s2.pc = "tile"
      /\ s2.flushLocs = s.flushLocs \cup {loc}
      /\ \/ d2 = d
         \/ /\ d2.counters = d.counters
            /\ \E state : d2.mods = With(d.mods, v, TraceUnit(state, s.coreStart, s.coreEnd, es, 0))
  BY <1>1, <1>2, <1>3, <1>4, ExecutionIs
<1>6. TileOK(o, s2, d2) BY <1>5 DEF TileOK, Working
<1>7. /\ s.pc \notin {"new", "ended"} /\ s2.pc \notin {"new", "ended"} /\ s.flushLocs \subseteq s2.flushLocs
      /\ s.pc \in {"tracing", "released"} => s2.pc \in {"tracing", "released"}
      /\ s2.pc # "tracing" \/ ~Layered(o, net)
      /\ s2.pc \in Over \/ (s.pc \notin Over /\ d.counters \subseteq d2.counters)
  BY <1>5 DEF Over
<1>8. ASSUME NEW state, NEW m, m = TraceUnit(state, s.coreStart, s.coreEnd, es, 0)
      PROVE  UnitOK(o, s2, d2.counters, net, v, m)
  <2>1. UnitAt(o, v)
    <3>1. Fits(TypeIn(o, o.tiles[s.at].loc), "core") BY <1>4, <1>5 DEF Fits
    <3> QED BY <1>1, <1>4, <1>5, <3>1, TileHas
  <2>2. Runs(o, v)
    <3>1. s.at \in DOMAIN o.tiles BY <1>1, <1>5, TileShape
    <3> QED BY <1>4, <1>5, <3>1 DEF Runs
  <2>3. v[1] \in s2.flushLocs BY <1>4, <1>5
  <2>4. m.stop = EndEvent(o, s2, v[1])
    <3>1. m.stop = s.coreEnd BY <1>8 DEF TraceUnit
    <3> QED BY <1>4, <1>5, <3>1 DEF EndEvent, Same
  <2>5. StartOK(o, net, v, m.start, d2.counters)
    <3>1. ~Layered(o, net) BY <1>1, <1>5, NoWindow DEF WInv
    <3> QED BY <2>2, <3>1 DEF StartOK
  <2>6. s2.pc # "ended" BY <1>7
  <2> QED BY <2>1, <2>3, <2>4, <2>5, <2>6 DEF UnitOK
<1>9. d2.mods = d.mods \/ \E m : d2.mods = With(d.mods, v, m) /\ UnitOK(o, s2, d2.counters, net, v, m)
  BY <1>5, <1>8
<1>10. WInv(o, s2, d2, net) BY <1>5, <1>6, <1>7, <1>9, WinStep
<1> QED BY <1>3, <1>5, <1>10

\* reserveCounters
LEMMA CountersWin ==
  ASSUME NEW o, o = ttOpt, NEW s, s = ttSt, NEW d, d = ttDev, NEW db, db = ttDb, TInv(o, s, d, db),
         NEW net, net = ttNet, WInv(o, s, d, net), NEW f \in {"ok", "core", "mem"}, reserveCounters(f)
  PROVE  WInv(ttOpt', ttSt', ttDev', ttNet')
<1>1. OptOK(o) /\ StOK(o, s) /\ IsDev(d) BY DEF TInv
<1>2. IsSt(s) BY <1>1 DEF StOK
<1>3. PICK s2, d2 : s2 = ttSt' /\ d2 = ttDev' OBVIOUS
<1>4. s.pc = "counters" /\ ttOpt' = o /\ ttNet' = net /\ CountersDone(o, s, d, s2, d2)
  BY <1>1, <1>2, <1>3, CountersAre
<1>5. /\ SameStarts(s, s2) /\ s2.at = s.at /\ d2.mods = d.mods
      /\ \/ s2.pc = "failed"
         \/ /\ d.counters \subseteq d2.counters /\ s2.pc \in {"core", "mem", "pl"}
            /\ s2.pc = "mem" => TypeIn(o, o.tiles[s.at].loc) = "mem_tile"
  BY <1>4 DEF CountersDone
<1>6. TileOK(o, s2, d2)
  <2>1. o.tiles[s.at].loc \in s.flushLocs BY <1>4 DEF WInv, TileOK, Working
  <2> QED BY <1>5, <2>1 DEF TileOK, SameStarts, Working
<1>7. /\ s.pc \notin {"new", "ended"} /\ s2.pc \notin {"new", "ended"} /\ s.flushLocs \subseteq s2.flushLocs
      /\ s.pc \in {"tracing", "released"} => s2.pc \in {"tracing", "released"}
      /\ s2.pc # "tracing" \/ ~Layered(o, net)
      /\ s2.pc \in Over \/ (s.pc \notin Over /\ d.counters \subseteq d2.counters)
      /\ Same(s, s2) /\ s2.coreStart = s.coreStart
  BY <1>4, <1>5 DEF Over, SameStarts
<1>8. WInv(o, s2, d2, net) BY <1>5, <1>6, <1>7, WinStep
<1> QED BY <1>3, <1>4, <1>8

\* coreTrace
LEMMA CoreWins ==
  ASSUME NEW o, o = ttOpt, NEW s, s = ttSt, NEW d, d = ttDev, NEW db, db = ttDb, TInv(o, s, d, db),
         NEW net, net = ttNet, WInv(o, s, d, net), NEW f \in CoreFaults, coreTrace(f)
  PROVE  WInv(ttOpt', ttSt', ttDev', ttNet')
<1>1. OptOK(o) /\ StOK(o, s) /\ CurOK(o, s, d) /\ IsDev(d) BY DEF TInv
<1>2. IsSt(s) BY <1>1 DEF StOK
<1>3. PICK s2, d2 : s2 = ttSt' /\ d2 = ttDev' OBVIOUS
<1>4. PICK loc, v : loc = o.tiles[s.at].loc /\ v = <<loc, "core">> OBVIOUS
<1>5. s.pc = "core" BY DEF coreTrace
<1>6. /\ s.cur.coreEvents \in Seq(Words) /\ s.cur.coreEvents # <<>> /\ TypeIn(o, loc) = "core"
      /\ s.at \in 1..Len(o.tiles)
  BY <1>1, <1>4, <1>5 DEF CurOK, CurAt, Working, StOK
<1>7. ttOpt' = o /\ ttNet' = net /\ CoreDone(o, s, d, s2, d2) BY <1>1, <1>2, <1>3, <1>6, CoreIs
<1>8. /\ Same(s, s2) /\ s2.flushLocs = s.flushLocs /\ s2.at = s.at
      /\ s2.coreStart \in {s.coreStart, StartIn(o, s)}
      /\ \/ s2.pc = "ready" /\ d.counters \subseteq d2.counters /\ Unchanged(d.mods, v, d2.mods)
         \/ s2.pc = "failed" /\ d2.mods = d.mods
         \/ /\ s2.pc = "mem" /\ d.counters \subseteq d2.counters /\ s2.coreStart = StartIn(o, s)
            /\ DelaysIn(o) # 0 => [loc |-> loc, mod |-> "core", id |-> NumsIn(o) + DelaysIn(o) - 1] \in d2.counters
            /\ \E m : /\ d2.mods = With(d.mods, v, m)
                      /\ m.start = StartIn(o, s) /\ m.stop = s.coreEnd /\ m.state = "on"
  BY <1>4, <1>7, Zenon DEF CoreDone
<1>9. /\ s.pc \notin {"new", "ended"} /\ s2.pc \notin {"new", "ended"} /\ s.flushLocs \subseteq s2.flushLocs
      /\ s.pc \in {"tracing", "released"} => s2.pc \in {"tracing", "released"}
      /\ s2.pc # "tracing" \/ ~Layered(o, net)
      /\ s2.pc \in Over \/ (s.pc \notin Over /\ d.counters \subseteq d2.counters)
      /\ DelaysIn(o) = 0 => s2.coreStart = s.coreStart
  BY <1>5, <1>8 DEF Over, StartIn
<1>10. UnitAt(o, v)
  <2>1. Fits(TypeIn(o, o.tiles[s.at].loc), "core") BY <1>4, <1>6 DEF Fits
  <2> QED BY <1>1, <1>4, <1>6, <2>1, TileHas
<1>11. loc \in s2.flushLocs BY <1>4, <1>5, <1>8 DEF WInv, TileOK, Working
<1>12. CASE s2.pc \in {"ready", "failed"}
  <2>1. TileOK(o, s2, d2) BY <1>12 DEF TileOK, Working
  <2>2. d2.mods = d.mods \/ \E m : d2.mods = With(d.mods, v, m) /\ UnitOK(o, s2, d2.counters, net, v, m)
    BY <1>8, <1>10, <1>12, ReservedOK DEF Unchanged
  <2>3. WInv(o, s2, d2, net) BY <1>8, <1>9, <2>1, <2>2, WinStep
  <2> QED BY <1>3, <1>7, <2>3
<1>13. CASE s2.pc = "mem"
  <2>1. PICK m : d2.mods = With(d.mods, v, m) /\ m.start = StartIn(o, s) /\ m.stop = s.coreEnd /\ m.state = "on"
    BY <1>8, <1>13
  <2>2. CanStart(o, v, StartIn(o, s), d2.counters)
    <3>1. StartsOK(o, s, d) BY DEF WInv
    <3>2. DelaysIn(o) # 0 => [loc |-> loc, mod |-> "core", id |-> NumsIn(o) + DelaysIn(o) - 1] \in d2.counters
      BY <1>8, <1>13
    <3> QED BY <1>1, <1>4, <1>9, <3>1, <3>2, CoreCanStart
  <2>3. TileOK(o, s2, d2) BY <1>4, <1>8, <1>11, <1>13, <2>2 DEF TileOK
  <2>4. StartOK(o, net, v, m.start, d2.counters)
    <3>1. ~Layered(o, net) BY <1>1, <1>5, NoWindow DEF WInv
    <3> QED BY <2>1, <2>2, <3>1 DEF StartOK
  <2>5. m.stop = EndEvent(o, s2, v[1]) BY <1>4, <1>6, <1>8, <2>1 DEF EndEvent, Same
  <2>6. v[1] \in s2.flushLocs BY <1>4, <1>11
  <2>7. UnitOK(o, s2, d2.counters, net, v, m) BY <1>10, <1>13, <2>4, <2>5, <2>6 DEF UnitOK
  <2>8. WInv(o, s2, d2, net) BY <1>8, <1>9, <2>1, <2>3, <2>7, WinStep
  <2> QED BY <1>3, <1>7, <2>8
<1> QED BY <1>8, <1>12, <1>13

\* memoryTrace
LEMMA MemoryWins ==
  ASSUME NEW o, o = ttOpt, NEW s, s = ttSt, NEW d, d = ttDev, NEW db, db = ttDb, TInv(o, s, d, db),
         NEW net, net = ttNet, WInv(o, s, d, net), NEW f \in {"ok", "cntr", "control", "slot", "mode"}, memoryTrace(f)
  PROVE  WInv(ttOpt', ttSt', ttDev', ttNet')
<1>1. OptOK(o) /\ StOK(o, s) /\ CurOK(o, s, d) /\ IsDev(d) BY DEF TInv
<1>2. IsSt(s) BY <1>1 DEF StOK
<1>3. PICK s2, d2 : s2 = ttSt' /\ d2 = ttDev' OBVIOUS
<1>4. PICK loc, v, type : loc = o.tiles[s.at].loc /\ v = <<loc, "mem">> /\ type = TypeIn(o, loc) OBVIOUS
<1>5. s.pc = "mem" BY DEF memoryTrace
<1>6. /\ s.cur.memoryEvents \in Seq(Words) /\ type # "shim" /\ s.at \in 1..Len(o.tiles)
      /\ s.coreEnd \in {"INSTR_EVENT_1", "USER_EVENT_3"}
  BY <1>1, <1>4, <1>5 DEF CurOK, CurAt, Working, StOK
<1>7. type \in {"core", "mem_tile"} BY <1>1, <1>4, <1>6, TileShape
<1>8. ttOpt' = o /\ ttNet' = net /\ MemoryDone(o, s, d, s2, d2) BY <1>1, <1>2, <1>3, <1>6, MemoryIs
<1>9. /\ SameStarts(s, s2) /\ s2.at = s.at
      /\ \/ s2.pc = "ready" /\ d2.counters = d.counters /\ Unchanged(d.mods, v, d2.mods)
         \/ s2.pc = "failed" /\ d2.mods = d.mods
         \/ /\ s2.pc = "add" /\ d2.counters = d.counters
            /\ \E m : /\ d2.mods = With(d.mods, v, m)
                      /\ m.start = MemStart(o, s) /\ m.stop = MemStop(o, s) /\ m.state = "on"
  BY <1>4, <1>8, Zenon DEF MemoryDone
<1>10. /\ s.pc \notin {"new", "ended"} /\ s2.pc \notin {"new", "ended"} /\ s.flushLocs \subseteq s2.flushLocs
       /\ s.pc \in {"tracing", "released"} => s2.pc \in {"tracing", "released"}
       /\ s2.pc # "tracing" \/ ~Layered(o, net)
       /\ s2.pc \in Over \/ (s.pc \notin Over /\ d.counters \subseteq d2.counters)
       /\ Same(s, s2) /\ s2.coreStart = s.coreStart
  BY <1>5, <1>9 DEF Over, SameStarts
<1>11. UnitAt(o, v)
  <2>1. Fits(TypeIn(o, o.tiles[s.at].loc), "mem") BY <1>4, <1>7 DEF Fits
  <2> QED BY <1>1, <1>4, <1>6, <2>1, TileHas
<1>12. loc \in s2.flushLocs BY <1>4, <1>5, <1>10 DEF WInv, TileOK, Working
<1>13. TileOK(o, s2, d2) BY <1>4, <1>9, <1>12 DEF TileOK, Working
<1>14. CASE s2.pc \in {"ready", "failed"}
  <2>1. d2.mods = d.mods \/ \E m : d2.mods = With(d.mods, v, m) /\ UnitOK(o, s2, d2.counters, net, v, m)
    BY <1>9, <1>11, <1>14, ReservedOK DEF Unchanged
  <2>2. WInv(o, s2, d2, net) BY <1>10, <1>13, <2>1, WinStep
  <2> QED BY <1>3, <1>8, <2>2
<1>15. CASE s2.pc = "add"
  <2>1. PICK m : d2.mods = With(d.mods, v, m) /\ m.start = MemStart(o, s) /\ m.stop = MemStop(o, s) /\ m.state = "on"
    BY <1>9, <1>15
  <2>2. v[1] = loc /\ v[2] = "mem" BY <1>4
  <2>3. CanStart(o, v, MemStart(o, s), d2.counters)
    <3>1. CASE Casts(o) /\ type = "core"
      <4>1. MemStart(o, s) = "BROADCAST_1_MEM" BY <1>4, <3>1 DEF MemStart
      <4> QED BY <2>2, <3>1, <4>1 DEF CanStart
    <3>2. CASE ~Casts(o) /\ type = "core" /\ isDmaSet(o.tiles[s.at].set)
      <4>1. MemStart(o, s) = "TRUE" BY <1>4, <3>2 DEF MemStart
      <4> QED BY <4>1 DEF CanStart
    <3>3. CASE ~Casts(o) /\ type = "core" /\ ~isDmaSet(o.tiles[s.at].set)
      <4>1. MemStart(o, s) = s.coreStart BY <1>4, <3>3 DEF MemStart
      <4>2. CanStart(o, <<loc, "core">>, s.coreStart, d.counters) BY <1>4, <1>5, <3>3 DEF WInv, TileOK, Working
      <4>3. d2.counters = d.counters BY <1>9, <1>15
      <4> QED BY <1>4, <3>3, <4>1, <4>2, <4>3, MemoryCanStart
    <3>4. CASE type = "mem_tile"
      <4>1. MemStart(o, s) = s.memStart BY <1>4, <3>4 DEF MemStart
      <4>2. s.memStart = (IF Casts(o) THEN "BROADCAST_1" ELSE "TRUE") BY <1>5 DEF WInv, StartsOK
      <4> QED BY <2>2, <4>1, <4>2 DEF CanStart
    <3> QED BY <1>7, <3>1, <3>2, <3>3, <3>4
  <2>4. StartOK(o, net, v, m.start, d2.counters)
    <3>1. ~Layered(o, net) BY <1>1, <1>5, NoWindow DEF WInv
    <3> QED BY <2>1, <2>3, <3>1 DEF StartOK
  <2>5. m.stop \in {EndEvent(o, s2, v[1]), "USER_EVENT_0_MEM"}
    <3>1. MemStop(o, s) = "USER_EVENT_0_MEM" \/ MemStop(o, s) = EndEvent(o, s2, loc)
      BY <1>4, <1>7, <1>10 DEF MemStop, EndEvent, Same
    <3> QED BY <2>1, <2>2, <3>1
  <2>6. v[1] \in s2.flushLocs BY <1>12, <2>2
  <2>7. UnitOK(o, s2, d2.counters, net, v, m) BY <1>11, <1>15, <2>4, <2>5, <2>6 DEF UnitOK
  <2>8. WInv(o, s2, d2, net) BY <1>10, <1>13, <2>1, <2>7, WinStep
  <2> QED BY <1>3, <1>8, <2>8
<1> QED BY <1>9, <1>14, <1>15

\* interfaceTrace
LEMMA InterfaceWins ==
  ASSUME NEW o, o = ttOpt, NEW s, s = ttSt, NEW d, d = ttDev, NEW db, db = ttDb, TInv(o, s, d, db),
         NEW net, net = ttNet, WInv(o, s, d, net), NEW f \in {"ok", "cntr", "control", "slot", "mode"}, interfaceTrace(f)
  PROVE  WInv(ttOpt', ttSt', ttDev', ttNet')
<1>1. OptOK(o) /\ StOK(o, s) /\ CurOK(o, s, d) /\ IsDev(d) BY DEF TInv
<1>2. IsSt(s) BY <1>1 DEF StOK
<1>3. PICK s2, d2 : s2 = ttSt' /\ d2 = ttDev' OBVIOUS
<1>4. PICK loc, v : loc = o.tiles[s.at].loc /\ v = <<loc, "pl">> OBVIOUS
<1>5. s.pc = "pl" BY DEF interfaceTrace
<1>6. /\ s.cur.interfaceEvents \in Seq(Words) /\ s.cur.interfaceEvents # <<>> /\ TypeIn(o, loc) = "shim"
      /\ s.at \in 1..Len(o.tiles)
  BY <1>1, <1>4, <1>5 DEF CurOK, CurAt, Working, StOK
<1>7. ttOpt' = o /\ ttNet' = net /\ InterfaceDone(o, s, d, s2, d2) BY <1>1, <1>2, <1>3, <1>6, InterfaceIs
<1>8. PICK start : start = IF Casts(o) /\ loc[1] = 0 THEN "COMBO_EVENT_0" ELSE s.plStart OBVIOUS
<1>9. /\ SameStarts(s, s2) /\ s2.at = s.at
      /\ \/ s2.pc = "ready" /\ d2.counters = d.counters /\ Unchanged(d.mods, v, d2.mods)
         \/ s2.pc = "failed" /\ d2.mods = d.mods
         \/ /\ s2.pc = "add" /\ d2.counters = d.counters
            /\ \E m : d2.mods = With(d.mods, v, m) /\ m.start = start /\ m.stop = "USER_EVENT_1_PL" /\ m.state = "on"
  BY <1>4, <1>7, <1>8, Zenon DEF InterfaceDone
<1>10. /\ s.pc \notin {"new", "ended"} /\ s2.pc \notin {"new", "ended"} /\ s.flushLocs \subseteq s2.flushLocs
       /\ s.pc \in {"tracing", "released"} => s2.pc \in {"tracing", "released"}
       /\ s2.pc # "tracing" \/ ~Layered(o, net)
       /\ s2.pc \in Over \/ (s.pc \notin Over /\ d.counters \subseteq d2.counters)
       /\ Same(s, s2) /\ s2.coreStart = s.coreStart
  BY <1>5, <1>9 DEF Over, SameStarts
<1>11. UnitAt(o, v)
  <2>1. Fits(TypeIn(o, o.tiles[s.at].loc), "pl") BY <1>4, <1>6 DEF Fits
  <2> QED BY <1>1, <1>4, <1>6, <2>1, TileHas
<1>12. loc \in s2.flushLocs BY <1>4, <1>5, <1>10 DEF WInv, TileOK, Working
<1>13. TileOK(o, s2, d2) BY <1>4, <1>9, <1>12 DEF TileOK, Working
<1>14. CASE s2.pc \in {"ready", "failed"}
  <2>1. d2.mods = d.mods \/ \E m : d2.mods = With(d.mods, v, m) /\ UnitOK(o, s2, d2.counters, net, v, m)
    BY <1>9, <1>11, <1>14, ReservedOK DEF Unchanged
  <2>2. WInv(o, s2, d2, net) BY <1>10, <1>13, <2>1, WinStep
  <2> QED BY <1>3, <1>7, <2>2
<1>15. CASE s2.pc = "add"
  <2>1. PICK m : d2.mods = With(d.mods, v, m) /\ m.start = start /\ m.stop = "USER_EVENT_1_PL" /\ m.state = "on"
    BY <1>9, <1>15
  <2>2. v[1] = loc /\ v[2] = "pl" BY <1>4
  <2>3. CanStart(o, v, start, d2.counters)
    <3>1. CASE Casts(o) /\ loc[1] = 0
      <4>1. loc \in Nat \X Row BY <1>1, <1>4, <1>6, TileShape
      <4>2. loc[2] = 0 BY <1>6 DEF TypeIn, getModuleType
      <4>3. loc = <<0, 0>> BY <3>1, <4>1, <4>2
      <4> QED BY <1>4, <1>8, <3>1, <4>3 DEF CanStart
    <3>2. CASE ~(Casts(o) /\ loc[1] = 0)
      <4>1. s.plStart = (IF Casts(o) THEN "BROADCAST_2" ELSE "TRUE") BY <1>5 DEF WInv, StartsOK
      <4> QED BY <1>8, <2>2, <3>2, <4>1 DEF CanStart
    <3> QED BY <3>1, <3>2
  <2>4. StartOK(o, net, v, m.start, d2.counters)
    <3>1. ~Layered(o, net) BY <1>1, <1>5, NoWindow DEF WInv
    <3> QED BY <2>1, <2>3, <3>1 DEF StartOK
  <2>5. m.stop = EndEvent(o, s2, v[1]) BY <1>6, <2>1, <2>2 DEF EndEvent
  <2>6. v[1] \in s2.flushLocs BY <1>12, <2>2
  <2>7. UnitOK(o, s2, d2.counters, net, v, m) BY <1>11, <1>15, <2>4, <2>5, <2>6 DEF UnitOK
  <2>8. WInv(o, s2, d2, net) BY <1>10, <1>13, <2>1, <2>7, WinStep
  <2> QED BY <1>3, <1>7, <2>8
<1> QED BY <1>9, <1>14, <1>15

\* addAIECfgTile, tilesDone, traceConfigured and freeResources
LEMMA CalmWins ==
  ASSUME NEW o, o = ttOpt, NEW s, s = ttSt, NEW d, d = ttDev, NEW db, db = ttDb, TInv(o, s, d, db),
         NEW net, net = ttNet, WInv(o, s, d, net),
         addAIECfgTile \/ tilesDone \/ traceConfigured \/ freeResources
  PROVE  WInv(ttOpt', ttSt', ttDev', ttNet')
<1>1. IsSt(s) /\ IsDev(d) BY DEF TInv, StOK
<1>2. PICK s2, d2 : s2 = ttSt' /\ d2 = ttDev' OBVIOUS
<1>3. /\ ttOpt' = o /\ ttNet' = net /\ SameStarts(s, s2) /\ d2.mods = d.mods
      /\ \/ s.pc \in {"add", "tile", "ready"} /\ s2.pc \in {"tile", "ready", "tracing"} /\ d2 = d
         \/ s.pc \in {"tracing", "failed"} /\ s2.pc = "released"
  <2>1. CASE addAIECfgTile BY <1>1, <1>2, <2>1, AddIs
  <2>2. CASE tilesDone BY <1>1, <1>2, <2>2, DoneIs
  <2>3. CASE traceConfigured BY <1>1, <1>2, <2>3, ConfiguredIs
  <2>4. CASE freeResources BY <1>1, <1>2, <2>4, FreeIs
  <2> QED BY <2>1, <2>2, <2>3, <2>4
<1>4. /\ s.pc \notin {"new", "ended"} /\ s2.pc \notin {"new", "ended"} /\ s.flushLocs \subseteq s2.flushLocs
      /\ s.pc \in {"tracing", "released"} => s2.pc \in {"tracing", "released"}
      /\ s2.pc # "tracing" \/ ~Layered(o, net)
      /\ s2.pc \in Over \/ (s.pc \notin Over /\ d.counters \subseteq d2.counters)
      /\ Same(s, s2) /\ s2.coreStart = s.coreStart
  <2>1. OptOK(o) /\ NetOK(o, s, net) BY DEF TInv, WInv
  <2>2. s2.pc # "tracing" \/ ~Layered(o, net) BY <1>3, <2>1, NoWindow
  <2> QED BY <1>3, <2>2 DEF Over, SameStarts
<1>5. TileOK(o, s2, d2) BY <1>3 DEF TileOK, Working
<1>6. WInv(o, s2, d2, net) BY <1>3, <1>4, <1>5, WinStep
<1> QED BY <1>2, <1>3, <1>6

\* A network that is built is not the empty one.
LEMMA BuiltNotClean == \A event, off : Built(event, off) # Clean
BY DEF Built, build2ChannelBroadcastNetwork, Clean

\* configureWindowedEventTrace: the network of the layer is the only one.
LEMMA WindowWins ==
  ASSUME NEW o, o = ttOpt, NEW s, s = ttSt, NEW d, d = ttDev, NEW db, db = ttDb, TInv(o, s, d, db),
         NEW net, net = ttNet, WInv(o, s, d, net), NEW f \in {"ok", "window"}, configureWindowedEventTrace(f)
  PROVE  WInv(ttOpt', ttSt', ttDev', ttNet')
<1>1. IsSt(s) /\ IsDev(d) /\ OptOK(o) BY DEF TInv, StOK
<1>2. PICK s2, d2, net2 : s2 = ttSt' /\ d2 = ttDev' /\ net2 = ttNet' OBVIOUS
<1>3. /\ s.pc = "ready" /\ o.start = "layer" /\ ttOpt' = o /\ SameStarts(s, s2) /\ s2.pc = "tracing"
      /\ \/ d2 = d /\ net2 = net
         \/ /\ net2 = build2ChannelBroadcastNetwork(net, "PERF_CNT_0_PL", Offset(o.gen))
            /\ DOMAIN d2.mods = DOMAIN d.mods /\ d.counters \subseteq d2.counters
            /\ o.layer => LayerCounter \in d2.counters
            /\ \A u \in DOMAIN d.mods :
                 /\ d2.mods[u].start = (IF u[1] \in WindowLocs THEN WindowStart(u) ELSE d.mods[u].start)
                 /\ d2.mods[u].state = d.mods[u].state /\ d2.mods[u].stop = d.mods[u].stop
  BY <1>1, <1>2, WindowIs
<1>4. /\ s.pc \notin {"new", "ended"} /\ s2.pc \notin {"new", "ended"} /\ s.flushLocs \subseteq s2.flushLocs
      /\ s.pc \in {"tracing", "released"} => s2.pc \in {"tracing", "released"}
      /\ s.pc \notin Over /\ s2.pc \notin Over /\ Same(s, s2) /\ s2.coreStart = s.coreStart
  BY <1>3 DEF Over, SameStarts
<1>5. TileOK(o, s2, d2) BY <1>3 DEF TileOK, Working
<1>6. net = Clean BY <1>3 DEF WInv, NetOK, Casts
<1>7. CASE d2 = d /\ net2 = net
  <2>1. ~Layered(o, net) BY <1>6 DEF Layered
  <2>2. WInv(o, s2, d2, net) BY <1>4, <1>5, <1>7, <2>1, WinStep
  <2> QED BY <1>2, <1>3, <1>7, <2>2
<1>8. CASE ~(d2 = d /\ net2 = net)
  <2>1. net2 = Built("PERF_CNT_0_PL", Offset(o.gen)) BY <1>3, <1>6, <1>8 DEF Built
  <2>2. NetOK(o, s2, net2) BY <1>3, <2>1 DEF NetOK
  <2>3. StartsOK(o, s2, d2) BY <1>4 DEF WInv, StartsOK, Same
  <2>4. CountsOK(o, s2, d2, net2) BY <1>3, <1>8 DEF CountsOK, Layered
  <2>5. ASSUME NEW u \in DOMAIN d.mods PROVE UnitOK(o, s2, d2.counters, net2, u, d2.mods[u])
    <3>1. PICK m, m2, cs, cs2 : m = d.mods[u] /\ m2 = d2.mods[u] /\ cs = d.counters /\ cs2 = d2.counters OBVIOUS
    <3>2. UnitOK(o, s, cs, net, u, m) BY <3>1 DEF WInv, UnitsOK
    <3>3. /\ m2.start = (IF u[1] \in WindowLocs THEN WindowStart(u) ELSE m.start)
          /\ m2.state = m.state /\ m2.stop = m.stop /\ cs \subseteq cs2
      BY <1>3, <1>8, <3>1
    <3>4. UnitAt(o, u) BY <3>2 DEF UnitOK
    <3>5. ASSUME m2.state = "on" PROVE StartOK(o, net2, u, m2.start, cs2)
      <4>1. CASE o.layer /\ Named(o, u)
        <5>0. WindowLocs = WinLocs(o) BY <4>1, Zenon DEF WindowLocs, WinLocs
        <5>7. ASSUME o.shift = 0 PROVE u[1] \in WindowLocs
          <6>1. PICK j \in 1..Len(o.tiles) : u[1] = o.tiles[j].loc BY <3>4 DEF UnitAt
          <6>2. PICK c, w : c = o.tiles[j].loc[1] /\ w = o.tiles[j].loc[2] OBVIOUS
          <6>3. o.tiles[j].loc \in Nat \X Row /\ j \in DOMAIN o.tiles BY <1>1, TileShape
          <6>4. c \in Nat /\ o.tiles[j].loc = <<c, w>> BY <6>2, <6>3
          <6>5. c - o.shift = c BY <5>7, <6>4
          <6>6. <<o.tiles[j].loc[1] - o.shift, o.tiles[j].loc[2]>> \in WindowLocs BY <4>1, <6>3 DEF WindowLocs
          <6> QED BY <6>1, <6>2, <6>4, <6>5, <6>6
        <5>1. u[1] \in WindowLocs BY <4>1, <5>0, <5>7 DEF Named
        <5>2. m2.start = WindowStart(u) BY <3>3, <5>1
        <5>3. WindowStart(u) = WinStart(o, u) BY DEF WindowStart, WinStart, TypeAt, TypeIn
        <5>4. m2.start = WinStart(o, u) BY <5>2, <5>3
        <5>5. CASE Layered(o, net2) BY <5>4, <5>5 DEF StartOK
        <5>6. CASE ~Layered(o, net2)
          <6>1. FALSE
            <7>1. net2 = Clean BY <4>1, <5>6 DEF Layered
            <7> QED BY <2>1, <7>1, BuiltNotClean
          <6> QED BY <6>1
        <5> QED BY <5>5, <5>6
      <4>2. CASE o.layer /\ ~Named(o, u)
        <5>1. Layered(o, net2)
          <6>1. net2 # Clean BY <2>1, BuiltNotClean
          <6> QED BY <4>2, <6>1 DEF Layered
        <5> QED BY <4>2, <5>1 DEF StartOK
      <4>3. CASE ~o.layer
        <5>1. ~Layered(o, net) /\ ~Layered(o, net2) BY <4>3 DEF Layered
        <5>2. m2.start = m.start
          <6>1. WindowLocs = {} BY <4>3 DEF WindowLocs
          <6> QED BY <3>3, <6>1
        <5>3. StartOK(o, net, u, m.start, cs) BY <1>4, <3>2, <3>3, <3>5 DEF UnitOK
        <5>4. StartOK(o, net, u, m.start, cs2) BY <3>3, <5>3, MoreCounters
        <5> QED BY <5>1, <5>2, <5>4 DEF StartOK
      <4> QED BY <1>1, <4>1, <4>2, <4>3
    <3>6. EndEvent(o, s2, u[1]) = EndEvent(o, s, u[1])
      <4>1. s2.coreEnd = s.coreEnd BY <1>4 DEF Same
      <4> QED BY <4>1 DEF EndEvent
    <3>7. UnitOK(o, s2, cs2, net2, u, m2) BY <1>4, <3>2, <3>3, <3>5, <3>6 DEF UnitOK
    <3> QED BY <3>1, <3>7
  <2>6. UnitsOK(o, s2, d2, net2) BY <1>3, <1>8, <2>5 DEF UnitsOK
  <2> QED BY <1>2, <1>3, <1>5, <2>2, <2>3, <2>4, <2>6 DEF WInv
<1> QED BY <1>7, <1>8

\* flushTraceModules
LEMMA FlushWins ==
  ASSUME NEW o, o = ttOpt, NEW s, s = ttSt, NEW d, d = ttDev, NEW db, db = ttDb, TInv(o, s, d, db),
         NEW net, net = ttNet, WInv(o, s, d, net), flushTraceModules
  PROVE  WInv(ttOpt', ttSt', ttDev', ttNet')
<1>1. IsSt(s) /\ IsDev(d) BY DEF TInv, StOK
<1>2. PICK s2, d2 : s2 = ttSt' /\ d2 = ttDev' OBVIOUS
<1>3. /\ s.pc = "released" /\ ttOpt' = o /\ ttNet' = net /\ Same(s, s2) /\ s2.coreStart = s.coreStart /\ s2.pc = "ended"
      /\ DOMAIN d2.mods = DOMAIN d.mods
      /\ \A u \in DOMAIN d.mods :
           /\ d2.mods[u].state = d.mods[u].state /\ d2.mods[u].stop = d.mods[u].stop
           /\ u[1] \in s.flushLocs /\ d.mods[u].stop = EndEvent(o, s, u[1]) => d2.mods[u].flushed
  BY <1>1, <1>2, FlushIs
<1>4. NetOK(o, s2, net) BY <1>3 DEF WInv, NetOK
<1>5. StartsOK(o, s2, d2) BY <1>3 DEF WInv, StartsOK, Same
<1>6. TileOK(o, s2, d2) BY <1>3 DEF TileOK, Working
<1>7. ASSUME NEW u \in DOMAIN d.mods PROVE UnitOK(o, s2, d2.counters, net, u, d2.mods[u])
  <2>1. PICK m, m2 : m = d.mods[u] /\ m2 = d2.mods[u] OBVIOUS
  <2>2. UnitOK(o, s, d.counters, net, u, m) BY <2>1 DEF WInv, UnitsOK
  <2>3. /\ m2.state = m.state /\ m2.stop = m.stop
        /\ u[1] \in s.flushLocs /\ m.stop = EndEvent(o, s, u[1]) => m2.flushed
    BY <1>3, <2>1
  <2>4. m2.state = "on" => m2.flushed \/ m2.stop = "USER_EVENT_0_MEM" BY <1>3, <2>2, <2>3 DEF UnitOK
  <2>5. UnitOK(o, s2, d2.counters, net, u, m2) BY <1>3, <2>2, <2>4 DEF UnitOK, Over
  <2> QED BY <2>1, <2>5
<1>8. UnitsOK(o, s2, d2, net) BY <1>3, <1>7 DEF UnitsOK
<1>9. CountsOK(o, s2, d2, net) BY <1>3 DEF CountsOK
<1> QED BY <1>2, <1>3, <1>4, <1>5, <1>6, <1>8, <1>9 DEF WInv

\* The invariant holds at first.
LEMMA WindowInit ==
  ASSUME TtInit
  PROVE  WindowInv
<1>1. PICK o, s, d, net : o = ttOpt /\ s = ttSt /\ d = ttDev /\ net = ttNet OBVIOUS
<1>2. /\ s.pc = "new" /\ s.coreStart = "ACTIVE" /\ s.memStart = "TRUE" /\ s.plStart = "TRUE" /\ net = Clean
      /\ d.mods = <<>>
  BY <1>1 DEF TtInit
<1>3. DOMAIN d.mods = {} BY <1>2
<1>4. NetOK(o, s, net) BY <1>2 DEF NetOK
<1>5. StartsOK(o, s, d) BY <1>2, <1>3 DEF StartsOK
<1>6. TileOK(o, s, d) BY <1>2 DEF TileOK, Working
<1>7. UnitsOK(o, s, d, net) BY <1>3 DEF UnitsOK
<1>8. WInv(o, s, d, net)
  <2>1. CountsOK(o, s, d, net) BY <1>2 DEF CountsOK
  <2> QED BY <1>4, <1>5, <1>6, <1>7, <2>1 DEF WInv
<1> QED BY <1>1, <1>8, TilesInit DEF WindowInv

\* Every step keeps it.
LEMMA WindowNext ==
  ASSUME WindowInv, [TtNext]_ttVars
  PROVE  WindowInv'
<1>1. PICK o, s, d, db, net : o = ttOpt /\ s = ttSt /\ d = ttDev /\ db = ttDb /\ net = ttNet OBVIOUS
<1>2. TInv(o, s, d, db) /\ WInv(o, s, d, net) BY <1>1 DEF WindowInv, TilesInv
<1>3. TilesInv' BY TilesNext DEF WindowInv
<1> SUFFICES WInv(ttOpt', ttSt', ttDev', ttNet') BY <1>3 DEF WindowInv
<1>4. CASE UNCHANGED ttVars BY <1>1, <1>2, <1>4 DEF ttVars
<1>5. CASE setMetricsSettings BY <1>1, <1>2, <1>5, SetupWins
<1>6. CASE beginTile BY <1>1, <1>2, <1>6, BeginWins
<1>7. CASE addAIECfgTile \/ tilesDone \/ traceConfigured \/ freeResources BY <1>1, <1>2, <1>7, CalmWins
<1>8. CASE flushTraceModules BY <1>1, <1>2, <1>8, FlushWins
<1>9. CASE \E f \in {"ok", "control", "start"} : executionTile(f) BY <1>1, <1>2, <1>9, ExecutionWins
<1>10. CASE \E f \in {"ok", "core", "mem"} : reserveCounters(f) BY <1>1, <1>2, <1>10, CountersWin
<1>11. CASE \E f \in CoreFaults : coreTrace(f) BY <1>1, <1>2, <1>11, CoreWins
<1>12. CASE \E f \in {"ok", "cntr", "control", "slot", "mode"} : memoryTrace(f) BY <1>1, <1>2, <1>12, MemoryWins
<1>13. CASE \E f \in {"ok", "cntr", "control", "slot", "mode"} : interfaceTrace(f) BY <1>1, <1>2, <1>13, InterfaceWins
<1>14. CASE \E f \in {"ok", "window"} : configureWindowedEventTrace(f) BY <1>1, <1>2, <1>14, WindowWins
<1> QED BY <1>4, <1>5, <1>6, <1>7, <1>8, <1>9, <1>10, <1>11, <1>12, <1>13, <1>14, Zenon DEF TtNext, CoreFaults

\* The switch of a module
SwitchOf(u) == <<u[1][1], u[1][2], CASE u[2] = "core" -> "C" [] u[2] = "mem" -> "M" [] u[2] = "pl" -> "A">>

\* It is a switch of the partition, where the network brings the start.
LEMMA UnitSwitch ==
  ASSUME NEW o, OptOK(o), NEW u, UnitAt(o, u), u[1][1] \in Column, NEW off, off = Offset(o.gen)
  PROVE  /\ SwitchOf(u) \in Nodes(off) /\ SwitchOf(u)[3] # "B"
         /\ u[2] \in {"core", "mem", "pl"}
         /\ u[2] = "pl" => \E c \in Column : SwitchOf(u) = <<c, 0, "A">>
<1>1. PICK j \in 1..Len(o.tiles), mod \in {"core", "mem", "pl"} :
        u = <<o.tiles[j].loc, mod>> /\ Fits(TypeIn(o, o.tiles[j].loc), mod)
  BY DEF UnitAt
<1>2. PICK loc : loc = o.tiles[j].loc OBVIOUS
<1>3. loc \in Nat \X Row /\ loc[1] \in Column /\ off \in {1, 2} BY <1>1, <1>2, TileShape
<1>4. PICK c, r : c = loc[1] /\ r = loc[2] OBVIOUS
<1>5. c \in Column /\ r \in Row BY <1>3, <1>4
<1>6. PICK w : w = CASE mod = "core" -> "C" [] mod = "mem" -> "M" [] mod = "pl" -> "A" OBVIOUS
<1>7. SwitchOf(u) = <<c, r, w>> /\ u[2] = mod BY <1>1, <1>2, <1>4, <1>6 DEF SwitchOf
<1>8. /\ r \in Nat
      /\ r = 0 => Switches(r, off) = {"A", "B"}
      /\ r # 0 /\ r < off => Switches(r, off) = {"M"}
      /\ r # 0 /\ ~(r < off) => Switches(r, off) = {"C", "M"}
  BY <1>3, <1>5, SwitchesIs
<1>9. TypeIn(o, loc) = IF r = 0 THEN "shim" ELSE IF r < off THEN "mem_tile" ELSE "core"
  BY <1>4 DEF TypeIn, getModuleType
<1>10. Fits(TypeIn(o, loc), mod) BY <1>1, <1>2
<1>11. w \in Switches(r, off) /\ w # "B" /\ (mod = "pl" => r = 0 /\ w = "A")
  BY <1>6, <1>8, <1>9, <1>10 DEF Fits
<1>12. <<c, r, w>> \in Nodes(off) BY <1>5, <1>11, NodeIs
<1> QED BY <1>1, <1>5, <1>7, <1>11, <1>12

\* The signal of a network that is built gets to the modules of its columns.
LEMMA SignalArrives ==
  ASSUME NEW o, o = ttOpt, OptOK(o), NEW net, NEW off, off = Offset(o.gen), NEW got, got = Delivered(net, Signal, off),
         NEW event, event # "BROADCAST_2", net = Built(event, off), Signal = event,
         NEW u, UnitAt(o, u), u[1][1] \in Column, NEW e
  PROVE  /\ e \in {"BROADCAST_1", "BROADCAST_1_CORE", "BROADCAST_1_MEM"} => Signalled(u, e, got)
         /\ u[2] = "pl" /\ e = "BROADCAST_2" => Signalled(u, e, got)
         /\ u = <<<<0, 0>>, "pl">> /\ e = event => Signalled(u, e, got)
<1>1. off \in {1, 2} BY TileShape
<1>2. /\ SwitchOf(u) \in Nodes(off) /\ SwitchOf(u)[3] # "B"
      /\ u[2] = "pl" => \E c \in Column : SwitchOf(u) = <<c, 0, "A">>
  BY UnitSwitch
<1>3. PICK at : at = SwitchOf(u) OBVIOUS
<1>4. got = Delivered(Built(event, off), event, off) OBVIOUS
<1>5. /\ \A c \in Column : <<c, 0, "A">> \in got[2]
      /\ \A n \in Nodes(off) : n[3] # "B" => n \in got[1]
  BY <1>1, <1>4, Delivers
<1>6. at \in got[1] /\ (u[2] = "pl" => at \in got[2]) BY <1>2, <1>3, <1>5
<1> QED BY <1>3, <1>6, Zenon DEF Signalled, SwitchOf

\* With a window every module it reaches starts on the signal,
LEMMA LayerHappens ==
  ASSUME NEW o, o = ttOpt, OptOK(o), NEW s, NEW net, NetOK(o, s, net), Layered(o, net),
         NEW off, off = Offset(o.gen), NEW got, got = Delivered(net, Signal, off),
         NEW u, UnitAt(o, u), Named(o, u), NEW e, e = WinStart(o, u)
  PROVE  Signalled(u, e, got)
<1>1. o.start = "layer" BY DEF OptOK, Layered
<1>2. Signal = "PERF_CNT_0_PL" BY <1>1 DEF Signal
<1>3. net = Built("PERF_CNT_0_PL", off) BY <1>1 DEF NetOK, Casts, Layered
<1>4. PICK j \in 1..Len(o.tiles), mod \in {"core", "mem", "pl"} :
        u = <<o.tiles[j].loc, mod>> /\ Fits(TypeIn(o, o.tiles[j].loc), mod)
  BY DEF UnitAt
<1>5. PICK loc, c : loc = o.tiles[j].loc /\ c = loc[1] OBVIOUS
<1>6. loc \in Nat \X Row /\ TypeIn(o, loc) \in {"core", "mem_tile", "shim"} /\ j \in DOMAIN o.tiles
  BY <1>4, <1>5, TileShape
<1>7. u[1] = loc /\ u[2] = mod BY <1>4, <1>5
<1>8. u[1][1] \in Column
  <2>1. \A i \in DOMAIN o.tiles : o.tiles[i].loc[1] - o.shift \in Column BY DEF OptOK
  <2>2. CASE o.shift = 0
    <3>1. c - o.shift \in Column BY <1>5, <1>6, <2>1
    <3>2. c \in Nat BY <1>5, <1>6
    <3>3. c - o.shift = c BY <2>2, <3>2
    <3> QED BY <1>5, <1>7, <3>1, <3>3
  <2>3. CASE o.shift # 0
    <3>1. PICK i \in DOMAIN o.tiles : u[1] = <<o.tiles[i].loc[1] - o.shift, o.tiles[i].loc[2]>>
      BY <2>3, Zenon DEF Named, WinLocs
    <3>2. u[1][1] = o.tiles[i].loc[1] - o.shift BY <3>1
    <3> QED BY <2>1, <3>2
  <2> QED BY <2>2, <2>3
<1>9. "PERF_CNT_0_PL" # "BROADCAST_2" OBVIOUS
<1>10. /\ e \in {"BROADCAST_1", "BROADCAST_1_CORE", "BROADCAST_1_MEM"} => Signalled(u, e, got)
       /\ u[2] = "pl" /\ e = "BROADCAST_2" => Signalled(u, e, got)
       /\ u = <<<<0, 0>>, "pl">> /\ e = "PERF_CNT_0_PL" => Signalled(u, e, got)
  BY <1>2, <1>3, <1>8, <1>9, SignalArrives
<1>11. CASE TypeIn(o, loc) = "shim"
  <2>1. mod = "pl" BY <1>4, <1>5, <1>11 DEF Fits
  <2>2. loc[2] = 0 BY <1>11 DEF TypeIn, getModuleType
  <2>3. e = IF loc[1] = 0 THEN "PERF_CNT_0_PL" ELSE "BROADCAST_2" BY <1>7, <1>11 DEF WinStart
  <2>4. CASE loc[1] = 0
    <3>1. loc = <<0, 0>> BY <1>6, <2>2, <2>4
    <3> QED BY <1>4, <1>5, <1>10, <2>1, <2>3, <2>4, <3>1
  <2>5. CASE loc[1] # 0 BY <1>7, <1>10, <2>1, <2>3, <2>5
  <2> QED BY <2>4, <2>5
<1>12. CASE TypeIn(o, loc) # "shim"
  <2>1. e \in {"BROADCAST_1", "BROADCAST_1_CORE", "BROADCAST_1_MEM"} BY <1>6, <1>7, <1>12 DEF WinStart
  <2> QED BY <1>10, <2>1
<1> QED BY <1>11, <1>12

\* and without one on what can happen in it.
LEMMA StartHappens ==
  ASSUME NEW o, o = ttOpt, OptOK(o), NEW s, NEW net, NetOK(o, s, net), s.pc = "tracing", NEW cs, cs = ttDev.counters,
         NEW off, off = Offset(o.gen), NEW got, got = Delivered(net, Signal, off), ~Layered(o, net),
         NEW u, UnitAt(o, u), u[1][1] \in Column, NEW e, StartOK(o, net, u, e, cs)
  PROVE  Runs(o, u) \/ Happens(u, e, got)
<1>1. \/ e \in {"ACTIVE", "TRUE", "INSTR_EVENT_0"}
      \/ \E k \in 1..3 : e = CounterEvent[k] /\ [loc |-> u[1], mod |-> "core", id |-> k - 1] \in cs
      \/ Signalled(u, e, got)
      => Happens(u, e, got)
  <2>1. DOMAIN CounterEvent = 1..3 BY DEF CounterEvent
  <2> QED BY <2>1, Zenon DEF Happens
<1>2. Runs(o, u) \/ CanStart(o, u, e, cs) BY DEF StartOK
<1>3. CASE Casts(o)
  <2>1. o.start # "layer" /\ Signal = "COMBO_EVENT_0" BY <1>3 DEF Casts, Signal
  <2>2. net = Built("COMBO_EVENT_0", off) BY <1>3, <2>1 DEF NetOK
  <2>3. "COMBO_EVENT_0" # "BROADCAST_2" OBVIOUS
  <2>4. /\ e \in {"BROADCAST_1", "BROADCAST_1_CORE", "BROADCAST_1_MEM"} => Signalled(u, e, got)
        /\ u[2] = "pl" /\ e = "BROADCAST_2" => Signalled(u, e, got)
        /\ u = <<<<0, 0>>, "pl">> /\ e = "COMBO_EVENT_0" => Signalled(u, e, got)
    BY <2>1, <2>2, <2>3, SignalArrives
  <2> QED BY <1>1, <1>2, <2>4 DEF CanStart
<1>4. CASE ~Casts(o) BY <1>1, <1>2, <1>4 DEF CanStart
<1> QED BY <1>3, <1>4

\* No signal leaves the partition.
LEMMA StaysInside ==
  ASSUME NEW o, o = ttOpt, OptOK(o), NEW s, NEW net, NetOK(o, s, net), s.pc = "tracing",
         NEW off, off = Offset(o.gen), NEW got, got = Delivered(net, Signal, off)
  PROVE  Outside \notin got[1] \cup got[2]
<1>1. off \in {1, 2} BY TileShape
<1>2. CASE net = Clean BY <1>1, <1>2, CleanDelivers
<1>3. ASSUME NEW event, event # "BROADCAST_2", net = Built(event, off), Signal = event
      PROVE  Outside \notin got[1] \cup got[2]
  <2>1. got = Delivered(Built(event, off), event, off) BY <1>3
  <2> QED BY <1>1, <1>3, <2>1, Delivers
<1>4. \/ net = Clean
      \/ net = Built("COMBO_EVENT_0", off) /\ Signal = "COMBO_EVENT_0"
      \/ net = Built("PERF_CNT_0_PL", off) /\ Signal = "PERF_CNT_0_PL"
  BY DEF NetOK, Signal, Casts
<1> QED BY <1>2, <1>3, <1>4

\* What the invariant says of the modules is WindowRight.
LEMMA WindowInvRight ==
  ASSUME WindowInv
  PROVE  WindowRight
<1>1. PICK o, s, d, net : o = ttOpt /\ s = ttSt /\ d = ttDev /\ net = ttNet OBVIOUS
<1>2. OptOK(o) /\ WInv(o, s, d, net) BY <1>1 DEF WindowInv, TilesInv, TInv
<1>3. PICK off : off = Offset(o.gen) OBVIOUS
<1>4. PICK got : got = Delivered(net, Signal, off) OBVIOUS
<1>5. NetOK(o, s, net) /\ UnitsOK(o, s, d, net) /\ StartsOK(o, s, d) BY <1>2 DEF WInv
<1>6. ASSUME s.pc = "tracing", NEW u \in DOMAIN d.mods, d.mods[u].state = "on"
      PROVE  /\ Layered(o, net) /\ Named(o, u) => Signalled(u, d.mods[u].start, got)
             /\ ~Layered(o, net) => u[1][1] \notin Column \/ Runs(o, u) \/ Happens(u, d.mods[u].start, got)
  <2>1. PICK m, e, cs : m = d.mods[u] /\ e = m.start /\ cs = d.counters OBVIOUS
  <2>2. UnitOK(o, s, cs, net, u, m) BY <1>5, <1>6, <2>1 DEF UnitsOK
  <2>3. UnitAt(o, u) /\ StartOK(o, net, u, e, cs) BY <1>6, <2>1, <2>2 DEF UnitOK, Over
  <2>4. cs = ttDev.counters BY <1>1, <2>1
  <2>5. ASSUME Layered(o, net), Named(o, u) PROVE Signalled(u, e, got)
    <3>1. e = WinStart(o, u) BY <2>3, <2>5 DEF StartOK
    <3> QED BY <1>1, <1>2, <1>3, <1>4, <1>5, <2>3, <2>5, <3>1, LayerHappens
  <2>6. ASSUME ~Layered(o, net), u[1][1] \in Column PROVE Runs(o, u) \/ Happens(u, e, got)
    BY <1>1, <1>2, <1>3, <1>4, <1>5, <1>6, <2>3, <2>4, <2>6, StartHappens
  <2> QED BY <2>1, <2>5, <2>6
<1>7. ASSUME s.pc = "ended", NEW u \in DOMAIN d.mods, d.mods[u].state = "on"
      PROVE  d.mods[u].flushed \/ d.mods[u].stop = "USER_EVENT_0_MEM"
  <2>1. UnitOK(o, s, d.counters, net, u, d.mods[u]) BY <1>5, <1>7 DEF UnitsOK
  <2> QED BY <1>7, <2>1 DEF UnitOK
<1>8. ASSUME s.pc = "tracing", o.multi
      PROVE  s.timers = {n \in Nodes(off) : n[3] # "B"} /\ Outside \notin got[1] \cup got[2]
  <2>1. s.timers = {n \in Nodes(off) : n[3] # "B"} BY <1>3, <1>5, <1>8 DEF StartsOK
  <2>2. Outside \notin got[1] \cup got[2] BY <1>1, <1>2, <1>3, <1>4, <1>5, <1>8, StaysInside
  <2> QED BY <2>1, <2>2
<1>9. off = Offset(ttOpt.gen) /\ got = Got /\ (Layered(o, net) <=> Windowed)
  BY <1>1, <1>3, <1>4, Zenon DEF Got, Layered, Windowed
<1>10. \A u \in On : u \in DOMAIN d.mods /\ d.mods[u].state = "on" BY <1>1 DEF On
<1>11. s.pc = "tracing" /\ Layered(o, net) => LayerCounter \in d.counters BY <1>2 DEF WInv, CountsOK
<1>12. s.pc = "tracing" => \A u \in On :
         /\ Layered(o, net) /\ Named(o, u) => Signalled(u, d.mods[u].start, got)
         /\ ~Layered(o, net) => u[1][1] \notin Column \/ Runs(o, u) \/ Happens(u, d.mods[u].start, got)
  BY <1>6, <1>10, Zenon
<1>13. s.pc = "ended" => \A u \in On : d.mods[u].flushed \/ d.mods[u].stop = "USER_EVENT_0_MEM"
  BY <1>7, <1>10, Zenon
<1>14. s.pc = "tracing" /\ o.multi =>
         s.timers = {n \in Nodes(off) : n[3] # "B"} /\ Outside \notin got[1] \cup got[2]
  BY <1>8
<1>15. ASSUME Layered(o, net), NEW u
       PROVE  Named(o, u) <=> ttOpt.shift = 0 \/ u[1] \in WindowLocs
  <2>1. WindowLocs = WinLocs(o) BY <1>1, <1>15, Zenon DEF WindowLocs, WinLocs, Layered
  <2> QED BY <1>1, <2>1 DEF Named
<1>16. s.pc = "tracing" /\ Layered(o, net) =>
         \A u \in On : ttOpt.shift = 0 \/ u[1] \in WindowLocs => Signalled(u, d.mods[u].start, got)
  BY <1>12, <1>15, Zenon
<1> QED BY <1>1, <1>9, <1>11, <1>12, <1>13, <1>14, <1>16, Zenon DEF WindowRight, Runs

\* For every list of tiles, partition size, shift and shortage or error of the driver:
\* a window that configureWindowedEventTrace could set up starts every module with
\* the layer if the partition starts at column 0, and else those that are traced at
\* a place for which the metadata names a tile; without a window, the event each module within the columns of the network starts on can happen in it,
\* by itself, by a counter or by the network build2ChannelBroadcastNetwork set up,
\* execution trace aside; the flush at the end generates the event each module ends
\* on, unless it traces DMA events; and the timers of those columns were reset, by
\* signals that stay in them.
THEOREM WindowsAreRight == TtSpec => []WindowRight
<1>1. TtInit => WindowInv BY WindowInit
<1>2. WindowInv /\ [TtNext]_ttVars => WindowInv' BY WindowNext
<1>3. WindowInv => WindowRight BY WindowInvRight
<1> QED BY <1>1, <1>2, <1>3, PTL DEF TtSpec
=============================================================================
