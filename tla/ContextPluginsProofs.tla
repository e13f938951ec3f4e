------------------------ MODULE ContextPluginsProofs ------------------------
(***************************************************************************)
(* Proofs about the plugins XRT calls when hardware contexts and runs come *)
(* and go: the halt plugin, the ML timeline and the control traces of AIE  *)
(* dtrace, for any contexts, buffers, run objects and threads.             *)
(***************************************************************************)
EXTENDS AIEHalt, MLTimeline, AIEDtrace, WellFoundedInduction, TLAPS

-----------------------------------------------------------------------------
(* AIEHaltPlugin                                                           *)

\* The plugin has the address of one context, from the first it is told of on.
\* Only then something is deferred or valid, and what is valid was configured for
\* the context that is there.
HaltIInv ==
  /\ alive \in [HaltHandles -> Nat] /\ numContexts \in Nat /\ configured \in Nat
  /\ mHwCtxImpl \in HaltHandles \cup {None} /\ deferred \in BOOLEAN /\ valid \in BOOLEAN
  /\ mHwCtxImpl = None => ~valid /\ ~deferred
  /\ valid => alive[mHwCtxImpl] = configured /\ configured # None

\* The inductive invariant holds initially and is kept by every call of XRT.
LEMMA HaltInvariant == HaltSpec => []HaltIInv
<1>0. None \in Nat /\ \A n \in Nat : n + 1 # None BY DEF None
<1>1. HaltInit => HaltIInv
  <2>1. 0 \in Nat OBVIOUS
  <2> QED BY <1>0, <2>1, Zenon DEF HaltInit, HaltIInv
<1>2. ASSUME HaltIInv, [HaltNext]_haltVars PROVE HaltIInv'
  <2>0. None \notin HaltHandles BY HaltAssumption
  <2> USE <1>2, <2>0 DEF HaltIInv
  <2>1. ASSUME NEW c \in HaltHandles, createHaltContext(c) PROVE HaltIInv'
    <3>1. CASE mHwCtxImpl # None
      BY <2>1, <3>1 DEF createHaltContext, updateHaltDevice
    <3>2. CASE mHwCtxImpl = None
      <4>1. mHwCtxImpl' = c /\ alive'[c] # None /\ alive' \in [HaltHandles -> Nat] /\ numContexts' \in Nat
        BY <2>1, <3>2, <1>0 DEF createHaltContext, updateHaltDevice
      <4> QED BY <2>1, <3>2, <4>1 DEF createHaltContext, updateHaltDevice, configureDevice
    <3> QED BY <3>1, <3>2
  <2>2. ASSUME NEW c \in HaltHandles, addHaltConfig(c) PROVE HaltIInv'
    BY <2>2 DEF addHaltConfig, updateHaltDevice, configureDevice
  <2>3. ASSUME NEW c \in HaltHandles, runStartHalt(c) PROVE HaltIInv'
    BY <2>3 DEF runStartHalt, configureDevice
  <2>4. ASSUME NEW c \in HaltHandles, finishflushHalt(c) PROVE HaltIInv'
    <3>1. valid' \in BOOLEAN /\ (valid' => valid /\ c # mHwCtxImpl)
      BY <2>4 DEF finishflushHalt
    <3>2. alive' \in [HaltHandles -> Nat] /\ \A d \in HaltHandles : d # c => alive'[d] = alive[d]
      BY <2>4, <1>0 DEF finishflushHalt
    <3>3. UNCHANGED <<numContexts, mHwCtxImpl, deferred, configured>>
      BY <2>4 DEF finishflushHalt
    <3> QED BY <3>1, <3>2, <3>3
  <2>5. CASE writeAllHalt BY <2>5 DEF writeAllHalt
  <2>6. CASE UNCHANGED haltVars BY <2>6 DEF haltVars
  <2> QED BY <1>2, <2>1, <2>2, <2>3, <2>4, <2>5, <2>6 DEF HaltNext
<1> QED BY <1>1, <1>2, PTL DEF HaltSpec

\* What writeAll and the flush of AIEHaltPlugin work on is the context that was
\* configured, for any number of contexts at any addresses.
THEOREM HaltsOnlyLiveContext == HaltSpec => []HaltsLiveContext
<1>1. HaltIInv => HaltsLiveContext BY DEF HaltIInv, HaltsLiveContext
<1> QED BY <1>1, HaltInvariant, PTL

-----------------------------------------------------------------------------
(* MLTimelinePlugin                                                        *)

\* An implementation belongs to the context at its address; its buffer, if it has
\* one, is its own and has not been written; a buffer is written at most once.
MLIInv ==
  /\ \E S \in SUBSET CtxHandles : ctx \in [S -> Nat]
  /\ \E S \in SUBSET CtxHandles : impl \in [S -> [serial : Nat, buffer : 0..MaxBuffers]]
  /\ created \in Nat /\ buffers \in 0..MaxBuffers /\ mlWrites \in [Buffers -> Nat]
  /\ \A c \in DOMAIN impl : impl[c].buffer <= buffers
  /\ \A c \in DOMAIN impl : impl[c].buffer # NoBuffer => mlWrites[impl[c].buffer] = 0
  /\ \A c, d \in DOMAIN impl :
       impl[c].buffer # NoBuffer /\ impl[c].buffer = impl[d].buffer => c = d
  /\ \A b \in Buffers : b > buffers => mlWrites[b] = 0
  /\ OwnBuffer

\* A new implementation takes a buffer nobody has.
LEMMA UpdateKeeps ==
  ASSUME MLIInv, NEW c \in CtxHandles, NEW s \in Nat, updateDevice(c, s),
         c \in DOMAIN ctx', ctx'[c] = s,
         \A d \in DOMAIN ctx : d # c => d \in DOMAIN ctx' /\ ctx'[d] = ctx[d],
         c \in DOMAIN impl => ctx'[c] = ctx[c] /\ c \in DOMAIN ctx,
         \E S \in SUBSET CtxHandles : ctx' \in [S -> Nat],
         created' \in Nat, mlWrites' = mlWrites
  PROVE  MLIInv'
<1> USE TimelineAssumption DEF MLIInv, OwnBuffer, NoBuffer, Buffers
<1>1. CASE UNCHANGED <<impl, buffers>> BY <1>1
<1>2. ASSUME c \notin DOMAIN impl, buffers' \in 0..MaxBuffers, buffers <= buffers',
             NEW b \in 0..MaxBuffers, b = NoBuffer \/ (b = buffers' /\ buffers < b),
             impl' = Put(impl, c, [serial |-> s, buffer |-> b])
      PROVE  MLIInv'
  <2>1. PICK S \in SUBSET CtxHandles : impl \in [S -> [serial : Nat, buffer : 0..MaxBuffers]]
    OBVIOUS
  <2>2. /\ impl' \in [S \cup {c} -> [serial : Nat, buffer : 0..MaxBuffers]]
        /\ S \cup {c} \in SUBSET CtxHandles
    BY <1>2, <2>1 DEF Put
  <2>3. /\ DOMAIN impl = S /\ DOMAIN impl' = S \cup {c} /\ c \notin S
        /\ impl'[c].serial = s /\ impl'[c].buffer = b
        /\ \A d \in S : impl'[d] = impl[d]
    BY <1>2, <2>1 DEF Put
  <2>a. \A d \in S : impl[d].buffer \in Nat /\ impl[d].buffer <= buffers
    BY <2>1, <2>3
  <2>b. buffers \in Nat /\ buffers' \in Nat /\ buffers <= buffers' /\ b \in Nat /\ b <= buffers'
        /\ (b # 0 => b > buffers /\ b \in Buffers)
    BY <1>2
  <2>4. \A d \in DOMAIN impl' : impl'[d].buffer <= buffers'
    BY <2>3, <2>a, <2>b
  <2>5. \A d \in DOMAIN impl' : impl'[d].buffer # NoBuffer => mlWrites[impl'[d].buffer] = 0
    BY <2>3, <2>b
  <2>6. \A d, e \in DOMAIN impl' :
          impl'[d].buffer # NoBuffer /\ impl'[d].buffer = impl'[e].buffer => d = e
    BY <2>3, <2>a, <2>b
  <2>7. OwnBuffer'
    BY <1>2, <2>1, <2>3
  <2>8. \A x \in Buffers : x > buffers' => mlWrites'[x] = 0
    BY <1>2
  <2> QED BY <1>2, <2>2, <2>4, <2>5, <2>6, <2>7, <2>8
<1> QED BY <1>1, <1>2 DEF updateDevice

\* The implementations at S write their buffers and go.
LEMMA FlushKeeps ==
  ASSUME MLIInv, NEW S \in SUBSET DOMAIN impl, Flush(S), impl' = [y \in DOMAIN impl \ S |-> impl[y]],
         \A d \in DOMAIN impl \ S : d \in DOMAIN ctx' /\ ctx'[d] = ctx[d],
         \E T \in SUBSET CtxHandles : ctx' \in [T -> Nat],
         created' \in Nat, buffers' = buffers
  PROVE  MLIInv'
<1> USE TimelineAssumption DEF MLIInv, OwnBuffer, NoBuffer, Buffers
<1> DEFINE B == {impl[c].buffer : c \in S} \ {NoBuffer}
<1>1. mlWrites' = [b \in Buffers |-> IF b \in B THEN mlWrites[b] + 1 ELSE mlWrites[b]]
  BY DEF Flush
<1>2. PICK D \in SUBSET CtxHandles : impl \in [D -> [serial : Nat, buffer : 0..MaxBuffers]]
  OBVIOUS
<1>3. impl' \in [D \ S -> [serial : Nat, buffer : 0..MaxBuffers]] /\ D \ S \in SUBSET CtxHandles
  BY <1>2
<1>4. DOMAIN impl = D /\ DOMAIN impl' = D \ S /\ \A d \in D \ S : impl'[d] = impl[d]
  BY <1>2
<1>5. \A b \in B : b \in Buffers /\ mlWrites[b] = 0 /\ b <= buffers
  BY <1>2, <1>4
<1>6. \A d \in D \ S : impl[d].buffer \notin B
  BY <1>2, <1>4
<1>7. mlWrites' \in [Buffers -> Nat] /\ \A b \in Buffers : mlWrites'[b] <= 1
  BY <1>1, <1>5
<1>8. \A d \in D \ S : impl[d].buffer # NoBuffer => mlWrites'[impl[d].buffer] = 0
  BY <1>1, <1>2, <1>4, <1>6
<1>9. \A b \in Buffers : b > buffers => mlWrites'[b] = 0
  BY <1>1, <1>5
<1> HIDE DEF B
<1> QED BY <1>2, <1>3, <1>4, <1>7, <1>8, <1>9

\* The inductive invariant holds initially and is kept by every call.
LEMMA MLInvariant == MLSpec => []MLIInv
<1>1. ASSUME MLInit PROVE MLIInv
  <2>1. {} \in SUBSET CtxHandles /\ ctx \in [{} -> Nat]
        /\ impl \in [{} -> [serial : Nat, buffer : 0..MaxBuffers]]
    BY <1>1 DEF MLInit
  <2>2. DOMAIN impl = {} BY <2>1
  <2>3. mlWrites \in [Buffers -> Nat] /\ \A b \in Buffers : mlWrites[b] = 0
    BY <1>1 DEF MLInit
  <2>4. created \in Nat /\ buffers \in 0..MaxBuffers
    BY <1>1, TimelineAssumption DEF MLInit
  <2>5. OwnBuffer BY <2>2, <2>3 DEF OwnBuffer
  <2>6. /\ \E S \in SUBSET CtxHandles : ctx \in [S -> Nat]
        /\ \E S \in SUBSET CtxHandles : impl \in [S -> [serial : Nat, buffer : 0..MaxBuffers]]
    BY <2>1
  <2> QED BY <2>2, <2>3, <2>4, <2>5, <2>6 DEF MLIInv
<1>2. ASSUME MLIInv, [MLNext]_mlVars PROVE MLIInv'
  <2> USE <1>2
  <2>a. PICK C \in SUBSET CtxHandles : ctx \in [C -> Nat] BY DEF MLIInv
  <2>b. \A c \in DOMAIN impl : c \in DOMAIN ctx BY DEF MLIInv, OwnBuffer
  <2>c. created \in Nat BY DEF MLIInv
  <2>1. ASSUME NEW c \in CtxHandles, createContext(c) PROVE MLIInv'
    <3>1. /\ C \cup {c} \in SUBSET CtxHandles /\ ctx' \in [C \cup {c} -> Nat]
          /\ ctx'[c] = created + 1 /\ \A d \in DOMAIN ctx : ctx'[d] = ctx[d]
      BY <2>1, <2>a, <2>c DEF createContext, Put
    <3> QED BY <2>1, <2>a, <2>b, <2>c, <3>1, UpdateKeeps DEF createContext
  <2>2. ASSUME NEW c \in CtxHandles, addConfig(c) PROVE MLIInv'
    BY <2>2, <2>a, <2>b, <2>c, UpdateKeeps DEF addConfig
  <2>3. ASSUME NEW c \in CtxHandles, finishflushDevice(c) PROVE MLIInv'
    <3>1. /\ C \ {c} \in SUBSET CtxHandles /\ ctx' \in [C \ {c} -> Nat]
          /\ DOMAIN ctx = C /\ \A d \in C \ {c} : ctx'[d] = ctx[d]
      BY <2>3, <2>a DEF finishflushDevice, Drop
    <3>2. CASE c \in DOMAIN impl
      BY <2>3, <2>b, <2>c, <3>1, <3>2, FlushKeeps DEF finishflushDevice, Drop
    <3>3. CASE c \notin DOMAIN impl
      BY <2>3, <2>b, <2>c, <3>1, <3>3 DEF finishflushDevice, MLIInv, OwnBuffer
    <3> QED BY <3>2, <3>3
  <2>4. CASE writeAllTimelines /\ UNCHANGED <<ctx, created, buffers>>
    <3>1. impl' = [y \in DOMAIN impl \ DOMAIN impl |-> impl[y]]
      BY <2>4 DEF writeAllTimelines
    <3> QED BY <2>4, <2>a, <2>b, <2>c, <3>1, FlushKeeps DEF writeAllTimelines
  <2>5. CASE UNCHANGED mlVars
    BY <2>5 DEF mlVars, MLIInv, OwnBuffer
  <2> QED
    BY <2>1, <2>2, <2>3, <2>4, <2>5 DEF MLNext, readRecordTimestamps, timelineExit
<1> QED BY <1>1, <1>2, PTL DEF MLSpec

\* A hardware context records into a buffer of its own and no buffer is written to
\* a file twice, whatever addresses are reused and whenever all data is asked for.
LEMMA TimelineOwnsBuffer == MLSpec => []OwnBuffer
<1>1. MLIInv => OwnBuffer BY DEF MLIInv
<1> QED BY <1>1, MLInvariant, PTL

-----------------------------------------------------------------------------
(* Reading a buffer                                                        *)

\* Induction over the naturals, for sets.
LEMMA Induct ==
  ASSUME NEW S, 0 \in S, \A n \in Nat : n \in S => n + 1 \in S
  PROVE  \A n \in Nat : n \in S
<1> SUFFICES ASSUME NEW n \in Nat, n \notin S PROVE FALSE OBVIOUS
<1>1. IsWellFoundedOn(OpToRel(<, Nat), Nat) BY NatLessThanWellFounded
<1>2. PICK m \in Nat \ S : \A y \in Nat \ S : ~(<<y, m>> \in OpToRel(<, Nat)) BY <1>1, WFMin
<1>3. m # 0 /\ m - 1 \in Nat /\ m - 1 < m
  <2>1. m \in Nat /\ m # 0 OBVIOUS
  <2> QED BY <2>1
<1>4. m - 1 \notin S
  <2>1. (m - 1) + 1 = m BY <1>3
  <2> QED BY <1>2, <1>3, <2>1
<1>5. <<m - 1, m>> \in Nat \X Nat BY <1>3
<1>6. <<m - 1, m>> \in OpToRel(<, Nat) BY <1>3, <1>5 DEF OpToRel
<1> QED BY <1>2, <1>3, <1>4, <1>6

\* f is the loop of ReadBuffer for n turns
Reads(f, filled, n) ==
  f = [k \in 0..n |-> IF k = 0 THEN ReadStart ELSE ReadEntry(filled, f[k - 1])]

\* There is such a loop.
LEMMA ReadsExists ==
  ASSUME NEW filled, NEW N \in Nat
  PROVE  \E f : Reads(f, filled, N)
<1> DEFINE Good == {n \in Nat : \E f : Reads(f, filled, n)}
<1>1. 0 \in Good
  <2>1. Reads([k \in 0..0 |-> ReadStart], filled, 0) BY DEF Reads
  <2> QED BY <2>1
<1>2. ASSUME NEW n \in Nat, n \in Good PROVE n + 1 \in Good
  <2>1. PICK f : Reads(f, filled, n) BY <1>2
  <2>2. PICK e : e = ReadEntry(filled, f[n]) OBVIOUS
  <2>3. PICK h : h = [k \in 0..(n + 1) |-> IF k = n + 1 THEN e ELSE f[k]] OBVIOUS
  <2>4. ASSUME NEW k \in 0..(n + 1)
        PROVE  h[k] = IF k = 0 THEN ReadStart ELSE ReadEntry(filled, h[k - 1])
    <3>1. CASE k = n + 1 BY <2>2, <2>3, <3>1
    <3>2. CASE k # n + 1
      <4>1. k \in 0..n BY <3>2
      <4>2. f[k] = IF k = 0 THEN ReadStart ELSE ReadEntry(filled, f[k - 1]) BY <2>1, <4>1 DEF Reads
      <4>3. h[k] = f[k] BY <2>3, <3>2
      <4>4. CASE k = 0 BY <4>2, <4>3, <4>4
      <4>5. CASE k # 0
        <5>1. h[k - 1] = f[k - 1] BY <2>3, <4>1, <4>5
        <5> QED BY <4>2, <4>3, <4>5, <5>1
      <4> QED BY <4>4, <4>5
    <3> QED BY <3>1, <3>2
  <2>5. Reads(h, filled, n + 1) BY <2>3, <2>4 DEF Reads
  <2> QED BY <2>5
<1>3. \A n \in Nat : n \in Good
  <2> HIDE DEF Good
  <2> QED BY <1>1, <1>2, Induct
<1> QED BY <1>3

\* f flattens the sequence q up to n
Flattens(f, q, n) == f = [i \in 1..n |-> IF i = 1 THEN q[i] ELSE f[i - 1] \o q[i]]

\* There is such a flattening.
LEMMA FlattensExists ==
  ASSUME NEW q, NEW N \in Nat
  PROVE  \E f : Flattens(f, q, N)
<1> DEFINE Good == {n \in Nat : \E f : Flattens(f, q, n)}
<1>1. 0 \in Good
  <2>1. Flattens([i \in 1..0 |-> 0], q, 0) BY DEF Flattens
  <2> QED BY <2>1
<1>2. ASSUME NEW n \in Nat, n \in Good PROVE n + 1 \in Good
  <2>1. PICK f : Flattens(f, q, n) BY <1>2
  <2>2. PICK e : e = IF n = 0 THEN q[n + 1] ELSE f[n] \o q[n + 1] OBVIOUS
  <2>3. PICK h : h = [i \in 1..(n + 1) |-> IF i = n + 1 THEN e ELSE f[i]] OBVIOUS
  <2>4. ASSUME NEW i \in 1..(n + 1)
        PROVE  h[i] = IF i = 1 THEN q[i] ELSE h[i - 1] \o q[i]
    <3>1. CASE i = n + 1 BY <2>2, <2>3, <3>1
    <3>2. CASE i # n + 1
      <4>1. i \in 1..n BY <3>2
      <4>2. f[i] = IF i = 1 THEN q[i] ELSE f[i - 1] \o q[i] BY <2>1, <4>1 DEF Flattens
      <4>3. h[i] = f[i] BY <2>3, <3>2
      <4>4. CASE i = 1 BY <4>2, <4>3, <4>4
      <4>5. CASE i # 1
        <5>1. h[i - 1] = f[i - 1] BY <2>3, <4>1, <4>5
        <5> QED BY <4>2, <4>3, <4>5, <5>1
      <4> QED BY <4>4, <4>5
    <3> QED BY <3>1, <3>2
  <2>5. Flattens(h, q, n + 1) BY <2>3, <2>4 DEF Flattens
  <2> QED BY <2>5
<1>3. \A n \in Nat : n \in Good
  <2> HIDE DEF Good
  <2> QED BY <1>1, <1>2, Induct
<1> QED BY <1>3

\* Where entry i of segment g lies.
LEMMA Place ==
  ASSUME NEW g \in Nat, NEW i \in Nat, i < SegmentSize
  PROVE  /\ (g * SegmentSize + i) \div SegmentSize = g
         /\ (g * SegmentSize + i) % SegmentSize = i
         /\ g * SegmentSize \in Nat
<1> SegmentSize \in Nat \ {0} BY TimelineAssumption
<1> QED OBVIOUS

\* The next segment follows in the buffer.
LEMMA PlaceInside ==
  ASSUME NEW g \in Nat, g < NumSegments
  PROVE  /\ g * SegmentSize \in Nat /\ NumSegments * SegmentSize \in Nat
         /\ (g + 1) * SegmentSize = g * SegmentSize + SegmentSize
         /\ g * SegmentSize + SegmentSize <= NumSegments * SegmentSize
<1> SegmentSize \in Nat \ {0} /\ NumSegments \in Nat \ {0} BY TimelineAssumption
<1> QED OBVIOUS

\* the entries 0 .. i-1 of segment g
Part(g, i) == [j \in 1..i |-> <<g, j - 1>>]

\* what the segments hold, one after the other
Held(filled) == [g \in 1..NumSegments |-> Part(g - 1, filled[g - 1])]

\* Written is the flattened sequence of what the segments hold.
LEMMA WrittenIs ==
  ASSUME NEW filled
  PROVE  \E f : Flattens(f, Held(filled), NumSegments) /\ Written(filled) = f[NumSegments]
<1>0. NumSegments \in Nat \ {0} BY TimelineAssumption
<1>1. PICK q : q = Held(filled) OBVIOUS
<1>2. Len(q) = NumSegments BY <1>0, <1>1 DEF Held
<1>3. PICK f : f = CHOOSE h : Flattens(h, q, Len(q)) OBVIOUS
<1>4. \E h : Flattens(h, q, Len(q)) BY <1>0, <1>2, FlattensExists
<1>5. Flattens(f, q, Len(q)) BY <1>3, <1>4
<1>6. Written(filled) = FlattenSeq(q) BY <1>1, Zenon DEF Written, Held, Part
<1>7. Len(q) # 0 BY <1>0, <1>2
<1>8. FlattenSeq(q) = f[Len(q)] BY <1>3, <1>7, Zenon DEF FlattenSeq, Flattens
<1> QED BY <1>1, <1>2, <1>5, <1>6, <1>8

\* what the segments before g hold
Before(f, g) == IF g = 0 THEN <<>> ELSE f[g]

Counts == [Segments -> 0..SegmentSize]

\* What the segments before g hold is a sequence, and grows by what g holds.
LEMMA BeforeGrows ==
  ASSUME NEW filled \in Counts, NEW f, Flattens(f, Held(filled), NumSegments)
  PROVE  \A g \in Segments : /\ Before(f, g) \in Seq(Nat \X Nat)
                             /\ Before(f, g + 1) = Before(f, g) \o Part(g, filled[g])
                             /\ Part(g, filled[g]) \in Seq(Nat \X Nat)
<1>0. NumSegments \in Nat \ {0} /\ SegmentSize \in Nat BY TimelineAssumption
<1>1. \A g \in Segments : filled[g] \in Nat BY <1>0 DEF Counts, Segments
<1>2. ASSUME NEW g \in Segments PROVE Part(g, filled[g]) \in Seq(Nat \X Nat)
  <2>1. filled[g] \in Nat /\ g \in Nat BY <1>0, <1>1 DEF Segments
  <2>2. \A j \in 1..filled[g] : <<g, j - 1>> \in Nat \X Nat BY <2>1
  <2> QED BY <2>1, <2>2 DEF Part
<1>3. ASSUME NEW g \in Segments, Before(f, g) \in Seq(Nat \X Nat)
      PROVE  Before(f, g + 1) = Before(f, g) \o Part(g, filled[g])
  <2>1. g \in Nat /\ g + 1 \in 1..NumSegments /\ g + 1 # 0 BY <1>0 DEF Segments
  <2>2. Held(filled)[g + 1] = Part(g, filled[g])
    <3>1. (g + 1) - 1 = g BY <2>1
    <3> QED BY <2>1, <3>1 DEF Held
  <2>3. f[g + 1] = IF g + 1 = 1 THEN Held(filled)[g + 1] ELSE f[(g + 1) - 1] \o Held(filled)[g + 1]
    BY <2>1 DEF Flattens
  <2>4. Before(f, g + 1) = f[g + 1] BY <2>1 DEF Before
  <2>5. CASE g = 0
    <3>1. f[g + 1] = Part(g, filled[g]) BY <2>2, <2>3, <2>5
    <3>2. Before(f, g) = <<>> BY <2>5 DEF Before
    <3>3. \A p \in Seq(Nat \X Nat) : <<>> \o p = p OBVIOUS
    <3> QED BY <1>2, <2>4, <3>1, <3>2, <3>3
  <2>6. CASE g # 0
    <3>1. g + 1 # 1 /\ (g + 1) - 1 = g BY <2>1, <2>6
    <3>2. Before(f, g) = f[g] BY <2>6 DEF Before
    <3> QED BY <2>2, <2>3, <2>4, <3>1, <3>2
  <2> QED BY <2>5, <2>6
<1> DEFINE Good == {g \in Nat : g \in Segments => Before(f, g) \in Seq(Nat \X Nat)}
<1>4. 0 \in Good BY DEF Before
<1>5. ASSUME NEW g \in Nat, g \in Good PROVE g + 1 \in Good
  <2> SUFFICES ASSUME g + 1 \in Segments PROVE Before(f, g + 1) \in Seq(Nat \X Nat) OBVIOUS
  <2>1. g \in Segments BY <1>0 DEF Segments
  <2>2. Before(f, g) \in Seq(Nat \X Nat) BY <1>5, <2>1
  <2>3. Before(f, g + 1) = Before(f, g) \o Part(g, filled[g]) BY <1>3, <2>1, <2>2
  <2>4. Part(g, filled[g]) \in Seq(Nat \X Nat) BY <1>2, <2>1
  <2>5. \A p, q \in Seq(Nat \X Nat) : p \o q \in Seq(Nat \X Nat) OBVIOUS
  <2> QED BY <2>2, <2>3, <2>4, <2>5
<1>6. \A g \in Nat : g \in Good
  <2> HIDE DEF Good
  <2> QED BY <1>4, <1>5, Induct
<1>7. \A g \in Segments : g \in Nat BY <1>0 DEF Segments
<1> QED BY <1>2, <1>3, <1>6, <1>7

\* the state of the loop at entry i of segment g
Cursor(f, g, i) ==
  [ptr |-> g * SegmentSize + i, segment |-> g * SegmentSize, segmentsRead |-> g,
   stop |-> FALSE, out |-> Before(f, g) \o Part(g, i)]

\* After k turns: the loop is at entry i of segment g and has what the segments before
\* g and the entries before i hold, or it is done and has everything.
At(s, k, f, filled) ==
  \/ /\ s.stop /\ s.out = f[NumSegments]
  \/ \E g \in Segments : \E i \in 0..filled[g] :
       /\ s = Cursor(f, g, i)
       /\ k <= g * SegmentSize + i

\* appending to the second of two sequences appends to both together
AppendsLast(p, q, e) == Append(p \o q, e) = p \o Append(q, e)

\* It does.
LEMMA AppendLast ==
  ASSUME NEW T, NEW p \in Seq(T), NEW q \in Seq(T), NEW e \in T
  PROVE  AppendsLast(p, q, e)
<1>1. PICK l : l = Append(p \o q, e) OBVIOUS
<1>2. PICK r : r = p \o Append(q, e) OBVIOUS
<1>3. l \in Seq(T) /\ r \in Seq(T) BY <1>1, <1>2
<1>4. Len(l) = Len(p) + Len(q) + 1 /\ Len(r) = Len(p) + Len(q) + 1 BY <1>1, <1>2
<1>5. \A k \in 1..Len(l) : l[k] = r[k] BY <1>1, <1>2, <1>4
<1>6. l = [k \in 1..Len(l) |-> l[k]] /\ r = [k \in 1..Len(r) |-> r[k]] BY <1>3
<1>7. Len(r) = Len(l) BY <1>4
<1>8. l = r
  <2>1. [k \in 1..Len(l) |-> l[k]] = [k \in 1..Len(l) |-> r[k]] BY <1>5
  <2> QED BY <1>6, <1>7, <2>1, Zenon
<1> QED BY <1>1, <1>2, <1>8, Zenon DEF AppendsLast

\* A turn of the loop goes on from there.
LEMMA TurnKeepsAt ==
  ASSUME NEW filled \in Counts, NoneFull(filled), NEW f, Flattens(f, Held(filled), NumSegments),
         NEW s, NEW k \in Nat, At(s, k, f, filled)
  PROVE  At(ReadEntry(filled, s), k + 1, f, filled)
<1>0. NumSegments \in Nat \ {0} /\ SegmentSize \in Nat \ {0} BY TimelineAssumption
<1>1. CASE s.stop /\ s.out = f[NumSegments]
  <2>1. ReadEntry(filled, s) = s BY <1>1 DEF ReadEntry
  <2> QED BY <1>1, <2>1 DEF At
<1>2. ASSUME NEW g \in Segments, NEW i \in 0..filled[g], k <= g * SegmentSize + i,
             s = Cursor(f, g, i)
      PROVE  At(ReadEntry(filled, s), k + 1, f, filled)
  <2>1. g \in Nat /\ g < NumSegments BY <1>0 DEF Segments
  <2>2. filled[g] \in Nat /\ filled[g] < SegmentSize BY <1>0 DEF Counts, NoneFull
  <2>3. i \in Nat /\ i <= filled[g] /\ i < SegmentSize BY <1>0, <2>2
  <2>4. PICK b \in Nat : b = g * SegmentSize BY <2>1, <2>3, Place
  <2>5. (b + i) \div SegmentSize = g /\ (b + i) % SegmentSize = i BY <2>1, <2>3, <2>4, Place
  <2>6. /\ (g + 1) * SegmentSize = b + SegmentSize
        /\ b + SegmentSize <= BufferSize /\ BufferSize \in Nat
    BY <2>1, <2>4, PlaceInside DEF BufferSize
  <2>7. ~(b + i >= BufferSize) BY <1>0, <2>3, <2>4, <2>6
  <2>8. s = [ptr |-> b + i, segment |-> b, segmentsRead |-> g, stop |-> FALSE, out |-> Before(f, g) \o Part(g, i)]
    BY <1>2, <2>4 DEF Cursor
  <2>9. Entry(filled, s.ptr) = IF i < filled[g] THEN <<g, i>> ELSE Zero
    BY <2>5, <2>7, <2>8 DEF Entry
  <2>10. Before(f, g) \in Seq(Nat \X Nat) BY BeforeGrows
  <2>11. k <= b + i BY <1>2, <2>4
  <2>12. CASE i < filled[g]
    <3>1. <<g, i>> # Zero BY DEF Zero
    <3>2. ReadEntry(filled, s) = [s EXCEPT !.ptr = @ + 1, !.out = Append(@, <<g, i>>)]
      BY <2>8, <2>9, <2>12, <3>1 DEF ReadEntry
    <3>3. Append(Before(f, g) \o Part(g, i), <<g, i>>) = Before(f, g) \o Part(g, i + 1)
      <4>1. Part(g, i + 1) = Append(Part(g, i), <<g, i>>) BY <2>3 DEF Part
      <4>2. Part(g, i) \in Seq(Nat \X Nat)
        <5>1. \A j \in 1..i : <<g, j - 1>> \in Nat \X Nat BY <2>1, <2>3
        <5> QED BY <2>3, <5>1 DEF Part
      <4>3. <<g, i>> \in Nat \X Nat BY <2>1, <2>3
      <4>4. PICK p : p = Before(f, g) OBVIOUS
      <4>5. PICK q : q = Part(g, i) OBVIOUS
      <4>6. PICK e : e = <<g, i>> OBVIOUS
      <4>7. Append(p \o q, e) = p \o Append(q, e)
        <5>1. p \in Seq(Nat \X Nat) /\ q \in Seq(Nat \X Nat) /\ e \in Nat \X Nat
          BY <2>10, <4>2, <4>3, <4>4, <4>5, <4>6
        <5>2. PICK T : T = Nat \X Nat OBVIOUS
        <5>3. p \in Seq(T) /\ q \in Seq(T) /\ e \in T BY <5>1, <5>2
        <5>4. AppendsLast(p, q, e) BY <5>3, AppendLast, Zenon
        <5> QED BY <5>4, Zenon DEF AppendsLast
      <4> QED BY <4>1, <4>4, <4>5, <4>6, <4>7
    <3>4. ReadEntry(filled, s) = [ptr |-> b + (i + 1), segment |-> b, segmentsRead |-> g,
                                  stop |-> FALSE, out |-> Before(f, g) \o Part(g, i + 1)]
      <4>1. (b + i) + 1 = b + (i + 1) BY <2>3, <2>4
      <4> QED BY <2>8, <3>2, <3>3, <4>1
    <3>5. i + 1 \in 0..filled[g] /\ k + 1 <= b + (i + 1) BY <2>2, <2>3, <2>4, <2>11, <2>12
    <3>6. ReadEntry(filled, s) = Cursor(f, g, i + 1) BY <2>4, <3>4 DEF Cursor
    <3> QED BY <2>4, <3>5, <3>6 DEF At
  <2>13. CASE ~(i < filled[g])
    <3>1. i = filled[g] BY <2>2, <2>3, <2>13
    <3>2. Before(f, g + 1) = Before(f, g) \o Part(g, i) BY <3>1, BeforeGrows
    <3>3. CASE g + 1 = NumSegments
      <4>1. ReadEntry(filled, s) = [s EXCEPT !.stop = TRUE] BY <2>8, <2>9, <2>13, <3>3 DEF ReadEntry
      <4>2. ReadEntry(filled, s).stop /\ ReadEntry(filled, s).out = Before(f, g + 1) BY <2>8, <3>2, <4>1
      <4>3. Before(f, g + 1) = f[NumSegments] BY <1>0, <3>3 DEF Before
      <4> QED BY <4>2, <4>3 DEF At
    <3>4. CASE g + 1 # NumSegments
      <4>1. ReadEntry(filled, s) = [s EXCEPT !.segmentsRead = @ + 1, !.ptr = s.segment + SegmentSize,
                                             !.segment = s.segment + SegmentSize]
        BY <2>8, <2>9, <2>13, <3>4 DEF ReadEntry
      <4>2. g + 1 \in Segments BY <1>0, <2>1, <3>4 DEF Segments
      <4>3. PICK n : n = g + 1 OBVIOUS
      <4>4. PICK c \in Nat : c = n * SegmentSize BY <1>0, <2>4, <2>6, <4>3
      <4>5. c = b + SegmentSize /\ c + 0 = c BY <1>0, <2>4, <2>6, <4>3, <4>4
      <4>6. ReadEntry(filled, s) = [ptr |-> c, segment |-> c, segmentsRead |-> n,
                                    stop |-> FALSE, out |-> Before(f, n)]
        BY <2>8, <3>2, <4>1, <4>3, <4>5
      <4>7. Before(f, n) = Before(f, n) \o Part(n, 0)
        <5>1. Before(f, n) \in Seq(Nat \X Nat) BY <4>2, <4>3, BeforeGrows
        <5>2. Part(n, 0) = <<>> BY DEF Part
        <5>3. \A p \in Seq(Nat \X Nat) : p \o <<>> = p OBVIOUS
        <5> QED BY <5>1, <5>2, <5>3
      <4>8. 0 \in 0..filled[n] /\ k + 1 <= c + 0
        BY <1>0, <2>3, <2>4, <2>11, <4>2, <4>3, <4>5 DEF Counts
      <4>9. ReadEntry(filled, s) = Cursor(f, n, 0) BY <4>4, <4>5, <4>6, <4>7 DEF Cursor
      <4> QED BY <4>2, <4>3, <4>4, <4>8, <4>9 DEF At
    <3> QED BY <3>3, <3>4
  <2> QED BY <2>12, <2>13
<1> QED BY <1>1, <1>2 DEF At

\* After as many turns as the buffer has entries the loop is done.
LEMMA ReadExactly ==
  ASSUME NEW filled \in Counts, NoneFull(filled)
  PROVE  ReadBuffer(filled) = Written(filled)
<1>0. NumSegments \in Nat \ {0} /\ SegmentSize \in Nat \ {0} BY TimelineAssumption
<1>1. PICK f : Flattens(f, Held(filled), NumSegments) /\ Written(filled) = f[NumSegments] BY WrittenIs
<1>2. PICK N \in Nat : N = BufferSize BY <1>0 DEF BufferSize
<1>3. PICK t : t = CHOOSE h : Reads(h, filled, N) OBVIOUS
<1>4. Reads(t, filled, N) BY <1>3, ReadsExists
<1>5. ReadBuffer(filled) = t[N].out BY <1>2, <1>3, Zenon DEF ReadBuffer, Reads
<1> DEFINE Good == {k \in Nat : k <= N => At(t[k], k, f, filled)}
<1>6. 0 \in Good
  <2>1. t[0] = ReadStart BY <1>4 DEF Reads
  <2>2. 0 \in Segments /\ 0 * SegmentSize = 0 BY <1>0 DEF Segments
  <2>3. 0 \in 0..filled[0] BY <1>0, <2>2 DEF Counts
  <2>4. Before(f, 0) \o Part(0, 0) = <<>> BY DEF Before, Part
  <2>5. t[0] = Cursor(f, 0, 0)
    <3>1. PICK z : z = 0 * SegmentSize /\ z = 0 /\ z + 0 = 0 BY <2>2
    <3>2. PICK o : o = Before(f, 0) \o Part(0, 0) /\ o = <<>> BY <2>4
    <3> QED BY <2>1, <3>1, <3>2 DEF ReadStart, Cursor
  <2>6. 0 <= 0 * SegmentSize + 0 BY <2>2
  <2>7. At(t[0], 0, f, filled) BY <2>2, <2>3, <2>5, <2>6 DEF At
  <2> QED BY <2>7
<1>7. ASSUME NEW k \in Nat, k \in Good PROVE k + 1 \in Good
  <2> SUFFICES ASSUME k + 1 <= N PROVE At(t[k + 1], k + 1, f, filled) OBVIOUS
  <2>1. At(t[k], k, f, filled) BY <1>7
  <2>2. t[k + 1] = ReadEntry(filled, t[k])
    <3>1. k + 1 \in 0..N /\ k + 1 # 0 /\ (k + 1) - 1 = k OBVIOUS
    <3> QED BY <1>4, <3>1 DEF Reads
  <2>3. At(ReadEntry(filled, t[k]), k + 1, f, filled) BY <1>1, <2>1, TurnKeepsAt
  <2> QED BY <2>2, <2>3
<1>8. \A k \in Nat : k \in Good
  <2> HIDE DEF Good
  <2> QED BY <1>6, <1>7, Induct
<1>9. At(t[N], N, f, filled) BY <1>8
<1>10. ASSUME NEW g \in Segments, NEW i \in 0..filled[g], N <= g * SegmentSize + i PROVE FALSE
  <2>1. g \in Nat /\ g < NumSegments BY <1>0 DEF Segments
  <2>2. filled[g] \in Nat /\ filled[g] < SegmentSize BY <1>0 DEF Counts, NoneFull
  <2>3. i \in Nat /\ i < SegmentSize BY <1>0, <2>2
  <2>4. PICK b \in Nat : b = g * SegmentSize BY <2>1, <2>3, Place
  <2>5. b + SegmentSize <= N BY <1>2, <2>1, <2>4, PlaceInside DEF BufferSize
  <2> QED BY <1>0, <1>10, <2>3, <2>4, <2>5
<1>11. t[N].out = f[NumSegments] BY <1>9, <1>10 DEF At
<1> QED BY <1>1, <1>5, <1>11

\* the records of the last file are those of a buffer that was read
SeenInv ==
  /\ seen.counts \in Counts
  /\ NoneFull(seen.counts) => seen.out = Written(seen.counts)

\* Nothing else changes them.
LEMMA SeenInvariant == MLSpec => []SeenInv
<1>0. NumSegments \in Nat \ {0} /\ SegmentSize \in Nat \ {0} BY TimelineAssumption
<1>1. ASSUME NEW c \in Counts, seen' = [counts |-> c, out |-> ReadBuffer(c)] PROVE SeenInv'
  <2>1. seen'.counts = c /\ seen'.out = ReadBuffer(c) BY <1>1
  <2>2. NoneFull(c) => ReadBuffer(c) = Written(c) BY ReadExactly
  <2> QED BY <2>1, <2>2 DEF SeenInv
<1>2. ASSUME MLInit PROVE SeenInv
  <2>1. PICK c : c = [g \in Segments |-> 0] OBVIOUS
  <2>2. c \in Counts BY <1>0, <2>1 DEF Counts
  <2>3. seen.counts = c /\ seen.out = <<>> BY <1>2, <2>1 DEF MLInit
  <2>4. PICK f : Flattens(f, Held(c), NumSegments) /\ Written(c) = f[NumSegments] BY WrittenIs
  <2> DEFINE Good == {g \in Nat : g <= NumSegments => Before(f, g) = <<>>}
  <2>5. 0 \in Good BY DEF Before
  <2>6. ASSUME NEW g \in Nat, g \in Good PROVE g + 1 \in Good
    <3> SUFFICES ASSUME g + 1 <= NumSegments PROVE Before(f, g + 1) = <<>> OBVIOUS
    <3>1. g \in Segments /\ Before(f, g) = <<>> BY <1>0, <2>6 DEF Segments
    <3>2. Before(f, g + 1) = Before(f, g) \o Part(g, c[g]) BY <2>2, <2>4, <3>1, BeforeGrows
    <3>3. c[g] = 0 BY <2>1, <3>1
    <3>4. Part(g, c[g]) = <<>> BY <3>3 DEF Part
    <3> QED BY <3>1, <3>2, <3>4
  <2>7. \A g \in Nat : g \in Good
    <3> HIDE DEF Good
    <3> QED BY <2>5, <2>6, Induct
  <2>8. f[NumSegments] = <<>> BY <1>0, <2>7 DEF Before
  <2> QED BY <2>2, <2>3, <2>4, <2>8 DEF SeenInv
<1>3. ASSUME SeenInv, UNCHANGED seen PROVE SeenInv' BY <1>3 DEF SeenInv
<1>4. ASSUME SeenInv, NEW S, Flush(S) PROVE SeenInv'
  <2>1. UNCHANGED seen \/ \E c \in Counts : seen' = [counts |-> c, out |-> ReadBuffer(c)]
    BY <1>4 DEF Flush, Counts
  <2> QED BY <1>1, <1>3, <1>4, <2>1
<1>5. ASSUME SeenInv, [MLNext]_mlVars PROVE SeenInv'
  <2>1. ASSUME NEW c \in CtxHandles, createContext(c) \/ addConfig(c) PROVE SeenInv'
    BY <1>3, <1>5, <2>1 DEF createContext, addConfig
  <2>2. ASSUME NEW c \in CtxHandles, finishflushDevice(c) PROVE SeenInv'
    BY <1>3, <1>4, <1>5, <2>2 DEF finishflushDevice
  <2>3. CASE writeAllTimelines BY <1>4, <1>5, <2>3 DEF writeAllTimelines
  <2>4. CASE UNCHANGED mlVars BY <1>3, <1>5, <2>4 DEF mlVars
  <2> QED BY <1>5, <2>1, <2>2, <2>3, <2>4 DEF MLNext, readRecordTimestamps, timelineExit
<1> QED BY <1>2, <1>5, PTL DEF MLSpec

\* What a file names is what the microcontrollers recorded in a buffer with no full
\* segment, in order and nothing twice; an implementation and its buffer are those of
\* the context at the address, and no buffer is written to a second file.  For any
\* number and size of segments and any number of contexts and buffers.
THEOREM TimelinesAreRead == MLSpec => []OwnTimeline
<1>1. SeenInv /\ OwnBuffer => OwnTimeline BY DEF SeenInv, OwnTimeline
<1> QED BY <1>1, SeenInvariant, TimelineOwnsBuffer, PTL

-----------------------------------------------------------------------------
(* AieDtracePlugin                                                         *)

CTs == {NoCT} \cup {CT(g, k, n) : g \in Impls, k \in Kernels, n \in Nat}
RunObjects == [state : {"none", "made", "busy"}, ct : CTs, impl : 0..MaxImpls]
Hooks == [pc : {"idle", "generate", "program", "select", "apply"}, run : Runs,
          impl : 0..MaxImpls, ct : CTs, inf : Nat]
Starts == [impl : 0..MaxImpls, kernel : Kernels, inf : Nat, ct : CTs, clean : BOOLEAN]

DtraceTypes ==
  /\ multi \in BOOLEAN /\ impls \in 0..MaxImpls /\ current \in {0, impls}
  /\ ctFiles \in [Impls \X Kernels -> SUBSET Nat]
  /\ counts \in [Impls \X Kernels -> Nat]
  /\ runs \in [Runs -> RunObjects] /\ hook \in [Threads -> Hooks]
  /\ started \in Seq(Starts)

\* A thread inside a hook has the run object to itself, under an implementation that
\* has been made, not before that of the run object; while a constructor runs it is
\* the one of the run object.
HookOK(t) ==
  hook[t].pc # "idle" =>
    /\ runs[hook[t].run].state = "busy"
    /\ \A u \in Threads : hook[u].pc # "idle" /\ hook[u].run = hook[t].run => u = t
    /\ hook[t].impl \in Impls /\ hook[t].impl <= impls
    /\ runs[hook[t].run].impl <= hook[t].impl
    /\ hook[t].pc \in {"generate", "program"} => hook[t].impl = runs[hook[t].run].impl
    /\ hook[t].pc = "program" => ~multi /\ hook[t].ct = CT(hook[t].impl, KernelOf[hook[t].run], 0)
    /\ hook[t].pc \in {"select", "apply"} => multi
    /\ hook[t].pc = "apply" =>
         \/ hook[t].ct = NoCT
         \/ /\ hook[t].ct = CT(hook[t].impl, KernelOf[hook[t].run], hook[t].inf)
            /\ ctFiles[<<hook[t].impl, KernelOf[hook[t].run]>>] # {}

\* The CT a run object has was generated for its kernel, by an implementation that
\* is not older than the one it was made under and not newer than the one of the
\* hook it is in.
RunOK(r) ==
  /\ runs[r].state = "none" => runs[r].ct = NoCT
  /\ runs[r].impl <= impls
  /\ ~multi => runs[r].ct \in {NoCT, CT(runs[r].impl, KernelOf[r], 0)}
  /\ multi /\ runs[r].ct # NoCT =>
       \E g \in Impls, n \in Nat :
         /\ runs[r].ct = CT(g, KernelOf[r], n)
         /\ runs[r].impl <= g /\ g <= impls
         /\ ctFiles[<<g, KernelOf[r]>>] # {}
         /\ \A t \in Threads : hook[t].pc # "idle" /\ hook[t].run = r => g <= hook[t].impl

HookInv == \A t \in Threads : HookOK(t)
RunInv == \A r \in Runs : RunOK(r)

DtraceIInv == DtraceTypes /\ HookInv /\ RunInv /\ OwnControlTrace

\* Control traces are told apart, and none is the empty one.
LEMMA CTFacts ==
  ASSUME NEW g, NEW k, NEW n
  PROVE  /\ CT(g, k, n) # NoCT
         /\ \A h, l, m : CT(g, k, n) = CT(h, l, m) => g = h /\ k = l /\ n = m
BY DEF CT, NoCT

\* The initial state.
LEMMA DtraceInitially == DtraceInit => DtraceIInv
<1> SUFFICES ASSUME DtraceInit PROVE DtraceIInv OBVIOUS
<1> USE DtraceAssumption DEF DtraceInit
<1>1. Idle \in Hooks /\ Idle.pc = "idle" BY DEF Idle, Hooks, CTs
<1>2. \A r \in Runs : runs[r] \in RunObjects /\ runs[r].ct = NoCT /\ runs[r].impl = 0
  BY DEF RunObjects, CTs
<1>3. DtraceTypes
  BY <1>1, <1>2 DEF DtraceTypes
<1>4. HookInv BY <1>1 DEF HookInv, HookOK
<1>5. RunInv BY <1>2 DEF RunInv, RunOK
<1>6. OwnControlTrace BY DEF OwnControlTrace
<1> QED BY <1>3, <1>4, <1>5, <1>6 DEF DtraceIInv

\* A run that goes off: the history grows by one entry, and the run object is as it
\* says.
LEMMA GoesOffFacts ==
  ASSUME DtraceTypes, NEW r \in Runs, NEW g \in 0..MaxImpls, NEW n \in Nat, NEW ok \in BOOLEAN,
         NEW ct \in CTs, GoesOff(r, g, n, ok, ct), OwnControlTrace,
         ok /\ g # 0 /\ g = runs[r].impl => ct \in {NoCT, CT(g, KernelOf[r], n)}
  PROVE  /\ runs' \in [Runs -> RunObjects] /\ started' \in Seq(Starts)
         /\ runs'[r].state = "made" /\ runs'[r].ct = ct /\ runs'[r].impl = runs[r].impl
         /\ \A q \in Runs : q # r => runs'[q] = runs[q]
         /\ OwnControlTrace'
<1>1. /\ runs' \in [Runs -> RunObjects]
      /\ runs'[r].state = "made" /\ runs'[r].ct = ct /\ runs'[r].impl = runs[r].impl
      /\ \A q \in Runs : q # r => runs'[q] = runs[q]
  BY DEF DtraceTypes, RunObjects, GoesOff
<1> DEFINE s == [impl |-> g, kernel |-> KernelOf[r], inf |-> n, ct |-> ct,
                 clean |-> ok /\ g # 0 /\ g = runs[r].impl]
<1>2. s \in Starts BY DEF Starts, Kernels
<1>3. started' = Append(started, s) /\ started \in Seq(Starts) BY DEF GoesOff, DtraceTypes
<1>4. s.clean => s.ct \in {NoCT, CT(s.impl, s.kernel, s.inf)} OBVIOUS
<1> HIDE DEF s
<1>5. /\ started' \in Seq(Starts) /\ Len(started') = Len(started) + 1
      /\ started'[Len(started) + 1] = s
      /\ \A i \in 1..Len(started) : started'[i] = started[i]
  BY <1>2, <1>3
<1>6. \A i \in DOMAIN started' : started'[i].clean =>
        started'[i].ct \in {NoCT, CT(started'[i].impl, started'[i].kernel, started'[i].inf)}
  <2> SUFFICES ASSUME NEW i \in DOMAIN started'
               PROVE  started'[i].clean =>
                 started'[i].ct \in {NoCT, CT(started'[i].impl, started'[i].kernel, started'[i].inf)}
    OBVIOUS
  <2>1. CASE i = Len(started) + 1 BY <2>1, <1>4, <1>5
  <2>2. CASE i # Len(started) + 1
    <3>1. i \in DOMAIN started /\ started'[i] = started[i] BY <2>2, <1>3, <1>5
    <3> QED BY <3>1 DEF OwnControlTrace
  <2> QED BY <2>1, <2>2
<1> QED BY <1>1, <1>5, <1>6 DEF OwnControlTrace

\* A hook that ends: its thread is idle, and its run object is free.
LEMMA HookEnds ==
  ASSUME DtraceTypes, HookInv, NEW t \in Threads, hook[t].pc # "idle",
         hook' = [hook EXCEPT ![t] = Idle], UNCHANGED <<multi, impls>>,
         \A x \in Impls \X Kernels : ctFiles[x] # {} => ctFiles'[x] # {},
         \A q \in Runs : q # hook[t].run => runs'[q] = runs[q]
  PROVE  /\ hook' \in [Threads -> Hooks] /\ HookInv'
         /\ hook'[t].pc = "idle" /\ \A u \in Threads : u # t => hook'[u] = hook[u]
<1>1. Idle \in Hooks /\ Idle.pc = "idle" BY DtraceAssumption DEF Idle, Hooks, CTs
<1>2. /\ hook' \in [Threads -> Hooks] /\ hook'[t].pc = "idle"
      /\ \A u \in Threads : u # t => hook'[u] = hook[u]
  BY <1>1 DEF DtraceTypes
<1>3. \A u \in Threads : hook[u].pc # "idle" /\ u # t =>
        /\ hook[u].run \in Runs /\ hook[u].run # hook[t].run
        /\ <<hook[u].impl, KernelOf[hook[u].run]>> \in Impls \X Kernels
  BY DEF HookInv, HookOK, DtraceTypes, Hooks, Kernels
<1>4. HookInv'
  BY <1>2, <1>3 DEF HookInv, HookOK
<1> QED BY <1>2, <1>4


\* What RunInv says of a run object is kept when nothing happens to it: implementations
\* and CTs are only added, and no hook is entered for it.
LEMMA RunKept ==
  ASSUME DtraceTypes, NEW q \in Runs, RunOK(q), runs'[q] = runs[q],
         multi' = multi, impls' \in Nat, impls <= impls',
         \A x \in Impls \X Kernels : ctFiles[x] # {} => ctFiles'[x] # {},
         \A u \in Threads : hook'[u].pc # "idle" /\ hook'[u].run = q =>
            hook[u].pc # "idle" /\ hook[u].run = q /\ hook'[u].impl = hook[u].impl
  PROVE  RunOK(q)'
<1>1. runs[q].impl \in Int /\ impls \in Int /\ \A g \in Impls : g \in Int
  BY DEF DtraceTypes, RunObjects, Impls
<1>2. ASSUME multi, runs[q].ct # NoCT
      PROVE  \E g \in Impls, n \in Nat :
               /\ runs'[q].ct = CT(g, KernelOf[q], n)
               /\ runs'[q].impl <= g /\ g <= impls'
               /\ ctFiles'[<<g, KernelOf[q]>>] # {}
               /\ \A t \in Threads : hook'[t].pc # "idle" /\ hook'[t].run = q => g <= hook'[t].impl
  <2>1. PICK g \in Impls, n \in Nat :
           /\ runs[q].ct = CT(g, KernelOf[q], n)
           /\ runs[q].impl <= g /\ g <= impls
           /\ ctFiles[<<g, KernelOf[q]>>] # {}
           /\ \A t \in Threads : hook[t].pc # "idle" /\ hook[t].run = q => g <= hook[t].impl
    BY <1>2 DEF RunOK
  <2>2. <<g, KernelOf[q]>> \in Impls \X Kernels BY DEF Kernels
  <2>3. ctFiles'[<<g, KernelOf[q]>>] # {} BY <2>1, <2>2
  <2>4. \A t \in Threads : hook'[t].pc # "idle" /\ hook'[t].run = q => g <= hook'[t].impl
    BY <2>1
  <2>5. g <= impls' BY <1>1, <2>1
  <2> WITNESS g \in Impls, n \in Nat
  <2> QED BY <2>1, <2>3, <2>4, <2>5
<1>3. runs'[q].impl <= impls' BY <1>1 DEF RunOK
<1> QED BY <1>2, <1>3 DEF RunOK

\* What HookInv says of a thread inside a hook is kept when nothing happens to it.
LEMMA HookKept ==
  ASSUME DtraceTypes, NEW u \in Threads, HookOK(u), hook'[u] = hook[u],
         hook[u].pc # "idle" => runs'[hook[u].run] = runs[hook[u].run],
         multi' = multi, impls' \in Nat, impls <= impls',
         \A x \in Impls \X Kernels : ctFiles[x] # {} => ctFiles'[x] # {},
         \A v \in Threads : hook[u].pc # "idle" /\ hook'[v].pc # "idle" /\ hook'[v].run = hook[u].run
            => hook[v].pc # "idle" /\ hook[v].run = hook[u].run
  PROVE  HookOK(u)'
<1> SUFFICES ASSUME hook[u].pc # "idle" PROVE HookOK(u)' BY DEF HookOK
<1>1. /\ hook[u].impl \in Impls /\ hook[u].impl <= impls
      /\ hook[u].impl \in Int /\ impls \in Int /\ hook[u].run \in Runs
  BY DEF DtraceTypes, Hooks, HookOK
<1>2. <<hook[u].impl, KernelOf[hook[u].run]>> \in Impls \X Kernels BY <1>1 DEF Kernels
<1>3. hook'[u].impl <= impls' BY <1>1
<1>4. ctFiles[<<hook[u].impl, KernelOf[hook[u].run]>>] # {}
        => ctFiles'[<<hook[u].impl, KernelOf[hook[u].run]>>] # {}
  BY <1>2
<1>5. \A v \in Threads : hook'[v].pc # "idle" /\ hook'[v].run = hook'[u].run => v = u
  BY DEF HookOK
<1> QED BY <1>1, <1>3, <1>4, <1>5 DEF HookOK

\* updateAIEDtraceDevice and retireDtrace touch no run and no hook.
LEMMA ImplSteps ==
  ASSUME DtraceIInv, updateAIEDtraceDevice \/ retireDtrace
  PROVE  DtraceIInv'
<1> USE DtraceAssumption DEF DtraceIInv
<1>1. /\ UNCHANGED <<multi, ctFiles, counts, runs, hook, started>>
      /\ impls' \in 0..MaxImpls /\ impls' \in Nat /\ impls <= impls' /\ current' \in {0, impls'}
  BY DEF updateAIEDtraceDevice, retireDtrace, DtraceTypes
<1>2. DtraceTypes' BY <1>1 DEF DtraceTypes
<1>3. HookInv' BY <1>1, HookKept DEF HookInv
<1>4. RunInv' BY <1>1, RunKept DEF RunInv
<1>5. OwnControlTrace' BY <1>1 DEF OwnControlTrace
<1> QED BY <1>2, <1>3, <1>4, <1>5

\* runConstructorImpl: a run object that was not there before.
LEMMA ConstructStep ==
  ASSUME DtraceIInv, NEW t \in Threads, NEW r \in Runs, constructRun(t, r)
  PROVE  DtraceIInv'
<1> USE DtraceAssumption DEF DtraceIInv
<1>1. /\ UNCHANGED <<multi, current, impls, ctFiles, counts, started>>
      /\ hook[t].pc = "idle" /\ runs[r].state = "none" /\ impls \in Nat
  BY DEF constructRun, DtraceTypes
<1>2. /\ runs' \in [Runs -> RunObjects]
      /\ runs'[r].state = (IF current = 0 THEN "made" ELSE "busy")
      /\ runs'[r].impl = current /\ runs'[r].ct = runs[r].ct
      /\ \A q \in Runs : q # r => runs'[q] = runs[q]
  <2>1. current \in 0..MaxImpls BY DEF DtraceTypes
  <2>2. runs[r] \in RunObjects BY DEF DtraceTypes
  <2> QED BY <2>1, <2>2 DEF constructRun, DtraceTypes, RunObjects
<1>3. \A u \in Threads : hook[u].pc # "idle" => hook[u].run # r
  BY <1>1 DEF HookInv, HookOK
<1>4. RunOK(r)'
  <2>1. runs'[r].ct = NoCT /\ runs'[r].impl <= impls
    BY <1>1, <1>2 DEF RunInv, RunOK, DtraceTypes
  <2> QED BY <1>1, <2>1 DEF RunOK
<1>5. OwnControlTrace' BY <1>1 DEF OwnControlTrace
<1>6. impls <= impls' BY <1>1
<1>7. CASE current = 0
  <2>1. hook' = hook BY <1>7 DEF constructRun
  <2>2. DtraceTypes' BY <1>1, <1>2, <2>1 DEF DtraceTypes
  <2>3. HookInv'
    <3>1. ASSUME NEW u \in Threads PROVE HookOK(u)'
      <4>1. HookOK(u) /\ hook[u].run \in Runs BY DEF HookInv, DtraceTypes, Hooks
      <4> QED BY <4>1, <1>1, <1>2, <1>3, <1>6, <2>1, HookKept
    <3> QED BY <3>1 DEF HookInv
  <2>4. RunInv'
    <3>1. ASSUME NEW q \in Runs, q # r PROVE RunOK(q)'
      BY <3>1, <1>1, <1>2, <1>6, <2>1, RunKept DEF RunInv
    <3> QED BY <3>1, <1>4 DEF RunInv
  <2> QED BY <2>2, <2>3, <2>4, <1>5
<1>8. CASE current # 0
  <2>a. current = impls /\ current \in Impls BY <1>8 DEF DtraceTypes, Impls
  <2>1. hook' = [hook EXCEPT ![t] = [Idle EXCEPT !.pc = "generate", !.run = r, !.impl = current]]
    BY <1>8 DEF constructRun
  <2>2. Idle \in Hooks BY DEF Idle, Hooks, CTs
  <2>3. /\ hook' \in [Threads -> Hooks] /\ hook'[t].pc = "generate" /\ hook'[t].run = r
        /\ hook'[t].impl = current /\ \A u \in Threads : u # t => hook'[u] = hook[u]
    BY <2>1, <2>2, <2>a DEF DtraceTypes, Hooks, Impls
  <2>4. DtraceTypes' BY <1>1, <1>2, <2>3 DEF DtraceTypes
  <2>5. HookInv'
    <3>1. HookOK(t)' BY <1>1, <1>2, <1>3, <1>8, <1>6, <2>3, <2>a DEF HookOK
    <3>2. ASSUME NEW u \in Threads, u # t PROVE HookOK(u)'
      <4>1. HookOK(u) /\ hook[u].run \in Runs BY DEF HookInv, DtraceTypes, Hooks
      <4> QED BY <3>2, <4>1, <1>1, <1>2, <1>3, <1>6, <2>3, HookKept
    <3> QED BY <3>1, <3>2 DEF HookInv
  <2>6. RunInv'
    <3>1. ASSUME NEW q \in Runs, q # r PROVE RunOK(q)'
      BY <3>1, <1>1, <1>2, <1>6, <2>3, RunKept DEF RunInv
    <3> QED BY <3>1, <1>4 DEF RunInv
  <2> QED BY <2>4, <2>5, <2>6, <1>5
<1> QED BY <1>7, <1>8

\* The hook of thread t ends: what is left to show of the step is about its run object.
LEMMA HookEndsStep ==
  ASSUME DtraceIInv, NEW t \in Threads, hook[t].pc # "idle",
         NEW r \in Runs, r = hook[t].run,
         hook' = [hook EXCEPT ![t] = Idle], UNCHANGED <<multi, impls, current>>,
         counts' \in [Impls \X Kernels -> Nat],
         ctFiles' \in [Impls \X Kernels -> SUBSET Nat],
         \A x \in Impls \X Kernels : ctFiles[x] # {} => ctFiles'[x] # {},
         runs' \in [Runs -> RunObjects],
         \A q \in Runs : q # r => runs'[q] = runs[q],
         started' \in Seq(Starts), OwnControlTrace',
         /\ runs'[r].state = "made" /\ runs'[r].impl = runs[r].impl
         /\ ~multi => runs'[r].ct \in {NoCT, CT(runs[r].impl, KernelOf[r], 0)}
         /\ multi /\ runs'[r].ct # NoCT =>
              \E g \in Impls, n \in Nat :
                /\ runs'[r].ct = CT(g, KernelOf[r], n)
                /\ runs[r].impl <= g /\ g <= impls
                /\ ctFiles'[<<g, KernelOf[r]>>] # {}
  PROVE  DtraceIInv'
<1> USE DEF DtraceIInv
<1>1. /\ hook' \in [Threads -> Hooks] /\ HookInv'
      /\ hook'[t].pc = "idle" /\ \A u \in Threads : u # t => hook'[u] = hook[u]
  BY HookEnds
<1>2. DtraceTypes' BY <1>1 DEF DtraceTypes
<1>3. hook[t].run \in Runs /\ impls \in Nat /\ impls <= impls BY DEF DtraceTypes, Hooks
<1>4. \A u \in Threads : hook'[u].pc # "idle" => hook'[u].run # r
  BY <1>1 DEF HookInv, HookOK
<1>5. RunOK(r)'
  <2>1. runs[r].impl <= impls BY <1>3 DEF RunInv, RunOK
  <2> QED BY <1>3, <1>4, <2>1 DEF RunOK
<1>6. ASSUME NEW q \in Runs, q # r PROVE RunOK(q)'
  BY <1>6, <1>1, <1>3, RunKept DEF RunInv
<1> QED BY <1>1, <1>2, <1>3, <1>5, <1>6 DEF RunInv

\* generateCTsForRun: CTs are only ever added.
LEMMA GenerateStep ==
  ASSUME DtraceIInv, NEW t \in Threads, generateCTsForRun(t)
  PROVE  DtraceIInv'
<1> USE DtraceAssumption DEF DtraceIInv
<1> DEFINE h == hook[t]
           r == h.run
           x == <<h.impl, KernelOf[r]>>
<1>1. /\ h.pc = "generate" /\ UNCHANGED <<multi, current, impls, counts, started>>
  BY DEF generateCTsForRun
<1>2. /\ r \in Runs /\ h \in Hooks /\ h.impl \in Impls /\ x \in Impls \X Kernels
      /\ h.impl = runs[r].impl /\ runs[r] \in RunObjects /\ impls \in Nat /\ impls <= impls
  BY <1>1 DEF HookInv, HookOK, DtraceTypes, Hooks, Kernels
<1>3. /\ ctFiles' \in [Impls \X Kernels -> SUBSET Nat]
      /\ \A y \in Impls \X Kernels : ctFiles[y] # {} => ctFiles'[y] # {}
  <2>1. Selected \ EmptySelections \subseteq Nat BY DEF Selected, Selections
  <2>2. CASE UNCHANGED ctFiles BY <2>2 DEF DtraceTypes
  <2>3. ASSUME ctFiles[x] = {}, NEW ok \in SUBSET (Selected \ EmptySelections),
               ctFiles' = [ctFiles EXCEPT ![x] = ok]
        PROVE  /\ ctFiles' \in [Impls \X Kernels -> SUBSET Nat]
               /\ \A y \in Impls \X Kernels : ctFiles[y] # {} => ctFiles'[y] # {}
    BY <2>1, <2>3, <1>2 DEF DtraceTypes
  <2> QED BY <2>2, <2>3 DEF generateCTsForRun
<1>4. OwnControlTrace' /\ started' \in Seq(Starts) /\ counts' \in [Impls \X Kernels -> Nat]
  BY <1>1 DEF OwnControlTrace, DtraceTypes
<1>5. CASE ~multi /\ ctFiles'[x] # {}
  <2>1. /\ hook' = [hook EXCEPT ![t].pc = "program", ![t].ct = CT(h.impl, KernelOf[r], 0)]
        /\ UNCHANGED runs
    BY <1>5 DEF generateCTsForRun
  <2>2. CT(h.impl, KernelOf[r], 0) \in CTs BY <1>2 DEF CTs, Kernels
  <2>3. /\ hook' \in [Threads -> Hooks] /\ hook'[t].pc = "program" /\ hook'[t].run = r
        /\ hook'[t].impl = h.impl /\ hook'[t].ct = CT(h.impl, KernelOf[r], 0)
        /\ \A u \in Threads : u # t => hook'[u] = hook[u]
    BY <2>1, <2>2 DEF DtraceTypes, Hooks
  <2>4. DtraceTypes' BY <1>1, <1>3, <1>4, <2>1, <2>3 DEF DtraceTypes
  <2>5. HookOK(t)'
    BY <1>1, <1>2, <1>5, <2>1, <2>3 DEF HookInv, HookOK
  <2>6. ASSUME NEW u \in Threads, u # t PROVE HookOK(u)'
    BY <2>6, <1>1, <1>2, <1>3, <2>1, <2>3, HookKept DEF HookInv
  <2>7. RunInv'
    BY <1>1, <1>2, <1>3, <2>1, <2>3, RunKept DEF RunInv
  <2> QED BY <2>4, <2>5, <2>6, <2>7, <1>4 DEF HookInv
<1>6. CASE ~(~multi /\ ctFiles'[x] # {})
  <2>1. /\ hook' = [hook EXCEPT ![t] = Idle]
        /\ runs' = [runs EXCEPT ![r].state = "made"]
    BY <1>6 DEF generateCTsForRun
  <2>2. /\ runs' \in [Runs -> RunObjects] /\ \A q \in Runs : q # r => runs'[q] = runs[q]
        /\ runs'[r].state = "made" /\ runs'[r].ct = runs[r].ct /\ runs'[r].impl = runs[r].impl
    BY <2>1, <1>2 DEF DtraceTypes, RunObjects
  <2>3. multi /\ runs'[r].ct # NoCT =>
          \E g \in Impls, n \in Nat :
            /\ runs'[r].ct = CT(g, KernelOf[r], n)
            /\ runs[r].impl <= g /\ g <= impls
            /\ ctFiles'[<<g, KernelOf[r]>>] # {}
    <3>1. \A g \in Impls : <<g, KernelOf[r]>> \in Impls \X Kernels BY <1>2 DEF Kernels
    <3>2. RunOK(r) BY <1>2 DEF RunInv
    <3> QED BY <1>3, <2>2, <3>1, <3>2 DEF RunOK
  <2>4. ~multi => runs'[r].ct \in {NoCT, CT(runs[r].impl, KernelOf[r], 0)}
    BY <1>2, <2>2 DEF RunInv, RunOK
  <2>5. hook[t].pc # "idle" BY <1>1
  <2>6. UNCHANGED <<multi, impls, current>> BY <1>1
  <2>7. r \in Runs /\ DtraceIInv BY <1>2
  <2> HIDE DEF DtraceIInv
  <2> QED BY <2>5, <2>6, <2>7, <1>3, <1>4, <2>1, <2>2, <2>3, <2>4, HookEndsStep
<1> QED BY <1>5, <1>6

\* programCT, after generateCTsForRun: the CT is the one of the run object.
LEMMA ProgramStep ==
  ASSUME DtraceIInv, NEW t \in Threads, programRun(t)
  PROVE  DtraceIInv'
<1> USE DEF DtraceIInv
<1> DEFINE h == hook[t]
           r == h.run
<1>1. /\ h.pc = "program" /\ UNCHANGED <<multi, current, impls, counts, ctFiles, started>>
      /\ hook' = [hook EXCEPT ![t] = Idle]
  BY DEF programRun
<1>2. /\ r \in Runs /\ h \in Hooks /\ h.impl = runs[r].impl /\ runs[r] \in RunObjects
      /\ ~multi /\ h.ct = CT(runs[r].impl, KernelOf[r], 0) /\ h.ct \in CTs
  BY <1>1 DEF HookInv, HookOK, DtraceTypes, Hooks
<1>3. /\ runs' \in [Runs -> RunObjects] /\ \A q \in Runs : q # r => runs'[q] = runs[q]
      /\ runs'[r].state = "made" /\ runs'[r].ct \in {h.ct, runs[r].ct} /\ runs'[r].impl = runs[r].impl
  <2>1. PICK ok \in BOOLEAN :
          runs' = [runs EXCEPT ![r].state = "made", ![r].ct = IF ok THEN h.ct ELSE runs[r].ct]
    BY DEF programRun
  <2> QED BY <2>1, <1>2 DEF DtraceTypes, RunObjects
<1>4. runs[r].ct \in {NoCT, CT(runs[r].impl, KernelOf[r], 0)}
  BY <1>2 DEF RunInv, RunOK
<1>5. OwnControlTrace' /\ started' \in Seq(Starts) /\ counts' \in [Impls \X Kernels -> Nat]
      /\ ctFiles' \in [Impls \X Kernels -> SUBSET Nat]
  BY <1>1 DEF OwnControlTrace, DtraceTypes
<1> QED BY <1>1, <1>2, <1>3, <1>4, <1>5, HookEndsStep

\* runStartImpl: the run goes off at once, or the hook goes on to pick its CT.
LEMMA StartStep ==
  ASSUME DtraceIInv, NEW t \in Threads, NEW r \in Runs, startRun(t, r)
  PROVE  DtraceIInv'
<1> USE DtraceAssumption DEF DtraceIInv
<1>1. /\ UNCHANGED <<multi, current, impls, ctFiles, counts>>
      /\ hook[t].pc = "idle" /\ runs[r].state = "made" /\ impls \in Nat /\ impls <= impls
  BY DEF startRun, DtraceTypes
<1>2. runs[r] \in RunObjects /\ runs[r].ct \in CTs /\ current \in 0..MaxImpls /\ RunOK(r)
  BY DEF DtraceTypes, RunObjects, RunInv
<1>3. \A u \in Threads : hook[u].pc # "idle" => hook[u].run # r /\ hook[u].run \in Runs
  BY <1>1 DEF HookInv, HookOK, DtraceTypes, Hooks
<1>4. CASE current = 0 \/ ~multi
  <2>1. GoesOff(r, current, 0, TRUE, runs[r].ct) /\ hook' = hook
    BY <1>4 DEF startRun
  <2>2. TRUE /\ current # 0 /\ current = runs[r].impl =>
          runs[r].ct \in {NoCT, CT(current, KernelOf[r], 0)}
    BY <1>2, <1>4 DEF RunOK
  <2>3. /\ runs' \in [Runs -> RunObjects] /\ started' \in Seq(Starts)
        /\ runs'[r].state = "made" /\ runs'[r].ct = runs[r].ct /\ runs'[r].impl = runs[r].impl
        /\ \A q \in Runs : q # r => runs'[q] = runs[q]
        /\ OwnControlTrace'
    <3>1. 0 \in Nat /\ TRUE \in BOOLEAN OBVIOUS
    <3> QED BY <2>1, <2>2, <1>2, <3>1, GoesOffFacts
  <2>4. DtraceTypes' BY <1>1, <2>1, <2>3 DEF DtraceTypes
  <2>5. ASSUME NEW u \in Threads PROVE HookOK(u)'
    BY <1>1, <1>3, <2>1, <2>3, HookKept DEF HookInv
  <2>6. RunOK(r)' BY <1>1, <1>2, <1>3, <2>1, <2>3 DEF RunOK
  <2>7. ASSUME NEW q \in Runs, q # r PROVE RunOK(q)'
    BY <2>7, <1>1, <2>1, <2>3, RunKept DEF RunInv
  <2> QED BY <2>3, <2>4, <2>5, <2>6, <2>7 DEF HookInv, RunInv
<1>5. CASE current # 0 /\ multi
  <2>a. current = impls /\ current \in Impls BY <1>5 DEF DtraceTypes, Impls
  <2>1. /\ runs' = [runs EXCEPT ![r].state = "busy"] /\ UNCHANGED started
        /\ hook' = [hook EXCEPT ![t] = [Idle EXCEPT !.pc = "select", !.run = r, !.impl = current]]
    BY <1>5 DEF startRun
  <2>2. Idle \in Hooks BY DEF Idle, Hooks, CTs
  <2>3. /\ hook' \in [Threads -> Hooks] /\ hook'[t].pc = "select" /\ hook'[t].run = r
        /\ hook'[t].impl = current /\ \A u \in Threads : u # t => hook'[u] = hook[u]
    BY <2>1, <2>2, <2>a DEF DtraceTypes, Hooks, Impls
  <2>4. /\ runs' \in [Runs -> RunObjects] /\ \A q \in Runs : q # r => runs'[q] = runs[q]
        /\ runs'[r].state = "busy" /\ runs'[r].ct = runs[r].ct /\ runs'[r].impl = runs[r].impl
    BY <2>1, <1>2 DEF DtraceTypes, RunObjects
  <2>5. DtraceTypes' BY <1>1, <2>1, <2>3, <2>4 DEF DtraceTypes
  <2>b. runs'[r].impl <= impls BY <1>2, <2>4 DEF RunOK
  <2>6. HookOK(t)' BY <1>1, <1>3, <1>5, <2>3, <2>4, <2>a, <2>b DEF HookOK
  <2>7. ASSUME NEW u \in Threads, u # t PROVE HookOK(u)'
    BY <2>7, <1>1, <1>3, <2>3, <2>4, HookKept DEF HookInv
  <2>8. RunOK(r)'
    <3>1. \A u \in Threads : hook'[u].pc # "idle" /\ hook'[u].run = r => hook'[u].impl = impls
      BY <1>3, <2>3, <2>a
    <3> QED BY <1>1, <1>2, <1>5, <2>4, <3>1 DEF RunOK
  <2>9. ASSUME NEW q \in Runs, q # r PROVE RunOK(q)'
    BY <2>9, <1>1, <2>3, <2>4, RunKept DEF RunInv
  <2>10. OwnControlTrace' BY <2>1 DEF OwnControlTrace
  <2> QED BY <2>5, <2>6, <2>7, <2>8, <2>9, <2>10 DEF HookInv, RunInv
<1> QED BY <1>4, <1>5

\* applyCTForRun under the lock: without CTs for its kernel the run goes off with none,
\* as what it could have is older than its implementation.
LEMMA SelectStep ==
  ASSUME DtraceIInv, NEW t \in Threads, applyCTForRun(t)
  PROVE  DtraceIInv'
<1> USE DEF DtraceIInv
<1> DEFINE h == hook[t]
           x == <<h.impl, KernelOf[h.run]>>
<1>0. PICK r \in Runs : r = h.run BY DEF DtraceTypes, Hooks
<1>1. h.pc = "select" /\ UNCHANGED <<multi, current, impls, ctFiles>>
  BY DEF applyCTForRun
<1>2. /\ h \in Hooks /\ h.impl \in Impls /\ h.impl \in 0..MaxImpls /\ x \in Impls \X Kernels
      /\ h.impl <= impls /\ multi /\ runs[r] \in RunObjects /\ impls \in Nat /\ impls <= impls
      /\ counts[x] \in Nat /\ ctFiles[x] \subseteq Nat /\ runs[r].ct \in CTs
  BY <1>0, <1>1 DEF HookInv, HookOK, DtraceTypes, Hooks, Kernels, RunObjects
<1>3. counts' \in [Impls \X Kernels -> Nat]
  BY <1>2 DEF applyCTForRun, DtraceTypes
<1>4. CASE ctFiles[x] = {}
  <2>1. /\ GoesOff(r, h.impl, counts[x], TRUE, runs[r].ct)
        /\ hook' = [hook EXCEPT ![t] = Idle]
    BY <1>0, <1>4 DEF applyCTForRun
  <2>2. RunOK(r) BY DEF RunInv
  <2>3. TRUE /\ h.impl # 0 /\ h.impl = runs[r].impl =>
          runs[r].ct \in {NoCT, CT(h.impl, KernelOf[r], counts[x])}
    <3> SUFFICES ASSUME h.impl = runs[r].impl, runs[r].ct # NoCT PROVE FALSE OBVIOUS
    <3>1. PICK g \in Impls : /\ runs[r].impl <= g /\ ctFiles[<<g, KernelOf[r]>>] # {}
                             /\ g <= h.impl
      BY <1>0, <1>1, <1>2, <2>2 DEF RunOK
    <3>2. g = h.impl BY <1>2, <3>1 DEF Impls
    <3> QED BY <1>0, <1>4, <3>1, <3>2
  <2>4. /\ runs' \in [Runs -> RunObjects] /\ started' \in Seq(Starts)
        /\ runs'[r].state = "made" /\ runs'[r].ct = runs[r].ct /\ runs'[r].impl = runs[r].impl
        /\ \A q \in Runs : q # r => runs'[q] = runs[q]
        /\ OwnControlTrace'
    <3>1. TRUE \in BOOLEAN OBVIOUS
    <3> QED BY <1>2, <2>1, <2>3, <3>1, GoesOffFacts
  <2>5. multi /\ runs'[r].ct # NoCT =>
          \E g \in Impls, n \in Nat :
            /\ runs'[r].ct = CT(g, KernelOf[r], n)
            /\ runs[r].impl <= g /\ g <= impls
            /\ ctFiles'[<<g, KernelOf[r]>>] # {}
    BY <1>1, <2>2, <2>4 DEF RunOK
  <2>6. ctFiles' \in [Impls \X Kernels -> SUBSET Nat] BY <1>1 DEF DtraceTypes
  <2>7. DtraceIInv /\ hook[t].pc # "idle" BY <1>1
  <2> HIDE DEF DtraceIInv
  <2> QED BY <1>0, <1>1, <1>2, <1>3, <2>1, <2>4, <2>5, <2>6, <2>7, HookEndsStep
<1>5. CASE ctFiles[x] # {}
  <2> DEFINE n == counts[x]
             ct == IF n \in ctFiles[x] THEN CT(h.impl, KernelOf[h.run], n) ELSE NoCT
  <2>1. /\ hook' = [hook EXCEPT ![t].pc = "apply", ![t].inf = n, ![t].ct = ct]
        /\ UNCHANGED <<runs, started>>
    BY <1>5 DEF applyCTForRun
  <2>2. ct \in CTs BY <1>0, <1>2 DEF CTs, Kernels
  <2>3. /\ hook' \in [Threads -> Hooks] /\ hook'[t].pc = "apply" /\ hook'[t].run = r
        /\ hook'[t].impl = h.impl /\ hook'[t].ct = ct /\ hook'[t].inf = n
        /\ \A u \in Threads : u # t => hook'[u] = hook[u]
    BY <1>0, <1>2, <2>1, <2>2 DEF DtraceTypes, Hooks
  <2>4. DtraceTypes' BY <1>1, <1>3, <2>1, <2>3 DEF DtraceTypes
  <2>a. HookOK(t) BY DEF HookInv
  <2>b. ct = NoCT \/ (ct = CT(h.impl, KernelOf[r], n) /\ ctFiles'[<<h.impl, KernelOf[r]>>] # {})
    BY <1>0, <1>1, <1>5
  <2> HIDE DEF ct, n, DtraceIInv
  <2>5. HookOK(t)'
    BY <1>0, <1>1, <1>2, <2>1, <2>3, <2>a, <2>b DEF HookOK
  <2>6. ASSUME NEW u \in Threads, u # t PROVE HookOK(u)'
    BY <2>6, <1>0, <1>1, <1>2, <2>1, <2>3, HookKept DEF HookInv, DtraceIInv
  <2>7. ASSUME NEW q \in Runs PROVE RunOK(q)'
    BY <1>0, <1>1, <1>2, <2>1, <2>3, RunKept DEF RunInv, DtraceIInv
  <2>8. OwnControlTrace' BY <2>1 DEF OwnControlTrace, DtraceIInv
  <2> QED BY <2>4, <2>5, <2>6, <2>7, <2>8 DEF HookInv, RunInv, DtraceIInv
<1> QED BY <1>4, <1>5

\* applyCTForRun outside the lock: the run goes off with the CT of its inference.
LEMMA ApplyStep ==
  ASSUME DtraceIInv, NEW t \in Threads, applyCT(t)
  PROVE  DtraceIInv'
<1> USE DEF DtraceIInv
<1> DEFINE h == hook[t]
<1>0. PICK r \in Runs : r = h.run BY DEF DtraceTypes, Hooks
<1>1. /\ h.pc = "apply" /\ UNCHANGED <<multi, current, impls, ctFiles, counts>>
      /\ hook' = [hook EXCEPT ![t] = Idle]
  BY DEF applyCT
<1>2. PICK ok \in BOOLEAN : GoesOff(r, h.impl, h.inf, ok, IF ok THEN h.ct ELSE runs[r].ct)
  BY <1>0 DEF applyCT
<1>3. /\ h \in Hooks /\ h.impl \in Impls /\ h.impl \in 0..MaxImpls /\ h.inf \in Nat /\ h.ct \in CTs
      /\ h.impl <= impls /\ multi /\ runs[r] \in RunObjects /\ runs[r].ct \in CTs /\ impls \in Nat
  <2>1. HookOK(t) BY DEF HookInv
  <2>2. h.impl \in Impls /\ h.impl <= impls /\ multi BY <1>0, <1>1, <2>1 DEF HookOK
  <2>3. h \in Hooks /\ runs[r] \in RunObjects /\ impls \in Nat BY DEF DtraceTypes
  <2> QED BY <2>2, <2>3 DEF Hooks, RunObjects
<1>a. h.ct # NoCT => /\ h.ct = CT(h.impl, KernelOf[r], h.inf)
                     /\ ctFiles[<<h.impl, KernelOf[r]>>] # {}
  <2>1. HookOK(t) BY DEF HookInv
  <2> QED BY <1>0, <1>1, <2>1 DEF HookOK
<1>4. RunOK(r) BY DEF RunInv
<1> DEFINE ct == IF ok THEN h.ct ELSE runs[r].ct
<1>5. ct \in CTs /\ GoesOff(r, h.impl, h.inf, ok, ct)
      /\ (ok /\ h.impl # 0 /\ h.impl = runs[r].impl => ct \in {NoCT, CT(h.impl, KernelOf[r], h.inf)})
  BY <1>2, <1>3, <1>a
<1>6. /\ runs' \in [Runs -> RunObjects] /\ started' \in Seq(Starts)
      /\ runs'[r].state = "made" /\ runs'[r].ct = ct /\ runs'[r].impl = runs[r].impl
      /\ \A q \in Runs : q # r => runs'[q] = runs[q]
      /\ OwnControlTrace'
  <2> HIDE DEF ct
  <2> QED BY <1>3, <1>5, GoesOffFacts
<1>7. runs[r].impl <= h.impl
  BY <1>0, <1>1 DEF HookInv, HookOK
<1>8. multi /\ runs'[r].ct # NoCT =>
        \E g \in Impls, n \in Nat :
          /\ runs'[r].ct = CT(g, KernelOf[r], n)
          /\ runs[r].impl <= g /\ g <= impls
          /\ ctFiles'[<<g, KernelOf[r]>>] # {}
  <2>1. CASE ok
    <3> SUFFICES ASSUME h.ct # NoCT
                 PROVE  \E g \in Impls, n \in Nat :
                          /\ h.ct = CT(g, KernelOf[r], n)
                          /\ runs[r].impl <= g /\ g <= impls
                          /\ ctFiles[<<g, KernelOf[r]>>] # {}
      BY <1>1, <1>6, <2>1
    <3> QED BY <1>3, <1>a, <1>7
  <2>2. CASE ~ok BY <1>1, <1>4, <1>6, <2>2 DEF RunOK
  <2> QED BY <2>1, <2>2
<1>9. /\ ctFiles' \in [Impls \X Kernels -> SUBSET Nat] /\ counts' \in [Impls \X Kernels -> Nat]
      /\ DtraceIInv /\ hook[t].pc # "idle" /\ impls <= impls
  BY <1>1, <1>3 DEF DtraceTypes
<1> HIDE DEF DtraceIInv, ct
<1> QED BY <1>0, <1>1, <1>3, <1>6, <1>8, <1>9, HookEndsStep

\* The inductive invariant holds initially and is kept by every hook and every
\* replacement of the implementation.
LEMMA DtraceInvariant == DtraceSpec => []DtraceIInv
<1>1. ASSUME DtraceIInv, [DtraceNext]_dtVars PROVE DtraceIInv'
  <2>1. CASE updateAIEDtraceDevice \/ retireDtrace BY <1>1, <2>1, ImplSteps
  <2>2. ASSUME NEW t \in Threads, NEW r \in Runs, constructRun(t, r) \/ startRun(t, r)
        PROVE  DtraceIInv'
    BY <1>1, <2>2, ConstructStep, StartStep
  <2>3. ASSUME NEW t \in Threads,
               generateCTsForRun(t) \/ programRun(t) \/ applyCTForRun(t) \/ applyCT(t)
        PROVE  DtraceIInv'
    BY <1>1, <2>3, GenerateStep, ProgramStep, SelectStep, ApplyStep
  <2>4. CASE UNCHANGED dtVars
    BY <1>1, <2>4 DEF dtVars, DtraceIInv, DtraceTypes, HookInv, HookOK, RunInv, RunOK, OwnControlTrace
  <2> QED BY <1>1, <2>1, <2>2, <2>3, <2>4 DEF DtraceNext
<1> QED BY <1>1, DtraceInitially, PTL DEF DtraceSpec

\* A run goes off with the control trace of its own inference or with none, for any
\* threads, run objects and kernels, and however constructors, starts and
\* replacements of the implementation interleave.
THEOREM RunsOwnControlTrace == DtraceSpec => []OwnControlTrace
<1>1. DtraceIInv => OwnControlTrace BY DEF DtraceIInv
<1> QED BY <1>1, DtraceInvariant, PTL
=============================================================================
