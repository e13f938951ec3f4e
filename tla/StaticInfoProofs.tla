-------------------------- MODULE StaticInfoProofs --------------------------
(***************************************************************************)
(* Proofs that VPStaticDatabase gives a hardware context without a PL half *)
(* a uid that no context had before, and that the current configuration of *)
(* a device tells the xclbins that are loaded on it, for any contexts at   *)
(* any addresses, any xclbins and any order in which XRT calls the plugins.*)
(***************************************************************************)
EXTENDS StaticInfo, FiniteSetTheorems, TLAPS

PluginNames == {"offload", "status", "profile", "trace"}
CtxRec == [x : Binaries \cup {Nobody}, todo : Seq(PluginNames), n : Nat, uid : Int,
           pc : {"idle", "call", "assign", "update"}]
Uid == [uid : Nat, count : Nat]

-----------------------------------------------------------------------------
(* The inductive invariant                                                 *)

UidTypes ==
  /\ enabled \in PluginOrders /\ style \in {"unset", "load", "register"}
  /\ nextUid \in Nat \ {0} /\ numLoads \in Nat
  /\ contexts \in [InfoHandles -> CtxRec]
  /\ \E S \in SUBSET InfoHandles : hwCtxImplUIDMap \in [S -> Uid]
  /\ \E U \in SUBSET Nat : usedBy \in [U -> SUBSET (Nat \X Binaries)]
  /\ \A c \in InfoHandles :
       /\ contexts[c].pc # "idle" => contexts[c].x \in Binaries
       /\ contexts[c].pc \in {"assign", "update"} => contexts[c].todo # <<>>

\* the calls of the plugins for a load and those for contexts do not overlap
LoadInv ==
  load.todo # <<>> => style # "register" /\ \A c \in InfoHandles : contexts[c].n = 0

\* every enabled plugin unregisters from the contexts it was called for
Balanced == Range(enabled) \subseteq {"profile", "trace"}

\* the context at c was created for an ELF
IsElf(c) == TypeOf[contexts[c].x] = "ELF"

\* the plugins that have asked for the uid of the context at c
Asked(c) == Len(enabled) - Len(contexts[c].todo) + IF contexts[c].pc = "update" THEN 1 ELSE 0

\* the context at c has a number of its own and calls the plugins in their order
CtxOK(c) ==
  /\ contexts[c].n = 0 <=> contexts[c].pc = "idle"
  /\ contexts[c].n <= numLoads
  /\ contexts[c].n # 0 =>
       /\ \A d \in InfoHandles : contexts[d].n = contexts[c].n => d = c
       /\ contexts[c].todo \in Seq(Range(enabled)) /\ Len(contexts[c].todo) <= Len(enabled)
       /\ contexts[c].pc = "assign" => Asked(c) = 0 /\ ~IsElf(c)
       /\ contexts[c].pc = "assign" \/ Asked(c) > 0 => IsElf(c) \/ style = "register"

\* every call of a plugin for the context at c was counted
CountOK(c) ==
  contexts[c].n # 0 /\ Asked(c) > 0 =>
    c \in DOMAIN hwCtxImplUIDMap /\ hwCtxImplUIDMap[c].count >= Asked(c)

\* uid u is that of the PL devices, or a context of the ELF flow had it
Exempt(u) == u = Default \/ \E k \in usedBy[u] : TypeOf[k[2]] = "ELF"

\* a uid that is in use belongs to the context that is at its address now
UidOK(c) ==
  LET e == hwCtxImplUIDMap[c]
  IN c \in DOMAIN hwCtxImplUIDMap =>
       /\ e.uid < nextUid /\ e.uid \in DOMAIN usedBy
       /\ e.count > 0 /\ ~Exempt(e.uid) =>
            /\ contexts[c].n # 0 /\ ~IsElf(c) /\ e.count = Asked(c)
            /\ usedBy[e.uid] = {<<contexts[c].n, contexts[c].x>>}

\* one context had uid u
UsedOK(u) == u < nextUid /\ (Exempt(u) \/ \E k \in usedBy[u] : usedBy[u] = {k})

UidInv ==
  Balanced =>
    /\ \A c \in InfoHandles : CtxOK(c) /\ CountOK(c) /\ UidOK(c)
    /\ \A u \in DOMAIN usedBy : UsedOK(u)

UidIInv == UidTypes /\ (Balanced => LoadInv) /\ UidInv

\* The initial state: no context has been created.
LEMMA UidInitially == SiInit => UidIInv
<1> SUFFICES ASSUME SiInit PROVE UidIInv OBVIOUS
<1>1. UidTypes
  <2>1. contexts \in [InfoHandles -> CtxRec] BY DEF SiInit, CtxRec
  <2>2. hwCtxImplUIDMap \in [{} -> Uid] BY DEF SiInit
  <2>3. usedBy \in [{} -> SUBSET (Nat \X Binaries)] BY DEF SiInit
  <2>4. \E S \in SUBSET InfoHandles : hwCtxImplUIDMap \in [S -> Uid] BY <2>2
  <2>5. \E U \in SUBSET Nat : usedBy \in [U -> SUBSET (Nat \X Binaries)] BY <2>3
  <2>6. /\ enabled \in PluginOrders /\ style \in {"unset", "load", "register"}
        /\ nextUid \in Nat \ {0} /\ numLoads \in Nat
    BY DEF SiInit
  <2>7. \A c \in InfoHandles : contexts[c].pc = "idle" BY DEF SiInit
  <2> QED BY <2>1, <2>4, <2>5, <2>6, <2>7 DEF UidTypes
<1>2. \A c \in InfoHandles : contexts[c].n = 0 /\ contexts[c].pc = "idle" BY DEF SiInit
<1>3. LoadInv BY <1>2 DEF SiInit, LoadInv
<1>4. DOMAIN hwCtxImplUIDMap = {} /\ DOMAIN usedBy = {} /\ numLoads = 0 BY DEF SiInit
<1>5. \A c \in InfoHandles : CtxOK(c) BY <1>2, <1>4 DEF CtxOK
<1>6. \A c \in InfoHandles : CountOK(c) /\ UidOK(c) BY <1>2, <1>4 DEF CountOK, UidOK
<1> QED BY <1>1, <1>3, <1>4, <1>5, <1>6 DEF UidInv, UidIInv

\* XRT calls every plugin once, so that the plugins which unregister from a context
\* are as many as those which were called for it.
LEMMA AllUnregister ==
  ASSUME UidTypes, Balanced
  PROVE  /\ enabled \in Seq(Range(enabled)) /\ Len(enabled) \in Nat
         /\ Cardinality(Range(enabled) \cap {"trace", "profile"}) = Len(enabled)
<1> DEFINE n == Len(enabled)
           R == Range(enabled)
<1>1. enabled \in Seq(PluginNames) /\ IsInjective(enabled)
  BY InfoAssumption DEF UidTypes, PluginNames
<1>2. n \in Nat /\ DOMAIN enabled = 1..n /\ enabled \in [1..n -> R] BY <1>1 DEF Range
<1>3. R \cap {"trace", "profile"} = R BY DEF Balanced
<1>4. enabled \in Surjection(1..n, R) BY <1>2 DEF Range, Surjection
<1>5. enabled \in Injection(1..n, R) BY <1>1, <1>2 DEF IsInjective, Injection
<1>6. enabled \in Seq(R) BY <1>1, <1>2
<1>7. IsFiniteSet(1..n) /\ Cardinality(1..n) = n
  <2>1. 1 \in Int /\ n \in Int BY <1>2
  <2> HIDE DEF n
  <2> QED BY <1>2, <2>1, FS_Interval
<1> HIDE DEF n, R
<1>8. Cardinality(R) = n BY <1>4, <1>5, <1>7, FS_Surjection
<1> QED BY <1>2, <1>3, <1>6, <1>8 DEF n, R

\* What a step says of the contexts other than the one it is about.
OthersKept(c) ==
  /\ contexts' \in [InfoHandles -> CtxRec]
  /\ \A d \in InfoHandles : d # c =>
       /\ contexts'[d] = contexts[d]
       /\ d \in DOMAIN hwCtxImplUIDMap' <=> d \in DOMAIN hwCtxImplUIDMap
       /\ d \in DOMAIN hwCtxImplUIDMap => hwCtxImplUIDMap'[d] = hwCtxImplUIDMap[d]
  /\ contexts'[c].n \in {0, contexts[c].n} \/ contexts'[c].n > numLoads
  /\ numLoads' \in Nat /\ numLoads <= numLoads' /\ nextUid' \in Nat /\ nextUid <= nextUid'
  /\ style' \in {style, "register"} /\ enabled' = enabled

\* What it says of the uids that contexts other than it have, and of those that had
\* them before.
UsesKept(c) ==
  /\ DOMAIN usedBy \subseteq DOMAIN usedBy'
  /\ \A u \in DOMAIN usedBy : usedBy[u] \subseteq usedBy'[u]
  /\ \A d \in InfoHandles : \A u \in DOMAIN usedBy :
       d # c /\ d \in DOMAIN hwCtxImplUIDMap /\ u = hwCtxImplUIDMap[d].uid
         /\ hwCtxImplUIDMap[d].count > 0 /\ ~Exempt(u) => usedBy'[u] = usedBy[u]

\* Such a step keeps the invariant of the other contexts.
LEMMA OthersStay ==
  ASSUME UidTypes, UidInv, Balanced, NEW c \in InfoHandles, OthersKept(c), UsesKept(c),
         NEW d \in InfoHandles, d # c
  PROVE  CtxOK(d)' /\ CountOK(d)' /\ UidOK(d)'
<1>1. CtxOK(d) /\ CountOK(d) /\ UidOK(d) BY DEF UidInv
<1>2. contexts[d] \in CtxRec /\ contexts'[d] = contexts[d] BY DEF UidTypes, OthersKept
<1>3. Asked(d)' = Asked(d) /\ IsElf(d)' = IsElf(d) BY <1>2 DEF Asked, IsElf, OthersKept
<1>4. numLoads \in Nat /\ contexts[d].n \in Nat /\ contexts[c] \in CtxRec /\ contexts'[c] \in CtxRec
  BY <1>2 DEF UidTypes, OthersKept, CtxRec
<1>5. ASSUME NEW e \in InfoHandles, contexts'[e].n = contexts[d].n, contexts[d].n # 0
      PROVE  e = d
  <2>1. contexts[d].n <= numLoads /\ \A f \in InfoHandles : contexts[f].n = contexts[d].n => f = d
    BY <1>1, <1>5 DEF CtxOK
  <2>2. CASE e # c BY <1>5, <2>1, <2>2 DEF OthersKept
  <2>3. CASE e = c
    <3>1. contexts'[c].n = contexts[c].n BY <1>4, <1>5, <2>1, <2>3 DEF OthersKept
    <3> QED BY <1>5, <2>1, <2>3, <3>1
  <2> QED BY <2>2, <2>3
<1>6. CtxOK(d)'
  BY <1>1, <1>2, <1>3, <1>4, <1>5 DEF CtxOK, OthersKept
<1>7. CountOK(d)' BY <1>1, <1>2, <1>3 DEF CountOK, OthersKept
<1>8. ASSUME d \in DOMAIN hwCtxImplUIDMap PROVE UidOK(d)'
  <2>1. PICK u : u = hwCtxImplUIDMap[d].uid OBVIOUS
  <2>2. u \in DOMAIN usedBy /\ u < nextUid /\ u \in Nat BY <1>1, <1>8, <2>1 DEF UidOK, UidTypes, Uid
  <2>3. hwCtxImplUIDMap'[d] = hwCtxImplUIDMap[d] BY <1>8 DEF OthersKept
  <2>4. u < nextUid' /\ u \in DOMAIN usedBy' BY <2>2 DEF OthersKept, UsesKept, UidTypes
  <2>5. Exempt(u) => Exempt(u)' BY <2>2 DEF Exempt, UsesKept
  <2>6. hwCtxImplUIDMap[d].count > 0 /\ ~Exempt(u) => usedBy'[u] = usedBy[u]
    BY <1>8, <2>1, <2>2 DEF UsesKept
  <2>7. hwCtxImplUIDMap[d].count > 0 /\ ~Exempt(u) =>
          /\ contexts[d].n # 0 /\ ~IsElf(d) /\ hwCtxImplUIDMap[d].count = Asked(d)
          /\ usedBy[u] = {<<contexts[d].n, contexts[d].x>>}
    BY <1>1, <1>8, <2>1 DEF UidOK
  <2>8. hwCtxImplUIDMap'[d].uid = u BY <2>1, <2>3
  <2>9. hwCtxImplUIDMap'[d].count > 0 /\ ~Exempt(u)' =>
          /\ contexts'[d].n # 0 /\ ~IsElf(d)' /\ hwCtxImplUIDMap'[d].count = Asked(d)'
          /\ usedBy'[u] = {<<contexts'[d].n, contexts'[d].x>>}
    BY <1>2, <1>3, <2>3, <2>5, <2>6, <2>7
  <2> QED BY <2>4, <2>8, <2>9 DEF UidOK
<1>9. ASSUME d \notin DOMAIN hwCtxImplUIDMap PROVE UidOK(d)' BY <1>9 DEF UidOK, OthersKept
<1> QED BY <1>6, <1>7, <1>8, <1>9

\* A step that gives the context at c no uid, and that keeps the invariant of c,
\* keeps all of it.
LEMMA NoUidGiven ==
  ASSUME UidTypes, UidInv, Balanced, NEW c \in InfoHandles, OthersKept(c), usedBy' = usedBy,
         CtxOK(c)', CountOK(c)', UidOK(c)'
  PROVE  UidInv'
<1>1. UsesKept(c) BY DEF UsesKept
<1>2. \A d \in InfoHandles : CtxOK(d)' /\ CountOK(d)' /\ UidOK(d)' BY <1>1, OthersStay
<1>3. ASSUME NEW u \in DOMAIN usedBy' PROVE UsedOK(u)'
  <2>1. UsedOK(u) /\ u \in Nat BY DEF UidInv, UidTypes
  <2> QED BY <2>1 DEF UsedOK, Exempt, OthersKept, UidTypes
<1> QED BY <1>2, <1>3 DEF UidInv

\* And one that gives it uid u, which is new, exempt, or that of the context already.
LEMMA UidGiven ==
  ASSUME UidTypes, UidInv, Balanced, NEW c \in InfoHandles, OthersKept(c),
         NEW u \in Nat, Give(c, u), u < nextUid', contexts[c].n # 0,
         u \in DOMAIN usedBy =>
           Exempt(u) \/ usedBy[u] = {<<contexts[c].n, contexts[c].x>>},
         CtxOK(c)', CountOK(c)', UidOK(c)'
  PROVE  UidInv'
<1> DEFINE me == <<contexts[c].n, contexts[c].x>>
<1>1. DOMAIN usedBy' = DOMAIN usedBy \cup {u} BY DEF Give
<1>2. \A v \in DOMAIN usedBy : v # u => usedBy'[v] = usedBy[v] BY DEF Give
<1>3. usedBy'[u] = {me} \cup (IF u \in DOMAIN usedBy THEN usedBy[u] ELSE {}) BY DEF Give
<1>4. UsesKept(c)
  <2>1. \A v \in DOMAIN usedBy : usedBy[v] \subseteq usedBy'[v] BY <1>2, <1>3
  <2>2. ASSUME NEW d \in InfoHandles, NEW v \in DOMAIN usedBy, d # c, d \in DOMAIN hwCtxImplUIDMap,
               v = hwCtxImplUIDMap[d].uid, hwCtxImplUIDMap[d].count > 0, ~Exempt(v)
        PROVE  usedBy'[v] = usedBy[v]
    <3>1. CASE v # u BY <1>2, <3>1
    <3>2. CASE v = u
      <4>1. usedBy[u] = {me} BY <2>2, <3>2
      <4> QED BY <1>3, <2>2, <3>2, <4>1
    <3> QED BY <3>1, <3>2
  <2> QED BY <1>1, <2>1, <2>2 DEF UsesKept
<1>5. \A d \in InfoHandles : CtxOK(d)' /\ CountOK(d)' /\ UidOK(d)' BY <1>4, OthersStay
<1>6. ASSUME NEW v \in DOMAIN usedBy' PROVE UsedOK(v)'
  <2>1. CASE v # u
    <3>1. v \in DOMAIN usedBy /\ v \in Nat BY <1>1, <2>1 DEF UidTypes
    <3>2. UsedOK(v) /\ usedBy'[v] = usedBy[v] BY <1>2, <2>1, <3>1 DEF UidInv
    <3> QED BY <3>1, <3>2 DEF UsedOK, Exempt, OthersKept, UidTypes
  <2>2. CASE v = u
    <3>1. CASE u \in DOMAIN usedBy /\ Exempt(u)
      <4>1. Exempt(u)' BY <1>3, <3>1 DEF Exempt
      <4> QED BY <2>2, <4>1 DEF UsedOK
    <3>2. CASE u \notin DOMAIN usedBy \/ usedBy[u] = {me}
      <4>1. usedBy'[u] = {me} BY <1>3, <3>2
      <4> HIDE DEF me
      <4>2. \E k \in usedBy'[u] : usedBy'[u] = {k} BY <4>1
      <4> QED BY <2>2, <4>2 DEF UsedOK
    <3> QED BY <3>1, <3>2
  <2> QED BY <2>1, <2>2
<1> QED BY <1>5, <1>6 DEF UidInv

-----------------------------------------------------------------------------
(* The actions                                                             *)

\* The record r takes the place of that of the context at c.
LEMMA CtxReplaced ==
  ASSUME UidTypes, NEW c \in InfoHandles, NEW r \in CtxRec, contexts' = [contexts EXCEPT ![c] = r],
         r.pc # "idle" => r.x \in Binaries, r.pc \in {"assign", "update"} => r.todo # <<>>
  PROVE  /\ contexts' \in [InfoHandles -> CtxRec]
         /\ contexts'[c] = r /\ \A d \in InfoHandles : d # c => contexts'[d] = contexts[d]
         /\ \A d \in InfoHandles :
              /\ contexts'[d].pc # "idle" => contexts'[d].x \in Binaries
              /\ contexts'[d].pc \in {"assign", "update"} => contexts'[d].todo # <<>>
  BY DEF UidTypes

\* What the records of contexts are after a step.
LEMMA NewRecords ==
  ASSUME UidTypes, NEW c \in InfoHandles
  PROVE  LET r == contexts[c]
         IN /\ r \in CtxRec
            /\ \A u \in Nat : [r EXCEPT !.uid = u, !.pc = "update"] \in CtxRec
            /\ [r EXCEPT !.pc = "assign"] \in CtxRec
            /\ r.todo # <<>> =>
                 /\ [r EXCEPT !.todo = Tail(@)] \in CtxRec
                 /\ [r EXCEPT !.pc = "call", !.todo = Tail(@)] \in CtxRec
<1>1. PICK r \in CtxRec : r = contexts[c] BY DEF UidTypes
<1>2. r.todo # <<>> => Tail(r.todo) \in Seq(PluginNames) BY DEF CtxRec
<1>3. ASSUME NEW u \in Nat PROVE [r EXCEPT !.uid = u, !.pc = "update"] \in CtxRec
  <2>1. u \in Int OBVIOUS
  <2> QED BY <2>1 DEF CtxRec
<1>4. [r EXCEPT !.pc = "assign"] \in CtxRec BY DEF CtxRec
<1>5. r.todo # <<>> => [r EXCEPT !.todo = Tail(@)] \in CtxRec BY <1>2 DEF CtxRec
<1>6. r.todo # <<>> => [r EXCEPT !.pc = "call", !.todo = Tail(@)] \in CtxRec BY <1>2 DEF CtxRec
<1> QED BY <1>1, <1>3, <1>4, <1>5, <1>6

\* The context at c gets uid u and is known to have had it.
LEMMA GiveTypes ==
  ASSUME UidTypes, NEW c \in InfoHandles, contexts[c].x \in Binaries, contexts[c].todo # <<>>,
         NEW u \in Nat, Give(c, u)
  PROVE  /\ contexts' = [contexts EXCEPT ![c] = [contexts[c] EXCEPT !.uid = u, !.pc = "update"]]
         /\ contexts' \in [InfoHandles -> CtxRec]
         /\ contexts'[c] = [contexts[c] EXCEPT !.uid = u, !.pc = "update"]
         /\ \A d \in InfoHandles : d # c => contexts'[d] = contexts[d]
         /\ \A d \in InfoHandles :
              /\ contexts'[d].pc # "idle" => contexts'[d].x \in Binaries
              /\ contexts'[d].pc \in {"assign", "update"} => contexts'[d].todo # <<>>
         /\ \E U \in SUBSET Nat : usedBy' \in [U -> SUBSET (Nat \X Binaries)]
<1>1. PICK U \in SUBSET Nat : usedBy \in [U -> SUBSET (Nat \X Binaries)] BY DEF UidTypes
<1>2. DOMAIN usedBy = U BY <1>1
<1>3. <<contexts[c].n, contexts[c].x>> \in Nat \X Binaries BY NewRecords DEF CtxRec
<1>4. usedBy' \in [U \cup {u} -> SUBSET (Nat \X Binaries)] BY <1>1, <1>2, <1>3 DEF Give
<1>5. U \cup {u} \in SUBSET Nat OBVIOUS
<1>6. contexts' = [contexts EXCEPT ![c] = [contexts[c] EXCEPT !.uid = u, !.pc = "update"]]
  BY DEF Give, UidTypes
<1>7. PICK r \in CtxRec : r = [contexts[c] EXCEPT !.uid = u, !.pc = "update"] BY NewRecords
<1>8. r.x \in Binaries /\ r.todo # <<>> BY <1>7, NewRecords DEF CtxRec
<1> QED BY <1>4, <1>5, <1>6, <1>7, <1>8, CtxReplaced

\* A context is created at c, for x.
LEMMA CreatedTypes ==
  ASSUME UidTypes, NEW c \in InfoHandles, NEW x \in InContexts, contextCreated(c, x)
  PROVE  UidTypes'
<1>1. x \in Binaries /\ enabled \in Seq(PluginNames) BY InfoAssumption DEF UidTypes, PluginNames
<1>2. PICK r : r = [x |-> x, todo |-> enabled, n |-> numLoads + 1, uid |-> -1, pc |-> "call"] OBVIOUS
<1>3. r \in CtxRec BY <1>1, <1>2 DEF UidTypes, CtxRec
<1>4. contexts' = [contexts EXCEPT ![c] = r] BY <1>2 DEF contextCreated
<1>5. r.x \in Binaries /\ r.pc = "call" BY <1>1, <1>2
<1>6. /\ contexts' \in [InfoHandles -> CtxRec]
      /\ \A d \in InfoHandles :
           /\ contexts'[d].pc # "idle" => contexts'[d].x \in Binaries
           /\ contexts'[d].pc \in {"assign", "update"} => contexts'[d].todo # <<>>
  BY <1>3, <1>4, <1>5, CtxReplaced
<1> QED BY <1>6 DEF contextCreated, UidTypes

\* A plugin is called for a context, or done with it.
LEMMA CalledTypes ==
  ASSUME UidTypes, NEW c \in InfoHandles, skipContext(c) \/ pluginUpdate(c)
  PROVE  UidTypes'
<1>1. contexts[c].pc # "idle" /\ contexts[c].todo # <<>> BY DEF skipContext, pluginUpdate, UidTypes
<1>2. PICK r \in CtxRec : /\ contexts' = [contexts EXCEPT ![c] = r]
                          /\ r.x = contexts[c].x /\ r.pc = "call"
  <2>1. contexts[c] \in CtxRec BY NewRecords
  <2>2. CASE skipContext(c)
    <3>1. PICK r \in CtxRec : r = [contexts[c] EXCEPT !.todo = Tail(@)] BY <1>1, NewRecords
    <3>2. r.x = contexts[c].x /\ r.pc = "call" BY <2>1, <2>2, <3>1 DEF skipContext, CtxRec
    <3> QED BY <2>2, <3>1, <3>2 DEF skipContext, UidTypes
  <2>3. CASE pluginUpdate(c)
    <3>1. PICK r \in CtxRec : r = [contexts[c] EXCEPT !.pc = "call", !.todo = Tail(@)] BY <1>1, NewRecords
    <3>2. r.x = contexts[c].x /\ r.pc = "call" BY <2>1, <3>1 DEF CtxRec
    <3> QED BY <2>3, <3>1, <3>2 DEF pluginUpdate, UidTypes
  <2> QED BY <2>2, <2>3
<1>3. /\ contexts' \in [InfoHandles -> CtxRec]
      /\ \A d \in InfoHandles :
           /\ contexts'[d].pc # "idle" => contexts'[d].x \in Binaries
           /\ contexts'[d].pc \in {"assign", "update"} => contexts'[d].todo # <<>>
  BY <1>1, <1>2, CtxReplaced DEF UidTypes
<1>4. /\ UNCHANGED <<enabled, numLoads, hwCtxImplUIDMap, nextUid, usedBy>>
      /\ style' \in {"unset", "load", "register"}
  BY DEF skipContext, pluginUpdate, otherVars, Styled, UidTypes
<1> QED BY <1>3, <1>4 DEF UidTypes

\* The map of uids changes at c only.
LEMMA MapTypes ==
  ASSUME UidTypes, NEW c \in InfoHandles,
         \/ uidKnown(c) \/ uidUnknown(c) \/ assignUid(c) \/ contextDestroyed(c)
  PROVE  /\ \E S \in SUBSET InfoHandles : hwCtxImplUIDMap' \in [S -> Uid]
         /\ \A d \in InfoHandles : d # c =>
              /\ d \in DOMAIN hwCtxImplUIDMap' <=> d \in DOMAIN hwCtxImplUIDMap
              /\ d \in DOMAIN hwCtxImplUIDMap => hwCtxImplUIDMap'[d] = hwCtxImplUIDMap[d]
<1>0. PICK S \in SUBSET InfoHandles : hwCtxImplUIDMap \in [S -> Uid] BY DEF UidTypes
<1>1. CASE uidKnown(c)
  <2>1. c \in S /\ hwCtxImplUIDMap[c] \in Uid BY <1>0, <1>1 DEF uidKnown, Known
  <2>2. hwCtxImplUIDMap' \in [S -> Uid] BY <1>0, <1>1, <2>1 DEF uidKnown, Uid
  <2> QED BY <1>0, <1>1, <2>2 DEF uidKnown
<1>2. CASE uidUnknown(c)
  <2>1. hwCtxImplUIDMap' \in [S \ {c} -> Uid] BY <1>0, <1>2 DEF uidUnknown
  <2>2. \A d \in InfoHandles : d # c /\ d \in S => hwCtxImplUIDMap'[d] = hwCtxImplUIDMap[d]
    BY <1>0, <1>2 DEF uidUnknown
  <2>3. S \ {c} \in SUBSET InfoHandles /\ DOMAIN hwCtxImplUIDMap' = S \ {c} BY <2>1
  <2> QED BY <1>0, <2>1, <2>2, <2>3
<1>3. CASE assignUid(c)
  <2>1. PICK u : u = IF HasPL(contexts[c].x) THEN Default ELSE nextUid OBVIOUS
  <2>2. u \in Nat BY <2>1 DEF Default, UidTypes
  <2>3. hwCtxImplUIDMap' = [k \in DOMAIN hwCtxImplUIDMap \cup {c} |->
                              IF k = c THEN [uid |-> u, count |-> 1] ELSE hwCtxImplUIDMap[k]]
    BY <1>3, <2>1 DEF assignUid
  <2>4. hwCtxImplUIDMap' \in [S \cup {c} -> Uid] BY <1>0, <2>2, <2>3 DEF Uid
  <2>5. S \cup {c} \in SUBSET InfoHandles /\ DOMAIN hwCtxImplUIDMap' = S \cup {c} BY <2>4
  <2> QED BY <1>0, <2>3, <2>4, <2>5
<1>4. CASE contextDestroyed(c)
  <2>1. CASE style # "register" \/ c \notin DOMAIN hwCtxImplUIDMap
    BY <1>0, <1>4, <2>1 DEF contextDestroyed
  <2>2. CASE style = "register" /\ c \in DOMAIN hwCtxImplUIDMap
    <3>1. PICK gone : gone = Cardinality(Range(enabled) \cap {"trace", "profile"}) OBVIOUS
    <3>2. hwCtxImplUIDMap' = [hwCtxImplUIDMap EXCEPT ![c].count = IF @ > gone THEN @ - gone ELSE 0]
      BY <1>4, <2>2, <3>1 DEF contextDestroyed
    <3>3. gone \in Nat
      <4>0. IsFiniteSet({} \cup {"trace"}) BY FS_EmptySet, FS_AddElement
      <4>1. IsFiniteSet(({} \cup {"trace"}) \cup {"profile"}) BY <4>0, FS_AddElement
      <4>2. Range(enabled) \cap {"trace", "profile"} \in SUBSET (({} \cup {"trace"}) \cup {"profile"}) OBVIOUS
      <4>3. IsFiniteSet(Range(enabled) \cap {"trace", "profile"}) BY <4>1, <4>2, FS_Subset
      <4> QED BY <3>1, <4>3, FS_CardinalityType
    <3>4. hwCtxImplUIDMap' \in [S -> Uid] BY <1>0, <2>2, <3>2, <3>3 DEF Uid
    <3> QED BY <1>0, <3>2, <3>4
  <2> QED BY <2>1, <2>2
<1> QED BY <1>1, <1>2, <1>3, <1>4

\* Every variable keeps its type.
LEMMA UidTypesKept ==
  ASSUME UidTypes, [SiNext]_siVars
  PROVE  UidTypes'
<1>1. ASSUME NEW x \in Binaries, loadXclbin(x) PROVE UidTypes'
  BY <1>1 DEF loadXclbin, idVars, UidTypes
<1>2. ASSUME pluginLoad PROVE UidTypes'
  BY <1>2 DEF pluginLoad, idVars, UidTypes
<1>3. ASSUME NEW c \in InfoHandles, NEW x \in InContexts, contextCreated(c, x) PROVE UidTypes'
  BY <1>3, CreatedTypes
<1>4. ASSUME NEW c \in InfoHandles, skipContext(c) \/ pluginUpdate(c) PROVE UidTypes'
  BY <1>4, CalledTypes
<1>5. ASSUME NEW c \in InfoHandles, uidKnown(c) PROVE UidTypes'
  <2>1. c \in DOMAIN hwCtxImplUIDMap /\ contexts[c].pc = "call" /\ contexts[c].todo # <<>>
    BY <1>5 DEF uidKnown, Known, Asks
  <2>2. PICK u \in Nat : u = hwCtxImplUIDMap[c].uid BY <2>1 DEF UidTypes, Uid
  <2>3. Give(c, u) /\ contexts[c].x \in Binaries BY <1>5, <2>1, <2>2 DEF uidKnown, UidTypes
  <2>4. /\ contexts' \in [InfoHandles -> CtxRec]
        /\ \A d \in InfoHandles :
             /\ contexts'[d].pc # "idle" => contexts'[d].x \in Binaries
             /\ contexts'[d].pc \in {"assign", "update"} => contexts'[d].todo # <<>>
        /\ \E U \in SUBSET Nat : usedBy' \in [U -> SUBSET (Nat \X Binaries)]
    BY <2>1, <2>3, GiveTypes
  <2>5. \E S \in SUBSET InfoHandles : hwCtxImplUIDMap' \in [S -> Uid] BY <1>5, MapTypes
  <2> QED BY <1>5, <2>4, <2>5 DEF uidKnown, otherVars, Styled, UidTypes
<1>6. ASSUME NEW c \in InfoHandles, uidUnknown(c) PROVE UidTypes'
  <2>1. contexts[c].pc = "call" /\ contexts[c].todo # <<>> BY <1>6 DEF uidUnknown, Asks
  <2>2. PICK r \in CtxRec : r = [contexts[c] EXCEPT !.pc = "assign"] BY NewRecords
  <2>3. r.x \in Binaries /\ r.todo # <<>> BY <2>1, <2>2, NewRecords DEF UidTypes, CtxRec
  <2>4. contexts' = [contexts EXCEPT ![c] = r] BY <1>6, <2>2 DEF uidUnknown, UidTypes
  <2>5. /\ contexts' \in [InfoHandles -> CtxRec]
        /\ \A d \in InfoHandles :
             /\ contexts'[d].pc # "idle" => contexts'[d].x \in Binaries
             /\ contexts'[d].pc \in {"assign", "update"} => contexts'[d].todo # <<>>
    BY <2>3, <2>4, CtxReplaced
  <2>6. \E S \in SUBSET InfoHandles : hwCtxImplUIDMap' \in [S -> Uid] BY <1>6, MapTypes
  <2> QED BY <1>6, <2>5, <2>6 DEF uidUnknown, otherVars, Styled, UidTypes
<1>7. ASSUME NEW c \in InfoHandles, assignUid(c) PROVE UidTypes'
  <2>1. contexts[c].pc \in {"call", "assign"} /\ contexts[c].todo # <<>>
    BY <1>7 DEF assignUid, Assigns, Asks, UidTypes
  <2>2. PICK u \in Nat : u = IF HasPL(contexts[c].x) THEN Default ELSE nextUid BY DEF UidTypes, Default
  <2>3. Give(c, u) /\ contexts[c].x \in Binaries BY <1>7, <2>1, <2>2 DEF assignUid, UidTypes
  <2>4. /\ contexts' \in [InfoHandles -> CtxRec]
        /\ \A d \in InfoHandles :
             /\ contexts'[d].pc # "idle" => contexts'[d].x \in Binaries
             /\ contexts'[d].pc \in {"assign", "update"} => contexts'[d].todo # <<>>
        /\ \E U \in SUBSET Nat : usedBy' \in [U -> SUBSET (Nat \X Binaries)]
    BY <2>1, <2>3, GiveTypes
  <2>5. \E S \in SUBSET InfoHandles : hwCtxImplUIDMap' \in [S -> Uid] BY <1>7, MapTypes
  <2>6. nextUid' \in Nat \ {0} BY <1>7 DEF assignUid, UidTypes
  <2> QED BY <1>7, <2>4, <2>5, <2>6 DEF assignUid, otherVars, UidTypes
<1>8. ASSUME NEW c \in InfoHandles, contextDestroyed(c) PROVE UidTypes'
  <2>1. PICK r : r = [x |-> Nobody, todo |-> <<>>, n |-> 0, uid |-> -1, pc |-> "idle"] OBVIOUS
  <2>2. r \in CtxRec /\ r.pc = "idle" BY <2>1 DEF CtxRec
  <2>3. contexts' = [contexts EXCEPT ![c] = r] BY <1>8, <2>1 DEF contextDestroyed
  <2>4. /\ contexts' \in [InfoHandles -> CtxRec]
        /\ \A d \in InfoHandles :
             /\ contexts'[d].pc # "idle" => contexts'[d].x \in Binaries
             /\ contexts'[d].pc \in {"assign", "update"} => contexts'[d].todo # <<>>
    BY <2>2, <2>3, CtxReplaced
  <2>5. \E S \in SUBSET InfoHandles : hwCtxImplUIDMap' \in [S -> Uid] BY <1>8, MapTypes
  <2> QED BY <1>8, <2>4, <2>5 DEF contextDestroyed, otherVars, UidTypes
<1>9. CASE UNCHANGED siVars BY <1>9 DEF siVars, UidTypes
<1> QED BY <1>1, <1>2, <1>3, <1>4, <1>5, <1>6, <1>7, <1>8, <1>9 DEF SiNext

\* A plugin is called for a context only when none is called for a load.
LEMMA LoadInvKept ==
  ASSUME UidTypes, LoadInv, UidTypes', UidInv, [SiNext]_siVars, Balanced
  PROVE  LoadInv'
<1>1. ASSUME NEW x \in Binaries, loadXclbin(x) PROVE LoadInv'
  BY <1>1 DEF loadXclbin, idVars, LoadInv
<1>2. ASSUME pluginLoad PROVE LoadInv' BY <1>2 DEF pluginLoad, idVars, LoadInv
<1>3. ASSUME NEW c \in InfoHandles, NEW x \in InContexts, contextCreated(c, x) PROVE LoadInv'
  BY <1>3 DEF contextCreated, LoadInv
<1>4. ASSUME NEW c \in InfoHandles, load' = load, contexts[c].pc # "idle" PROVE LoadInv'
  <2>1. contexts[c].n # 0 BY <1>4 DEF UidInv, CtxOK
  <2> QED BY <1>4, <2>1 DEF LoadInv
<1>5. ASSUME NEW c \in InfoHandles, skipContext(c) \/ uidKnown(c) \/ uidUnknown(c) \/ assignUid(c)
                                      \/ pluginUpdate(c) \/ contextDestroyed(c)
      PROVE  LoadInv'
  <2>1. load' = load
    BY <1>5 DEF skipContext, uidKnown, uidUnknown, assignUid, pluginUpdate, contextDestroyed, otherVars
  <2>2. contexts[c].pc # "idle"
    BY <1>5 DEF skipContext, uidKnown, uidUnknown, assignUid, pluginUpdate, contextDestroyed, Asks, Assigns
  <2> QED BY <1>4, <2>1, <2>2
<1>6. CASE UNCHANGED siVars BY <1>6 DEF siVars, LoadInv
<1> QED BY <1>1, <1>2, <1>3, <1>5, <1>6 DEF SiNext

\* The number of plugins that have asked is a natural.
LEMMA AskedType ==
  ASSUME UidTypes, UidInv, Balanced, NEW c \in InfoHandles
  PROVE  /\ Len(enabled) \in Nat /\ Len(contexts[c].todo) \in Nat /\ Asked(c) \in Int
         /\ contexts[c].n # 0 => Asked(c) \in Nat
         /\ contexts[c].n \in Nat /\ numLoads \in Nat
<1>1. Len(enabled) \in Nat BY AllUnregister
<1>2. contexts[c].todo \in Seq(PluginNames) /\ contexts[c].n \in Nat BY NewRecords DEF CtxRec
<1>3. contexts[c].n # 0 => Len(contexts[c].todo) <= Len(enabled) BY DEF UidInv, CtxOK
<1>4. Len(contexts[c].todo) \in Nat BY <1>2
<1> QED BY <1>1, <1>2, <1>3, <1>4 DEF Asked, UidTypes

\* A context is created.
LEMMA CreatedKeeps ==
  ASSUME UidTypes, UidTypes', UidInv, Balanced, NEW c \in InfoHandles, NEW x \in InContexts,
         contextCreated(c, x)
  PROVE  UidInv'
<1>1. PICK r : r = [x |-> x, todo |-> enabled, n |-> numLoads + 1, uid |-> -1, pc |-> "call"] OBVIOUS
<1>2. contexts'[c] = r /\ (\A d \in InfoHandles : d # c => contexts'[d] = contexts[d])
  BY <1>1 DEF contextCreated, UidTypes
<1>3. r.n = numLoads + 1 /\ r.todo = enabled /\ r.pc = "call" /\ numLoads \in Nat BY <1>1 DEF UidTypes
<1>4. UNCHANGED <<style, enabled, hwCtxImplUIDMap, nextUid, usedBy>> /\ numLoads' = numLoads + 1
      /\ contexts[c].n = 0
  BY DEF contextCreated
<1>5. OthersKept(c) BY <1>2, <1>3, <1>4 DEF OthersKept, UidTypes
<1>6. enabled \in Seq(Range(enabled)) /\ Len(enabled) \in Nat BY AllUnregister
<1>7. Asked(c)' = 0 BY <1>2, <1>3, <1>4, <1>6 DEF Asked
<1>8. CtxOK(c)'
  <2>1. ASSUME NEW d \in InfoHandles, contexts'[d].n = contexts'[c].n PROVE d = c
    <3>1. CtxOK(d) /\ contexts[d].n \in Nat BY AskedType DEF UidInv
    <3>2. contexts[d].n <= numLoads BY <3>1 DEF CtxOK
    <3> QED BY <1>2, <1>3, <2>1, <3>1, <3>2
  <2>2. contexts'[c].n # 0 /\ contexts'[c].n <= numLoads' BY <1>2, <1>3, <1>4
  <2>3. contexts'[c].todo \in Seq(Range(enabled')) /\ Len(contexts'[c].todo) <= Len(enabled')
    BY <1>2, <1>3, <1>4, <1>6
  <2>4. contexts'[c].pc = "call" BY <1>2, <1>3
  <2> QED BY <1>7, <2>1, <2>2, <2>3, <2>4 DEF CtxOK
<1>9. CountOK(c)' BY <1>7 DEF CountOK
<1>10. UidOK(c)'
  <2>1. UidOK(c) BY DEF UidInv
  <2> QED BY <1>4, <2>1 DEF UidOK, Exempt
<1> QED BY <1>4, <1>5, <1>8, <1>9, <1>10, NoUidGiven

\* A context is destroyed: the plugins take back what they were counted for.
LEMMA DestroyedKeeps ==
  ASSUME UidTypes, UidTypes', UidInv, Balanced, NEW c \in InfoHandles, contextDestroyed(c)
  PROVE  UidInv'
<1>1. PICK r : r = [x |-> Nobody, todo |-> <<>>, n |-> 0, uid |-> -1, pc |-> "idle"] OBVIOUS
<1>2. contexts'[c] = r /\ (\A d \in InfoHandles : d # c => contexts'[d] = contexts[d])
  BY <1>1 DEF contextDestroyed, UidTypes
<1>3. r.n = 0 /\ r.pc = "idle" BY <1>1
<1>4. /\ UNCHANGED <<style, enabled, numLoads, nextUid, usedBy>>
      /\ contexts[c].pc = "call" /\ contexts[c].todo = <<>>
  BY DEF contextDestroyed, otherVars
<1>5. \A d \in InfoHandles : d # c =>
        /\ d \in DOMAIN hwCtxImplUIDMap' <=> d \in DOMAIN hwCtxImplUIDMap
        /\ d \in DOMAIN hwCtxImplUIDMap => hwCtxImplUIDMap'[d] = hwCtxImplUIDMap[d]
  BY MapTypes
<1>6. OthersKept(c) BY <1>2, <1>3, <1>4, <1>5 DEF OthersKept, UidTypes
<1>7. CtxOK(c)' BY <1>2, <1>3, <1>4 DEF CtxOK, UidTypes
<1>8. CountOK(c)' BY <1>2, <1>3 DEF CountOK
<1>9. UidOK(c)'
  <2>1. UidOK(c) /\ CtxOK(c) /\ contexts[c].n # 0 BY <1>4 DEF UidInv, CtxOK
  <2>2. Asked(c) = Len(enabled) /\ Len(enabled) \in Nat BY <1>4, AskedType DEF Asked
  <2>3. PICK e \in Uid : c \in DOMAIN hwCtxImplUIDMap => e = hwCtxImplUIDMap[c]
    <3>1. [uid |-> 0, count |-> 0] \in Uid BY DEF Uid
    <3>2. c \in DOMAIN hwCtxImplUIDMap => hwCtxImplUIDMap[c] \in Uid BY DEF UidTypes
    <3> QED BY <3>1, <3>2
  <2>4. CASE c \notin DOMAIN hwCtxImplUIDMap BY <2>4 DEF UidOK, contextDestroyed
  <2>5. CASE c \in DOMAIN hwCtxImplUIDMap /\ style # "register"
    <3>1. hwCtxImplUIDMap' = hwCtxImplUIDMap BY <2>5 DEF contextDestroyed
    <3>2. e.count > 0 /\ ~Exempt(e.uid) => FALSE
      <4>1. e.count > 0 /\ ~Exempt(e.uid) => ~IsElf(c) /\ Asked(c) > 0
        BY <2>1, <2>2, <2>3, <2>5 DEF UidOK, Uid
      <4> QED BY <2>1, <2>5, <4>1 DEF CtxOK
    <3>3. Exempt(e.uid)' = Exempt(e.uid) BY <1>4 DEF Exempt
    <3> QED BY <1>4, <2>1, <2>3, <2>5, <3>1, <3>2, <3>3 DEF UidOK
  <2>6. CASE c \in DOMAIN hwCtxImplUIDMap /\ style = "register"
    <3>1. Cardinality(Range(enabled) \cap {"trace", "profile"}) = Len(enabled) BY AllUnregister
    <3>2. hwCtxImplUIDMap' = [hwCtxImplUIDMap EXCEPT ![c].count =
                                IF @ > Len(enabled) THEN @ - Len(enabled) ELSE 0]
      BY <2>6, <3>1 DEF contextDestroyed
    <3>3. hwCtxImplUIDMap[c] = e /\ \E S \in SUBSET InfoHandles : hwCtxImplUIDMap \in [S -> Uid]
      BY <2>3, <2>6 DEF UidTypes
    <3>4. /\ c \in DOMAIN hwCtxImplUIDMap' /\ hwCtxImplUIDMap'[c].uid = e.uid
          /\ hwCtxImplUIDMap'[c].count = IF e.count > Len(enabled) THEN e.count - Len(enabled) ELSE 0
      BY <2>6, <3>2, <3>3 DEF Uid
    <3>5. e.count > 0 /\ ~Exempt(e.uid) => e.count = Len(enabled) BY <2>1, <2>2, <2>3, <2>6 DEF UidOK
    <3>6. Exempt(e.uid)' = Exempt(e.uid) BY <1>4 DEF Exempt
    <3>7. hwCtxImplUIDMap'[c].count > 0 => Exempt(e.uid)' BY <2>2, <3>4, <3>5, <3>6 DEF Uid
    <3>8. e.uid < nextUid' /\ e.uid \in DOMAIN usedBy' BY <1>4, <2>1, <2>3, <2>6 DEF UidOK
    <3> QED BY <3>4, <3>7, <3>8 DEF UidOK
  <2> QED BY <2>4, <2>5, <2>6
<1> QED BY <1>4, <1>6, <1>7, <1>8, <1>9, NoUidGiven

\* A plugin is done with the context: the next one is called.
LEMMA UpdateKeepsUids ==
  ASSUME UidTypes, UidTypes', UidInv, Balanced, NEW c \in InfoHandles,
         skipContext(c) \/ pluginUpdate(c)
  PROVE  UidInv'
<1>0. CtxOK(c) /\ CountOK(c) /\ UidOK(c) BY DEF UidInv
<1>1. contexts[c].pc # "idle" /\ contexts[c].todo # <<>> /\ contexts[c].n # 0
  BY <1>0 DEF skipContext, pluginUpdate, UidTypes, CtxOK
<1>2. PICK s \in Seq(Range(enabled)) : s = contexts[c].todo BY <1>0, <1>1 DEF CtxOK
<1>3. Head(s) \in Range(enabled) /\ Tail(s) \in Seq(Range(enabled)) /\ Len(Tail(s)) = Len(s) - 1
      /\ Len(s) \in Nat
  BY <1>1, <1>2
<1>4. pluginUpdate(c) BY <1>2, <1>3 DEF skipContext, Skips, Balanced
<1>5. PICK r \in CtxRec : r = [contexts[c] EXCEPT !.pc = "call", !.todo = Tail(@)] BY <1>1, NewRecords
<1>6. /\ r.pc = "call" /\ r.todo = Tail(s) /\ r.n = contexts[c].n /\ r.x = contexts[c].x
      /\ contexts[c].pc = "update"
  BY <1>2, <1>4, <1>5, NewRecords DEF CtxRec, pluginUpdate
<1>7. contexts'[c] = r /\ \A d \in InfoHandles : d # c => contexts'[d] = contexts[d]
  BY <1>4, <1>5 DEF pluginUpdate, UidTypes
<1>8. UNCHANGED <<style, enabled, numLoads, hwCtxImplUIDMap, nextUid, usedBy>>
  BY <1>4 DEF pluginUpdate, otherVars
<1>9. OthersKept(c) BY <1>6, <1>7, <1>8 DEF OthersKept, UidTypes
<1>10. Asked(c)' = Asked(c) /\ IsElf(c)' = IsElf(c)
  <2>1. Len(enabled) \in Nat BY AskedType
  <2>2. Asked(c) = Len(enabled) - Len(s) + 1 BY <1>2, <1>6 DEF Asked
  <2>3. Asked(c)' = Len(enabled) - Len(Tail(s)) BY <1>3, <1>6, <1>7, <1>8, <2>1 DEF Asked
  <2>4. IsElf(c)' = IsElf(c) BY <1>6, <1>7 DEF IsElf
  <2> QED BY <1>3, <2>1, <2>2, <2>3, <2>4
<1>11. CtxOK(c)'
  <2>1. Len(Tail(s)) <= Len(enabled)
    <3>1. Len(s) <= Len(enabled) /\ Len(enabled) \in Nat BY <1>0, <1>1, <1>2, AskedType DEF CtxOK
    <3> QED BY <1>3, <3>1
  <2>2. \A d \in InfoHandles : contexts'[d].n = contexts[d].n BY <1>6, <1>7
  <2> QED BY <1>0, <1>1, <1>3, <1>6, <1>7, <1>8, <1>10, <2>1, <2>2 DEF CtxOK
<1>12. CountOK(c)' BY <1>0, <1>1, <1>8, <1>10 DEF CountOK
<1>13. UidOK(c)' BY <1>0, <1>1, <1>6, <1>7, <1>8, <1>10 DEF UidOK, Exempt
<1> QED BY <1>8, <1>9, <1>11, <1>12, <1>13, NoUidGiven

\* getHwCtxImplUid finds the context not to be in use and gives up the lock.
LEMMA UnknownKeeps ==
  ASSUME UidTypes, UidTypes', UidInv, Balanced, NEW c \in InfoHandles, uidUnknown(c)
  PROVE  UidInv'
<1>0. CtxOK(c) /\ CountOK(c) BY DEF UidInv
<1>1. contexts[c].pc = "call" /\ contexts[c].n # 0 BY <1>0 DEF uidUnknown, Asks, CtxOK
<1>2. PICK r \in CtxRec : r = [contexts[c] EXCEPT !.pc = "assign"] BY NewRecords
<1>3. r.pc = "assign" /\ r.todo = contexts[c].todo /\ r.n = contexts[c].n /\ r.x = contexts[c].x
  BY <1>2, NewRecords DEF CtxRec
<1>4. contexts'[c] = r /\ \A d \in InfoHandles : d # c => contexts'[d] = contexts[d]
  BY <1>2 DEF uidUnknown, UidTypes
<1>5. UNCHANGED <<enabled, numLoads, nextUid, usedBy>> /\ style' = "register" /\ ~IsElf(c) /\ ~Known(c)
  BY DEF uidUnknown, otherVars, Styled, IsElf
<1>6. \A d \in InfoHandles : d # c =>
        /\ d \in DOMAIN hwCtxImplUIDMap' <=> d \in DOMAIN hwCtxImplUIDMap
        /\ d \in DOMAIN hwCtxImplUIDMap => hwCtxImplUIDMap'[d] = hwCtxImplUIDMap[d]
  BY MapTypes
<1>7. OthersKept(c) BY <1>3, <1>4, <1>5, <1>6 DEF OthersKept, UidTypes
<1>8. Asked(c) = 0
  <2>1. Asked(c) \in Nat BY <1>1, AskedType
  <2>2. c \in DOMAIN hwCtxImplUIDMap => hwCtxImplUIDMap[c].count \in Nat BY DEF UidTypes, Uid
  <2> QED BY <1>0, <1>1, <1>5, <2>1, <2>2 DEF CountOK, Known
<1>9. Asked(c)' = Asked(c) /\ IsElf(c)' = IsElf(c) BY <1>1, <1>3, <1>4, <1>5 DEF Asked, IsElf
<1>10. CtxOK(c)'
  <2>1. \A d \in InfoHandles : contexts'[d].n = contexts[d].n BY <1>3, <1>4
  <2> QED BY <1>0, <1>1, <1>3, <1>4, <1>5, <1>8, <1>9, <2>1 DEF CtxOK
<1>11. CountOK(c)' BY <1>8, <1>9 DEF CountOK
<1>12. UidOK(c)'
  <2>1. c \notin DOMAIN hwCtxImplUIDMap' BY DEF uidUnknown
  <2> QED BY <2>1 DEF UidOK
<1> QED BY <1>5, <1>7, <1>10, <1>11, <1>12, NoUidGiven

\* What the record of the context is once it has been given uid u.
LEMMA GivenRecord ==
  ASSUME UidTypes, UidInv, Balanced, NEW c \in InfoHandles, NEW u \in Nat, Give(c, u),
         contexts[c].todo # <<>>, contexts[c].pc \in {"call", "assign"}, UNCHANGED <<enabled, numLoads>>,
         style' = style \/ style' = "register", IsElf(c) \/ style' = "register"
  PROVE  /\ contexts'[c].n = contexts[c].n /\ contexts'[c].x = contexts[c].x /\ contexts[c].n # 0
         /\ contexts' \in [InfoHandles -> CtxRec]
         /\ \A d \in InfoHandles : d # c => contexts'[d] = contexts[d]
         /\ Asked(c)' = Asked(c) + 1 /\ IsElf(c)' = IsElf(c) /\ CtxOK(c)'
<1>0. CtxOK(c) /\ contexts[c].n # 0 /\ contexts[c].x \in Binaries BY DEF UidInv, CtxOK, UidTypes
<1>1. PICK r \in CtxRec : r = [contexts[c] EXCEPT !.uid = u, !.pc = "update"] BY NewRecords
<1>2. r.pc = "update" /\ r.todo = contexts[c].todo /\ r.n = contexts[c].n /\ r.x = contexts[c].x
  BY <1>1, NewRecords DEF CtxRec
<1>3. /\ contexts'[c] = r /\ contexts' \in [InfoHandles -> CtxRec]
      /\ \A d \in InfoHandles : d # c => contexts'[d] = contexts[d]
  BY <1>0, <1>1, GiveTypes
<1>4. Asked(c)' = Asked(c) + 1 /\ IsElf(c)' = IsElf(c)
  <2>1. PICK m \in Nat, n \in Nat : m = Len(enabled) /\ n = Len(contexts[c].todo) BY AskedType
  <2>2. Asked(c) = m - n BY <2>1 DEF Asked
  <2>3. Asked(c)' = m - n + 1 BY <1>2, <1>3, <2>1 DEF Asked
  <2>4. IsElf(c)' = IsElf(c) BY <1>2, <1>3 DEF IsElf
  <2> QED BY <2>2, <2>3, <2>4
<1>5. CtxOK(c)'
  <2>1. \A d \in InfoHandles : contexts'[d].n = contexts[d].n BY <1>2, <1>3
  <2> QED BY <1>0, <1>2, <1>3, <1>4, <2>1 DEF CtxOK
<1> QED BY <1>0, <1>2, <1>3, <1>4, <1>5

\* getHwCtxImplUid finds the context in use: the plugin is counted.
LEMMA KnownKeeps ==
  ASSUME UidTypes, UidTypes', UidInv, Balanced, NEW c \in InfoHandles, uidKnown(c)
  PROVE  UidInv'
<1>0. CtxOK(c) /\ CountOK(c) /\ UidOK(c) BY DEF UidInv
<1>1. /\ contexts[c].pc = "call" /\ contexts[c].todo # <<>>
      /\ c \in DOMAIN hwCtxImplUIDMap /\ hwCtxImplUIDMap[c].count > 0
  BY DEF uidKnown, Asks, Known
<1>2. PICK e \in Uid : e = hwCtxImplUIDMap[c] BY <1>1 DEF UidTypes
<1>3. PICK u \in Nat : u = e.uid BY <1>2 DEF Uid
<1>4. Give(c, u) BY <1>2, <1>3 DEF uidKnown
<1>5. /\ UNCHANGED <<enabled, numLoads, nextUid>> /\ style' \in {style, "register"}
      /\ IsElf(c) \/ style' = "register"
  BY DEF uidKnown, otherVars, Styled, IsElf
<1>6. /\ contexts'[c].n = contexts[c].n /\ contexts'[c].x = contexts[c].x /\ contexts[c].n # 0
      /\ contexts' \in [InfoHandles -> CtxRec]
      /\ \A d \in InfoHandles : d # c => contexts'[d] = contexts[d]
      /\ Asked(c)' = Asked(c) + 1 /\ IsElf(c)' = IsElf(c) /\ CtxOK(c)'
  BY <1>1, <1>4, <1>5, GivenRecord
<1>7. /\ c \in DOMAIN hwCtxImplUIDMap' /\ hwCtxImplUIDMap'[c].uid = u
      /\ hwCtxImplUIDMap'[c].count = e.count + 1 /\ e.count \in Nat /\ e.count > 0
  <2>1. PICK S \in SUBSET InfoHandles : hwCtxImplUIDMap \in [S -> Uid] BY DEF UidTypes
  <2>2. hwCtxImplUIDMap' = [hwCtxImplUIDMap EXCEPT ![c].count = @ + 1] BY DEF uidKnown
  <2> QED BY <1>1, <1>2, <1>3, <2>1, <2>2 DEF Uid
<1>8. \A d \in InfoHandles : d # c =>
        /\ d \in DOMAIN hwCtxImplUIDMap' <=> d \in DOMAIN hwCtxImplUIDMap
        /\ d \in DOMAIN hwCtxImplUIDMap => hwCtxImplUIDMap'[d] = hwCtxImplUIDMap[d]
  BY MapTypes
<1>9. OthersKept(c) BY <1>5, <1>6, <1>8 DEF OthersKept, UidTypes
<1>10. u < nextUid /\ u \in DOMAIN usedBy BY <1>0, <1>1, <1>2, <1>3 DEF UidOK
<1>11. ~Exempt(u) =>
         /\ contexts[c].n # 0 /\ ~IsElf(c) /\ e.count = Asked(c)
         /\ usedBy[u] = {<<contexts[c].n, contexts[c].x>>}
  BY <1>0, <1>1, <1>2, <1>3 DEF UidOK
<1>12. Asked(c) \in Nat BY <1>6, AskedType
<1>13. CountOK(c)'
  <2>1. e.count >= Asked(c) BY <1>0, <1>2, <1>6, <1>7, <1>12 DEF CountOK
  <2> QED BY <1>6, <1>7, <1>12, <2>1 DEF CountOK
<1>14. UidOK(c)'
  <2>1. usedBy'[u] = {<<contexts[c].n, contexts[c].x>>} \cup usedBy[u] /\ u \in DOMAIN usedBy'
    BY <1>4, <1>10 DEF Give
  <2>2. Exempt(u) => Exempt(u)' BY <2>1 DEF Exempt
  <2>3. ~Exempt(u) => usedBy'[u] = {<<contexts'[c].n, contexts'[c].x>>} BY <1>6, <1>11, <2>1
  <2>4. u < nextUid' BY <1>5, <1>10
  <2>5. ~Exempt(u)' =>
          /\ contexts'[c].n # 0 /\ ~IsElf(c)' /\ hwCtxImplUIDMap'[c].count = Asked(c)'
          /\ usedBy'[u] = {<<contexts'[c].n, contexts'[c].x>>}
    BY <1>6, <1>7, <1>11, <2>2, <2>3
  <2> QED BY <1>7, <2>1, <2>4, <2>5 DEF UidOK
<1>15. u < nextUid' BY <1>5, <1>10
<1> QED BY <1>4, <1>6, <1>9, <1>11, <1>13, <1>14, <1>15, UidGiven

\* A context that is not in use gets the next uid, or that of the PL devices.
LEMMA AssignKeeps ==
  ASSUME UidTypes, UidTypes', UidInv, Balanced, NEW c \in InfoHandles, assignUid(c)
  PROVE  UidInv'
<1>0. CtxOK(c) /\ CountOK(c) /\ UidOK(c) BY DEF UidInv
<1>1. contexts[c].pc \in {"call", "assign"} /\ contexts[c].todo # <<>>
  BY DEF assignUid, Assigns, Asks, UidTypes
<1>2. PICK u \in Nat : u = IF HasPL(contexts[c].x) THEN Default ELSE nextUid BY DEF UidTypes, Default
<1>3. /\ Give(c, u) /\ nextUid' = IF HasPL(contexts[c].x) THEN nextUid ELSE nextUid + 1
      /\ hwCtxImplUIDMap' = [k \in DOMAIN hwCtxImplUIDMap \cup {c} |->
                               IF k = c THEN [uid |-> u, count |-> 1] ELSE hwCtxImplUIDMap[k]]
  BY <1>2 DEF assignUid
<1>4. UNCHANGED <<enabled, numLoads, style>> BY DEF assignUid, otherVars
<1>5. contexts[c].n # 0 /\ Asked(c) = 0 /\ (IsElf(c) \/ style = "register")
  <2>1. contexts[c].n # 0 BY <1>0, <1>1 DEF CtxOK
  <2>2. CASE contexts[c].pc = "assign" BY <1>0, <2>1, <2>2 DEF CtxOK
  <2>3. CASE contexts[c].pc # "assign"
    <3>1. ~Known(c) /\ IsElf(c) BY <2>3 DEF assignUid, Assigns, IsElf
    <3>2. Asked(c) \in Nat BY <2>1, AskedType
    <3>3. c \in DOMAIN hwCtxImplUIDMap => hwCtxImplUIDMap[c].count \in Nat BY DEF UidTypes, Uid
    <3> QED BY <1>0, <2>1, <3>1, <3>2, <3>3 DEF CountOK, Known
  <2> QED BY <2>2, <2>3
<1>6. /\ contexts'[c].n = contexts[c].n /\ contexts'[c].x = contexts[c].x
      /\ contexts' \in [InfoHandles -> CtxRec]
      /\ \A d \in InfoHandles : d # c => contexts'[d] = contexts[d]
      /\ Asked(c)' = Asked(c) + 1 /\ IsElf(c)' = IsElf(c) /\ CtxOK(c)'
  BY <1>1, <1>3, <1>4, <1>5, GivenRecord
<1>7. \A d \in InfoHandles : d # c =>
        /\ d \in DOMAIN hwCtxImplUIDMap' <=> d \in DOMAIN hwCtxImplUIDMap
        /\ d \in DOMAIN hwCtxImplUIDMap => hwCtxImplUIDMap'[d] = hwCtxImplUIDMap[d]
  BY MapTypes
<1>8. nextUid \in Nat \ {0} /\ nextUid' \in Nat /\ nextUid <= nextUid' /\ u < nextUid'
  BY <1>2, <1>3 DEF UidTypes, Default
<1>9. OthersKept(c) BY <1>4, <1>6, <1>7, <1>8 DEF OthersKept, UidTypes
<1>10. u \in DOMAIN usedBy => Exempt(u)
  <2>1. CASE HasPL(contexts[c].x) BY <1>2, <2>1 DEF Exempt
  <2>2. CASE ~HasPL(contexts[c].x)
    <3>1. u = nextUid BY <1>2, <2>2
    <3>2. u \in DOMAIN usedBy => u < nextUid BY DEF UidInv, UsedOK
    <3> QED BY <1>8, <3>1, <3>2
  <2> QED BY <2>1, <2>2
<1>11. c \in DOMAIN hwCtxImplUIDMap' /\ hwCtxImplUIDMap'[c].uid = u /\ hwCtxImplUIDMap'[c].count = 1
  BY <1>3
<1>12. Asked(c)' = 1 BY <1>5, <1>6
<1>13. CountOK(c)' BY <1>11, <1>12 DEF CountOK
<1>14. UidOK(c)'
  <2>1. u \in DOMAIN usedBy' BY <1>3 DEF Give
  <2>2. usedBy'[u] = {<<contexts[c].n, contexts[c].x>>} \cup (IF u \in DOMAIN usedBy THEN usedBy[u] ELSE {})
    BY <1>3 DEF Give
  <2>3. u \in DOMAIN usedBy => Exempt(u)' BY <1>10, <2>2 DEF Exempt
  <2>4. ASSUME IsElf(c) PROVE Exempt(u)'
    <3>1. PICK k : k = <<contexts[c].n, contexts[c].x>> OBVIOUS
    <3>2. k \in usedBy'[u] /\ k[2] = contexts[c].x BY <2>2, <3>1
    <3> QED BY <2>4, <3>2 DEF Exempt, IsElf
  <2>5. ~Exempt(u)' => usedBy'[u] = {<<contexts'[c].n, contexts'[c].x>>} BY <1>6, <2>2, <2>3
  <2> QED BY <1>5, <1>6, <1>8, <1>11, <1>12, <2>1, <2>4, <2>5 DEF UidOK
<1> QED BY <1>3, <1>5, <1>8, <1>9, <1>10, <1>6, <1>13, <1>14, UidGiven

\* Every step keeps the invariant.
LEMMA UidStep == UidIInv /\ [SiNext]_siVars => UidIInv'
<1> SUFFICES ASSUME UidIInv, [SiNext]_siVars PROVE UidIInv' OBVIOUS
<1>1. UidTypes' BY UidTypesKept DEF UidIInv
<1>2. enabled' = enabled
  BY DEF SiNext, siVars, loadXclbin, pluginLoad, contextCreated, skipContext, uidKnown, uidUnknown,
         assignUid, pluginUpdate, contextDestroyed, otherVars
<1>3. ASSUME Balanced PROVE LoadInv' /\ UidInv'
  <2>1. UidTypes /\ LoadInv /\ UidInv BY <1>3 DEF UidIInv
  <2>2. LoadInv' BY <1>1, <1>3, <2>1, LoadInvKept
  <2>3. ASSUME UNCHANGED <<enabled, hwCtxImplUIDMap, nextUid, contexts, usedBy>>, numLoads' >= numLoads,
               style' = style \/ \A c \in InfoHandles : contexts[c].n = 0
        PROVE  UidInv'
    <3>1. ASSUME NEW c \in InfoHandles PROVE CtxOK(c)' /\ CountOK(c)' /\ UidOK(c)'
      <4>1. CtxOK(c) /\ CountOK(c) /\ UidOK(c) BY <1>3, <2>1 DEF UidInv
      <4>2. Asked(c)' = Asked(c) /\ IsElf(c)' = IsElf(c) BY <2>3 DEF Asked, IsElf
      <4>3. contexts[c].n \in Nat /\ numLoads \in Nat /\ numLoads' \in Nat
        BY <1>1, <1>3, <2>1, AskedType DEF UidTypes
      <4>4. CtxOK(c)' BY <2>3, <4>1, <4>2, <4>3 DEF CtxOK
      <4>5. CountOK(c)' BY <2>3, <4>1, <4>2 DEF CountOK
      <4>6. UidOK(c)' BY <2>3, <4>1, <4>2 DEF UidOK, Exempt
      <4> QED BY <4>4, <4>5, <4>6
    <3>2. \A u \in DOMAIN usedBy : UsedOK(u)' BY <1>3, <2>1, <2>3 DEF UidInv, UsedOK, Exempt
    <3> QED BY <2>3, <3>1, <3>2 DEF UidInv
  <2>4. ASSUME NEW x \in Binaries, loadXclbin(x) PROVE UidInv'
    BY <2>1, <2>3, <2>4 DEF loadXclbin, idVars, UidTypes
  <2>5. ASSUME pluginLoad PROVE UidInv' BY <2>1, <2>3, <2>5 DEF pluginLoad, idVars, LoadInv, UidTypes
  <2>6. ASSUME NEW c \in InfoHandles, NEW x \in InContexts, contextCreated(c, x) PROVE UidInv'
    BY <1>1, <1>3, <2>1, <2>6, CreatedKeeps
  <2>7. ASSUME NEW c \in InfoHandles, skipContext(c) \/ pluginUpdate(c) PROVE UidInv'
    BY <1>1, <1>3, <2>1, <2>7, UpdateKeepsUids
  <2>8. ASSUME NEW c \in InfoHandles, uidKnown(c) PROVE UidInv' BY <1>1, <1>3, <2>1, <2>8, KnownKeeps
  <2>9. ASSUME NEW c \in InfoHandles, uidUnknown(c) PROVE UidInv' BY <1>1, <1>3, <2>1, <2>9, UnknownKeeps
  <2>10. ASSUME NEW c \in InfoHandles, assignUid(c) PROVE UidInv' BY <1>1, <1>3, <2>1, <2>10, AssignKeeps
  <2>11. ASSUME NEW c \in InfoHandles, contextDestroyed(c) PROVE UidInv'
    BY <1>1, <1>3, <2>1, <2>11, DestroyedKeeps
  <2>12. CASE UNCHANGED siVars
    <3>1. UidInv' BY <2>1, <2>3, <2>12 DEF siVars, UidTypes
    <3> QED BY <2>2, <3>1
  <2>13. UidInv'
    BY <2>2, <2>4, <2>5, <2>6, <2>7, <2>8, <2>9, <2>10, <2>11, <2>12 DEF SiNext
  <2> QED BY <2>2, <2>13
<1>4. Balanced' = Balanced BY <1>2 DEF Balanced
<1>5. CASE Balanced BY <1>1, <1>3, <1>5 DEF UidIInv
<1>6. CASE ~Balanced BY <1>1, <1>4, <1>6 DEF UidIInv, UidInv
<1> QED BY <1>5, <1>6

\* The invariant gives every uid but the exempt ones to one context.
LEMMA UidImplies == UidIInv => FreshUid
<1> SUFFICES ASSUME UidIInv, Balanced, NEW u \in DOMAIN usedBy \ {Default},
                    \A use \in usedBy[u] : TypeOf[use[2]] # "ELF"
             PROVE  Cardinality(usedBy[u]) <= 1
  BY DEF FreshUid, Balanced
<1>1. UsedOK(u) BY DEF UidIInv, UidInv
<1>2. ~Exempt(u) BY DEF Exempt
<1>3. PICK k : usedBy[u] = {k} BY <1>1, <1>2 DEF UsedOK
<1>4. Cardinality({k}) = 1 BY FS_Singleton
<1> QED BY <1>3, <1>4

\* A hardware context without a PL half gets a uid that no other context had, for any
\* contexts at any addresses, if the plugins that are called for it also unregister.
THEOREM UidsAreFresh == SiSpec => []FreshUid
<1>1. SiInit => UidIInv BY UidInitially
<1>2. UidIInv /\ [SiNext]_siVars => UidIInv' BY UidStep
<1>3. UidIInv => FreshUid BY UidImplies
<1> QED BY <1>1, <1>2, <1>3, PTL DEF SiSpec

-----------------------------------------------------------------------------
(* The configurations of the devices                                       *)

Types == {"AIE_PL", "PL_ONLY", "AIE_ONLY", "ELF"}
BinRec == [uuid : Binaries, type : Types, pl : BOOLEAN, aie : BOOLEAN, plio : Nat,
           counters : BOOLEAN, read : BOOLEAN]

IsConfig(c) == c = [type |-> c.type, bins |-> c.bins, intf |-> c.intf] /\ c.intf \in Nat
IsList(s) == Len(s) \in Nat /\ s = [k \in 1..Len(s) |-> s[k]]

InfoOK(info) ==
  /\ info = [d \in DOMAIN info |-> info[d]]
  /\ \A d \in DOMAIN info : IsList(info[d]) /\ \A k \in 1..Len(info[d]) : IsConfig(info[d][k])

\* interfaces up to number n were made, and each is in one configuration only
Owned(info, n) ==
  /\ \A d \in DOMAIN info : \A k \in 1..Len(info[d]) : info[d][k].intf <= n
  /\ \A d, e \in DOMAIN info : \A j \in 1..Len(info[d]), k \in 1..Len(info[e]) :
       info[d][j].intf = info[e][k].intf /\ info[d][j].intf # NoIntf => d = e /\ j = k

\* b is a binary of a type, for xclbin u
IsBinary(b, u, type) ==
  /\ b \in BinRec /\ b.uuid = u /\ b.type = type
  /\ b.pl = (type \in {"AIE_PL", "PL_ONLY"}) /\ b.aie = (type # "PL_ONLY")

\* the configurations that buildConfig makes: one binary, or two halves
IsElfConfig(c) ==
  /\ IsConfig(c) /\ c.type = "ELF" /\ c.intf = NoIntf
  /\ IsList(c.bins) /\ Len(c.bins) = 1
  /\ IsBinary(c.bins[1], c.bins[1].uuid, "ELF") /\ TypeOf[c.bins[1].uuid] = "ELF"

IsWhole(c, x) ==
  /\ IsConfig(c) /\ x \in Binaries /\ TypeOf[x] # "ELF" /\ c.type = TypeOf[x]
  /\ IsList(c.bins) /\ Len(c.bins) = 1
  /\ IsBinary(c.bins[1], x, TypeOf[x]) /\ c.bins[1].plio = PlioOf[x]

IsFormed(c, p, a) ==
  /\ IsConfig(c) /\ c.type = "AIE_PL_FORMED"
  /\ p \in Binaries /\ HasPL(p) /\ a \in Binaries /\ HasAIE(a) /\ TypeOf[a] # "ELF"
  /\ IsList(c.bins) /\ Len(c.bins) = 2
  /\ \/ IsBinary(c.bins[1], p, "PL_ONLY") /\ IsBinary(c.bins[2], a, "AIE_ONLY")
     \/ IsBinary(c.bins[1], a, "AIE_ONLY") /\ IsBinary(c.bins[2], p, "PL_ONLY")

PlOf(x) == IF HasPL(x) THEN x ELSE Nobody
AieOf(x) == IF HasAIE(x) THEN x ELSE Nobody

\* configuration c says that the halves on the device are those of p and of a
Tells(c, p, a) ==
  \/ \E x \in Binaries : IsWhole(c, x) /\ p = PlOf(x) /\ a = AieOf(x)
  \/ IsFormed(c, p, a)

\* and so does the list of configurations of a device, which no xclbin has been
\* loaded on if it is empty or ends with an ELF
Reflects(cfgs, p, a) ==
  /\ IsList(cfgs)
  /\ \/ p = Nobody /\ a = Nobody /\ (cfgs = <<>> \/ IsElfConfig(cfgs[Len(cfgs)]))
     \/ cfgs # <<>> /\ Tells(cfgs[Len(cfgs)], p, a)

\* the interface of the current configuration was made for p
IntfRight(cfgs, made, p) ==
  cfgs # <<>> /\ cfgs[Len(cfgs)].intf # NoIntf => made[cfgs[Len(cfgs)].intf] = p

Configs == IF 1 \in DOMAIN deviceInfo THEN deviceInfo[1] ELSE <<>>

\* the loads of xclbins and the contexts do not overlap
StyleInv ==
  /\ load \in [x : Binaries \cup {Nobody}, todo : Seq(PluginNames)]
  /\ style = "load" \/ load.todo # <<>> =>
       enabled # <<>> /\ style # "register" /\ \A c \in InfoHandles : contexts[c].n = 0
  /\ \A c \in InfoHandles :
       /\ contexts[c].n = 0 => contexts[c].pc = "idle"
       /\ contexts[c].pc \in {"assign", "update"} /\ TypeOf[contexts[c].x] # "ELF" => style = "register"

\* the device has the halves of p and of a, and those of load.x once all plugins
\* have been called; a complete xclbin is not loaded again
Loading(p, a) ==
  /\ load.x \in Binaries \ Incomplete /\ TypeOf[load.x] # "ELF"
  /\ onDevice = [pl |-> IF HasPL(load.x) THEN load.x ELSE p, aie |-> IF HasAIE(load.x) THEN load.x ELSE a]
  /\ TypeOf[load.x] = "AIE_PL" /\ Configs # <<>> /\ containsBinary(Last(Configs), load.x) =>
       p = load.x /\ a = load.x

HalvesInv ==
  ~again /\ style # "register" /\ enabled # <<>> =>
    /\ \E p, a \in Binaries \cup {Nobody} :
         /\ Reflects(Configs, p, a) /\ IntfRight(Configs, intfFor, p)
         /\ IF load.todo = <<>> THEN onDevice = [pl |-> p, aie |-> a] ELSE Loading(p, a)
    /\ style = "unset" /\ load.todo = <<>> => onDevice = [pl |-> Nobody, aie |-> Nobody]
    /\ style = "load" => onDevice.pl # Nobody \/ onDevice.aie # Nobody
    /\ onDevice.pl # Nobody => onDevice.pl \in Binaries

ConfigInv ==
  /\ InfoOK(deviceInfo) /\ IsList(intfFor) /\ Owned(deviceInfo, Len(intfFor))
  /\ StyleInv /\ HalvesInv

\* A function on 1..n is a sequence of length n.
LEMMA FcnIsList ==
  ASSUME NEW n \in Nat, NEW f, f = [k \in 1..n |-> f[k]]
  PROVE  Len(f) = n /\ IsList(f)
<1>1. f \in Seq({f[k] : k \in 1..n}) OBVIOUS
<1>2. Len(f) = n BY <1>1
<1> QED BY <1>2 DEF IsList

\* So is any sequence.
LEMMA SeqIsList ==
  ASSUME NEW S, NEW s \in Seq(S)
  PROVE  IsList(s) /\ \A k \in 1..Len(s) : s[k] \in S
<1>1. Len(s) \in Nat /\ DOMAIN s = 1..Len(s) OBVIOUS
<1>2. s = [k \in 1..Len(s) |-> s[k]] OBVIOUS
<1> QED BY <1>1, <1>2 DEF IsList

\* The first of at most two.
LEMMA FirstOfTwo ==
  ASSUME NEW I, I \subseteq 1..2, I # {}
  PROVE  Min(I) = IF 1 \in I THEN 1 ELSE 2
<1>1. \A i \in I : i = 1 \/ i = 2 OBVIOUS
<1>2. \E m \in I : /\ \A i \in I : m <= i
                   /\ m = IF 1 \in I THEN 1 ELSE 2
  <2>1. CASE 1 \in I BY <1>1, <2>1
  <2>2. CASE 1 \notin I
    <3>1. 2 \in I /\ \A i \in I : i = 2 BY <1>1, <2>2
    <3> QED BY <2>2, <3>1
  <2> QED BY <2>1, <2>2
<1>3. \A m, n \in I : (\A i \in I : m <= i) /\ (\A i \in I : n <= i) => m = n
  <2>1. \A m, n \in I : m \in Int /\ n \in Int BY <1>1
  <2> QED BY <2>1
<1>4. Min(I) \in I /\ \A i \in I : Min(I) <= i BY <1>2 DEF Min
<1> QED BY <1>2, <1>3, <1>4

\* the first binary with a PL half, an AIE half, or a type
PlAt(bins) == SelectInSeq(bins, LAMBDA b : b.pl)
AieAt(bins) == SelectInSeq(bins, LAMBDA b : b.aie)
TypedAt(bins, query) == SelectInSeq(bins, LAMBDA b : b.type \in {query, "AIE_PL"})

\* The first of one or two.
LEMMA FirstBinary ==
  ASSUME NEW bins, Len(bins) \in {1, 2}
  PROVE  /\ PlAt(bins) =
              IF bins[1].pl THEN 1 ELSE IF Len(bins) = 2 /\ bins[2].pl THEN 2 ELSE 0
         /\ AieAt(bins) =
              IF bins[1].aie THEN 1 ELSE IF Len(bins) = 2 /\ bins[2].aie THEN 2 ELSE 0
         /\ \A query : TypedAt(bins, query) =
              IF bins[1].type \in {query, "AIE_PL"} THEN 1
              ELSE IF Len(bins) = 2 /\ bins[2].type \in {query, "AIE_PL"} THEN 2 ELSE 0
<1>1. ASSUME NEW I \in SUBSET (1..Len(bins))
      PROVE  (IF I # {} THEN Min(I) ELSE 0) =
               IF 1 \in I THEN 1 ELSE IF Len(bins) = 2 /\ 2 \in I THEN 2 ELSE 0
  <2>1. CASE I = {} BY <2>1
  <2>2. CASE I # {}
    <3>1. I \subseteq 1..2 OBVIOUS
    <3>2. Min(I) = IF 1 \in I THEN 1 ELSE 2 BY <2>2, <3>1, FirstOfTwo
    <3>3. 2 \in I => Len(bins) = 2 OBVIOUS
    <3>4. \A i \in 1..2 : i = 1 \/ i = 2 OBVIOUS
    <3>5. 1 \in I \/ 2 \in I BY <2>2, <3>1, <3>4
    <3> QED BY <2>2, <3>2, <3>3, <3>5
  <2> QED BY <2>1, <2>2
<1>2. 1 \in 1..Len(bins) /\ (2 \in 1..Len(bins) <=> Len(bins) = 2) OBVIOUS
<1>3. PlAt(bins) =
        IF bins[1].pl THEN 1 ELSE IF Len(bins) = 2 /\ bins[2].pl THEN 2 ELSE 0
  <2>1. PICK I \in SUBSET (1..Len(bins)) : I = {i \in 1..Len(bins) : bins[i].pl} OBVIOUS
  <2>2. (1 \in I <=> bins[1].pl) /\ (Len(bins) = 2 => (2 \in I <=> bins[2].pl)) BY <1>2, <2>1
  <2>3. PlAt(bins) = IF I # {} THEN Min(I) ELSE 0 BY <2>1 DEF SelectInSeq, PlAt, AieAt, TypedAt
  <2> QED BY <1>1, <2>2, <2>3
<1>4. AieAt(bins) =
        IF bins[1].aie THEN 1 ELSE IF Len(bins) = 2 /\ bins[2].aie THEN 2 ELSE 0
  <2>1. PICK I \in SUBSET (1..Len(bins)) : I = {i \in 1..Len(bins) : bins[i].aie} OBVIOUS
  <2>2. (1 \in I <=> bins[1].aie) /\ (Len(bins) = 2 => (2 \in I <=> bins[2].aie)) BY <1>2, <2>1
  <2>3. AieAt(bins) = IF I # {} THEN Min(I) ELSE 0 BY <2>1 DEF SelectInSeq, PlAt, AieAt, TypedAt
  <2> QED BY <1>1, <2>2, <2>3
<1>5. ASSUME NEW query
      PROVE  TypedAt(bins, query) =
               IF bins[1].type \in {query, "AIE_PL"} THEN 1
               ELSE IF Len(bins) = 2 /\ bins[2].type \in {query, "AIE_PL"} THEN 2 ELSE 0
  <2>1. PICK I \in SUBSET (1..Len(bins)) : I = {i \in 1..Len(bins) : bins[i].type \in {query, "AIE_PL"}}
    OBVIOUS
  <2>2. /\ 1 \in I <=> bins[1].type \in {query, "AIE_PL"}
        /\ Len(bins) = 2 => (2 \in I <=> bins[2].type \in {query, "AIE_PL"})
    BY <1>2, <2>1
  <2>3. TypedAt(bins, query) = IF I # {} THEN Min(I) ELSE 0
    BY <2>1 DEF SelectInSeq, PlAt, AieAt, TypedAt
  <2> QED BY <1>1, <2>2, <2>3
<1> QED BY <1>3, <1>4, <1>5

\* c has one or two binaries, and k has the same but for their AIE halves
Binaried(c) ==
  /\ IsConfig(c) /\ IsList(c.bins) /\ Len(c.bins) \in {1, 2}
  /\ \A i \in 1..Len(c.bins) : c.bins[i] \in BinRec

Like(k, c) ==
  /\ Binaried(k) /\ k.type = c.type /\ k.intf = c.intf /\ Len(k.bins) = Len(c.bins)
  /\ \A i \in 1..Len(c.bins) :
       k.bins[i].uuid = c.bins[i].uuid /\ k.bins[i].type = c.bins[i].type

\* The configurations of buildConfig are such.
LEMMA ShapesBinaried ==
  ASSUME NEW c
  PROVE  /\ IsElfConfig(c) => Binaried(c)
         /\ \A x : IsWhole(c, x) => Binaried(c)
         /\ \A p, a : IsFormed(c, p, a) => Binaried(c)
<1>1. IsElfConfig(c) => Binaried(c) BY DEF IsElfConfig, Binaried, IsBinary
<1>2. \A x : IsWhole(c, x) => Binaried(c) BY DEF IsWhole, Binaried, IsBinary
<1>3. ASSUME NEW p, NEW a, IsFormed(c, p, a) PROVE Binaried(c)
  <2>1. c.bins[1] \in BinRec /\ c.bins[2] \in BinRec BY <1>3 DEF IsFormed, IsBinary
  <2>2. Len(c.bins) = 2 BY <1>3 DEF IsFormed
  <2>3. \A i \in 1..Len(c.bins) : i = 1 \/ i = 2 BY <2>2
  <2> QED BY <1>3, <2>1, <2>2, <2>3 DEF Binaried, IsFormed
<1> QED BY <1>1, <1>2, <1>3

\* cleanCurrentBinaryInfos forgets AIE halves and counters only.
LEMMA CleanedLike ==
  ASSUME NEW c, Binaried(c), NEW type
  PROVE  Like(cleanCurrentBinaryInfos(c, type), c)
<1>1. CASE type = "AIE_ONLY" BY <1>1 DEF cleanCurrentBinaryInfos, Like, Binaried
<1>2. CASE type # "AIE_ONLY"
  <2>1. PICK bins : bins = [k \in 1..Len(c.bins) |->
                              IF c.bins[k].aie THEN [c.bins[k] EXCEPT !.aie = FALSE, !.counters = FALSE]
                              ELSE c.bins[k]]
    OBVIOUS
  <2>2. PICK n : n = Len(c.bins) /\ n \in {1, 2} /\ n \in Nat BY DEF Binaried
  <2>3. DOMAIN c.bins = 1..n BY <2>2 DEF Binaried, IsList
  <2>4. Len(bins) = n /\ IsList(bins) BY <2>1, <2>2, FcnIsList
  <2>5. \A i \in 1..n : bins[i] \in BinRec /\ bins[i].uuid = c.bins[i].uuid /\ bins[i].type = c.bins[i].type
    BY <2>1, <2>2 DEF Binaried, BinRec
  <2>6. cleanCurrentBinaryInfos(c, type) = [c EXCEPT !.bins = bins]
    BY <1>2, <2>1, <2>2, <2>3 DEF cleanCurrentBinaryInfos
  <2>7. cleanCurrentBinaryInfos(c, type) = [type |-> c.type, bins |-> bins, intf |-> c.intf]
    BY <2>6 DEF Binaried, IsConfig
  <2> QED BY <2>2, <2>4, <2>5, <2>7 DEF Like, Binaried, IsConfig
<1> QED BY <1>1, <1>2

\* fromLastConfig finds a half if the last configuration has it, and nothing else.
LEMMA MissingHalf ==
  ASSUME NEW cfgs, IsList(cfgs), cfgs # <<>>, NEW c, Like(cfgs[Len(cfgs)], c),
         NEW query \in {"PL_ONLY", "AIE_ONLY"}
  PROVE  /\ IsElfConfig(c) => fromLastConfig(cfgs, query) = <<>>
         /\ \A x : IsWhole(c, x) =>
              IF TypeOf[x] \in {query, "AIE_PL"}
              THEN \E b : fromLastConfig(cfgs, query) = <<b>> /\ IsBinary(b, x, query)
              ELSE fromLastConfig(cfgs, query) = <<>>
         /\ \A p, a : IsFormed(c, p, a) =>
              \E b : /\ fromLastConfig(cfgs, query) = <<b>>
                     /\ IsBinary(b, IF query = "PL_ONLY" THEN p ELSE a, query)
<1>1. PICK last : last = cfgs[Len(cfgs)] /\ last = Last(cfgs) BY DEF Last
<1>2. PICK k : k = SelectInSeq(last.bins, LAMBDA b : b.type \in {query, "AIE_PL"}) OBVIOUS
<1>3. Like(last, c) /\ Binaried(last) BY <1>1 DEF Like
<1>4. k = IF last.bins[1].type \in {query, "AIE_PL"} THEN 1
          ELSE IF Len(last.bins) = 2 /\ last.bins[2].type \in {query, "AIE_PL"} THEN 2 ELSE 0
  <2>1. Len(last.bins) \in {1, 2} BY <1>3 DEF Binaried
  <2>2. k = TypedAt(last.bins, query) BY <1>2 DEF TypedAt
  <2> QED BY <2>1, <2>2, FirstBinary
<1>5. k = 0 => fromLastConfig(cfgs, query) = <<>> BY <1>1, <1>2 DEF fromLastConfig
<1>6. ASSUME k \in 1..Len(last.bins),
             last.type \in {"AIE_PL", "AIE_PL_FORMED"} \/ last.bins[k].type = query
      PROVE  \E b : fromLastConfig(cfgs, query) = <<b>> /\ IsBinary(b, last.bins[k].uuid, query)
  <2>1. last.bins[k] \in BinRec /\ last.bins[k] \in Range(last.bins)
    BY <1>3, <1>6 DEF Binaried, Range, IsList
  <2>2. PICK copy : copy = NewBinary(last.bins[k].uuid, query) OBVIOUS
  <2>3. PICK full : full = [copy EXCEPT !.plio = last.bins[k].plio, !.counters = last.bins[k].counters,
                                        !.read = last.bins[k].read]
    OBVIOUS
  <2>4. k # 0 BY <1>3, <1>6 DEF Binaried
  <2>5. fromLastConfig(cfgs, query) = IF query = "AIE_ONLY" THEN <<full>> ELSE <<copy>>
    BY <1>1, <1>2, <1>6, <2>1, <2>2, <2>3, <2>4 DEF fromLastConfig
  <2>6. IsBinary(copy, last.bins[k].uuid, query) BY <2>1, <2>2 DEF NewBinary, IsBinary, BinRec, Types
  <2>7. IsBinary(full, last.bins[k].uuid, query) BY <2>1, <2>3, <2>6 DEF IsBinary, BinRec
  <2> QED BY <2>5, <2>6, <2>7
<1>7. IsElfConfig(c) => fromLastConfig(cfgs, query) = <<>>
  <2> SUFFICES ASSUME IsElfConfig(c) PROVE k = 0 BY <1>5
  <2>1. Len(last.bins) = 1 /\ last.bins[1].type = "ELF" BY <1>3 DEF Like, IsElfConfig, IsBinary
  <2> QED BY <1>4, <2>1
<1>8. ASSUME NEW x, IsWhole(c, x)
      PROVE  IF TypeOf[x] \in {query, "AIE_PL"}
             THEN \E b : fromLastConfig(cfgs, query) = <<b>> /\ IsBinary(b, x, query)
             ELSE fromLastConfig(cfgs, query) = <<>>
  <2>1. Len(last.bins) = 1 /\ last.bins[1].type = TypeOf[x] /\ last.bins[1].uuid = x /\ last.type = TypeOf[x]
    BY <1>3, <1>8 DEF Like, IsWhole, IsBinary
  <2>2. CASE TypeOf[x] \in {query, "AIE_PL"}
    <3>1. k = 1 /\ k \in 1..Len(last.bins) BY <1>4, <2>1, <2>2
    <3> QED BY <1>6, <2>1, <2>2, <3>1
  <2>3. CASE TypeOf[x] \notin {query, "AIE_PL"} BY <1>4, <1>5, <2>1, <2>3
  <2> QED BY <2>2, <2>3
<1>9. ASSUME NEW p, NEW a, IsFormed(c, p, a)
      PROVE  \E b : /\ fromLastConfig(cfgs, query) = <<b>>
                    /\ IsBinary(b, IF query = "PL_ONLY" THEN p ELSE a, query)
  <2>1. Len(last.bins) = 2 /\ last.type = "AIE_PL_FORMED" /\ 1 \in 1..2 /\ 2 \in 1..2
    BY <1>3, <1>9 DEF Like, IsFormed
  <2>2. CASE IsBinary(c.bins[1], p, "PL_ONLY") /\ IsBinary(c.bins[2], a, "AIE_ONLY")
    <3>1. /\ last.bins[1].type = "PL_ONLY" /\ last.bins[1].uuid = p
          /\ last.bins[2].type = "AIE_ONLY" /\ last.bins[2].uuid = a
      BY <1>3, <2>1, <2>2 DEF Like, IsBinary
    <3>2. k \in 1..Len(last.bins) /\ last.bins[k].uuid = IF query = "PL_ONLY" THEN p ELSE a
      BY <1>4, <2>1, <3>1
    <3> QED BY <1>6, <2>1, <3>2
  <2>3. CASE IsBinary(c.bins[1], a, "AIE_ONLY") /\ IsBinary(c.bins[2], p, "PL_ONLY")
    <3>1. /\ last.bins[2].type = "PL_ONLY" /\ last.bins[2].uuid = p
          /\ last.bins[1].type = "AIE_ONLY" /\ last.bins[1].uuid = a
      BY <1>3, <2>1, <2>3 DEF Like, IsBinary
    <3>2. k \in 1..Len(last.bins) /\ last.bins[k].uuid = IF query = "PL_ONLY" THEN p ELSE a
      BY <1>4, <2>1, <3>1
    <3> QED BY <1>6, <2>1, <3>2
  <2> QED BY <1>9, <2>2, <2>3 DEF IsFormed
<1> QED BY <1>7, <1>8, <1>9

\* For a device with the halves of p and a, it finds these.
LEMMA MissingFound ==
  ASSUME NEW old, NEW cfgs, IsList(cfgs), Len(cfgs) = Len(old),
         old # <<>> => Like(cfgs[Len(cfgs)], old[Len(old)]),
         NEW p \in Binaries \cup {Nobody}, NEW a \in Binaries \cup {Nobody}, Reflects(old, p, a),
         NEW query \in {"PL_ONLY", "AIE_ONLY"}
  PROVE  LET u == IF query = "PL_ONLY" THEN p ELSE a
         IN  IF u = Nobody THEN fromLastConfig(cfgs, query) = <<>>
             ELSE /\ u \in Binaries /\ (query = "PL_ONLY" => HasPL(u))
                  /\ query = "AIE_ONLY" => HasAIE(u) /\ TypeOf[u] # "ELF"
                  /\ \E b : fromLastConfig(cfgs, query) = <<b>> /\ IsBinary(b, u, query)
<1> DEFINE u == IF query = "PL_ONLY" THEN p ELSE a
<1>1. IsList(old) /\ (cfgs = <<>> <=> old = <<>>)
  <2>1. IsList(old) BY DEF Reflects
  <2> QED BY <2>1 DEF IsList
<1>2. CASE old = <<>>
  <2>1. p = Nobody /\ a = Nobody BY <1>2 DEF Reflects
  <2> QED BY <1>1, <1>2, <2>1 DEF fromLastConfig
<1>3. CASE old # <<>>
  <2>1. PICK c : c = old[Len(old)] OBVIOUS
  <2>2. cfgs # <<>> /\ Like(cfgs[Len(cfgs)], c) BY <1>1, <1>3, <2>1
  <2>3. CASE p = Nobody /\ a = Nobody /\ IsElfConfig(c)
    BY <2>2, <2>3, MissingHalf
  <2>4. ASSUME NEW x \in Binaries, IsWhole(c, x), p = PlOf(x), a = AieOf(x)
        PROVE  IF u = Nobody THEN fromLastConfig(cfgs, query) = <<>>
               ELSE /\ u \in Binaries /\ (query = "PL_ONLY" => HasPL(u))
                    /\ query = "AIE_ONLY" => HasAIE(u) /\ TypeOf[u] # "ELF"
                    /\ \E b : fromLastConfig(cfgs, query) = <<b>> /\ IsBinary(b, u, query)
    <3>1. TypeOf[x] \in Types /\ TypeOf[x] # "ELF" /\ x # Nobody
      BY <2>4, InfoAssumption DEF IsWhole, Types
    <3>2. TypeOf[x] \in {query, "AIE_PL"} <=> IF query = "PL_ONLY" THEN HasPL(x) ELSE HasAIE(x)
      BY <3>1 DEF HasPL, HasAIE, Types
    <3>3. u = IF TypeOf[x] \in {query, "AIE_PL"} THEN x ELSE Nobody BY <2>4, <3>2 DEF PlOf, AieOf
    <3>4. IF TypeOf[x] \in {query, "AIE_PL"}
          THEN \E b : fromLastConfig(cfgs, query) = <<b>> /\ IsBinary(b, x, query)
          ELSE fromLastConfig(cfgs, query) = <<>>
      BY <2>2, <2>4, MissingHalf
    <3> HIDE DEF u
    <3> QED BY <3>1, <3>2, <3>3, <3>4
  <2>5. CASE IsFormed(c, p, a)
    <3>1. \E b : fromLastConfig(cfgs, query) = <<b>> /\ IsBinary(b, u, query) BY <2>2, <2>5, MissingHalf
    <3>2. p # Nobody /\ a # Nobody BY <2>5, InfoAssumption DEF IsFormed
    <3> QED BY <2>5, <3>1, <3>2 DEF IsFormed
  <2>6. \/ p = Nobody /\ a = Nobody /\ IsElfConfig(c)
        \/ \E x \in Binaries : IsWhole(c, x) /\ p = PlOf(x) /\ a = AieOf(x)
        \/ IsFormed(c, p, a)
    BY <1>3, <2>1 DEF Reflects, Tells
  <2> QED BY <2>3, <2>4, <2>5, <2>6
<1> QED BY <1>2, <1>3

\* getPlBinary and getAieBinary give the first binary with such a half.
LEMMA Getters ==
  ASSUME NEW c
  PROVE  /\ getPlBinary(c) =
              IF PlAt(c.bins) = 0 THEN [NewBinary(Nobody, "PL_ONLY") EXCEPT !.pl = FALSE]
              ELSE c.bins[PlAt(c.bins)]
         /\ getAieBinary(c) =
              IF AieAt(c.bins) = 0 THEN [NewBinary(Nobody, "PL_ONLY") EXCEPT !.pl = FALSE]
              ELSE c.bins[AieAt(c.bins)]
  BY DEF getPlBinary, getAieBinary, First, PlAt, AieAt

\* Neither of the halves it lacks.
LEMMA NoHalf ==
  LET none == [NewBinary(Nobody, "PL_ONLY") EXCEPT !.pl = FALSE]
  IN  none.uuid = Nobody /\ none.pl = FALSE /\ none.aie = FALSE /\ none.plio = 0
  BY DEF NewBinary

\* The halves of a binary are those of its type.
LEMMA HalvesOfType ==
  ASSUME NEW b, NEW u
  PROVE  /\ IsBinary(b, u, "PL_ONLY") => b.pl = TRUE /\ b.aie = FALSE
         /\ IsBinary(b, u, "AIE_ONLY") => b.pl = FALSE /\ b.aie = TRUE
         /\ IsBinary(b, u, "AIE_PL") => b.pl = TRUE /\ b.aie = TRUE
<1>1. "PL_ONLY" \in {"AIE_PL", "PL_ONLY"} /\ "AIE_ONLY" \notin {"AIE_PL", "PL_ONLY"} OBVIOUS
<1>2. IsBinary(b, u, "PL_ONLY") => b.pl = TRUE /\ b.aie = FALSE BY DEF IsBinary
<1>3. IsBinary(b, u, "AIE_ONLY") => b.pl = FALSE
  <2>1. ("AIE_ONLY" \in {"AIE_PL", "PL_ONLY"}) = FALSE BY <1>1
  <2>2. IsBinary(b, u, "AIE_ONLY") => b.pl = ("AIE_ONLY" \in {"AIE_PL", "PL_ONLY"}) BY Zenon DEF IsBinary
  <2> QED BY <2>1, <2>2
<1>4. IsBinary(b, u, "AIE_ONLY") => b.aie = TRUE BY DEF IsBinary
<1>5. IsBinary(b, u, "AIE_PL") => b.pl = TRUE /\ b.aie = TRUE BY DEF IsBinary
<1> QED BY <1>2, <1>3, <1>4, <1>5

\* Where the halves are in a configuration.
LEMMA HalvesAt ==
  ASSUME NEW c, Binaried(c)
  PROVE  /\ \A x : IsWhole(c, x) => PlAt(c.bins) = (IF HasPL(x) THEN 1 ELSE 0)
                                    /\ AieAt(c.bins) = (IF HasAIE(x) THEN 1 ELSE 0)
         /\ \A p, a : IsFormed(c, p, a) =>
              /\ PlAt(c.bins) \in 1..2 /\ IsBinary(c.bins[PlAt(c.bins)], p, "PL_ONLY")
              /\ AieAt(c.bins) \in 1..2 /\ IsBinary(c.bins[AieAt(c.bins)], a, "AIE_ONLY")
<1>1. Len(c.bins) \in {1, 2} BY DEF Binaried
<1>2. /\ PlAt(c.bins) = IF c.bins[1].pl THEN 1 ELSE IF Len(c.bins) = 2 /\ c.bins[2].pl THEN 2 ELSE 0
      /\ AieAt(c.bins) = IF c.bins[1].aie THEN 1 ELSE IF Len(c.bins) = 2 /\ c.bins[2].aie THEN 2 ELSE 0
  BY <1>1, FirstBinary
<1>3. ASSUME NEW x, IsWhole(c, x)
      PROVE  PlAt(c.bins) = (IF HasPL(x) THEN 1 ELSE 0) /\ AieAt(c.bins) = (IF HasAIE(x) THEN 1 ELSE 0)
  <2>1. /\ Len(c.bins) = 1 /\ c.bins[1].pl = (TypeOf[x] \in {"AIE_PL", "PL_ONLY"})
        /\ c.bins[1].aie = (TypeOf[x] # "PL_ONLY")
    BY <1>3 DEF IsWhole, IsBinary
  <2> QED BY <1>2, <2>1 DEF HasPL, HasAIE
<1>4. ASSUME NEW p, NEW a, IsFormed(c, p, a)
      PROVE  /\ PlAt(c.bins) \in 1..2 /\ IsBinary(c.bins[PlAt(c.bins)], p, "PL_ONLY")
             /\ AieAt(c.bins) \in 1..2 /\ IsBinary(c.bins[AieAt(c.bins)], a, "AIE_ONLY")
  <2>0. Len(c.bins) = 2 BY <1>4 DEF IsFormed
  <2>1. CASE IsBinary(c.bins[1], p, "PL_ONLY") /\ IsBinary(c.bins[2], a, "AIE_ONLY")
    <3>1. c.bins[1].pl = TRUE /\ c.bins[1].aie = FALSE /\ c.bins[2].aie = TRUE BY <2>1, HalvesOfType
    <3>2. PlAt(c.bins) = 1 /\ AieAt(c.bins) = 2 BY <1>2, <2>0, <3>1
    <3> QED BY <2>1, <3>2
  <2>2. CASE IsBinary(c.bins[1], a, "AIE_ONLY") /\ IsBinary(c.bins[2], p, "PL_ONLY")
    <3>1. c.bins[1].pl = FALSE /\ c.bins[1].aie = TRUE /\ c.bins[2].pl = TRUE BY <2>2, HalvesOfType
    <3>2. PlAt(c.bins) = 2 /\ AieAt(c.bins) = 1 BY <1>2, <2>0, <3>1
    <3> QED BY <2>2, <3>2
  <2> QED BY <1>4, <2>1, <2>2 DEF IsFormed
<1> QED BY <1>3, <1>4

\* The getters give the halves that the configuration tells.
LEMMA Told ==
  ASSUME NEW c, NEW p, NEW a, Tells(c, p, a)
  PROVE  /\ getPlBinary(c).uuid = p /\ getAieBinary(c).uuid = a
         /\ c.type # "AIE_PL_FORMED" => getNumTracePLIO(c) = IF p = Nobody THEN 0 ELSE PlioOf[p]
<1>1. ASSUME NEW x \in Binaries, IsWhole(c, x), p = PlOf(x), a = AieOf(x)
      PROVE  /\ getPlBinary(c).uuid = p /\ getAieBinary(c).uuid = a
             /\ getNumTracePLIO(c) = IF p = Nobody THEN 0 ELSE PlioOf[p]
  <2>1. Binaried(c) BY <1>1, ShapesBinaried
  <2>2. /\ PlAt(c.bins) = (IF HasPL(x) THEN 1 ELSE 0)
        /\ AieAt(c.bins) = (IF HasAIE(x) THEN 1 ELSE 0)
    BY <1>1, <2>1, HalvesAt
  <2>3. c.bins[1].uuid = x /\ c.bins[1].plio = PlioOf[x] /\ c.bins[1].aie = (TypeOf[x] # "PL_ONLY")
    BY <1>1 DEF IsWhole, IsBinary
  <2>4. PICK none : none = [NewBinary(Nobody, "PL_ONLY") EXCEPT !.pl = FALSE] OBVIOUS
  <2>5. none.uuid = Nobody /\ none.aie = FALSE /\ none.plio = 0 BY <2>4, NoHalf
  <2>6. /\ getPlBinary(c) = IF HasPL(x) THEN c.bins[1] ELSE none
        /\ getAieBinary(c) = IF HasAIE(x) THEN c.bins[1] ELSE none
    BY <2>2, <2>4, Getters
  <2>7. x # Nobody /\ PlioOf[x] \in Nat /\ (PlioOf[x] > 0 => HasPL(x)) /\ (HasPL(x) \/ HasAIE(x))
    BY InfoAssumption DEF HasPL, HasAIE
  <2>8. getNumTracePLIO(c) = IF HasAIE(x) THEN c.bins[1].plio ELSE getPlBinary(c).plio
    BY <2>3, <2>5, <2>6 DEF getNumTracePLIO, HasAIE
  <2>9. getNumTracePLIO(c) = PlioOf[x] BY <2>3, <2>6, <2>7, <2>8
  <2>10. ~HasPL(x) => PlioOf[x] = 0 BY <2>7
  <2> QED BY <1>1, <2>3, <2>5, <2>6, <2>7, <2>9, <2>10 DEF PlOf, AieOf
<1>2. ASSUME IsFormed(c, p, a)
      PROVE  getPlBinary(c).uuid = p /\ getAieBinary(c).uuid = a /\ c.type = "AIE_PL_FORMED"
  <2>1. Binaried(c) BY <1>2, ShapesBinaried
  <2>2. /\ PlAt(c.bins) \in 1..2 /\ IsBinary(c.bins[PlAt(c.bins)], p, "PL_ONLY")
        /\ AieAt(c.bins) \in 1..2 /\ IsBinary(c.bins[AieAt(c.bins)], a, "AIE_ONLY")
    BY <1>2, <2>1, HalvesAt
  <2>3. getPlBinary(c) = c.bins[PlAt(c.bins)] /\ getAieBinary(c) = c.bins[AieAt(c.bins)] BY <2>2, Getters
  <2> QED BY <1>2, <2>2, <2>3 DEF IsBinary, IsFormed
<1> QED BY <1>1, <1>2 DEF Tells

WithBin(c, k, b) == [c EXCEPT !.bins[k] = b]

\* b is a binary of the same xclbin and type as e
SameBin(b, e) ==
  /\ b \in BinRec /\ e \in BinRec /\ b.uuid = e.uuid /\ b.type = e.type
  /\ b.pl = e.pl /\ b.aie = e.aie

\* new has b in the place of binary k of c
Replaced(new, c, k, b) ==
  /\ IsConfig(new) /\ new.type = c.type /\ new.intf = c.intf
  /\ IsList(new.bins) /\ Len(new.bins) = Len(c.bins)
  /\ \A i \in 1..Len(c.bins) : new.bins[i] = IF i = k THEN b ELSE c.bins[i]
  /\ \A i \in 1..Len(c.bins) : \A u, type :
       IsBinary(c.bins[i], u, type) => IsBinary(new.bins[i], u, type)

\* The binary at k is replaced by one of the same xclbin and type.
LEMMA BinReplaced ==
  ASSUME NEW c, Binaried(c), NEW k \in 1..Len(c.bins), NEW b, SameBin(b, c.bins[k])
  PROVE  Replaced(WithBin(c, k, b), c, k, b)
<1>0. PICK new : new = WithBin(c, k, b) OBVIOUS
<1>1. PICK n \in Nat : n = Len(c.bins) BY DEF Binaried, IsList
<1>2. PICK bins : bins = [i \in 1..n |-> IF i = k THEN b ELSE c.bins[i]] OBVIOUS
<1>3. DOMAIN c.bins = 1..n BY <1>1 DEF Binaried, IsList
<1>4. Len(bins) = n /\ IsList(bins) BY <1>2, FcnIsList
<1>5. [c.bins EXCEPT ![k] = b] = bins BY <1>1, <1>2, <1>3
<1>6. new = [type |-> c.type, bins |-> bins, intf |-> c.intf]
  BY <1>0, <1>5 DEF Binaried, IsConfig, WithBin
<1>7. \A i \in 1..n : \A u, type : IsBinary(c.bins[i], u, type) => IsBinary(bins[i], u, type)
  BY <1>1, <1>2 DEF IsBinary, SameBin
<1>8. IsConfig(new) BY <1>6 DEF Binaried, IsConfig
<1>9. new.bins = bins /\ new.type = c.type /\ new.intf = c.intf BY <1>6
<1>10. Replaced(new, c, k, b) BY <1>1, <1>2, <1>4, <1>7, <1>8, <1>9 DEF Replaced
<1> QED BY <1>0, <1>10

\* AIE profile marks the AIE half only.
LEMMA CountersAdded ==
  ASSUME NEW c
  PROVE  /\ IsConfig(c) => /\ IsConfig(addAIECounter(c)) /\ addAIECounter(c).intf = c.intf
                           /\ addAIECounter(c).type = c.type
         /\ IsElfConfig(c) => IsElfConfig(addAIECounter(c))
         /\ \A p, a : Tells(c, p, a) => Tells(addAIECounter(c), p, a)
         /\ Binaried(c) => \A u : containsBinary(c, u) => containsBinary(addAIECounter(c), u)
<1> DEFINE k == AieAt(c.bins)
           b == [c.bins[k] EXCEPT !.counters = TRUE, !.read = TRUE]
<1>1. addAIECounter(c) = IF k = 0 THEN c ELSE [c EXCEPT !.bins[k] = b]
  BY DEF addAIECounter, OnAie, AieAt
<1>2. IsConfig(c) => /\ IsConfig(addAIECounter(c)) /\ addAIECounter(c).intf = c.intf
                     /\ addAIECounter(c).type = c.type
  <2> SUFFICES ASSUME IsConfig(c), k # 0
               PROVE  /\ IsConfig(addAIECounter(c)) /\ addAIECounter(c).intf = c.intf
                      /\ addAIECounter(c).type = c.type
    BY <1>1
  <2>1. PICK bins : bins = [c.bins EXCEPT ![k] = b] OBVIOUS
  <2>2. addAIECounter(c) = [type |-> c.type, bins |-> bins, intf |-> c.intf] BY <1>1, <2>1 DEF IsConfig
  <2> QED BY <2>2 DEF IsConfig
<1>3. ASSUME Binaried(c), k # 0
      PROVE  /\ k \in 1..Len(c.bins) /\ IsConfig(addAIECounter(c))
             /\ addAIECounter(c).type = c.type /\ addAIECounter(c).intf = c.intf
             /\ IsList(addAIECounter(c).bins) /\ Len(addAIECounter(c).bins) = Len(c.bins)
             /\ \A i \in 1..Len(c.bins) :
                  /\ addAIECounter(c).bins[i].plio = c.bins[i].plio
                  /\ addAIECounter(c).bins[i].uuid = c.bins[i].uuid
                  /\ \A u, type :
                       IsBinary(c.bins[i], u, type) => IsBinary(addAIECounter(c).bins[i], u, type)
  <2>1. Len(c.bins) \in {1, 2} BY <1>3 DEF Binaried
  <2>2. k \in 1..Len(c.bins) BY <1>3, <2>1, FirstBinary
  <2>3. c.bins[k] \in BinRec BY <1>3, <2>2 DEF Binaried
  <2>4. SameBin(b, c.bins[k]) /\ b.uuid = c.bins[k].uuid /\ b.plio = c.bins[k].plio
    BY <2>3 DEF BinRec, SameBin
  <2>5. addAIECounter(c) = WithBin(c, k, b) BY <1>1, <1>3 DEF WithBin
  <2> HIDE DEF b, k
  <2>6. Replaced(addAIECounter(c), c, k, b) BY <1>3, <2>2, <2>4, <2>5, BinReplaced
  <2> QED BY <2>2, <2>4, <2>6 DEF Replaced
<1>4. CASE k = 0 BY <1>1, <1>2, <1>4
<1>5. CASE k # 0
  <2> HIDE DEF b, k
  <2>1. IsElfConfig(c) => IsElfConfig(addAIECounter(c))
    <3> SUFFICES ASSUME IsElfConfig(c) PROVE IsElfConfig(addAIECounter(c)) OBVIOUS
    <3>1. Binaried(c) /\ Len(c.bins) = 1 /\ 1 \in 1..1 BY ShapesBinaried DEF IsElfConfig
    <3> QED BY <1>3, <1>5, <3>1 DEF IsElfConfig
  <2>2. ASSUME NEW x, IsWhole(c, x) PROVE IsWhole(addAIECounter(c), x)
    <3>1. Binaried(c) /\ Len(c.bins) = 1 /\ 1 \in 1..1 BY <2>2, ShapesBinaried DEF IsWhole
    <3> QED BY <1>3, <1>5, <2>2, <3>1 DEF IsWhole
  <2>3. ASSUME NEW p, NEW a, IsFormed(c, p, a) PROVE IsFormed(addAIECounter(c), p, a)
    <3>1. Binaried(c) /\ Len(c.bins) = 2 /\ 1 \in 1..2 /\ 2 \in 1..2 BY <2>3, ShapesBinaried DEF IsFormed
    <3> QED BY <1>3, <1>5, <2>3, <3>1 DEF IsFormed
  <2>4. ASSUME Binaried(c), NEW u, containsBinary(c, u) PROVE containsBinary(addAIECounter(c), u)
    <3>1. PICK i \in 1..Len(c.bins) : c.bins[i].uuid = u
      BY <2>4 DEF containsBinary, Range, Binaried, IsList
    <3>2. addAIECounter(c).bins[i].uuid = u /\ i \in DOMAIN addAIECounter(c).bins
      BY <1>3, <1>5, <2>4, <3>1 DEF IsList
    <3> QED BY <3>2 DEF containsBinary, Range
  <2> QED BY <1>2, <2>1, <2>2, <2>3, <2>4 DEF Tells
<1> QED BY <1>4, <1>5

\* the binary that the trace data movers of c are counted in
CountedIn(c, k) ==
  /\ k = IF AieAt(c.bins) = 0 THEN PlAt(c.bins) ELSE AieAt(c.bins)
  /\ AieAt(c.bins) # 0 => c.bins[k].aie = TRUE

\* The trace data movers are counted in the AIE half, or in the PL half.
LEMMA DataMovers ==
  ASSUME NEW c, Binaried(c), NEW n \in Nat, NEW k \in 1..Len(c.bins), CountedIn(c, k)
  PROVE  \E b : Replaced(initializeTS2MM(c, n), c, k, b) /\ b.plio = c.bins[k].plio + n
<1>1. PICK b : b = [c.bins[k] EXCEPT !.plio = @ + n] OBVIOUS
<1>2. c.bins[k] \in BinRec BY DEF Binaried
<1>3. c.bins[k].plio + n \in Nat BY <1>2 DEF BinRec
<1>4. SameBin(b, c.bins[k]) /\ b.plio = c.bins[k].plio + n BY <1>1, <1>2, <1>3 DEF BinRec, SameBin
<1>5. PICK none : none = [NewBinary(Nobody, "PL_ONLY") EXCEPT !.pl = FALSE] /\ none.aie = FALSE BY NoHalf
<1>6. initializeTS2MM(c, n) = WithBin(c, k, b)
  <2>1. CASE AieAt(c.bins) # 0
    <3>1. getAieBinary(c).aie = TRUE /\ k = AieAt(c.bins) BY <2>1, Getters DEF CountedIn
    <3>2. initializeTS2MM(c, n) = OnAie(c, LAMBDA e : [e EXCEPT !.plio = @ + n])
      BY <3>1 DEF initializeTS2MM
    <3> QED BY <1>1, <2>1, <3>1, <3>2 DEF OnAie, AieAt, WithBin
  <2>2. CASE AieAt(c.bins) = 0
    <3>1. getAieBinary(c).aie = FALSE BY <1>5, <2>2, Getters
    <3>2. initializeTS2MM(c, n) = [c EXCEPT !.bins[PlAt(c.bins)].plio = @ + n]
      BY <3>1 DEF initializeTS2MM, PlAt
    <3>3. PlAt(c.bins) = k BY <2>2 DEF CountedIn
    <3> QED BY <1>1, <3>2, <3>3 DEF WithBin
  <2> QED BY <2>1, <2>2
<1>7. Replaced(initializeTS2MM(c, n), c, k, b) BY <1>4, <1>6, BinReplaced
<1> QED BY <1>4, <1>7

\* A new configuration is of one binary, or of two halves.
LEMMA NewWhole ==
  ASSUME NEW x \in Binaries, TypeOf[x] # "ELF",
         NEW c, c = [type |-> TypeOf[x], bins |-> <<NewBinary(x, TypeOf[x])>>, intf |-> NoIntf]
  PROVE  IsWhole(initializeTS2MM(c, PlioOf[x]), x) /\ initializeTS2MM(c, PlioOf[x]).intf = NoIntf
<1>1. PICK b : b = NewBinary(x, TypeOf[x]) OBVIOUS
<1>2. TypeOf[x] \in Types /\ PlioOf[x] \in Nat BY InfoAssumption DEF Types
<1>3. IsBinary(b, x, TypeOf[x]) /\ b.plio = 0 /\ b \in BinRec
  BY <1>1, <1>2 DEF NewBinary, IsBinary, BinRec
<1>4. c.type = TypeOf[x] /\ c.bins = <<b>> /\ c.intf = 0 /\ IsConfig(c) BY <1>1 DEF IsConfig, NoIntf
<1>5. Len(c.bins) = 1 /\ IsList(c.bins) /\ c.bins[1] = b /\ 1 \in 1..1 BY <1>4 DEF IsList
<1>6. Binaried(c) BY <1>3, <1>4, <1>5 DEF Binaried
<1>7. /\ PlAt(c.bins) = IF b.pl THEN 1 ELSE 0
      /\ AieAt(c.bins) = IF b.aie THEN 1 ELSE 0
  BY <1>5, FirstBinary
<1>8. b.pl = (TypeOf[x] \in {"AIE_PL", "PL_ONLY"}) /\ b.aie = (TypeOf[x] # "PL_ONLY") BY <1>3 DEF IsBinary
<1>9. /\ 1 = IF AieAt(c.bins) = 0 THEN PlAt(c.bins) ELSE AieAt(c.bins)
      /\ AieAt(c.bins) # 0 => c.bins[1].aie = TRUE
  BY <1>3, <1>5, <1>7, <1>8 DEF BinRec
<1>10. PICK new : new = initializeTS2MM(c, PlioOf[x]) OBVIOUS
<1>11. /\ IsConfig(new) /\ new.type = c.type /\ new.intf = c.intf
       /\ IsList(new.bins) /\ Len(new.bins) = Len(c.bins)
       /\ new.bins[1].plio = c.bins[1].plio + PlioOf[x]
       /\ \A i \in 1..Len(c.bins) : \A u, type :
            IsBinary(c.bins[i], u, type) => IsBinary(new.bins[i], u, type)
  <2>1. PICK k \in 1..Len(c.bins) : k = 1 BY <1>5
  <2>2. CountedIn(c, k) BY <1>9, <2>1 DEF CountedIn
  <2>3. PICK e : Replaced(new, c, k, e) /\ e.plio = c.bins[k].plio + PlioOf[x]
    BY <1>2, <1>6, <1>10, <2>2, DataMovers
  <2>4. new.bins[k] = e BY <2>3 DEF Replaced
  <2> QED BY <2>1, <2>3, <2>4 DEF Replaced
<1> QED BY <1>2, <1>3, <1>4, <1>5, <1>10, <1>11 DEF IsWhole, NoIntf

\* The new half comes first.
LEMMA NewFormed ==
  ASSUME NEW x \in Binaries, TypeOf[x] \in {"PL_ONLY", "AIE_ONLY"}, NEW m \in Nat, NEW u \in Binaries,
         TypeOf[x] = "PL_ONLY" => HasAIE(u) /\ TypeOf[u] # "ELF", TypeOf[x] = "AIE_ONLY" => HasPL(u),
         NEW h, IsBinary(h, u, IF TypeOf[x] = "AIE_ONLY" THEN "PL_ONLY" ELSE "AIE_ONLY"),
         NEW c, c = [type |-> "AIE_PL_FORMED", intf |-> NoIntf,
                     bins |-> <<[NewBinary(x, TypeOf[x]) EXCEPT !.plio = m]>> \o <<h>>]
  PROVE  /\ IsFormed(initializeTS2MM(c, PlioOf[x]),
                     IF TypeOf[x] = "PL_ONLY" THEN x ELSE u, IF TypeOf[x] = "PL_ONLY" THEN u ELSE x)
         /\ initializeTS2MM(c, PlioOf[x]).intf = NoIntf
<1>1. PICK b : b = [NewBinary(x, TypeOf[x]) EXCEPT !.plio = m] OBVIOUS
<1>2. PlioOf[x] \in Nat BY InfoAssumption
<1>3. IsBinary(b, x, TypeOf[x]) /\ b \in BinRec
  <2>1. PICK e : e = NewBinary(x, TypeOf[x]) OBVIOUS
  <2>2. IsBinary(e, x, TypeOf[x]) /\ e \in BinRec BY <2>1 DEF NewBinary, IsBinary, BinRec, Types
  <2>3. b \in BinRec /\ b = [e EXCEPT !.plio = m] BY <1>1, <2>1, <2>2 DEF BinRec
  <2>4. b.uuid = e.uuid /\ b.type = e.type /\ b.pl = e.pl /\ b.aie = e.aie BY <2>2, <2>3 DEF BinRec
  <2> QED BY <2>2, <2>3, <2>4 DEF IsBinary
<1>4. h \in BinRec BY DEF IsBinary
<1>5. c.type = "AIE_PL_FORMED" /\ c.bins = <<b>> \o <<h>> /\ c.intf = 0 /\ IsConfig(c)
  BY <1>1 DEF IsConfig, NoIntf
<1>6. c.bins \in Seq(BinRec) /\ Len(c.bins) = 2 /\ c.bins[1] = b /\ c.bins[2] = h
  <2>1. <<b>> \in Seq(BinRec) /\ <<h>> \in Seq(BinRec) BY <1>3, <1>4
  <2> QED BY <1>5, <2>1
<1>7. Len(c.bins) = 2 /\ IsList(c.bins) /\ c.bins[1] = b /\ c.bins[2] = h BY <1>6, SeqIsList
<1>8. \A i \in 1..2 : i = 1 \/ i = 2 OBVIOUS
<1>9. Binaried(c) BY <1>3, <1>4, <1>5, <1>7, <1>8 DEF Binaried
<1>10. PICK k \in 1..Len(c.bins) : CountedIn(c, k)
  <2>1. AieAt(c.bins) = IF b.aie THEN 1 ELSE IF h.aie THEN 2 ELSE 0 
    <3>1. PICK bins : bins = c.bins OBVIOUS
    <3>2. Len(bins) \in {1, 2} /\ Len(bins) = 2 BY <1>7, <3>1
    <3>3. AieAt(bins) = IF bins[1].aie THEN 1 ELSE IF Len(bins) = 2 /\ bins[2].aie THEN 2 ELSE 0
      BY <3>2, FirstBinary
    <3> QED BY <1>7, <3>1, <3>2, <3>3
  <2>2. CASE TypeOf[x] = "PL_ONLY"
    <3>1. b.aie = FALSE /\ h.aie = TRUE BY <1>3, <2>2, HalvesOfType
    <3>2. AieAt(c.bins) = 2 BY <2>1, <3>1
    <3> QED BY <1>7, <3>1, <3>2 DEF CountedIn
  <2>3. CASE TypeOf[x] = "AIE_ONLY"
    <3>1. b.aie = TRUE BY <1>3, <2>3, HalvesOfType
    <3>2. AieAt(c.bins) = 1 BY <2>1, <3>1
    <3> QED BY <1>7, <3>1, <3>2 DEF CountedIn
  <2> QED BY <2>2, <2>3
<1>11. PICK new : new = initializeTS2MM(c, PlioOf[x]) OBVIOUS
<1>12. /\ IsConfig(new) /\ new.type = c.type /\ new.intf = c.intf
       /\ IsList(new.bins) /\ Len(new.bins) = Len(c.bins)
       /\ \A i \in 1..Len(c.bins) : \A v, type :
            IsBinary(c.bins[i], v, type) => IsBinary(new.bins[i], v, type)
  <2>1. PICK e : Replaced(new, c, k, e) BY <1>2, <1>9, <1>10, <1>11, DataMovers
  <2> QED BY <2>1 DEF Replaced
<1>13. IsBinary(new.bins[1], x, TypeOf[x])
  <2>1. 1 \in 1..Len(c.bins) BY <1>7
  <2> QED BY <1>3, <1>7, <1>12, <2>1
<1>14. IsBinary(new.bins[2], u, IF TypeOf[x] = "AIE_ONLY" THEN "PL_ONLY" ELSE "AIE_ONLY")
  <2>1. 2 \in 1..Len(c.bins) BY <1>7
  <2> QED BY <1>7, <1>12, <2>1
<1>15. CASE TypeOf[x] = "PL_ONLY"
  BY <1>5, <1>7, <1>11, <1>12, <1>13, <1>14, <1>15 DEF IsFormed, HasPL, NoIntf
<1>16. CASE TypeOf[x] = "AIE_ONLY"
  BY <1>5, <1>7, <1>11, <1>12, <1>13, <1>14, <1>16 DEF IsFormed, HasAIE, NoIntf
<1> QED BY <1>15, <1>16

\* The halves on the device after x was loaded.
PlNow(x, p) == IF HasPL(x) THEN x ELSE p
AieNow(x, a) == IF HasAIE(x) THEN x ELSE a

\* The configuration that is built for x has its halves and the other half that was
\* on the device.
LEMMA BuiltTells ==
  ASSUME NEW old, NEW cfgs, IsList(cfgs), Len(cfgs) = Len(old),
         old # <<>> => Like(cfgs[Len(cfgs)], old[Len(old)]),
         NEW p \in Binaries \cup {Nobody}, NEW a \in Binaries \cup {Nobody}, Reflects(old, p, a),
         NEW x \in Binaries, TypeOf[x] # "ELF"
  PROVE  LET new == initializeTS2MM(buildConfig(cfgs, x), PlioOf[x])
         IN  Tells(new, PlNow(x, p), AieNow(x, a)) /\ new.intf = NoIntf
<1>1. TypeOf[x] \in {"AIE_PL", "PL_ONLY", "AIE_ONLY"} BY InfoAssumption
<1>2. PICK query \in {"PL_ONLY", "AIE_ONLY"} : query = IF TypeOf[x] = "AIE_ONLY" THEN "PL_ONLY" ELSE "AIE_ONLY"
  OBVIOUS
<1>3. PICK u : u = IF query = "PL_ONLY" THEN p ELSE a OBVIOUS
<1>4. IF u = Nobody THEN fromLastConfig(cfgs, query) = <<>>
      ELSE /\ u \in Binaries /\ (query = "PL_ONLY" => HasPL(u))
           /\ query = "AIE_ONLY" => HasAIE(u) /\ TypeOf[u] # "ELF"
           /\ \E b : fromLastConfig(cfgs, query) = <<b>> /\ IsBinary(b, u, query)
  BY <1>3, MissingFound
<1>5. CASE TypeOf[x] = "AIE_PL" \/ u = Nobody
  <2>1. PICK c : c = [type |-> TypeOf[x], bins |-> <<NewBinary(x, TypeOf[x])>>, intf |-> NoIntf] OBVIOUS
  <2>2. buildConfig(cfgs, x) = c BY <1>2, <1>4, <1>5, <2>1 DEF buildConfig
  <2>3. IsWhole(initializeTS2MM(c, PlioOf[x]), x) /\ initializeTS2MM(c, PlioOf[x]).intf = NoIntf
    BY <2>1, NewWhole
  <2>4. PlNow(x, p) = PlOf(x) /\ AieNow(x, a) = AieOf(x)
    BY <1>1, <1>2, <1>3, <1>5 DEF PlNow, AieNow, PlOf, AieOf, HasPL, HasAIE
  <2> QED BY <2>2, <2>3, <2>4 DEF Tells
<1>6. CASE TypeOf[x] # "AIE_PL" /\ u # Nobody
  <2>1. PICK h : fromLastConfig(cfgs, query) = <<h>> /\ IsBinary(h, u, query) BY <1>4, <1>6
  <2>2. PICK m \in Nat : m = Last(Last(cfgs).bins).plio
    <3>1. old # <<>> /\ cfgs # <<>>
      <4>1. old # <<>> BY <1>3, <1>6 DEF Reflects
      <4> QED BY <4>1 DEF Reflects, IsList
    <3>2. PICK c : c = cfgs[Len(cfgs)] /\ c = Last(cfgs) BY DEF Last
    <3>3. Binaried(c) BY <3>1, <3>2 DEF Like
    <3>4. Len(c.bins) \in 1..Len(c.bins) BY <3>3 DEF Binaried
    <3>5. c.bins[Len(c.bins)] \in BinRec BY <3>3, <3>4 DEF Binaried
    <3>6. Last(c.bins) \in BinRec BY <3>5 DEF Last
    <3> QED BY <3>2, <3>6 DEF BinRec
  <2>3. PICK c : c = [type |-> "AIE_PL_FORMED", intf |-> NoIntf,
                      bins |-> <<[NewBinary(x, TypeOf[x]) EXCEPT !.plio = m]>> \o <<h>>]
    OBVIOUS
  <2>4. fromLastConfig(cfgs, query) # <<>> BY <2>1
  <2>5. buildConfig(cfgs, x) = c BY <1>2, <1>6, <2>1, <2>2, <2>3, <2>4 DEF buildConfig
  <2>6. u \in Binaries /\ (TypeOf[x] = "PL_ONLY" => HasAIE(u) /\ TypeOf[u] # "ELF")
        /\ (TypeOf[x] = "AIE_ONLY" => HasPL(u))
    BY <1>2, <1>4, <1>6
  <2>7. TypeOf[x] \in {"PL_ONLY", "AIE_ONLY"} BY <1>1, <1>6
  <2>8. IsBinary(h, u, IF TypeOf[x] = "AIE_ONLY" THEN "PL_ONLY" ELSE "AIE_ONLY") BY <1>2, <2>1
  <2>9. /\ IsFormed(initializeTS2MM(c, PlioOf[x]),
                    IF TypeOf[x] = "PL_ONLY" THEN x ELSE u, IF TypeOf[x] = "PL_ONLY" THEN u ELSE x)
        /\ initializeTS2MM(c, PlioOf[x]).intf = NoIntf
    BY <2>3, <2>6, <2>7, <2>8, NewFormed
  <2>10. /\ PlNow(x, p) = IF TypeOf[x] = "PL_ONLY" THEN x ELSE u
         /\ AieNow(x, a) = IF TypeOf[x] = "PL_ONLY" THEN u ELSE x
    BY <1>2, <1>3, <2>7 DEF PlNow, AieNow, HasPL, HasAIE
  <2> QED BY <2>5, <2>9, <2>10 DEF Tells
<1> QED BY <1>5, <1>6

-----------------------------------------------------------------------------
(* The lists of configurations                                             *)

Put(info, d, k, c) == [info EXCEPT ![d][k] = c]
SetIntf(c, i) == [c EXCEPT !.intf = i]

\* A configuration is replaced.
LEMMA PutKeeps ==
  ASSUME NEW info, InfoOK(info), NEW d \in DOMAIN info, NEW k \in 1..Len(info[d]), NEW c, IsConfig(c)
  PROVE  LET new == Put(info, d, k, c)
         IN  /\ InfoOK(new) /\ DOMAIN new = DOMAIN info
             /\ \A e \in DOMAIN info : e # d => new[e] = info[e]
             /\ Len(new[d]) = Len(info[d])
             /\ \A j \in 1..Len(info[d]) : new[d][j] = IF j = k THEN c ELSE info[d][j]
<1>1. PICK n \in Nat : n = Len(info[d]) /\ info[d] = [j \in 1..n |-> info[d][j]] BY DEF InfoOK, IsList
<1>2. PICK s : s = [info[d] EXCEPT ![k] = c] OBVIOUS
<1>3. s = [j \in 1..n |-> IF j = k THEN c ELSE info[d][j]] BY <1>1, <1>2
<1>4. Len(s) = n /\ IsList(s) BY <1>3, FcnIsList
<1>5. PICK new : new = Put(info, d, k, c) OBVIOUS
<1>6. new = [info EXCEPT ![d] = s] BY <1>2, <1>5 DEF Put
<1>7. /\ DOMAIN new = DOMAIN info /\ new[d] = s /\ \A e \in DOMAIN info : e # d => new[e] = info[e]
      /\ new = [e \in DOMAIN new |-> new[e]]
  BY <1>6 DEF InfoOK
<1>8. \A j \in 1..n : IsConfig(s[j]) BY <1>1, <1>3 DEF InfoOK
<1>9. InfoOK(new)
  <2>1. ASSUME NEW e \in DOMAIN new PROVE IsList(new[e]) /\ \A j \in 1..Len(new[e]) : IsConfig(new[e][j])
    <3>1. CASE e = d BY <1>4, <1>7, <1>8, <3>1
    <3>2. CASE e # d BY <1>7, <3>2 DEF InfoOK
    <3> QED BY <3>1, <3>2
  <2> QED BY <1>7, <2>1 DEF InfoOK
<1> QED BY <1>1, <1>3, <1>4, <1>5, <1>7, <1>9

\* A configuration gets another interface.
LEMMA SetIntfIs ==
  ASSUME NEW c, IsConfig(c), NEW i \in Nat
  PROVE  /\ IsConfig(SetIntf(c, i)) /\ SetIntf(c, i).intf = i
         /\ SetIntf(c, i).bins = c.bins /\ SetIntf(c, i).type = c.type
<1>1. SetIntf(c, i) = [type |-> c.type, bins |-> c.bins, intf |-> i] BY DEF SetIntf, IsConfig
<1> QED BY <1>1 DEF IsConfig

\* No two configurations have the same interface.
LEMMA OneOwner ==
  ASSUME NEW info, NEW n, Owned(info, n), NEW d \in DOMAIN info, NEW e \in DOMAIN info,
         NEW j \in 1..Len(info[d]), NEW k \in 1..Len(info[e]), NEW i, i # NoIntf,
         info[d][j].intf = i, info[e][k].intf = i
  PROVE  d = e /\ j = k
  BY DEF Owned

\* every interface of new is one that info had at the same place, or none
OldOrNone(new, info) ==
  \A d \in DOMAIN new : \A k \in 1..Len(new[d]) :
    \/ new[d][k].intf = NoIntf
    \/ d \in DOMAIN info /\ k \in 1..Len(info[d]) /\ new[d][k].intf = info[d][k].intf

\* Then the interfaces have one owner each.
LEMMA OwnedStays ==
  ASSUME NEW info, InfoOK(info), NEW n \in Nat, Owned(info, n), NEW m \in Nat, n <= m, NEW new, InfoOK(new),
         OldOrNone(new, info)
  PROVE  Owned(new, m)
<1>1. ASSUME NEW d \in DOMAIN new, NEW k \in 1..Len(new[d]) PROVE new[d][k].intf <= m
  <2>1. CASE new[d][k].intf = NoIntf BY <2>1 DEF NoIntf
  <2>2. CASE d \in DOMAIN info /\ k \in 1..Len(info[d]) /\ new[d][k].intf = info[d][k].intf
    <3>1. info[d][k].intf <= n /\ info[d][k].intf \in Nat BY <2>2 DEF Owned, InfoOK, IsConfig
    <3> QED BY <2>2, <3>1
  <2> QED BY <2>1, <2>2 DEF OldOrNone
<1>2. ASSUME NEW d \in DOMAIN new, NEW e \in DOMAIN new, NEW j \in 1..Len(new[d]), NEW k \in 1..Len(new[e]),
             new[d][j].intf = new[e][k].intf, new[d][j].intf # NoIntf
      PROVE  d = e /\ j = k
  <2>1. d \in DOMAIN info /\ j \in 1..Len(info[d]) /\ new[d][j].intf = info[d][j].intf BY <1>2 DEF OldOrNone
  <2>2. e \in DOMAIN info /\ k \in 1..Len(info[e]) /\ new[e][k].intf = info[e][k].intf BY <1>2 DEF OldOrNone
  <2>3. PICK i : i = new[d][j].intf OBVIOUS
  <2>4. i # NoIntf /\ info[d][j].intf = i /\ info[e][k].intf = i BY <1>2, <2>1, <2>2, <2>3
  <2> QED BY <2>1, <2>2, <2>4, OneOwner
<1> QED BY <1>1, <1>2 DEF Owned

\* the same, but one place has interface i
NewAt(new, info, d0, k0, i) ==
  \A d \in DOMAIN new : \A k \in 1..Len(new[d]) :
    IF d = d0 /\ k = k0 THEN new[d][k].intf = i
    ELSE d \in DOMAIN info /\ k \in 1..Len(info[d]) /\ new[d][k].intf = info[d][k].intf

\* They have if that is the new one, too.
LEMMA OwnedNew ==
  ASSUME NEW info, InfoOK(info), NEW n \in Nat, Owned(info, n), NEW new, InfoOK(new), NEW d0, NEW k0,
         NewAt(new, info, d0, k0, n + 1)
  PROVE  Owned(new, n + 1)
<1>1. ASSUME NEW d \in DOMAIN new, NEW k \in 1..Len(new[d]), ~(d = d0 /\ k = k0)
      PROVE  /\ d \in DOMAIN info /\ k \in 1..Len(info[d]) /\ new[d][k].intf = info[d][k].intf
             /\ new[d][k].intf \in Nat /\ new[d][k].intf <= n
  <2>1. d \in DOMAIN info /\ k \in 1..Len(info[d]) /\ new[d][k].intf = info[d][k].intf BY <1>1 DEF NewAt
  <2>2. info[d][k].intf <= n /\ info[d][k].intf \in Nat BY <2>1 DEF Owned, InfoOK, IsConfig
  <2> QED BY <2>1, <2>2
<1>2. ASSUME NEW d \in DOMAIN new, NEW k \in 1..Len(new[d]), d = d0 /\ k = k0
      PROVE  new[d][k].intf = n + 1
  BY <1>2 DEF NewAt
<1>3. \A d \in DOMAIN new : \A k \in 1..Len(new[d]) : new[d][k].intf <= n + 1
  <2> TAKE d \in DOMAIN new
  <2> TAKE k \in 1..Len(new[d])
  <2>1. CASE d = d0 /\ k = k0 BY <1>2, <2>1
  <2>2. CASE ~(d = d0 /\ k = k0) BY <1>1, <2>2
  <2> QED BY <2>1, <2>2
<1>4. ASSUME NEW d \in DOMAIN new, NEW e \in DOMAIN new, NEW j \in 1..Len(new[d]), NEW k \in 1..Len(new[e]),
             new[d][j].intf = new[e][k].intf, new[d][j].intf # NoIntf
      PROVE  d = e /\ j = k
  <2>1. CASE d = d0 /\ j = k0
    <3>1. new[e][k].intf = n + 1 BY <1>2, <1>4, <2>1
    <3>2. e = d0 /\ k = k0
      <4> SUFFICES ASSUME ~(e = d0 /\ k = k0) PROVE FALSE OBVIOUS
      <4>1. new[e][k].intf \in Nat /\ new[e][k].intf <= n BY <1>1
      <4> QED BY <3>1, <4>1
    <3> QED BY <2>1, <3>2
  <2>2. CASE ~(d = d0 /\ j = k0)
    <3>1. /\ d \in DOMAIN info /\ j \in 1..Len(info[d]) /\ new[d][j].intf = info[d][j].intf
          /\ new[d][j].intf \in Nat /\ new[d][j].intf <= n
      BY <1>1, <2>2
    <3>2. ~(e = d0 /\ k = k0)
      <4> SUFFICES ASSUME e = d0 /\ k = k0 PROVE FALSE OBVIOUS
      <4>1. new[e][k].intf = n + 1 BY <1>2
      <4>2. new[d][j].intf = n + 1 BY <1>4, <4>1
      <4>3. n + 1 <= n BY <3>1, <4>2
      <4> QED BY <4>3
    <3>3. e \in DOMAIN info /\ k \in 1..Len(info[e]) /\ new[e][k].intf = info[e][k].intf BY <1>1, <3>2
    <3>4. PICK i : i = new[d][j].intf OBVIOUS
    <3>5. i # NoIntf /\ info[d][j].intf = i /\ info[e][k].intf = i BY <1>4, <3>1, <3>3, <3>4
    <3> QED BY <3>1, <3>3, <3>5, OneOwner
  <2> QED BY <2>1, <2>2
<1> QED BY <1>3, <1>4 DEF Owned

\* A configuration is added to a list.
LEMMA AppendIs ==
  ASSUME NEW s, IsList(s), NEW c
  PROVE  /\ IsList(Append(s, c)) /\ Len(Append(s, c)) = Len(s) + 1 /\ Append(s, c) # <<>>
         /\ Append(s, c)[Len(s) + 1] = c /\ \A k \in 1..Len(s) : Append(s, c)[k] = s[k]
<1>1. PICK n \in Nat : n = Len(s) /\ s = [k \in 1..n |-> s[k]] BY DEF IsList
<1>2. s \in Seq({s[k] : k \in 1..n} \cup {c}) /\ c \in {s[k] : k \in 1..n} \cup {c}
  <2>1. PICK S : S = {s[k] : k \in 1..n} \cup {c} OBVIOUS
  <2>2. \A k \in 1..n : s[k] \in S BY <2>1
  <2>3. s \in [1..n -> S] BY <1>1, <2>2
  <2> QED BY <2>1, <2>3
<1>3. Append(s, c) \in Seq({s[k] : k \in 1..n} \cup {c}) /\ Append(s, c) # <<>> BY <1>2
<1>4. IsList(Append(s, c)) BY <1>3, SeqIsList
<1> QED BY <1>1, <1>2, <1>3, <1>4

\* t is the list s with c at k
ListWith(t, s, k, c) ==
  IsList(t) /\ Len(t) = Len(s) /\ \A j \in 1..Len(s) : t[j] = IF j = k THEN c ELSE s[j]

\* A configuration of a list is replaced.
LEMMA ListReplaced ==
  ASSUME NEW s, IsList(s), NEW k \in 1..Len(s), NEW c, NEW t, t = [s EXCEPT ![k] = c]
  PROVE  ListWith(t, s, k, c)
<1>1. PICK n \in Nat : n = Len(s) /\ s = [j \in 1..n |-> s[j]] BY DEF IsList
<1>2. t = [j \in 1..n |-> IF j = k THEN c ELSE s[j]] BY <1>1
<1>3. Len(t) = n /\ IsList(t) BY <1>2, FcnIsList
<1> QED BY <1>1, <1>2, <1>3 DEF ListWith

\* the configurations of the list before a new one is built
Cleaned(before, type) ==
  IF before = <<>> \/ type = "ELF" THEN before
  ELSE [before EXCEPT ![Len(before)] = cleanCurrentBinaryInfos(before[Len(before)], type)]

\* cleanCurrentBinaryInfos leaves the interface alone.
LEMMA CleanedConfig ==
  ASSUME NEW c, IsConfig(c), NEW type
  PROVE  IsConfig(cleanCurrentBinaryInfos(c, type)) /\ cleanCurrentBinaryInfos(c, type).intf = c.intf
<1>1. PICK bins : bins = [k \in DOMAIN c.bins |->
                            IF c.bins[k].aie THEN [c.bins[k] EXCEPT !.aie = FALSE, !.counters = FALSE]
                            ELSE c.bins[k]]
  OBVIOUS
<1>2. CASE type = "AIE_ONLY" BY <1>2 DEF cleanCurrentBinaryInfos
<1>3. CASE type # "AIE_ONLY"
  <2>1. cleanCurrentBinaryInfos(c, type) = [c EXCEPT !.bins = bins] BY <1>1, <1>3 DEF cleanCurrentBinaryInfos
  <2>2. cleanCurrentBinaryInfos(c, type) = [type |-> c.type, bins |-> bins, intf |-> c.intf]
    BY <2>1 DEF IsConfig
  <2> QED BY <2>2 DEF IsConfig
<1> QED BY <1>2, <1>3

\* Cleaning the list keeps its length and its interfaces.
LEMMA CleanedList ==
  ASSUME NEW before, IsList(before), NEW type
  PROVE  LET s == Cleaned(before, type)
         IN  /\ IsList(s) /\ Len(s) = Len(before) /\ (s = <<>> <=> before = <<>>)
             /\ \A k \in 1..Len(before) :
                  s[k] = IF k = Len(before) /\ type # "ELF" THEN cleanCurrentBinaryInfos(before[k], type)
                         ELSE before[k]
<1>1. CASE before = <<>> \/ type = "ELF"
  <2>1. Cleaned(before, type) = before BY <1>1 DEF Cleaned
  <2>2. before = <<>> => Len(before) = 0 OBVIOUS
  <2> QED BY <1>1, <2>1, <2>2
<1>2. CASE ~(before = <<>> \/ type = "ELF")
  <2>1. Len(before) \in Nat /\ Len(before) # 0 BY <1>2 DEF IsList
  <2>2. Len(before) \in 1..Len(before) BY <2>1
  <2>3. PICK c : c = cleanCurrentBinaryInfos(before[Len(before)], type) OBVIOUS
  <2>4. PICK s : s = [before EXCEPT ![Len(before)] = c] OBVIOUS
  <2>5. Cleaned(before, type) = s BY <1>2, <2>3, <2>4 DEF Cleaned
  <2>6. IsList(s) /\ Len(s) = Len(before) /\ \A j \in 1..Len(before) : s[j] = IF j = Len(before) THEN c ELSE before[j]
    <3>1. PICK k \in 1..Len(before) : k = Len(before) BY <2>2
    <3>2. s = [before EXCEPT ![k] = c] BY <2>4, <3>1
    <3>3. ListWith(s, before, k, c)
      BY <3>1, <3>2, ListReplaced
    <3> QED BY <3>1, <3>3 DEF ListWith
  <2>7. s # <<>> BY <2>1, <2>6
  <2> QED BY <1>2, <2>3, <2>5, <2>6, <2>7
<1> QED BY <1>1, <1>2

\* The configuration that is added has no interface.
LEMMA BuiltConfig ==
  ASSUME NEW cfgs, NEW x
  PROVE  IsConfig(buildConfig(cfgs, x)) /\ buildConfig(cfgs, x).intf = NoIntf
<1>1. PICK t, b : buildConfig(cfgs, x) = [type |-> t, bins |-> b, intf |-> NoIntf] BY DEF buildConfig
<1> QED BY <1>1 DEF IsConfig, NoIntf

\* So does initializeTS2MM.
LEMMA MoversConfig ==
  ASSUME NEW c, IsConfig(c), NEW n
  PROVE  IsConfig(initializeTS2MM(c, n)) /\ initializeTS2MM(c, n).intf = c.intf
<1>1. \/ initializeTS2MM(c, n) = c
      \/ \E bins : initializeTS2MM(c, n) = [c EXCEPT !.bins = bins]
  BY DEF initializeTS2MM, OnAie
<1>2. ASSUME NEW bins, initializeTS2MM(c, n) = [c EXCEPT !.bins = bins]
      PROVE  IsConfig(initializeTS2MM(c, n)) /\ initializeTS2MM(c, n).intf = c.intf
  <2>1. initializeTS2MM(c, n) = [type |-> c.type, bins |-> bins, intf |-> c.intf] BY <1>2 DEF IsConfig
  <2> QED BY <2>1 DEF IsConfig
<1> QED BY <1>1, <1>2

ListOf(d) == IF d \in DOMAIN deviceInfo THEN deviceInfo[d] ELSE <<>>
Built(d, x) ==
  IF TypeOf[x] = "ELF" THEN buildConfig(Cleaned(ListOf(d), TypeOf[x]), x)
  ELSE initializeTS2MM(buildConfig(Cleaned(ListOf(d), TypeOf[x]), x), PlioOf[x])

\* updated in terms of these.
LEMMA UpdatedIs ==
  ASSUME NEW d, NEW x
  PROVE  updated(d, x) = IF x \in Incomplete /\ TypeOf[x] # "AIE_ONLY" THEN Cleaned(ListOf(d), TypeOf[x])
                         ELSE Append(Cleaned(ListOf(d), TypeOf[x]), Built(d, x))
  BY DEF updated, Cleaned, ListOf, Built

\* The configuration that is added is one without an interface.
LEMMA BuiltIs ==
  ASSUME NEW d, NEW x
  PROVE  IsConfig(Built(d, x)) /\ Built(d, x).intf = NoIntf
  BY BuiltConfig, MoversConfig DEF Built

\* the parts of updateInfo
DevOf(x, p) == Passes(p) /\ TypeOf[x] # "ELF"
News(d, x, p) == resetDeviceInfo(d, x, DevOf(x, p))
OnlyIntf(d, x, p) == addPlIntfOnly(d, x, DevOf(x, p))
Listed(d, x, p) == News(d, x, p) /\ ~OnlyIntf(d, x, p)
Makes(d, x, p) == News(d, x, p) /\ DevOf(x, p) /\ (x \notin Incomplete \/ TypeOf[x] = "AIE_ONLY" \/ OnlyIntf(d, x, p))
NextInfo(d, x, p) ==
  IF ~Listed(d, x, p) THEN deviceInfo
  ELSE [e \in DOMAIN deviceInfo \cup {d} |-> IF e = d THEN updated(d, x) ELSE deviceInfo[e]]
MadeInfo(d, x, p, readable) ==
  IF Makes(d, x, p) THEN createPLDeviceIntf(NextInfo(d, x, p), d, TypeOf[x], Len(intfFor) + 1, readable)
  ELSE NextInfo(d, x, p)
Counted(info, d) == Put(info, d, Len(info[d]), addAIECounter(info[d][Len(info[d])]))
Stops(d, x, p) == Listed(d, x, p) /\ aborts(d, x)

\* What updateInfo does to the database.
LEMMA UpdateIs ==
  ASSUME NEW d, NEW x, NEW p, updateInfo(d, x, p)
  PROVE  \/ Stops(d, x, p) /\ aborted' = TRUE /\ deviceInfo' = deviceInfo /\ intfFor' = intfFor
         \/ /\ ~Stops(d, x, p)
            /\ intfFor' = (IF Makes(d, x, p) THEN Append(intfFor, x) ELSE intfFor)
            /\ \E readable \in BOOLEAN : \E info :
                 /\ info = MadeInfo(d, x, p, readable)
                 /\ \/ deviceInfo' = info
                    \/ d \in DOMAIN info /\ info[d] # <<>> /\ deviceInfo' = Counted(info, d)
<1> USE DEF DevOf, News, OnlyIntf, Listed, Makes, NextInfo, MadeInfo, Counted, Stops, Put
<1>1. CASE Stops(d, x, p) BY <1>1 DEF updateInfo
<1>2. CASE ~Stops(d, x, p)
  <2>1. intfFor' = (IF Makes(d, x, p) THEN Append(intfFor, x) ELSE intfFor) BY <1>2 DEF updateInfo
  <2>2. PICK readable \in BOOLEAN :
          LET i == MadeInfo(d, x, p, readable)
              read == IF Listed(d, x, p) /\ HasAIE(x) THEN readers \cup {d} ELSE readers
          IN  deviceInfo' = IF p = "profile" /\ d \in read /\ d \in DOMAIN i /\ i[d] # <<>> /\ ~isAIECounterRead(i[d])
                            THEN [i EXCEPT ![d][Len(i[d])] = addAIECounter(@)] ELSE i
    BY <1>2 DEF updateInfo
  <2>3. PICK info : info = MadeInfo(d, x, p, readable) OBVIOUS
  <2>4. \/ deviceInfo' = info
        \/ d \in DOMAIN info /\ info[d] # <<>> /\ deviceInfo' = [info EXCEPT ![d][Len(info[d])] = addAIECounter(@)]
    BY <2>2, <2>3
  <2>5. [info EXCEPT ![d][Len(info[d])] = addAIECounter(@)] = Counted(info, d)
    <3> DEFINE n == Len(info[d])
    <3> HIDE DEF n
    <3>1. [info EXCEPT ![d][n] = addAIECounter(@)] = [info EXCEPT ![d][n] = addAIECounter(info[d][n])]
      OBVIOUS
    <3> QED BY <3>1 DEF n
  <2> QED BY <1>2, <2>1, <2>3, <2>4, <2>5
<1> QED BY <1>1, <1>2

\* The list of the device is extended, and the interfaces stay where they are.
LEMMA NextInfoKeeps ==
  ASSUME InfoOK(deviceInfo), NEW d, NEW x, NEW p
  PROVE  InfoOK(NextInfo(d, x, p)) /\ OldOrNone(NextInfo(d, x, p), deviceInfo)
<1>1. CASE ~Listed(d, x, p) BY <1>1 DEF NextInfo, OldOrNone
<1>2. CASE Listed(d, x, p)
  <2>1. PICK s : s = ListOf(d) OBVIOUS
  <2>2. IsList(s) /\ \A k \in 1..Len(s) : IsConfig(s[k])
    <3>1. CASE d \in DOMAIN deviceInfo BY <2>1, <3>1 DEF InfoOK, ListOf
    <3>2. CASE d \notin DOMAIN deviceInfo
      <4>1. s = <<>> /\ Len(<<>>) = 0 BY <2>1, <3>2 DEF ListOf
      <4>2. s \in Seq({}) BY <4>1
      <4>3. IsList(s) BY <4>2, SeqIsList
      <4> QED BY <4>1, <4>3
    <3> QED BY <3>1, <3>2
  <2>3. PICK t : t = Cleaned(s, TypeOf[x]) OBVIOUS
  <2>4. /\ IsList(t) /\ Len(t) = Len(s)
        /\ \A k \in 1..Len(s) : t[k] = IF k = Len(s) /\ TypeOf[x] # "ELF" THEN cleanCurrentBinaryInfos(s[k], TypeOf[x])
                                       ELSE s[k]
    BY <2>2, <2>3, CleanedList
  <2>5. \A k \in 1..Len(t) : IsConfig(t[k]) /\ t[k].intf = s[k].intf
    <3> SUFFICES ASSUME NEW k \in 1..Len(t) PROVE IsConfig(t[k]) /\ t[k].intf = s[k].intf OBVIOUS
    <3>1. PICK c : c = s[k] OBVIOUS
    <3>2. IsConfig(c) BY <2>2, <2>4, <3>1
    <3>3. IsConfig(cleanCurrentBinaryInfos(c, TypeOf[x])) /\ cleanCurrentBinaryInfos(c, TypeOf[x]).intf = c.intf
      BY <3>2, CleanedConfig
    <3> QED BY <2>4, <3>1, <3>2, <3>3
  <2>6. PICK b : b = Built(d, x) OBVIOUS
  <2>7. IsConfig(b) /\ b.intf = NoIntf BY <2>6, BuiltIs
  <2>8. PICK u : u = updated(d, x) OBVIOUS
  <2>9. /\ IsList(u) /\ \A k \in 1..Len(u) : /\ IsConfig(u[k])
                                             /\ u[k].intf = NoIntf \/ (k \in 1..Len(s) /\ u[k].intf = s[k].intf)
    <3>1. CASE x \in Incomplete /\ TypeOf[x] # "AIE_ONLY"
      <4>1. u = t BY <2>1, <2>3, <2>8, <3>1, UpdatedIs
      <4> QED BY <2>4, <2>5, <4>1
    <3>2. CASE ~(x \in Incomplete /\ TypeOf[x] # "AIE_ONLY")
      <4>1. u = Append(t, b) BY <2>1, <2>3, <2>6, <2>8, <3>2, UpdatedIs
      <4>2. /\ IsList(u) /\ Len(u) = Len(t) + 1 /\ u[Len(t) + 1] = b
            /\ \A k \in 1..Len(t) : u[k] = t[k]
        BY <2>4, <4>1, AppendIs
      <4>3. Len(t) \in Nat BY <2>4 DEF IsList
      <4>4. \A k \in 1..Len(u) : k \in 1..Len(t) \/ k = Len(t) + 1 BY <4>2, <4>3
      <4> QED BY <2>4, <2>5, <2>7, <4>2, <4>4
    <3> QED BY <3>1, <3>2
  <2>10. PICK new : new = NextInfo(d, x, p) OBVIOUS
  <2>11. new = [e \in DOMAIN deviceInfo \cup {d} |-> IF e = d THEN u ELSE deviceInfo[e]]
    BY <1>2, <2>8, <2>10 DEF NextInfo
  <2>12. ASSUME NEW e \in DOMAIN new
         PROVE  /\ IsList(new[e])
                /\ \A k \in 1..Len(new[e]) :
                     /\ IsConfig(new[e][k])
                     /\ \/ new[e][k].intf = NoIntf
                        \/ /\ e \in DOMAIN deviceInfo /\ k \in 1..Len(deviceInfo[e])
                           /\ new[e][k].intf = deviceInfo[e][k].intf
    <3>1. CASE e = d
      <4>1. new[e] = u BY <2>11, <3>1
      <4>2. d \notin DOMAIN deviceInfo => Len(s) = 0 /\ 1..Len(s) = {}
        <5>1. d \notin DOMAIN deviceInfo => s = <<>> BY <2>1 DEF ListOf
        <5>2. s = <<>> => Len(s) = 0 OBVIOUS
        <5> QED BY <5>1, <5>2
      <4>3. d \in DOMAIN deviceInfo => s = deviceInfo[d] BY <2>1 DEF ListOf
      <4> QED BY <2>9, <3>1, <4>1, <4>2, <4>3
    <3>2. CASE e # d
      <4>1. new[e] = deviceInfo[e] /\ e \in DOMAIN deviceInfo BY <2>11, <3>2
      <4> QED BY <4>1 DEF InfoOK
    <3> QED BY <3>1, <3>2
  <2>13. InfoOK(new)
    <3>1. new = [e \in DOMAIN new |-> new[e]] BY <2>11
    <3> QED BY <2>12, <3>1 DEF InfoOK
  <2> QED BY <2>10, <2>12, <2>13 DEF OldOrNone
<1> QED BY <1>1, <1>2

\* A configuration of the device gets interface i.
IntfIs(new, info, d, k, i) ==
  /\ InfoOK(new) /\ DOMAIN new = DOMAIN info
  /\ \A e \in DOMAIN info : e # d => new[e] = info[e]
  /\ Len(new[d]) = Len(info[d])
  /\ \A j \in 1..Len(info[d]) : new[d][j] = IF j = k THEN SetIntf(info[d][k], i) ELSE info[d][j]
  /\ \A e \in DOMAIN info : Len(new[e]) = Len(info[e])
  /\ \A e \in DOMAIN info : \A j \in 1..Len(info[e]) :
       new[e][j].intf = IF e = d /\ j = k THEN i ELSE info[e][j].intf

\* createPLDeviceIntf sets the interface of one configuration.
LEMMA IntfPut ==
  ASSUME NEW info, InfoOK(info), NEW d \in DOMAIN info, NEW k \in 1..Len(info[d]), NEW i \in Nat,
         NEW new, new = Put(info, d, k, SetIntf(info[d][k], i))
  PROVE  IntfIs(new, info, d, k, i)
<1>1. PICK c : c = SetIntf(info[d][k], i) OBVIOUS
<1>2. IsConfig(info[d][k]) BY DEF InfoOK
<1>3. IsConfig(c) /\ c.intf = i BY <1>1, <1>2, SetIntfIs
<1>4. /\ InfoOK(new) /\ DOMAIN new = DOMAIN info
      /\ \A e \in DOMAIN info : e # d => new[e] = info[e]
      /\ Len(new[d]) = Len(info[d])
      /\ \A j \in 1..Len(info[d]) : new[d][j] = IF j = k THEN c ELSE info[d][j]
  BY <1>1, <1>3, PutKeeps
<1>5. \A e \in DOMAIN info : Len(new[e]) = Len(info[e]) BY <1>4
<1>6. ASSUME NEW e \in DOMAIN info, NEW j \in 1..Len(info[e])
      PROVE  new[e][j].intf = IF e = d /\ j = k THEN i ELSE info[e][j].intf
  <2>1. CASE e = d BY <1>3, <1>4, <1>6, <2>1
  <2>2. CASE e # d BY <1>4, <1>6, <2>2
  <2> QED BY <2>1, <2>2
<1> QED BY <1>1, <1>4, <1>5, <1>6 DEF IntfIs

\* the interface of configuration k - 1 goes to configuration k
Moved(info, d, k) ==
  LET mid == Put(info, d, k, SetIntf(info[d][k], info[d][k - 1].intf))
  IN  Put(mid, d, k - 1, SetIntf(mid[d][k - 1], NoIntf))

\* The interface has one owner after it was handed along, too.
LEMMA MovedKeeps ==
  ASSUME NEW info, InfoOK(info), NEW n \in Nat, Owned(info, n), NEW d \in DOMAIN info,
         NEW k \in 2..Len(info[d]), NEW new, new = Moved(info, d, k)
  PROVE  /\ InfoOK(new) /\ Owned(new, n) /\ DOMAIN new = DOMAIN info
         /\ \A e \in DOMAIN info : e # d => new[e] = info[e]
         /\ Len(new[d]) = Len(info[d]) /\ new[d][k] = SetIntf(info[d][k], info[d][k - 1].intf)
<1>0. Len(info[d]) \in Nat BY DEF InfoOK, IsList
<1>1. PICK m \in 1..Len(info[d]) : m = k - 1 /\ m # k BY <1>0
<1>2. k \in 1..Len(info[d]) BY <1>0
<1>3. PICK i \in Nat : i = info[d][m].intf BY DEF InfoOK, IsConfig
<1>4. PICK mid : mid = Put(info, d, k, SetIntf(info[d][k], i)) OBVIOUS
<1>5. /\ InfoOK(mid) /\ DOMAIN mid = DOMAIN info
      /\ \A e \in DOMAIN info : e # d => mid[e] = info[e]
      /\ Len(mid[d]) = Len(info[d])
      /\ \A j \in 1..Len(info[d]) : mid[d][j] = IF j = k THEN SetIntf(info[d][k], i) ELSE info[d][j]
      /\ \A e \in DOMAIN info : Len(mid[e]) = Len(info[e])
      /\ \A e \in DOMAIN info : \A j \in 1..Len(info[e]) :
           mid[e][j].intf = IF e = d /\ j = k THEN i ELSE info[e][j].intf
  <2>1. IntfIs(mid, info, d, k, i) BY <1>2, <1>3, <1>4, IntfPut
  <2> QED BY <2>1 DEF IntfIs
<1>6. new = Put(mid, d, m, SetIntf(mid[d][m], NoIntf)) BY <1>1, <1>3, <1>4 DEF Moved
<1>7. m \in 1..Len(mid[d]) /\ d \in DOMAIN mid /\ NoIntf \in Nat BY <1>1, <1>5 DEF NoIntf
<1>8. /\ InfoOK(new) /\ DOMAIN new = DOMAIN mid
      /\ \A e \in DOMAIN mid : e # d => new[e] = mid[e]
      /\ Len(new[d]) = Len(mid[d])
      /\ \A j \in 1..Len(mid[d]) : new[d][j] = IF j = m THEN SetIntf(mid[d][m], NoIntf) ELSE mid[d][j]
      /\ \A e \in DOMAIN mid : Len(new[e]) = Len(mid[e])
      /\ \A e \in DOMAIN mid : \A j \in 1..Len(mid[e]) :
           new[e][j].intf = IF e = d /\ j = m THEN NoIntf ELSE mid[e][j].intf
  <2>1. IntfIs(new, mid, d, m, NoIntf) BY <1>5, <1>6, <1>7, IntfPut
  <2> QED BY <2>1 DEF IntfIs
<1>9. new[d][k] = SetIntf(info[d][k], info[d][k - 1].intf) BY <1>1, <1>2, <1>3, <1>5, <1>8
<1> DEFINE From(e, j) == IF e = d /\ j = k THEN m ELSE j
<1>10. ASSUME NEW e \in DOMAIN new, NEW j \in 1..Len(new[e])
       PROVE  /\ e \in DOMAIN info /\ j \in 1..Len(info[e]) /\ From(e, j) \in 1..Len(info[e])
              /\ new[e][j].intf = NoIntf \/ (new[e][j].intf = info[e][From(e, j)].intf /\ ~(e = d /\ j = m))
  <2>1. e \in DOMAIN info /\ e \in DOMAIN mid /\ j \in 1..Len(info[e]) /\ j \in 1..Len(mid[e]) BY <1>5, <1>8
  <2>2. new[e][j].intf = IF e = d /\ j = m THEN NoIntf ELSE mid[e][j].intf BY <1>8, <2>1
  <2>3. mid[e][j].intf = IF e = d /\ j = k THEN i ELSE info[e][j].intf BY <1>5, <2>1
  <2> QED BY <1>3, <2>1, <2>2, <2>3
<1> HIDE DEF From
<1>11. ASSUME NEW e \in DOMAIN new, NEW j \in 1..Len(new[e]) PROVE new[e][j].intf <= n
  <2>1. CASE new[e][j].intf = NoIntf BY <2>1 DEF NoIntf
  <2>2. CASE new[e][j].intf = info[e][From(e, j)].intf BY <1>10, <2>2 DEF Owned
  <2> QED BY <1>10, <2>1, <2>2
<1>12. ASSUME NEW e \in DOMAIN new, NEW f \in DOMAIN new, NEW j \in 1..Len(new[e]), NEW l \in 1..Len(new[f]),
              new[e][j].intf = new[f][l].intf, new[e][j].intf # NoIntf
       PROVE  e = f /\ j = l
  <2>1. PICK v : v = new[e][j].intf /\ v # NoIntf BY <1>12
  <2>2. info[e][From(e, j)].intf = v /\ ~(e = d /\ j = m) BY <1>10, <2>1
  <2>3. info[f][From(f, l)].intf = v /\ ~(f = d /\ l = m) BY <1>10, <1>12, <2>1
  <2>4. PICK g \in 1..Len(info[e]) : g = From(e, j) BY <1>10
  <2>5. PICK h \in 1..Len(info[f]) : h = From(f, l) BY <1>10
  <2>6. e \in DOMAIN info /\ f \in DOMAIN info BY <1>10
  <2>7. e = f /\ g = h BY <2>1, <2>2, <2>3, <2>4, <2>5, <2>6, OneOwner
  <2> QED BY <2>2, <2>3, <2>4, <2>5, <2>7 DEF From
<1>13. Owned(new, n) BY <1>11, <1>12 DEF Owned
<1> QED BY <1>5, <1>8, <1>9, <1>13

\* A dummy configuration of the default device owns the new interface.
LEMMA DummyKeeps ==
  ASSUME NEW info, InfoOK(info), NEW n \in Nat, Owned(info, n)
  PROVE  InfoOK(withDummy(info, n + 1)) /\ Owned(withDummy(info, n + 1), n + 1)
<1>1. CASE Default \in DOMAIN info
  <2>1. withDummy(info, n + 1) = info BY <1>1 DEF withDummy
  <2>2. PICK m \in Nat : m = n + 1 /\ n <= m OBVIOUS
  <2>3. OldOrNone(info, info) BY DEF OldOrNone
  <2>4. Owned(info, m) BY <2>2, <2>3, OwnedStays
  <2> QED BY <2>1, <2>2, <2>4
<1>2. CASE Default \notin DOMAIN info
  <2>1. PICK c : c = [type |-> "INTF_ONLY", bins |-> <<>>, intf |-> n + 1] OBVIOUS
  <2>2. IsConfig(c) /\ c.intf = n + 1 BY <2>1 DEF IsConfig
  <2>3. PICK new : new = withDummy(info, n + 1) OBVIOUS
  <2>4. new = [d \in DOMAIN info \cup {Default} |-> IF d = Default THEN <<c>> ELSE info[d]]
    BY <1>2, <2>1, <2>3 DEF withDummy
  <2>5. <<c>> \in Seq({c}) /\ Len(<<c>>) = 1 /\ <<c>>[1] = c OBVIOUS
  <2>6. IsList(<<c>>) BY <2>5, SeqIsList
  <2>7. \A k \in 1..Len(<<c>>) : k = 1 /\ <<c>>[k] = c BY <2>5
  <2>8. ASSUME NEW d \in DOMAIN new
        PROVE  /\ IsList(new[d])
               /\ \A k \in 1..Len(new[d]) : 
                    /\ IsConfig(new[d][k])
                    /\ IF d = Default /\ k = 1 THEN new[d][k].intf = n + 1
                       ELSE d \in DOMAIN info /\ k \in 1..Len(info[d]) /\ new[d][k].intf = info[d][k].intf
    <3>1. CASE d = Default
      <4>1. new[d] = <<c>> BY <2>4, <3>1
      <4> QED BY <2>2, <2>6, <2>7, <3>1, <4>1
    <3>2. CASE d # Default
      <4>1. new[d] = info[d] /\ d \in DOMAIN info BY <2>4, <2>8, <3>2
      <4> QED BY <3>2, <4>1 DEF InfoOK
    <3> QED BY <3>1, <3>2
  <2>9. InfoOK(new)
    <3>1. new = [d \in DOMAIN new |-> new[d]] BY <2>4
    <3> QED BY <2>8, <3>1 DEF InfoOK
  <2>10. NewAt(new, info, Default, 1, n + 1) BY <2>8 DEF NewAt
  <2>11. Owned(new, n + 1) BY <2>9, <2>10, OwnedNew
  <2> QED BY <2>3, <2>9, <2>11
<1> QED BY <1>1, <1>2

\* The last of a list.
LEMMA LastIn ==
  ASSUME NEW s, IsList(s), s # <<>>
  PROVE  Len(s) \in Nat /\ Len(s) >= 1 /\ Len(s) \in 1..Len(s) /\ Last(s) = s[Len(s)]
<1>1. Len(s) \in Nat /\ s = [k \in 1..Len(s) |-> s[k]] BY DEF IsList
<1>2. Len(s) # 0 BY <1>1
<1> QED BY <1>1, <1>2 DEF Last

\* What createPLDeviceIntf does.
MadeBy(new, info, d, type, i) ==
  LET n == Len(info[d])
  IN  \/ style = "register" /\ new = withDummy(info, i)
      \/ type \in {"AIE_PL", "PL_ONLY"} /\ new = Put(info, d, n, SetIntf(info[d][n], i))
      \/ type \in {"AIE_PL", "PL_ONLY"} /\ new = Put(info, d, n, SetIntf(info[d][n], NoIntf))
      \/ type \notin {"AIE_PL", "PL_ONLY"} /\ n > 1 /\ new = Moved(info, d, n)
      \/ style = "register" /\ n > 1 /\ new = withDummy(Moved(info, d, n), i)
      \/ type \notin {"AIE_PL", "PL_ONLY"} /\ ~(n > 1) /\ new = info

\* createPLDeviceIntf in terms of these.
LEMMA MadeIs ==
  ASSUME NEW info, NEW d \in DOMAIN info, info[d] # <<>>, NEW type, NEW i, NEW readable \in BOOLEAN
  PROVE  MadeBy(createPLDeviceIntf(info, d, type, i, readable), info, d, type, i)
<1>1. PICK n : n = Len(info[d]) OBVIOUS
<1>2. PICK new : new = createPLDeviceIntf(info, d, type, i, readable) OBVIOUS
<1>3. ASSUME NEW v PROVE [info EXCEPT ![d][n].intf = v] = Put(info, d, n, SetIntf(info[d][n], v))
  BY DEF Put, SetIntf
<1>4. PICK moved : moved = [info EXCEPT ![d][n].intf = info[d][n - 1].intf, ![d][n - 1].intf = NoIntf]
  OBVIOUS
<1>5. moved = Moved(info, d, n)
  <2>1. PICK v : v = info[d][n - 1].intf OBVIOUS
  <2>2. PICK mid : mid = [info EXCEPT ![d][n].intf = v] OBVIOUS
  <2>3. mid = Put(info, d, n, SetIntf(info[d][n], v)) BY <1>3, <2>2
  <2>4. moved = [mid EXCEPT ![d][n - 1].intf = NoIntf] BY <1>4, <2>1, <2>2
  <2>5. [mid EXCEPT ![d][n - 1].intf = NoIntf] = Put(mid, d, n - 1, SetIntf(mid[d][n - 1], NoIntf))
    BY DEF Put, SetIntf
  <2> QED BY <2>1, <2>3, <2>4, <2>5 DEF Moved
<1>6. CASE type \in {"AIE_PL", "PL_ONLY"}
  <2>1. \/ style = "register" /\ new = withDummy(info, i)
        \/ new = [info EXCEPT ![d][n].intf = IF readable THEN i ELSE NoIntf]
    BY <1>1, <1>2, <1>6 DEF createPLDeviceIntf
  <2>2. CASE style = "register" /\ new = withDummy(info, i) BY <1>2, <2>2 DEF MadeBy
  <2>3. CASE new = [info EXCEPT ![d][n].intf = IF readable THEN i ELSE NoIntf]
    <3>1. PICK v : v = IF readable THEN i ELSE NoIntf OBVIOUS
    <3>2. v = i \/ v = NoIntf BY <3>1
    <3>3. new = Put(info, d, n, SetIntf(info[d][n], v)) BY <1>3, <2>3, <3>1
    <3> QED BY <1>1, <1>2, <1>6, <3>2, <3>3 DEF MadeBy
  <2> QED BY <2>1, <2>2, <2>3
<1>7. CASE type \notin {"AIE_PL", "PL_ONLY"} /\ n > 1
  <2>1. new = moved \/ (style = "register" /\ new = withDummy(moved, i))
    BY <1>1, <1>2, <1>4, <1>7 DEF createPLDeviceIntf
  <2> QED BY <1>1, <1>2, <1>5, <1>7, <2>1 DEF MadeBy
<1>8. CASE type \notin {"AIE_PL", "PL_ONLY"} /\ ~(n > 1)
  <2>1. new = info \/ (style = "register" /\ new = withDummy(info, i))
    BY <1>1, <1>2, <1>8 DEF createPLDeviceIntf
  <2> QED BY <1>1, <1>2, <1>8, <2>1 DEF MadeBy
<1> QED BY <1>6, <1>7, <1>8

\* It keeps an interface with one owner.
LEMMA MadeKeeps ==
  ASSUME NEW info, InfoOK(info), NEW n \in Nat, Owned(info, n), NEW d, NEW type, NEW readable \in BOOLEAN,
         NEW new, new = createPLDeviceIntf(info, d, type, n + 1, readable)
  PROVE  InfoOK(new) /\ Owned(new, n + 1)
<1>1. PICK m \in Nat : m = n + 1 /\ n <= m OBVIOUS
<1>2. ASSUME Owned(new, n), InfoOK(new) PROVE Owned(new, n + 1)
  <2>1. OldOrNone(new, new) BY DEF OldOrNone
  <2> QED BY <1>1, <1>2, <2>1, OwnedStays
<1>3. CASE d \notin DOMAIN info \/ info[d] = <<>>
  <2>1. new = info BY <1>3 DEF createPLDeviceIntf
  <2> QED BY <1>2, <2>1
<1>4. CASE d \in DOMAIN info /\ info[d] # <<>>
  <2>1. MadeBy(new, info, d, type, n + 1) BY <1>4, MadeIs
  <2>2. IsList(info[d]) BY <1>4 DEF InfoOK
  <2>3. PICK k : k = Len(info[d]) OBVIOUS
  <2>4. k \in 1..Len(info[d]) /\ k \in Nat BY <1>4, <2>2, <2>3 DEF IsList
  <2>5. CASE new = withDummy(info, n + 1) BY <2>5, DummyKeeps
  <2>6. CASE new = Put(info, d, k, SetIntf(info[d][k], n + 1))
    <3>1. IntfIs(new, info, d, k, m) BY <1>1, <1>4, <2>4, <2>6, IntfPut
    <3>2. InfoOK(new) /\ NewAt(new, info, d, k, m) BY <3>1 DEF IntfIs, NewAt
    <3> QED BY <1>1, <3>2, OwnedNew
  <2>7. CASE new = Put(info, d, k, SetIntf(info[d][k], NoIntf))
    <3>1. IntfIs(new, info, d, k, NoIntf) BY <1>4, <2>4, <2>7, IntfPut DEF NoIntf
    <3>2. InfoOK(new) /\ OldOrNone(new, info) BY <3>1 DEF IntfIs, OldOrNone
    <3> QED BY <1>1, <3>2, OwnedStays
  <2>8. ASSUME k > 1 PROVE InfoOK(Moved(info, d, k)) /\ Owned(Moved(info, d, k), n)
    <3>1. k \in 2..Len(info[d]) BY <2>4, <2>8
    <3> QED BY <1>4, <3>1, MovedKeeps
  <2>9. CASE k > 1 /\ new = Moved(info, d, k) BY <1>2, <2>8, <2>9
  <2>10. CASE k > 1 /\ new = withDummy(Moved(info, d, k), n + 1)
    <3>1. PICK moved : moved = Moved(info, d, k) OBVIOUS
    <3> QED BY <2>8, <2>10, <3>1, DummyKeeps
  <2>11. CASE new = info BY <1>2, <2>11
  <2> QED BY <2>1, <2>3, <2>5, <2>6, <2>7, <2>9, <2>10, <2>11 DEF MadeBy
<1> QED BY <1>3, <1>4

\* AIE profile leaves the interfaces alone.
LEMMA CountedKeeps ==
  ASSUME NEW info, InfoOK(info), NEW n \in Nat, Owned(info, n), NEW d \in DOMAIN info, info[d] # <<>>
  PROVE  /\ InfoOK(Counted(info, d)) /\ Owned(Counted(info, d), n)
         /\ DOMAIN Counted(info, d) = DOMAIN info
         /\ \A e \in DOMAIN info : e # d => Counted(info, d)[e] = info[e]
         /\ Len(Counted(info, d)[d]) = Len(info[d])
         /\ Counted(info, d)[d][Len(info[d])] = addAIECounter(info[d][Len(info[d])])
<1>1. IsList(info[d]) BY DEF InfoOK
<1>2. PICK k \in 1..Len(info[d]) : k = Len(info[d]) BY <1>1, LastIn
<1>3. PICK c : c = addAIECounter(info[d][k]) OBVIOUS
<1>4. IsConfig(info[d][k]) BY <1>2 DEF InfoOK
<1>5. IsConfig(c) /\ c.intf = info[d][k].intf BY <1>3, <1>4, CountersAdded
<1>6. PICK new : new = Put(info, d, k, c) OBVIOUS
<1>7. Counted(info, d) = new BY <1>2, <1>3, <1>6 DEF Counted
<1>8. /\ InfoOK(new) /\ DOMAIN new = DOMAIN info
      /\ \A e \in DOMAIN info : e # d => new[e] = info[e]
      /\ Len(new[d]) = Len(info[d])
      /\ \A j \in 1..Len(info[d]) : new[d][j] = IF j = k THEN c ELSE info[d][j]
  BY <1>5, <1>6, PutKeeps
<1>9. ASSUME NEW e \in DOMAIN new, NEW j \in 1..Len(new[e])
      PROVE  e \in DOMAIN info /\ j \in 1..Len(info[e]) /\ new[e][j].intf = info[e][j].intf
  <2>1. CASE e = d BY <1>5, <1>8, <2>1
  <2>2. CASE e # d BY <1>8, <2>2
  <2> QED BY <2>1, <2>2
<1>10. OldOrNone(new, info) BY <1>9 DEF OldOrNone
<1>11. Owned(new, n) BY <1>8, <1>10, OwnedStays
<1> QED BY <1>2, <1>3, <1>7, <1>8, <1>11

\* An update keeps the interfaces with one owner each.
LEMMA UpdateOwned ==
  ASSUME InfoOK(deviceInfo), IsList(intfFor), Owned(deviceInfo, Len(intfFor)), NEW d, NEW x, NEW p,
         updateInfo(d, x, p)
  PROVE  InfoOK(deviceInfo') /\ IsList(intfFor') /\ Owned(deviceInfo', Len(intfFor'))
<1>1. PICK n \in Nat : n = Len(intfFor) BY DEF IsList
<1>2. CASE deviceInfo' = deviceInfo /\ intfFor' = intfFor BY <1>2
<1>3. ASSUME intfFor' = (IF Makes(d, x, p) THEN Append(intfFor, x) ELSE intfFor),
             NEW readable \in BOOLEAN, NEW info, info = MadeInfo(d, x, p, readable),
             \/ deviceInfo' = info
             \/ d \in DOMAIN info /\ info[d] # <<>> /\ deviceInfo' = Counted(info, d)
      PROVE  InfoOK(deviceInfo') /\ IsList(intfFor') /\ Owned(deviceInfo', Len(intfFor'))
  <2>1. PICK mid : mid = NextInfo(d, x, p) OBVIOUS
  <2>2. InfoOK(mid) /\ OldOrNone(mid, deviceInfo) BY <2>1, NextInfoKeeps
  <2>3. Owned(mid, n) BY <1>1, <2>2, OwnedStays
  <2>4. PICK m \in Nat : m = Len(intfFor') /\ m = (IF Makes(d, x, p) THEN n + 1 ELSE n)
    BY <1>1, <1>3, AppendIs
  <2>5. IsList(intfFor') BY <1>3, AppendIs
  <2>6. InfoOK(info) /\ Owned(info, m)
    <3>1. CASE Makes(d, x, p)
      <4>1. info = createPLDeviceIntf(mid, d, TypeOf[x], n + 1, readable) BY <1>1, <1>3, <2>1, <3>1 DEF MadeInfo
      <4> QED BY <2>2, <2>3, <2>4, <3>1, <4>1, MadeKeeps
    <3>2. CASE ~Makes(d, x, p) BY <1>3, <2>1, <2>2, <2>3, <2>4, <3>2 DEF MadeInfo
    <3> QED BY <3>1, <3>2
  <2>7. CASE deviceInfo' = info BY <2>4, <2>5, <2>6, <2>7
  <2>8. CASE d \in DOMAIN info /\ info[d] # <<>> /\ deviceInfo' = Counted(info, d)
    BY <2>4, <2>5, <2>6, <2>8, CountedKeeps
  <2> QED BY <1>3, <2>7, <2>8
<1> QED BY <1>2, <1>3, UpdateIs

-----------------------------------------------------------------------------
(* A load                                                                  *)

\* the last configuration tells p and a, and its interface was made for p
Fits(cfgs, made, p, a) ==
  /\ IsList(cfgs) /\ cfgs # <<>>
  /\ Tells(cfgs[Len(cfgs)], p, a) /\ IntfRight(cfgs, made, p)

\* Every configuration but a dummy has binaries and a type.
LEMMA TellsShape ==
  ASSUME NEW c, NEW p, NEW a, Tells(c, p, a)
  PROVE  Binaried(c) /\ IsConfig(c) /\ c.type # "INTF_ONLY" /\ (p # Nobody \/ a # Nobody)
<1>1. ASSUME NEW x \in Binaries, IsWhole(c, x), p = PlOf(x), a = AieOf(x)
      PROVE  Binaried(c) /\ IsConfig(c) /\ c.type # "INTF_ONLY" /\ (p # Nobody \/ a # Nobody)
  <2>1. Binaried(c) /\ IsConfig(c) /\ c.type = TypeOf[x] BY <1>1, ShapesBinaried DEF IsWhole
  <2>2. TypeOf[x] # "INTF_ONLY" /\ x # Nobody BY InfoAssumption
  <2>3. HasPL(x) \/ HasAIE(x) BY DEF HasPL, HasAIE
  <2> QED BY <1>1, <2>1, <2>2, <2>3 DEF PlOf, AieOf
<1>2. ASSUME IsFormed(c, p, a)
      PROVE  Binaried(c) /\ IsConfig(c) /\ c.type # "INTF_ONLY" /\ (p # Nobody \/ a # Nobody)
  <2>1. Binaried(c) BY <1>2, ShapesBinaried
  <2>2. p # Nobody BY <1>2, InfoAssumption DEF IsFormed
  <2> QED BY <1>2, <2>1, <2>2 DEF IsFormed
<1> QED BY <1>1, <1>2 DEF Tells

\* Which interface it has makes no difference.
LEMMA IntfTells ==
  ASSUME NEW c, NEW p, NEW a, Tells(c, p, a), NEW i \in Nat
  PROVE  Tells(SetIntf(c, i), p, a) /\ SetIntf(c, i).intf = i
<1>1. IsConfig(c) BY TellsShape
<1>2. PICK k : k = SetIntf(c, i) OBVIOUS
<1>3. IsConfig(k) /\ k.intf = i /\ k.bins = c.bins /\ k.type = c.type BY <1>1, <1>2, SetIntfIs
<1>4. \A x : IsWhole(c, x) => IsWhole(k, x) BY <1>3 DEF IsWhole
<1>5. IsFormed(c, p, a) => IsFormed(k, p, a) BY <1>3 DEF IsFormed
<1>6. Tells(k, p, a) BY <1>4, <1>5 DEF Tells
<1> QED BY <1>2, <1>3, <1>6

\* If the configuration names xclbin x already, x is on the device.
LEMMA NamedIsThere ==
  ASSUME NEW c, NEW p, NEW a, Tells(c, p, a), NEW x \in Binaries, TypeOf[x] # "ELF", containsBinary(c, x),
         TypeOf[x] = "AIE_PL" => p = x /\ a = x
  PROVE  PlNow(x, p) = p /\ AieNow(x, a) = a
<1>1. TypeOf[x] \in {"AIE_PL", "PL_ONLY", "AIE_ONLY"} BY InfoAssumption
<1>2. Binaried(c) BY TellsShape
<1>3. PICK i \in 1..Len(c.bins) : c.bins[i].uuid = x BY <1>2 DEF containsBinary, Range, Binaried, IsList
<1>4. ASSUME NEW y \in Binaries, IsWhole(c, y), p = PlOf(y), a = AieOf(y)
      PROVE  PlNow(x, p) = p /\ AieNow(x, a) = a
  <2>1. Len(c.bins) = 1 /\ c.bins[1].uuid = y BY <1>4 DEF IsWhole, IsBinary
  <2>2. x = y BY <1>3, <2>1
  <2> QED BY <1>4, <2>2 DEF PlNow, AieNow, PlOf, AieOf
<1>5. ASSUME IsFormed(c, p, a) PROVE PlNow(x, p) = p /\ AieNow(x, a) = a
  <2>1. Len(c.bins) = 2 /\ HasPL(p) /\ HasAIE(a) BY <1>5 DEF IsFormed
  <2>2. i = 1 \/ i = 2 BY <1>3, <2>1
  <2>3. \/ c.bins[1].uuid = p /\ c.bins[2].uuid = a
        \/ c.bins[1].uuid = a /\ c.bins[2].uuid = p
    BY <1>5 DEF IsFormed, IsBinary
  <2>4. x = p \/ x = a BY <1>3, <2>2, <2>3
  <2> QED BY <1>1, <2>1, <2>4 DEF PlNow, AieNow, HasPL, HasAIE
<1> QED BY <1>4, <1>5 DEF Tells

\* The counters of AIE profile make no difference.
LEMMA CountedFits ==
  ASSUME NEW info, InfoOK(info), 1 \in DOMAIN info, NEW n \in Nat, Owned(info, n), NEW made, NEW p, NEW a,
         Fits(info[1], made, p, a)
  PROVE  1 \in DOMAIN Counted(info, 1) /\ Fits(Counted(info, 1)[1], made, p, a)
<1>1. PICK new : new = Counted(info, 1) OBVIOUS
<1>2. PICK c : c = info[1][Len(info[1])] OBVIOUS
<1>3. /\ InfoOK(new) /\ DOMAIN new = DOMAIN info /\ Len(new[1]) = Len(info[1])
      /\ new[1][Len(info[1])] = addAIECounter(c)
  <2>1. info[1] # <<>> BY DEF Fits
  <2> QED BY <1>1, <1>2, <2>1, CountedKeeps
<1>4. Tells(c, p, a) /\ IsConfig(c) BY <1>2, TellsShape DEF Fits
<1>5. Tells(addAIECounter(c), p, a) /\ addAIECounter(c).intf = c.intf BY <1>4, CountersAdded
<1>6. IsList(new[1]) BY <1>3 DEF InfoOK
<1>7. new[1] # <<>>
  <2>1. Len(info[1]) >= 1 /\ Len(info[1]) \in Nat BY LastIn DEF Fits
  <2> QED BY <1>3, <2>1
<1>8. PICK s : s = new[1] OBVIOUS
<1>9. s[Len(s)] = addAIECounter(c) BY <1>3, <1>8
<1>10. IntfRight(s, made, p) BY <1>2, <1>5, <1>9 DEF Fits, IntfRight
<1>11. Fits(s, made, p, a) BY <1>5, <1>6, <1>7, <1>8, <1>9, <1>10 DEF Fits
<1> QED BY <1>1, <1>3, <1>8, <1>11

\* The list that an xclbin x is added to, with p and a on the device: its last
\* configuration is c, and the one before it kept its interface.
Added(cfgs, old, c, p, a) ==
  /\ IsList(cfgs) /\ Len(cfgs) = Len(old) + 1 /\ cfgs[Len(cfgs)] = c
  /\ Tells(c, p, a) /\ c.intf = NoIntf
  /\ old # <<>> => cfgs[Len(old)].intf = old[Len(old)].intf

\* updateDevice adds the configuration of x.
LEMMA LoadAdds ==
  ASSUME InfoOK(deviceInfo), NEW x \in Binaries \ Incomplete, TypeOf[x] # "ELF",
         NEW p \in Binaries \cup {Nobody}, NEW a \in Binaries \cup {Nobody}, Reflects(Configs, p, a)
  PROVE  Added(updated(1, x), Configs, Built(1, x), PlNow(x, p), AieNow(x, a))
<1>1. PICK old : old = Configs /\ old = ListOf(1) BY DEF Configs, ListOf
<1>2. IsList(old) BY <1>1 DEF Reflects
<1>3. PICK cfgs : cfgs = Cleaned(old, TypeOf[x]) OBVIOUS
<1>4. /\ IsList(cfgs) /\ Len(cfgs) = Len(old) /\ (cfgs = <<>> <=> old = <<>>)
      /\ \A k \in 1..Len(old) :
           cfgs[k] = IF k = Len(old) /\ TypeOf[x] # "ELF" THEN cleanCurrentBinaryInfos(old[k], TypeOf[x])
                     ELSE old[k]
  BY <1>2, <1>3, CleanedList
<1>5. ASSUME old # <<>>
      PROVE  Like(cfgs[Len(cfgs)], old[Len(old)]) /\ cfgs[Len(old)].intf = old[Len(old)].intf
  <2>1. PICK k \in 1..Len(old) : k = Len(old) BY <1>2, <1>5, LastIn
  <2>2. PICK c : c = old[k] OBVIOUS
  <2>3. IsElfConfig(c) \/ Tells(c, p, a) BY <1>1, <1>5, <2>1, <2>2 DEF Reflects
  <2>4. Binaried(c) BY <2>3, ShapesBinaried, TellsShape
  <2>5. PICK e : e = cleanCurrentBinaryInfos(c, TypeOf[x]) OBVIOUS
  <2>6. Like(e, c) BY <2>4, <2>5, CleanedLike
  <2>7. cfgs[k] = e BY <1>4, <2>1, <2>2, <2>5
  <2> QED BY <1>4, <2>1, <2>2, <2>6, <2>7 DEF Like
<1>6. PICK b : b = initializeTS2MM(buildConfig(cfgs, x), PlioOf[x]) OBVIOUS
<1>7. Tells(b, PlNow(x, p), AieNow(x, a)) /\ b.intf = NoIntf
  <2>1. Reflects(old, p, a) BY <1>1
  <2> QED BY <1>4, <1>5, <1>6, <2>1, BuiltTells
<1>8. b = Built(1, x) BY <1>1, <1>3, <1>6 DEF Built
<1>9. PICK new : new = Append(cfgs, b) OBVIOUS
<1>10. updated(1, x) = new BY <1>1, <1>3, <1>8, <1>9, UpdatedIs
<1>11. /\ IsList(new) /\ Len(new) = Len(cfgs) + 1 /\ new[Len(cfgs) + 1] = b
       /\ \A k \in 1..Len(cfgs) : new[k] = cfgs[k]
  BY <1>4, <1>9, AppendIs
<1>12. ASSUME old # <<>> PROVE new[Len(old)].intf = old[Len(old)].intf
  <2>1. Len(old) \in 1..Len(cfgs) BY <1>2, <1>4, <1>12, LastIn
  <2> QED BY <1>5, <1>11, <1>12, <2>1
<1>13. Added(new, old, b, PlNow(x, p), AieNow(x, a)) BY <1>4, <1>7, <1>11, <1>12 DEF Added
<1> QED BY <1>1, <1>8, <1>10, <1>13

\* The interface that is created, or handed along, was made for the PL half on the
\* device.
LEMMA MadeFits ==
  ASSUME NEW info, InfoOK(info), 1 \in DOMAIN info, NEW n \in Nat, Owned(info, n), IsList(intfFor), Len(intfFor) = n,
         NEW old, NEW c, NEW x \in Binaries, TypeOf[x] # "ELF", NEW p, NEW a,
         Added(info[1], old, c, PlNow(x, p), AieNow(x, a)), IsList(old), IntfRight(old, intfFor, p),
         style # "register", NEW readable \in BOOLEAN,
         NEW new, new = createPLDeviceIntf(info, 1, TypeOf[x], n + 1, readable)
  PROVE  1 \in DOMAIN new /\ Fits(new[1], Append(intfFor, x), PlNow(x, p), AieNow(x, a))
<1>1. PICK s : s = info[1] OBVIOUS
<1>2. /\ IsList(s) /\ Len(s) = Len(old) + 1 /\ s[Len(s)] = c
      /\ Tells(c, PlNow(x, p), AieNow(x, a)) /\ c.intf = NoIntf
      /\ old # <<>> => s[Len(old)].intf = old[Len(old)].intf
  BY <1>1 DEF Added
<1>3. PICK k : k = Len(s) /\ k \in Nat /\ Len(old) \in Nat /\ k = Len(old) + 1 BY <1>2 DEF IsList
<1>4. k \in 1..Len(s) /\ s # <<>> /\ k >= 1
  <2>1. Len(s) # 0 BY <1>3
  <2>2. s # <<>> BY <2>1
  <2> QED BY <1>3, <2>2
<1>5. PICK made : made = Append(intfFor, x) OBVIOUS
<1>6. made[n + 1] = x /\ \A i \in 1..n : made[i] = intfFor[i] BY <1>5, AppendIs
<1>7. MadeBy(new, info, 1, TypeOf[x], n + 1) BY <1>1, <1>4, MadeIs
<1>8. TypeOf[x] \in {"AIE_PL", "PL_ONLY"} <=> HasPL(x) BY DEF HasPL
<1>9. ASSUME NEW i \in Nat, i # NoIntf => made[i] = PlNow(x, p), 1 \in DOMAIN new, InfoOK(new),
             Len(new[1]) = k, new[1][k] = SetIntf(c, i)
      PROVE  1 \in DOMAIN new /\ Fits(new[1], made, PlNow(x, p), AieNow(x, a))
  <2>1. Tells(SetIntf(c, i), PlNow(x, p), AieNow(x, a)) /\ SetIntf(c, i).intf = i BY <1>2, IntfTells
  <2>2. IsList(new[1]) BY <1>9 DEF InfoOK
  <2>3. new[1] # <<>>
    <3>1. Len(new[1]) # 0 BY <1>4, <1>3, <1>9
    <3> QED BY <3>1
  <2>4. PICK t : t = new[1] OBVIOUS
  <2>5. t[Len(t)] = SetIntf(c, i) BY <1>9, <2>4
  <2>6. IntfRight(t, made, PlNow(x, p)) BY <1>9, <2>1, <2>5 DEF IntfRight
  <2>7. Fits(t, made, PlNow(x, p), AieNow(x, a)) BY <2>1, <2>2, <2>3, <2>4, <2>5, <2>6 DEF Fits
  <2> QED BY <1>9, <2>4, <2>7
<1>10. ASSUME NEW i \in Nat, i # NoIntf => made[i] = PlNow(x, p), new = Put(info, 1, k, SetIntf(info[1][k], i))
       PROVE  1 \in DOMAIN new /\ Fits(new[1], made, PlNow(x, p), AieNow(x, a))
  <2>1. k \in 1..Len(info[1]) BY <1>1, <1>4
  <2>2. IntfIs(new, info, 1, k, i) BY <1>10, <2>1, IntfPut
  <2>3. InfoOK(new) /\ 1 \in DOMAIN new /\ Len(new[1]) = k /\ new[1][k] = SetIntf(c, i)
    BY <1>1, <1>2, <1>3, <2>1, <2>2 DEF IntfIs
  <2> QED BY <1>9, <1>10, <2>3
<1>11. CASE TypeOf[x] \in {"AIE_PL", "PL_ONLY"} /\ new = Put(info, 1, k, SetIntf(info[1][k], n + 1))
  <2>1. PlNow(x, p) = x BY <1>8, <1>11 DEF PlNow
  <2>2. PICK i \in Nat : i = n + 1 OBVIOUS
  <2>3. i # NoIntf => made[i] = PlNow(x, p) BY <1>6, <2>1, <2>2
  <2>4. new = Put(info, 1, k, SetIntf(info[1][k], i)) BY <1>11, <2>2
  <2> QED BY <1>5, <1>10, <2>3, <2>4
<1>12. CASE new = Put(info, 1, k, SetIntf(info[1][k], NoIntf))
  <2>1. PICK i \in Nat : i = NoIntf BY DEF NoIntf
  <2>2. new = Put(info, 1, k, SetIntf(info[1][k], i)) BY <1>12, <2>1
  <2> QED BY <1>5, <1>10, <2>1, <2>2
<1>13. CASE TypeOf[x] \notin {"AIE_PL", "PL_ONLY"} /\ k > 1 /\ new = Moved(info, 1, k)
  <2>1. PlNow(x, p) = p BY <1>8, <1>13 DEF PlNow
  <2>2. k \in 2..Len(info[1]) BY <1>1, <1>3, <1>13
  <2>3. /\ InfoOK(new) /\ DOMAIN new = DOMAIN info /\ Len(new[1]) = Len(info[1])
        /\ new[1][k] = SetIntf(info[1][k], info[1][k - 1].intf)
    BY <1>13, <2>2, MovedKeeps
  <2>4. PICK m \in 1..Len(s) : m = k - 1 /\ m = Len(old) BY <1>3, <1>4, <1>13
  <2>5. PICK i : i = s[m].intf OBVIOUS
  <2>6. i \in Nat /\ i <= n BY <1>1, <2>4, <2>5 DEF InfoOK, IsConfig, Owned
  <2>7. old # <<>> BY <1>3, <1>13
  <2>8. i = old[Len(old)].intf BY <1>2, <2>4, <2>5, <2>7
  <2>9. ASSUME i # NoIntf PROVE made[i] = PlNow(x, p)
    <3>1. intfFor[i] = p BY <2>7, <2>8, <2>9 DEF IntfRight
    <3>2. i \in 1..n BY <2>6, <2>9 DEF NoIntf
    <3> QED BY <1>6, <2>1, <3>1, <3>2
  <2>10. 1 \in DOMAIN new /\ Len(new[1]) = k /\ new[1][k] = SetIntf(c, i)
    BY <1>1, <1>2, <1>3, <2>3, <2>4, <2>5
  <2> QED BY <1>5, <1>9, <2>3, <2>6, <2>9, <2>10
<1>14. CASE ~(k > 1) /\ new = info
  <2>1. IntfRight(s, made, PlNow(x, p)) BY <1>2 DEF IntfRight
  <2>2. Fits(s, made, PlNow(x, p), AieNow(x, a)) BY <1>2, <1>4, <2>1 DEF Fits
  <2> QED BY <1>1, <1>5, <1>14, <2>2
<1>15. Len(info[1]) = k BY <1>1, <1>3
<1> QED BY <1>5, <1>7, <1>11, <1>12, <1>13, <1>14, <1>15 DEF MadeBy

\* After the call of a plugin for x, the configuration tells the halves that are on
\* the device now.
LEMMA LoadFits ==
  ASSUME InfoOK(deviceInfo), IsList(intfFor), Owned(deviceInfo, Len(intfFor)), style # "register",
         NEW x \in Binaries \ Incomplete, TypeOf[x] # "ELF",
         NEW p \in Binaries \cup {Nobody}, NEW a \in Binaries \cup {Nobody},
         Reflects(Configs, p, a), IntfRight(Configs, intfFor, p),
         TypeOf[x] = "AIE_PL" /\ Configs # <<>> /\ containsBinary(Last(Configs), x) => p = x /\ a = x,
         NEW plugin, updateInfo(1, x, plugin)
  PROVE  Fits(Configs', intfFor', PlNow(x, p), AieNow(x, a))
<1>1. PICK old : old = Configs /\ IsList(old) BY DEF Reflects
<1>2. PICK n \in Nat : n = Len(intfFor) BY DEF IsList
<1>3. HasConfig(1) <=> old # <<>> BY <1>1 DEF HasConfig, Configs
<1>4. ASSUME old # <<>> PROVE 1 \in DOMAIN deviceInfo /\ old = deviceInfo[1] /\ currentConfig(1) = old[Len(old)]
                              /\ Last(old) = old[Len(old)]
  BY <1>1, <1>4 DEF Configs, currentConfig, Last
<1>5. ~Stops(1, x, plugin)
  <2> SUFFICES ASSUME HasConfig(1) PROVE currentConfig(1).type # "INTF_ONLY" BY DEF Stops, aborts
  <2>1. PICK c : c = old[Len(old)] OBVIOUS
  <2>2. IsElfConfig(c) \/ Tells(c, p, a) BY <1>1, <1>3, <2>1 DEF Reflects
  <2>3. c.type # "INTF_ONLY" BY <2>2, TellsShape DEF IsElfConfig
  <2> QED BY <1>3, <1>4, <2>1, <2>3
<1>6a. PICK readable \in BOOLEAN : \E info :
        /\ info = MadeInfo(1, x, plugin, readable)
        /\ intfFor' = (IF Makes(1, x, plugin) THEN Append(intfFor, x) ELSE intfFor)
        /\ deviceInfo' = info \/ (1 \in DOMAIN info /\ info[1] # <<>> /\ deviceInfo' = Counted(info, 1))
  BY <1>5, UpdateIs
<1>6. PICK info :
        /\ info = MadeInfo(1, x, plugin, readable)
        /\ intfFor' = (IF Makes(1, x, plugin) THEN Append(intfFor, x) ELSE intfFor)
        /\ deviceInfo' = info \/ (1 \in DOMAIN info /\ info[1] # <<>> /\ deviceInfo' = Counted(info, 1))
  BY <1>6a
<1>7. ~OnlyIntf(1, x, plugin) BY DEF OnlyIntf, addPlIntfOnly
<1>8. PICK mid : mid = NextInfo(1, x, plugin) OBVIOUS
<1>9. InfoOK(mid) /\ Owned(mid, n)
  <2>1. InfoOK(mid) /\ OldOrNone(mid, deviceInfo) BY <1>8, NextInfoKeeps
  <2> QED BY <1>2, <2>1, OwnedStays
<1>10. ASSUME 1 \in DOMAIN info, InfoOK(info), NEW m \in Nat, Owned(info, m),
              Fits(info[1], intfFor', PlNow(x, p), AieNow(x, a))
       PROVE  Fits(Configs', intfFor', PlNow(x, p), AieNow(x, a))
  <2>1. CASE deviceInfo' = info BY <1>10, <2>1 DEF Configs
  <2>2. CASE deviceInfo' = Counted(info, 1)
    <3>1. 1 \in DOMAIN Counted(info, 1) /\ Fits(Counted(info, 1)[1], intfFor', PlNow(x, p), AieNow(x, a))
      BY <1>10, CountedFits
    <3> QED BY <2>2, <3>1 DEF Configs
  <2> QED BY <1>6, <2>1, <2>2
<1>11. CASE ~News(1, x, plugin)
  <2>1. HasConfig(1) /\ containsBinary(currentConfig(1), x) BY <1>11 DEF News, resetDeviceInfo
  <2>2. PICK c : c = old[Len(old)] OBVIOUS
  <2>3. old # <<>> /\ c = currentConfig(1) /\ old = deviceInfo[1] /\ 1 \in DOMAIN deviceInfo
    BY <1>3, <1>4, <2>1, <2>2
  <2>4. ~IsElfConfig(c)
    <3> SUFFICES ASSUME IsElfConfig(c) PROVE FALSE OBVIOUS
    <3>1. PICK i \in DOMAIN c.bins : c.bins[i].uuid = x BY <2>1, <2>3 DEF containsBinary, Range
    <3>2. Len(c.bins) = 1 /\ IsList(c.bins) /\ TypeOf[c.bins[1].uuid] = "ELF" BY DEF IsElfConfig
    <3>3. DOMAIN c.bins = 1..1 BY <3>2 DEF IsList
    <3>4. i = 1 BY <3>1, <3>3
    <3> QED BY <3>1, <3>2, <3>4
  <2>5. Tells(c, p, a) BY <1>1, <2>2, <2>3, <2>4 DEF Reflects
  <2>6. TypeOf[x] = "AIE_PL" => p = x /\ a = x BY <1>1, <1>4, <2>1, <2>2, <2>3
  <2>7. PlNow(x, p) = p /\ AieNow(x, a) = a BY <2>1, <2>3, <2>5, <2>6, NamedIsThere
  <2>8. ~Makes(1, x, plugin) /\ info = deviceInfo BY <1>6, <1>11 DEF Makes, MadeInfo, NextInfo, Listed
  <2>9. Fits(old, intfFor, p, a) BY <1>1, <2>2, <2>3, <2>5 DEF Fits
  <2> QED BY <1>2, <1>6, <1>10, <2>3, <2>7, <2>8, <2>9
<1>12. CASE News(1, x, plugin)
  <2>1. Listed(1, x, plugin) BY <1>7, <1>12 DEF Listed
  <2>2. mid = [e \in DOMAIN deviceInfo \cup {1} |-> IF e = 1 THEN updated(1, x) ELSE deviceInfo[e]]
    BY <1>8, <2>1 DEF NextInfo
  <2>3. 1 \in DOMAIN mid /\ mid[1] = updated(1, x) BY <2>2
  <2>4. PICK b : b = Built(1, x) OBVIOUS
  <2>5. Added(mid[1], old, b, PlNow(x, p), AieNow(x, a)) BY <1>1, <2>3, <2>4, LoadAdds
  <2>6. CASE Makes(1, x, plugin)
    <3>1. info = createPLDeviceIntf(mid, 1, TypeOf[x], n + 1, readable) BY <1>2, <1>6, <1>8, <2>6 DEF MadeInfo
    <3>2. InfoOK(info) /\ Owned(info, n + 1) BY <1>9, <3>1, MadeKeeps
    <3>3. IntfRight(old, intfFor, p) BY <1>1
    <3>4. 1 \in DOMAIN info /\ Fits(info[1], Append(intfFor, x), PlNow(x, p), AieNow(x, a))
      BY <1>1, <1>2, <1>9, <2>3, <2>5, <3>1, <3>3, MadeFits
    <3>5. PICK m \in Nat : m = n + 1 OBVIOUS
    <3>6. intfFor' = Append(intfFor, x) BY <1>6, <2>6
    <3> QED BY <1>10, <3>2, <3>4, <3>5, <3>6
  <2>7. CASE ~Makes(1, x, plugin)
    <3>1. info = mid /\ intfFor' = intfFor BY <1>6, <1>8, <2>7 DEF MadeInfo
    <3>2. PICK s : s = mid[1] OBVIOUS
    <3>3. /\ IsList(s) /\ Len(s) = Len(old) + 1 /\ s[Len(s)] = b
          /\ Tells(b, PlNow(x, p), AieNow(x, a)) /\ b.intf = NoIntf
      BY <2>5, <3>2 DEF Added
    <3>4. s # <<>>
      <4>1. Len(old) \in Nat BY <1>1 DEF IsList
      <4>2. Len(s) # 0 BY <3>3, <4>1
      <4> QED BY <4>2
    <3>5. IntfRight(s, intfFor, PlNow(x, p)) BY <3>3 DEF IntfRight
    <3>6. Fits(s, intfFor, PlNow(x, p), AieNow(x, a)) BY <3>3, <3>4, <3>5 DEF Fits
    <3> QED BY <1>9, <1>10, <2>3, <3>1, <3>2, <3>6
  <2> QED BY <2>6, <2>7
<1> QED BY <1>11, <1>12

\* no xclbin has been loaded on the device
ElfOnly(cfgs) == IsList(cfgs) /\ (cfgs = <<>> \/ IsElfConfig(cfgs[Len(cfgs)]))

\* Which is what no halves on the device means.
LEMMA NothingLoaded ==
  ASSUME NEW cfgs
  PROVE  /\ Reflects(cfgs, Nobody, Nobody) <=> ElfOnly(cfgs)
         /\ ElfOnly(cfgs) => \A made : IntfRight(cfgs, made, Nobody)
<1>1. \A c : ~Tells(c, Nobody, Nobody) BY TellsShape
<1>2. Reflects(cfgs, Nobody, Nobody) <=> ElfOnly(cfgs) BY <1>1 DEF Reflects, ElfOnly
<1>3. ElfOnly(cfgs) => \A made : IntfRight(cfgs, made, Nobody) BY DEF ElfOnly, IntfRight, IsElfConfig
<1> QED BY <1>2, <1>3

\* The configuration of an ELF.
LEMMA ElfBuilt ==
  ASSUME NEW cfgs, NEW x \in Binaries, TypeOf[x] = "ELF"
  PROVE  IsElfConfig(buildConfig(cfgs, x))
<1>1. PICK b : b = NewBinary(x, "ELF") OBVIOUS
<1>2. PICK c : c = [type |-> "ELF", bins |-> <<b>>, intf |-> NoIntf] OBVIOUS
<1>3. buildConfig(cfgs, x) = c BY <1>1, <1>2 DEF buildConfig
<1>4. IsBinary(b, x, "ELF") /\ b.uuid = x
  <2>1. b = [uuid |-> x, type |-> "ELF", pl |-> "ELF" \in {"AIE_PL", "PL_ONLY"}, aie |-> "ELF" # "PL_ONLY",
             plio |-> 0, counters |-> FALSE, read |-> FALSE]
    BY <1>1 DEF NewBinary
  <2> QED BY <2>1 DEF IsBinary, BinRec, Types
<1>5. IsConfig(c) /\ c.type = "ELF" /\ c.intf = NoIntf /\ c.bins = <<b>> BY <1>2 DEF IsConfig, NoIntf
<1>6. <<b>> \in Seq({b}) /\ Len(<<b>>) = 1 /\ <<b>>[1] = b OBVIOUS
<1>7. IsList(<<b>>) BY <1>6, SeqIsList
<1> QED BY <1>3, <1>4, <1>5, <1>6, <1>7 DEF IsElfConfig

\* An ELF on whichever device adds such a configuration at most.
LEMMA ElfUpdate ==
  ASSUME InfoOK(deviceInfo), IsList(intfFor), Owned(deviceInfo, Len(intfFor)),
         NEW x \in Binaries, TypeOf[x] = "ELF", ElfOnly(Configs), NEW d, NEW p, updateInfo(d, x, p)
  PROVE  ElfOnly(Configs')
<1>1. CASE deviceInfo' = deviceInfo BY <1>1 DEF Configs
<1>2. ASSUME NEW readable \in BOOLEAN, NEW info, info = MadeInfo(d, x, p, readable),
             \/ deviceInfo' = info
             \/ d \in DOMAIN info /\ info[d] # <<>> /\ deviceInfo' = Counted(info, d)
      PROVE  ElfOnly(Configs')
  <2>1. info = NextInfo(d, x, p) BY <1>2 DEF MadeInfo, Makes, DevOf
  <2>2. PICK n \in Nat : n = Len(intfFor) BY DEF IsList
  <2>3. InfoOK(info) /\ Owned(info, n)
    <3>1. InfoOK(info) /\ OldOrNone(info, deviceInfo) BY <2>1, NextInfoKeeps
    <3> QED BY <2>2, <3>1, OwnedStays
  <2>4. ElfOnly(IF 1 \in DOMAIN info THEN info[1] ELSE <<>>)
    <3>1. CASE ~Listed(d, x, p) BY <2>1, <3>1 DEF NextInfo, Configs
    <3>2. CASE Listed(d, x, p)
      <4>1. info = [e \in DOMAIN deviceInfo \cup {d} |-> IF e = d THEN updated(d, x) ELSE deviceInfo[e]]
        BY <2>1, <3>2 DEF NextInfo
      <4>2. CASE d # 1
        <5>1. (1 \in DOMAIN info <=> 1 \in DOMAIN deviceInfo) /\ (1 \in DOMAIN info => info[1] = deviceInfo[1])
          BY <4>1, <4>2
        <5> QED BY <5>1 DEF Configs
      <4>3. CASE d = 1
        <5>1. 1 \in DOMAIN info /\ info[1] = updated(1, x) BY <4>1, <4>3
        <5>2. PICK old : old = Configs /\ old = ListOf(1) BY DEF Configs, ListOf
        <5>3. Cleaned(old, TypeOf[x]) = old BY DEF Cleaned
        <5>4. CASE x \in Incomplete /\ TypeOf[x] # "AIE_ONLY"
          <6>1. updated(1, x) = old BY <5>2, <5>3, <5>4, UpdatedIs
          <6> QED BY <5>1, <5>2, <6>1
        <5>5. CASE ~(x \in Incomplete /\ TypeOf[x] # "AIE_ONLY")
          <6>1. PICK c : c = Built(1, x) OBVIOUS
          <6>2. IsElfConfig(c) BY <6>1, ElfBuilt DEF Built
          <6>3. updated(1, x) = Append(old, c) BY <5>2, <5>3, <5>5, <6>1, UpdatedIs
          <6>4. PICK s : s = Append(old, c) OBVIOUS
          <6>5. IsList(old) BY <5>2 DEF ElfOnly
          <6>6. IsList(s) /\ Len(s) = Len(old) + 1 /\ s[Len(old) + 1] = c BY <6>4, <6>5, AppendIs
          <6>7. ElfOnly(s) BY <6>2, <6>6 DEF ElfOnly
          <6> QED BY <5>1, <6>3, <6>4, <6>7
        <5> QED BY <5>4, <5>5
      <4> QED BY <4>2, <4>3
    <3> QED BY <3>1, <3>2
  <2>5. CASE deviceInfo' = info BY <2>4, <2>5 DEF Configs
  <2>6. CASE d \in DOMAIN info /\ info[d] # <<>> /\ deviceInfo' = Counted(info, d)
    <3>1. PICK new : new = Counted(info, d) OBVIOUS
    <3>2. /\ InfoOK(new) /\ DOMAIN new = DOMAIN info
          /\ \A e \in DOMAIN info : e # d => new[e] = info[e]
          /\ Len(new[d]) = Len(info[d])
          /\ new[d][Len(info[d])] = addAIECounter(info[d][Len(info[d])])
      BY <2>3, <2>6, <3>1, CountedKeeps
    <3>3. CASE d # 1 BY <2>4, <2>6, <3>1, <3>2, <3>3 DEF Configs
    <3>4. CASE d = 1
      <4>1. PICK c : c = info[1][Len(info[1])] OBVIOUS
      <4>2. IsElfConfig(c) BY <2>4, <2>6, <3>4, <4>1 DEF ElfOnly
      <4>3. IsElfConfig(addAIECounter(c)) BY <4>2, CountersAdded
      <4>4. PICK s : s = new[1] OBVIOUS
      <4>5. IsList(s) /\ s[Len(s)] = addAIECounter(c) BY <2>6, <3>2, <3>4, <4>1, <4>4 DEF InfoOK
      <4>6. ElfOnly(s) BY <4>3, <4>5 DEF ElfOnly
      <4> QED BY <2>6, <3>1, <3>2, <3>4, <4>4, <4>6 DEF Configs
    <3> QED BY <3>3, <3>4
  <2> QED BY <1>2, <2>5, <2>6
<1> QED BY <1>1, <1>2, UpdateIs

-----------------------------------------------------------------------------
(* The invariant                                                           *)

\* The invariant holds initially,
LEMMA ConfigInit == SiInit => ConfigInv
<1> SUFFICES ASSUME SiInit PROVE ConfigInv OBVIOUS
<1>1. <<>> \in Seq({}) /\ Len(<<>>) = 0 /\ DOMAIN <<>> = {} OBVIOUS
<1>2. IsList(<<>>) BY <1>1, SeqIsList
<1>3. deviceInfo = <<>> /\ intfFor = <<>> BY DEF SiInit
<1>4. <<>> = [d \in DOMAIN <<>> |-> <<>>[d]] BY <1>1, <1>2 DEF IsList
<1>5. InfoOK(deviceInfo) /\ IsList(intfFor) /\ Owned(deviceInfo, Len(intfFor))
  BY <1>1, <1>2, <1>3, <1>4 DEF InfoOK, Owned
<1>6. StyleInv
  <2>1. load = [x |-> Nobody, todo |-> <<>>] /\ style = "unset" BY DEF SiInit
  <2>2. \A c \in InfoHandles : contexts[c].n = 0 /\ contexts[c].pc = "idle" BY DEF SiInit
  <2>3. load \in [x : Binaries \cup {Nobody}, todo : Seq(PluginNames)] /\ load.todo = <<>> BY <2>1
  <2> QED BY <2>1, <2>2, <2>3 DEF StyleInv
<1>7. HalvesInv
  <2>1. Configs = <<>> BY <1>1, <1>3 DEF Configs
  <2>2. ElfOnly(Configs) BY <1>2, <2>1 DEF ElfOnly
  <2>3. Reflects(Configs, Nobody, Nobody) /\ IntfRight(Configs, intfFor, Nobody) BY <2>2, NothingLoaded
  <2>4. onDevice = [pl |-> Nobody, aie |-> Nobody] /\ load.todo = <<>> /\ style = "unset" BY DEF SiInit
  <2> QED BY <2>3, <2>4 DEF HalvesInv
<1> QED BY <1>5, <1>6, <1>7 DEF ConfigInv

\* the context that a step of c is taken for is in use, and the others stay
OneContext(c) ==
  /\ contexts[c].pc # "idle" /\ contexts' \in [InfoHandles -> CtxRec]
  /\ \A d \in InfoHandles : d # c => contexts'[d] = contexts[d]
  /\ contexts'[c].n = 0 => contexts'[c].pc = "idle"
  /\ contexts'[c].pc \in {"assign", "update"} /\ TypeOf[contexts'[c].x] # "ELF" => style' = "register"

\* A step of one context keeps the styles apart.
LEMMA ContextStyles ==
  ASSUME StyleInv, NEW c \in InfoHandles, OneContext(c), load' = load, style' \in {style, "register"}
  PROVE  StyleInv'
<1>1. contexts[c].n # 0 BY DEF StyleInv, OneContext
<1>2. style # "load" /\ load.todo = <<>> BY <1>1 DEF StyleInv
<1>3. style' # "load" BY <1>2
<1>4. ASSUME NEW d \in InfoHandles
      PROVE  /\ contexts'[d].n = 0 => contexts'[d].pc = "idle"
             /\ contexts'[d].pc \in {"assign", "update"} /\ TypeOf[contexts'[d].x] # "ELF" => style' = "register"
  <2>1. CASE d = c BY <2>1 DEF OneContext
  <2>2. CASE d # c BY <2>2 DEF OneContext, StyleInv
  <2> QED BY <2>1, <2>2
<1> QED BY <1>2, <1>3, <1>4 DEF StyleInv

\* So does every step.
LEMMA StyleStep ==
  ASSUME UidTypes, UidTypes', StyleInv, SiNext
  PROVE  StyleInv'
<1>0. /\ contexts \in [InfoHandles -> CtxRec] /\ enabled \in Seq(PluginNames) /\ numLoads \in Nat
      /\ contexts' \in [InfoHandles -> CtxRec]
  BY InfoAssumption DEF UidTypes, PluginNames
<1>1. ASSUME NEW x \in Binaries, loadXclbin(x) PROVE StyleInv'
  <2>1. load' = [x |-> x, todo |-> enabled] /\ style' = style /\ contexts' = contexts /\ enabled' = enabled
    BY <1>1 DEF loadXclbin, idVars
  <2>2. load' \in [x : Binaries \cup {Nobody}, todo : Seq(PluginNames)] /\ load'.todo = enabled BY <1>0, <2>1
  <2>3. style # "register" /\ \A c \in InfoHandles : contexts[c].n = 0 BY <1>1 DEF loadXclbin
  <2> QED BY <2>1, <2>2, <2>3 DEF StyleInv
<1>2. ASSUME pluginLoad PROVE StyleInv'
  <2>1. /\ load.todo # <<>> /\ load' = [load EXCEPT !.todo = Tail(load.todo)]
        /\ style' = "load" /\ contexts' = contexts /\ enabled' = enabled
    BY <1>2 DEF pluginLoad, idVars
  <2>2. load.todo \in Seq(PluginNames) BY DEF StyleInv
  <2>3. Tail(load.todo) \in Seq(PluginNames) BY <2>1, <2>2
  <2>4. load' \in [x : Binaries \cup {Nobody}, todo : Seq(PluginNames)] BY <2>1, <2>3 DEF StyleInv
  <2>5. enabled # <<>> /\ \A c \in InfoHandles : contexts[c].n = 0 /\ contexts[c].pc = "idle" BY <2>1 DEF StyleInv
  <2> QED BY <2>1, <2>4, <2>5 DEF StyleInv
<1>3. ASSUME NEW c \in InfoHandles, NEW x \in InContexts, contextCreated(c, x) PROVE StyleInv'
  <2>1. /\ load.todo = <<>> /\ style # "load" /\ load' = load /\ style' = style
        /\ contexts' = [contexts EXCEPT ![c] = [x |-> x, todo |-> enabled, n |-> numLoads + 1, uid |-> -1, pc |-> "call"]]
    BY <1>3 DEF contextCreated
  <2>2. \A d \in InfoHandles : d # c => contexts'[d] = contexts[d] BY <1>0, <2>1
  <2>3. contexts'[c].n # 0 /\ contexts'[c].pc = "call" BY <1>0, <2>1
  <2>4. ASSUME NEW d \in InfoHandles
        PROVE  /\ contexts'[d].n = 0 => contexts'[d].pc = "idle"
               /\ contexts'[d].pc \in {"assign", "update"} /\ TypeOf[contexts'[d].x] # "ELF" => style' = "register"
    <3>1. CASE d = c BY <2>3, <3>1
    <3>2. CASE d # c BY <2>1, <2>2, <3>2 DEF StyleInv
    <3> QED BY <3>1, <3>2
  <2> QED BY <2>1, <2>4 DEF StyleInv
<1>4. ASSUME NEW c \in InfoHandles, skipContext(c) \/ pluginUpdate(c) PROVE StyleInv'
  <2>1. /\ contexts[c].pc # "idle" /\ load' = load /\ style' \in {style, "register"}
    BY <1>4 DEF skipContext, pluginUpdate, otherVars, Styled
  <2>2. \/ contexts' = [contexts EXCEPT ![c].todo = Tail(@)] /\ contexts[c].pc = "call"
        \/ contexts' = [contexts EXCEPT ![c].pc = "call", ![c].todo = Tail(@)]
    BY <1>4 DEF skipContext, pluginUpdate
  <2>3. /\ \A d \in InfoHandles : d # c => contexts'[d] = contexts[d]
        /\ contexts'[c].pc = "call" /\ contexts'[c].n = contexts[c].n
    BY <1>0, <2>2 DEF CtxRec
  <2>4. contexts[c].n # 0 BY <2>1 DEF StyleInv
  <2>5. OneContext(c) BY <1>0, <2>1, <2>3, <2>4 DEF OneContext
  <2> QED BY <2>1, <2>5, ContextStyles
<1>5. ASSUME NEW c \in InfoHandles, uidKnown(c) \/ uidUnknown(c) PROVE StyleInv'
  <2>1. /\ contexts[c].pc = "call" /\ load' = load
        /\ style' = IF TypeOf[contexts[c].x] = "ELF" THEN style ELSE "register"
    BY <1>5 DEF uidKnown, uidUnknown, otherVars, Styled, Asks
  <2>2. \/ \E uid : contexts' = [contexts EXCEPT ![c].uid = uid, ![c].pc = "update"]
        \/ contexts' = [contexts EXCEPT ![c].pc = "assign"]
    BY <1>5 DEF uidKnown, uidUnknown, Give
  <2>3. /\ \A d \in InfoHandles : d # c => contexts'[d] = contexts[d]
        /\ contexts'[c].x = contexts[c].x /\ contexts'[c].n = contexts[c].n
    <3>1. CASE contexts' = [contexts EXCEPT ![c].pc = "assign"] BY <1>0, <3>1 DEF CtxRec
    <3>2. ASSUME NEW uid, contexts' = [contexts EXCEPT ![c].uid = uid, ![c].pc = "update"]
          PROVE  /\ \A d \in InfoHandles : d # c => contexts'[d] = contexts[d]
                 /\ contexts'[c].x = contexts[c].x /\ contexts'[c].n = contexts[c].n
      BY <1>0, <3>2 DEF CtxRec
    <3> QED BY <2>2, <3>1, <3>2
  <2>4. contexts[c].n # 0 BY <2>1 DEF StyleInv
  <2>5. OneContext(c) BY <1>0, <2>1, <2>3, <2>4 DEF OneContext
  <2> QED BY <2>1, <2>5, ContextStyles
<1>6. ASSUME NEW c \in InfoHandles, assignUid(c) PROVE StyleInv'
  <2>1. /\ contexts[c].pc # "idle" /\ load' = load /\ style' = style
        /\ contexts[c].pc = "assign" \/ TypeOf[contexts[c].x] = "ELF"
    BY <1>6 DEF assignUid, otherVars, Assigns, Asks
  <2>2. PICK uid : contexts' = [contexts EXCEPT ![c].uid = uid, ![c].pc = "update"]
    BY <1>6 DEF assignUid, Give
  <2>3. /\ \A d \in InfoHandles : d # c => contexts'[d] = contexts[d]
        /\ contexts'[c].x = contexts[c].x /\ contexts'[c].n = contexts[c].n
    BY <1>0, <2>2 DEF CtxRec
  <2>4. contexts[c].n # 0 BY <2>1 DEF StyleInv
  <2>5. TypeOf[contexts[c].x] # "ELF" => style' = "register" BY <2>1 DEF StyleInv
  <2>6. OneContext(c) BY <1>0, <2>1, <2>3, <2>4, <2>5 DEF OneContext
  <2> QED BY <2>1, <2>6, ContextStyles
<1>7. ASSUME NEW c \in InfoHandles, contextDestroyed(c) PROVE StyleInv'
  <2>1. /\ contexts[c].pc # "idle" /\ load' = load /\ style' = style
        /\ contexts' = [contexts EXCEPT ![c] = [x |-> Nobody, todo |-> <<>>, n |-> 0, uid |-> -1, pc |-> "idle"]]
    BY <1>7 DEF contextDestroyed, otherVars
  <2>2. (\A d \in InfoHandles : d # c => contexts'[d] = contexts[d]) /\ contexts'[c].pc = "idle"
    BY <1>0, <2>1
  <2>3. OneContext(c) BY <1>0, <2>1, <2>2 DEF OneContext
  <2> QED BY <2>1, <2>3, ContextStyles
<1> QED BY <1>1, <1>2, <1>3, <1>4, <1>5, <1>6, <1>7 DEF SiNext

\* The halves on the device as HalvesInv has them.
LEMMA HalvesSame ==
  ASSUME HalvesInv, UNCHANGED <<enabled, deviceInfo, intfFor, onDevice, again, load>>,
         style' \in {style, "register"}
  PROVE  HalvesInv'
<1>1. Configs' = Configs BY DEF Configs
<1>2. \A p, a : Loading(p, a)' = Loading(p, a) BY <1>1 DEF Loading
<1>3. CASE style' = "register" BY <1>3 DEF HalvesInv
<1>4. CASE style' = style
  <2> SUFFICES ASSUME ~again, style # "register", enabled # <<>> 
               PROVE  /\ \E p, a \in Binaries \cup {Nobody} :
                           /\ Reflects(Configs', p, a) /\ IntfRight(Configs', intfFor', p)
                           /\ IF load.todo = <<>> THEN onDevice = [pl |-> p, aie |-> a] ELSE Loading(p, a)'
                      /\ style = "unset" /\ load.todo = <<>> => onDevice = [pl |-> Nobody, aie |-> Nobody]
                      /\ style = "load" => onDevice.pl # Nobody \/ onDevice.aie # Nobody
                      /\ onDevice.pl # Nobody => onDevice.pl \in Binaries
    BY <1>4 DEF HalvesInv
  <2> QED BY <1>1, <1>2 DEF HalvesInv
<1> QED BY <1>3, <1>4

\* The application loads an xclbin.
LEMMA LoadHalves ==
  ASSUME ConfigInv, NEW x \in Binaries, loadXclbin(x)
  PROVE  HalvesInv'
<1> SUFFICES ASSUME ~again', style' # "register", enabled' # <<>>
             PROVE  /\ \E p, a \in Binaries \cup {Nobody} :
                         /\ Reflects(Configs', p, a) /\ IntfRight(Configs', intfFor', p)
                         /\ IF load'.todo = <<>> THEN onDevice' = [pl |-> p, aie |-> a] ELSE Loading(p, a)'
                    /\ style' = "unset" /\ load'.todo = <<>> => onDevice' = [pl |-> Nobody, aie |-> Nobody]
                    /\ style' = "load" => onDevice'.pl # Nobody \/ onDevice'.aie # Nobody
                    /\ onDevice'.pl # Nobody => onDevice'.pl \in Binaries
  BY DEF HalvesInv
<1>1. /\ style' = style /\ enabled' = enabled /\ deviceInfo' = deviceInfo /\ intfFor' = intfFor
      /\ load' = [x |-> x, todo |-> enabled] /\ load.todo = <<>> /\ TypeOf[x] # "ELF"
      /\ onDevice' = [pl |-> IF HasPL(x) THEN x ELSE onDevice.pl, aie |-> IF HasAIE(x) THEN x ELSE onDevice.aie]
      /\ ~again /\ ~(TypeOf[x] = "AIE_PL" /\ ~resetDeviceInfo(1, x, FALSE)) /\ x \notin Incomplete
  BY DEF loadXclbin
<1>2. PICK p \in Binaries \cup {Nobody}, a \in Binaries \cup {Nobody} :
        Reflects(Configs, p, a) /\ IntfRight(Configs, intfFor, p) /\ onDevice = [pl |-> p, aie |-> a]
  BY <1>1 DEF ConfigInv, HalvesInv
<1>3. Configs' = Configs BY <1>1 DEF Configs
<1>4. load'.x = x /\ load'.todo = enabled /\ onDevice.pl = p /\ onDevice.aie = a BY <1>1, <1>2
<1>5. ASSUME TypeOf[x] = "AIE_PL", Configs # <<>>, containsBinary(Last(Configs), x) PROVE FALSE
  <2>1. HasConfig(1) /\ currentConfig(1) = Last(Configs) BY <1>5 DEF HasConfig, Configs, currentConfig
  <2> QED BY <1>1, <1>5, <2>1 DEF resetDeviceInfo
<1>6. Loading(p, a)' BY <1>1, <1>3, <1>4, <1>5 DEF Loading
<1>7. x # Nobody /\ (HasPL(x) \/ HasAIE(x)) BY InfoAssumption DEF HasPL, HasAIE
<1>8. onDevice'.pl = (IF HasPL(x) THEN x ELSE p) /\ onDevice'.aie = (IF HasAIE(x) THEN x ELSE a) BY <1>1, <1>4
<1> QED BY <1>1, <1>2, <1>3, <1>4, <1>6, <1>7, <1>8

\* A plugin is called for it.
LEMMA PluginHalves ==
  ASSUME ConfigInv, pluginLoad
  PROVE  HalvesInv'
<1> SUFFICES ASSUME ~again', style' # "register", enabled' # <<>>
             PROVE  /\ \E p, a \in Binaries \cup {Nobody} :
                         /\ Reflects(Configs', p, a) /\ IntfRight(Configs', intfFor', p)
                         /\ IF load'.todo = <<>> THEN onDevice' = [pl |-> p, aie |-> a] ELSE Loading(p, a)'
                    /\ style' = "unset" /\ load'.todo = <<>> => onDevice' = [pl |-> Nobody, aie |-> Nobody]
                    /\ style' = "load" => onDevice'.pl # Nobody \/ onDevice'.aie # Nobody
                    /\ onDevice'.pl # Nobody => onDevice'.pl \in Binaries
  BY DEF HalvesInv
<1>1. /\ load.todo # <<>> /\ style' = "load" /\ load' = [load EXCEPT !.todo = Tail(@)]
      /\ enabled' = enabled /\ onDevice' = onDevice /\ again' = again
  BY DEF pluginLoad
<1>2. style # "register" BY <1>1 DEF ConfigInv, StyleInv
<1>3. PICK p \in Binaries \cup {Nobody}, a \in Binaries \cup {Nobody} :
        Reflects(Configs, p, a) /\ IntfRight(Configs, intfFor, p) /\ Loading(p, a)
  BY <1>1, <1>2 DEF ConfigInv, HalvesInv
<1>4. PICK x : x = load.x OBVIOUS
<1>5. /\ x \in Binaries \ Incomplete /\ TypeOf[x] # "ELF"
      /\ onDevice = [pl |-> PlNow(x, p), aie |-> AieNow(x, a)]
      /\ TypeOf[x] = "AIE_PL" /\ Configs # <<>> /\ containsBinary(Last(Configs), x) => p = x /\ a = x
  BY <1>3, <1>4 DEF Loading, PlNow, AieNow
<1>6. PICK plugin : updateInfo(1, x, plugin) BY <1>4 DEF pluginLoad
<1>7. Fits(Configs', intfFor', PlNow(x, p), AieNow(x, a)) BY <1>2, <1>3, <1>5, <1>6, LoadFits DEF ConfigInv
<1>8. PICK q \in Binaries \cup {Nobody}, b \in Binaries \cup {Nobody} : q = PlNow(x, p) /\ b = AieNow(x, a)
  BY <1>5 DEF PlNow, AieNow
<1>9. Reflects(Configs', q, b) /\ IntfRight(Configs', intfFor', q) BY <1>7, <1>8 DEF Fits, Reflects
<1>10. onDevice' = [pl |-> q, aie |-> b] /\ onDevice'.pl = q /\ onDevice'.aie = b BY <1>1, <1>5, <1>8
<1>11. load'.x = x BY <1>1, <1>4 DEF ConfigInv, StyleInv
<1>12. PlNow(x, q) = q /\ AieNow(x, b) = b BY <1>8 DEF PlNow, AieNow
<1>13. TypeOf[x] = "AIE_PL" => q = x /\ b = x BY <1>8 DEF PlNow, AieNow, HasPL, HasAIE
<1>14. Loading(q, b)' BY <1>5, <1>10, <1>11, <1>12, <1>13 DEF Loading, PlNow, AieNow
<1>15. q # Nobody \/ b # Nobody BY <1>7, <1>8, TellsShape DEF Fits
<1> QED BY <1>1, <1>9, <1>10, <1>14, <1>15

\* A plugin is called for a context: for an ELF, or in the other style.
LEMMA ContextHalves ==
  ASSUME UidTypes, ConfigInv, NEW c \in InfoHandles, pluginUpdate(c)
  PROVE  HalvesInv'
<1>1. /\ style' = style /\ enabled' = enabled /\ load' = load /\ onDevice' = onDevice /\ again' = again
      /\ contexts[c].pc = "update"
  BY DEF pluginUpdate, otherVars
<1> SUFFICES ASSUME ~again, style # "register", enabled # <<>>
             PROVE  /\ \E p, a \in Binaries \cup {Nobody} :
                         /\ Reflects(Configs', p, a) /\ IntfRight(Configs', intfFor', p)
                         /\ IF load.todo = <<>> THEN onDevice = [pl |-> p, aie |-> a] ELSE Loading(p, a)'
                    /\ style = "unset" /\ load.todo = <<>> => onDevice = [pl |-> Nobody, aie |-> Nobody]
                    /\ style = "load" => onDevice.pl # Nobody \/ onDevice.aie # Nobody
                    /\ onDevice.pl # Nobody => onDevice.pl \in Binaries
  BY <1>1 DEF HalvesInv
<1>2. PICK x : x = contexts[c].x OBVIOUS
<1>3. TypeOf[x] = "ELF" /\ x \in Binaries BY <1>1, <1>2 DEF ConfigInv, StyleInv, UidTypes
<1>4. contexts[c].n # 0 BY <1>1 DEF ConfigInv, StyleInv
<1>5. style # "load" /\ load.todo = <<>> BY <1>4 DEF ConfigInv, StyleInv
<1>6. style = "unset" BY <1>5 DEF UidTypes
<1>7. onDevice = [pl |-> Nobody, aie |-> Nobody] BY <1>5, <1>6 DEF ConfigInv, HalvesInv
<1>8. PICK p, a : Reflects(Configs, p, a) /\ onDevice = [pl |-> p, aie |-> a]
  BY <1>5 DEF ConfigInv, HalvesInv
<1>9. p = Nobody /\ a = Nobody /\ onDevice.pl = Nobody BY <1>7, <1>8
<1>10. ElfOnly(Configs) BY <1>8, <1>9, NothingLoaded
<1>11. PICK d, plugin : updateInfo(d, x, plugin) BY <1>2 DEF pluginUpdate
<1>12. ElfOnly(Configs') BY <1>3, <1>10, <1>11, ElfUpdate DEF ConfigInv
<1>13. Reflects(Configs', Nobody, Nobody) /\ IntfRight(Configs', intfFor', Nobody) BY <1>12, NothingLoaded
<1> QED BY <1>5, <1>6, <1>7, <1>9, <1>13

\* and every step keeps it.
LEMMA ConfigStep == UidTypes /\ UidTypes' /\ ConfigInv /\ [SiNext]_siVars => ConfigInv'
<1> SUFFICES ASSUME UidTypes, UidTypes', ConfigInv, [SiNext]_siVars PROVE ConfigInv' OBVIOUS
<1> DEFINE OwnInv == InfoOK(deviceInfo) /\ IsList(intfFor) /\ Owned(deviceInfo, Len(intfFor))
<1>1. OwnInv /\ StyleInv /\ HalvesInv BY DEF ConfigInv
<1>2. SUFFICES OwnInv' /\ StyleInv' /\ HalvesInv' BY DEF ConfigInv
<1>3. ASSUME NEW d, NEW x, NEW p, updateInfo(d, x, p) PROVE OwnInv' BY <1>1, <1>3, UpdateOwned
<1>4. ASSUME UNCHANGED <<deviceInfo, intfFor>> PROVE OwnInv' BY <1>1, <1>4
<1> HIDE DEF OwnInv
<1>5. CASE SiNext
  <2>1. StyleInv' BY <1>1, <1>5, StyleStep
  <2>2. ASSUME NEW x \in Binaries, loadXclbin(x) PROVE OwnInv' /\ HalvesInv'
    <3>1. UNCHANGED <<deviceInfo, intfFor>> BY <2>2 DEF loadXclbin
    <3> QED BY <1>4, <2>2, <3>1, LoadHalves
  <2>3. ASSUME pluginLoad PROVE OwnInv' /\ HalvesInv'
    <3>1. OwnInv' BY <1>3, <2>3 DEF pluginLoad
    <3> QED BY <2>3, <3>1, PluginHalves
  <2>4. ASSUME NEW c \in InfoHandles, pluginUpdate(c) PROVE OwnInv' /\ HalvesInv'
    <3>1. OwnInv' BY <1>3, <2>4 DEF pluginUpdate
    <3> QED BY <2>4, <3>1, ContextHalves
  <2>5. ASSUME NEW c \in InfoHandles,
               \/ \E x \in InContexts : contextCreated(c, x)
               \/ skipContext(c) \/ uidKnown(c) \/ uidUnknown(c) \/ assignUid(c) \/ contextDestroyed(c)
        PROVE  OwnInv' /\ HalvesInv'
    <3>1. UNCHANGED <<enabled, deviceInfo, intfFor, onDevice, again, load>> /\ style' \in {style, "register"}
      BY <2>5 DEF contextCreated, skipContext, uidKnown, uidUnknown, assignUid, contextDestroyed, otherVars, Styled
    <3>2. OwnInv' BY <1>4, <3>1
    <3>3. HalvesInv' BY <1>1, <3>1, HalvesSame
    <3> QED BY <3>2, <3>3
  <2>6. OwnInv' /\ HalvesInv' BY <1>5, <2>2, <2>3, <2>4, <2>5 DEF SiNext
  <2> QED BY <2>1, <2>6
<1>6. CASE UNCHANGED siVars
  <2>1. UNCHANGED <<style, enabled, deviceInfo, intfFor, onDevice, again, load, contexts>> BY <1>6 DEF siVars
  <2>2. StyleInv' BY <1>1, <2>1 DEF StyleInv
  <2>3. HalvesInv' BY <1>1, <2>1, HalvesSame
  <2> QED BY <1>4, <2>1, <2>2, <2>3
<1> QED BY <1>5, <1>6

\* The invariant says what ConfigRight asks for.
LEMMA ConfigImplies == ConfigInv => ConfigRight
<1> SUFFICES ASSUME ConfigInv PROVE ConfigRight OBVIOUS
<1>1. ASSUME NEW d \in DOMAIN deviceInfo, NEW e \in DOMAIN deviceInfo,
             NEW j \in DOMAIN deviceInfo[d], NEW k \in DOMAIN deviceInfo[e],
             deviceInfo[d][j].intf = deviceInfo[e][k].intf, deviceInfo[d][j].intf # NoIntf
      PROVE  <<d, j>> = <<e, k>>
  <2>1. j \in 1..Len(deviceInfo[d]) /\ k \in 1..Len(deviceInfo[e]) BY DEF ConfigInv, InfoOK, IsList
  <2>2. PICK i : i = deviceInfo[d][j].intf OBVIOUS
  <2>3. d = e /\ j = k BY <1>1, <2>1, <2>2, OneOwner DEF ConfigInv
  <2> QED BY <2>3
<1>2. ASSUME AtRest, style = "load", ~again
      PROVE  /\ getPlBinary(currentConfig(1)).uuid = onDevice.pl
             /\ getAieBinary(currentConfig(1)).uuid = onDevice.aie
             /\ currentConfig(1).type # "AIE_PL_FORMED" =>
                  getNumTracePLIO(currentConfig(1)) = IF onDevice.pl = Nobody THEN 0 ELSE PlioOf[onDevice.pl]
             /\ currentConfig(1).intf # NoIntf => intfFor[currentConfig(1).intf] = onDevice.pl
  <2>1. enabled # <<>> /\ style # "register" /\ load.todo = <<>> BY <1>2 DEF ConfigInv, StyleInv, AtRest
  <2>2. PICK p, a : Reflects(Configs, p, a) /\ IntfRight(Configs, intfFor, p) /\ onDevice = [pl |-> p, aie |-> a]
    BY <1>2, <2>1 DEF ConfigInv, HalvesInv
  <2>3. p # Nobody \/ a # Nobody BY <1>2, <2>1, <2>2 DEF ConfigInv, HalvesInv
  <2>4. Configs # <<>> /\ Tells(Configs[Len(Configs)], p, a) BY <2>2, <2>3 DEF Reflects
  <2>5. currentConfig(1) = Configs[Len(Configs)] BY <2>4 DEF Configs, currentConfig, Last
  <2>6. PICK c : c = currentConfig(1) OBVIOUS
  <2>7. Tells(c, p, a) BY <2>4, <2>5, <2>6
  <2>8. /\ getPlBinary(c).uuid = p /\ getAieBinary(c).uuid = a
        /\ c.type # "AIE_PL_FORMED" => getNumTracePLIO(c) = IF p = Nobody THEN 0 ELSE PlioOf[p]
    BY <2>7, Told
  <2>9. c.intf # NoIntf => intfFor[c.intf] = p BY <2>2, <2>4, <2>5, <2>6 DEF IntfRight
  <2>10. onDevice.pl = p /\ onDevice.aie = a BY <2>2
  <2> QED BY <2>6, <2>8, <2>9, <2>10
<1> QED BY <1>1, <1>2 DEF ConfigRight

\* Whatever xclbins are loaded, and in whichever order the plugins are called, the
\* current configuration tells which halves are on the device, and its interface
\* was made for the PL half and belongs to it alone.
THEOREM ConfigsAreRight == SiSpec => []ConfigRight
<1>1. SiInit => UidIInv /\ ConfigInv BY UidInitially, ConfigInit
<1>2. (UidIInv /\ ConfigInv) /\ [SiNext]_siVars => (UidIInv /\ ConfigInv)'
  <2>1. UidIInv /\ [SiNext]_siVars => UidIInv' BY UidStep
  <2>2. UidIInv => UidTypes BY DEF UidIInv
  <2>3. UidIInv' => UidTypes' BY DEF UidIInv
  <2> QED BY <2>1, <2>2, <2>3, ConfigStep
<1>3. ConfigInv => ConfigRight BY ConfigImplies
<1> QED BY <1>1, <1>2, <1>3, PTL DEF SiSpec
=============================================================================
