----------------------------- MODULE StaticInfo -----------------------------
(***************************************************************************)
(* VPStaticDatabase: what is loaded on each device.  An application either *)
(* loads xclbins on a device ("load") or creates hardware contexts for     *)
(* them ("register"); XRT then calls every enabled plugin, and each brings *)
(* the database up to date, the first one for all.                         *)
(*                                                                         *)
(* A device has a list of configurations; the last one is current.  A      *)
(* configuration holds binaries: an xclbin with only one half of a design  *)
(* (PL or AIE) is merged with the other half of the configuration before.  *)
(***************************************************************************)
EXTENDS Integers, Sequences, FiniteSets, SequencesExt

CONSTANTS
  Binaries,      \* names (UUIDs) of the binaries of the application
  TypeOf,        \* the BinaryInfoType of each
  PlioOf,        \* the trace data movers for AIE streams its PL half has
  Incomplete,    \* binaries with compute units but no memory topology
  PluginOrders,  \* the orders in which XRT may call the enabled plugins
  InfoHandles,   \* addresses of hardware contexts, reused by later contexts
  InContexts,    \* the binaries contexts are created for
  MaxLoads,      \* bounds of the model: loads,
  MaxInfoContexts \* and contexts created

Nobody == "none"
HasPL(x) == TypeOf[x] \in {"AIE_PL", "PL_ONLY"}
HasAIE(x) == TypeOf[x] # "PL_ONLY"

ASSUME InfoAssumption ==
  /\ Nobody \notin Binaries /\ TypeOf \in [Binaries -> {"AIE_PL", "PL_ONLY", "AIE_ONLY", "ELF"}]
  /\ PlioOf \in [Binaries -> Nat] /\ Incomplete \subseteq Binaries
  /\ \A x \in Binaries : PlioOf[x] > 0 => HasPL(x)
  /\ PluginOrders \subseteq Seq({"offload", "status", "profile", "trace"})
  /\ \A o \in PluginOrders : IsInjective(o)
  /\ InContexts \subseteq Binaries /\ MaxLoads \in Nat /\ MaxInfoContexts \in Nat

Default == 0     \* DEFAULT_PL_DEVICE_ID
NoIntf == 0

VARIABLES
  style,         \* appStyle
  enabled,       \* the enabled plugins, in the order XRT calls them
  deviceInfo,    \* the configurations of each device known
  readers,       \* devices with an AIE metadata reader
  hwCtxImplUIDMap, \* uid and validityCount of the contexts known
  nextUid,       \* nextAieOnlyHwCtxUId
  load,          \* LOAD style: the xclbin and the plugins still to be called
  contexts,           \* REGISTER style: the same for each context, and its number and uid
  numLoads,
  intfFor,       \* the xclbin each PLDeviceIntf was created for
  onDevice,      \* history: the xclbins whose halves are on the device
  again,         \* history: a complete xclbin was loaded again and taken as known
  usedBy,        \* history: the contexts that were given each uid
  aborted        \* std::abort was called

siVars == <<style, enabled, deviceInfo, readers, hwCtxImplUIDMap, nextUid, load, contexts,
            numLoads, intfFor, onDevice, again, usedBy, aborted>>

-----------------------------------------------------------------------------
(* Configurations                                                          *)

\* XclbinBinData of a given type; the halves it lacks are not valid
NewBinary(x, type) ==
  [uuid |-> x, type |-> type, pl |-> type \in {"AIE_PL", "PL_ONLY"}, aie |-> type # "PL_ONLY",
   plio |-> 0, counters |-> FALSE, read |-> FALSE]

First(bins, Is(_)) ==
  LET k == SelectInSeq(bins, Is) IN IF k = 0 THEN [NewBinary(Nobody, "PL_ONLY") EXCEPT !.pl = FALSE] ELSE bins[k]
getPlBinary(config) == First(config.bins, LAMBDA b : b.pl)
getAieBinary(config) == First(config.bins, LAMBDA b : b.aie)
containsBinary(config, x) == \E b \in Range(config.bins) : b.uuid = x

currentConfig(d) == Last(deviceInfo[d])
HasConfig(d) == d \in DOMAIN deviceInfo /\ deviceInfo[d] # <<>>

\* Applied to the first binary of a configuration with a valid AIE half
OnAie(config, Op(_)) ==
  LET k == SelectInSeq(config.bins, LAMBDA b : b.aie)
  IN  IF k = 0 THEN config ELSE [config EXCEPT !.bins[k] = Op(@)]

\* AIE profile sets up its counters, in updateAIEDevice, and setIsAIECounterRead
addAIECounter(config) == OnAie(config, LAMBDA b : [b EXCEPT !.counters = TRUE, !.read = TRUE])

\* of any configuration the device ever had
isAIECounterRead(configs) == \E k \in DOMAIN configs : getAieBinary(configs[k]).aie /\ getAieBinary(configs[k]).read

cleanCurrentBinaryInfos(config, type) ==
  IF type = "AIE_ONLY" THEN config
  ELSE [config EXCEPT !.bins = [k \in DOMAIN @ |-> IF @[k].aie THEN [@[k] EXCEPT !.aie = FALSE, !.counters = FALSE] ELSE @[k]]]

\* Mutant: any half of the last configuration will do
fromLastAny(cfgs, query) ==
  LET last == Last(cfgs).bins
  IN  IF cfgs = <<>> \/ last = <<>> THEN <<>>
      ELSE <<[NewBinary(Head(last).uuid, query) EXCEPT !.plio = Head(last).plio]>>

\* The half of the last configuration that the new xclbin lacks, in a binary of
\* its own; an AIE half comes with its number of PLIOs and what is left of its
\* counters, and as read if it was.
fromLastConfig(cfgs, query) ==
  LET last == Last(cfgs)
      k == SelectInSeq(last.bins, LAMBDA b : b.type \in {query, "AIE_PL"})
      copy == NewBinary(last.bins[k].uuid, query)
  IN  IF cfgs = <<>> \/ k = 0 THEN <<>>
      ELSE IF last.type \notin {"AIE_PL", "AIE_PL_FORMED"} /\ \A b \in Range(last.bins) : b.type # query THEN <<>>
      ELSE IF query = "AIE_ONLY" THEN <<[copy EXCEPT !.plio = last.bins[k].plio, !.counters = last.bins[k].counters, !.read = last.bins[k].read]>>
      ELSE <<copy>>

\* buildConfig of XclbinBinData and ElfBinData
buildConfig(cfgs, x) ==
  LET type == TypeOf[x]
      new == NewBinary(x, type)
      missing == fromLastConfig(cfgs, IF type = "AIE_ONLY" THEN "PL_ONLY" ELSE "AIE_ONLY")
  IN  IF type \in {"AIE_PL", "ELF"} \/ missing = <<>>
      THEN [type |-> type, bins |-> <<new>>, intf |-> NoIntf]
      ELSE [type |-> "AIE_PL_FORMED", intf |-> NoIntf,
            bins |-> <<[new EXCEPT !.plio = Last(Last(cfgs).bins).plio]>> \o missing]

\* initializeTS2MM for every trace data mover of an AIE stream
initializeTS2MM(config, n) ==
  IF getAieBinary(config).aie THEN OnAie(config, LAMBDA b : [b EXCEPT !.plio = @ + n])
  ELSE [config EXCEPT !.bins[SelectInSeq(config.bins, LAMBDA b : b.pl)].plio = @ + n]

getNumTracePLIO(config) == IF getAieBinary(config).aie THEN getAieBinary(config).plio ELSE getPlBinary(config).plio

-----------------------------------------------------------------------------
(* updateDevice: the steps of one call of a plugin for xclbin x on device  *)
(* d, and whether it passes an xdp::Device                                 *)

resetDeviceInfo(d, x, dev) ==
  HasConfig(d) /\ containsBinary(currentConfig(d), x) => dev /\ currentConfig(d).intf = NoIntf

\* "a dummy": a configuration of device 0 with nothing but the interface
withDummy(info, intf) ==
  IF Default \in DOMAIN info THEN info
  ELSE [d \in DOMAIN info \cup {Default} |-> IF d = Default THEN <<[type |-> "INTF_ONLY", bins |-> <<>>, intf |-> intf]>> ELSE info[d]]

\* Mutant: the configuration before keeps the interface as well
shareIntf(info, d, type, intf, readable) ==
  LET n == Len(info[d])
      inherited == IF type = "AIE_ONLY" /\ n > 1 THEN info[d][n - 1].intf ELSE intf
  IN  [info EXCEPT ![d][n].intf = inherited]

createPLDeviceIntf(info, d, type, intf, readable) ==
  LET n == Len(info[d])
      config == info[d][n]
      inherited == IF n > 1 THEN info[d][n - 1].intf ELSE config.intf
      moved == IF n > 1 THEN [info EXCEPT ![d][n].intf = inherited, ![d][n - 1].intf = NoIntf] ELSE info
  IN  IF d \notin DOMAIN info \/ info[d] = <<>> THEN info
      ELSE IF type \in {"AIE_PL", "PL_ONLY"}
      THEN IF d # Default /\ config.intf = NoIntf /\ style = "register" THEN withDummy(info, intf)
           ELSE [info EXCEPT ![d][n].intf = IF readable THEN intf ELSE NoIntf]
      ELSE IF inherited = NoIntf /\ style = "register" THEN withDummy(moved, intf)
      ELSE moved

\* The list of configurations after updateDevice
updated(d, x) ==
  LET type == TypeOf[x]
      before == IF d \in DOMAIN deviceInfo THEN deviceInfo[d] ELSE <<>>
      cleaned == IF before = <<>> \/ type = "ELF" THEN before
                 ELSE [before EXCEPT ![Len(before)] = cleanCurrentBinaryInfos(@, type)]
      new == buildConfig(cleaned, x)
  IN  IF x \in Incomplete /\ type # "AIE_ONLY" THEN cleaned
      ELSE Append(cleaned, IF type = "ELF" THEN new ELSE initializeTS2MM(new, PlioOf[x]))

aborts(d, x) == HasConfig(d) /\ currentConfig(d).type = "INTF_ONLY" /\ HasPL(x)

\* addPlIntfOnly of updateDeviceFromCoreDeviceHwCtxFlow
addPlIntfOnly(d, x, dev) == style = "register" /\ dev /\ HasConfig(d) /\ containsBinary(currentConfig(d), x)

Passes(p) == p \in {"offload", "trace"}

\* updateDeviceFromHandle, ...FromCoreDeviceHwCtxFlow and ...FromCoreDeviceElf for
\* plugin p; AIE profile then adds its counters, if there is AIE metadata and none
\* were read before.
updateInfo(d, x, p) ==
  LET dev == Passes(p) /\ TypeOf[x] # "ELF"
      news == resetDeviceInfo(d, x, dev)
      onlyIntf == addPlIntfOnly(d, x, dev)
      info == IF ~news \/ onlyIntf THEN deviceInfo
              ELSE [e \in DOMAIN deviceInfo \cup {d} |-> IF e = d THEN updated(d, x) ELSE deviceInfo[e]]
      made == news /\ dev /\ (x \notin Incomplete \/ TypeOf[x] = "AIE_ONLY" \/ onlyIntf)
      read == IF news /\ ~onlyIntf /\ HasAIE(x) THEN readers \cup {d} ELSE readers
      counted(i) == IF p = "profile" /\ d \in read /\ d \in DOMAIN i /\ i[d] # <<>> /\ ~isAIECounterRead(i[d])
                    THEN [i EXCEPT ![d][Len(i[d])] = addAIECounter(@)] ELSE i
  IN  IF news /\ ~onlyIntf /\ aborts(d, x)
      THEN aborted' = TRUE /\ UNCHANGED <<deviceInfo, readers, intfFor>>
      ELSE /\ \E readable \in BOOLEAN :
                deviceInfo' = counted(IF made THEN createPLDeviceIntf(info, d, TypeOf[x], Len(intfFor) + 1, readable) ELSE info)
           /\ intfFor' = IF made THEN Append(intfFor, x) ELSE intfFor
           /\ readers' = read
           /\ UNCHANGED aborted

-----------------------------------------------------------------------------
SiInit ==
  /\ style = "unset" /\ enabled \in PluginOrders
  /\ deviceInfo = <<>> /\ readers = {} /\ hwCtxImplUIDMap = <<>> /\ nextUid = 1
  /\ load = [x |-> Nobody, todo |-> <<>>]
  /\ contexts = [c \in InfoHandles |-> [x |-> Nobody, todo |-> <<>>, n |-> 0, uid |-> -1, pc |-> "idle"]]
  /\ numLoads = 0 /\ intfFor = <<>>
  /\ onDevice = [pl |-> Nobody, aie |-> Nobody] /\ again = FALSE
  /\ usedBy = <<>> /\ aborted = FALSE

idVars == <<hwCtxImplUIDMap, nextUid, contexts, usedBy>>

\* The application loads xclbin x.  XRT calls the plugins one after the other.
loadXclbin(x) ==
  /\ ~aborted /\ load.todo = <<>> /\ numLoads < MaxLoads
  /\ \A c \in InfoHandles : contexts[c].n = 0
  /\ TypeOf[x] # "ELF" /\ style # "register"
  /\ load' = [x |-> x, todo |-> enabled] /\ numLoads' = numLoads + 1
  /\ onDevice' = [pl |-> IF HasPL(x) THEN x ELSE onDevice.pl, aie |-> IF HasAIE(x) THEN x ELSE onDevice.aie]
  /\ again' = (again \/ (TypeOf[x] = "AIE_PL" /\ ~resetDeviceInfo(1, x, FALSE)) \/ x \in Incomplete)
  /\ UNCHANGED <<style, enabled, deviceInfo, readers, intfFor, idVars, aborted>>

\* The next plugin is called for the load: continueXDPConfig and the update.
pluginLoad ==
  /\ ~aborted /\ load.todo # <<>>
  /\ style' = "load"
  /\ load' = [load EXCEPT !.todo = Tail(@)]
  /\ updateInfo(1, load.x, Head(load.todo))
  /\ UNCHANGED <<enabled, numLoads, onDevice, again, idVars>>

\* A thread of the application creates a context at c for x.  Only AIE trace and
\* AIE profile know the ELF flow.
contextCreated(c, x) ==
  /\ ~aborted /\ load.todo = <<>> /\ numLoads < MaxInfoContexts
  /\ contexts[c].n = 0 /\ style # "load"
  /\ TypeOf[x] = "ELF" => Range(enabled) \subseteq {"profile", "trace"}
  /\ numLoads' = numLoads + 1
  /\ contexts' = [contexts EXCEPT ![c] = [x |-> x, todo |-> enabled, n |-> numLoads + 1, uid |-> -1, pc |-> "call"]]
  /\ UNCHANGED <<style, enabled, deviceInfo, readers, hwCtxImplUIDMap, nextUid, load, intfFor,
                 onDevice, again, usedBy, aborted>>

otherVars == <<enabled, load, numLoads, onDevice, again>>

\* continueXDPConfig, which the ELF flow does not ask
Styled(c) == style' = IF TypeOf[contexts[c].x] = "ELF" THEN style ELSE "register"

Skips(c) == Head(contexts[c].todo) = "offload" /\ ~HasPL(contexts[c].x)

\* Device offload takes no context without a PL half
skipContext(c) ==
  /\ ~aborted /\ contexts[c].pc = "call" /\ contexts[c].todo # <<>> /\ Skips(c)
  /\ Styled(c)
  /\ contexts' = [contexts EXCEPT ![c].todo = Tail(@)]
  /\ UNCHANGED <<otherVars, deviceInfo, readers, hwCtxImplUIDMap, nextUid, intfFor, usedBy, aborted>>

Give(c, uid) ==
  /\ contexts' = [contexts EXCEPT ![c].uid = uid, ![c].pc = "update"]
  /\ usedBy' = [u \in DOMAIN usedBy \cup {uid} |->
                  IF u # uid THEN usedBy[u] ELSE {<<contexts[c].n, contexts[c].x>>} \cup (IF u \in DOMAIN usedBy THEN usedBy[u] ELSE {})]

Known(c) == c \in DOMAIN hwCtxImplUIDMap /\ hwCtxImplUIDMap[c].count > 0

Asks(c) == contexts[c].pc = "call" /\ contexts[c].todo # <<>> /\ ~Skips(c)

\* getHwCtxImplUid, called by the next plugin: a context that is in use, and
\* one that is not, for which the lock is released (not in the ELF flow)
uidKnown(c) ==
  /\ ~aborted /\ Asks(c) /\ Known(c)
  /\ Styled(c)
  /\ hwCtxImplUIDMap' = [hwCtxImplUIDMap EXCEPT ![c].count = @ + 1]
  /\ Give(c, hwCtxImplUIDMap[c].uid)
  /\ UNCHANGED <<otherVars, deviceInfo, readers, nextUid, intfFor, aborted>>

uidUnknown(c) ==
  /\ ~aborted /\ Asks(c) /\ ~Known(c) /\ TypeOf[contexts[c].x] # "ELF"
  /\ Styled(c)
  /\ hwCtxImplUIDMap' = [k \in DOMAIN hwCtxImplUIDMap \ {c} |-> hwCtxImplUIDMap[k]]
  /\ contexts' = [contexts EXCEPT ![c].pc = "assign"]
  /\ UNCHANGED <<otherVars, deviceInfo, readers, nextUid, intfFor, usedBy, aborted>>

Assigns(c) == contexts[c].pc = "assign" \/ (Asks(c) /\ ~Known(c) /\ TypeOf[contexts[c].x] = "ELF")

\* Mutant: the number of the context is not counted on
assignSame(c) ==
  /\ ~aborted /\ Assigns(c)
  /\ LET uid == IF HasPL(contexts[c].x) THEN Default ELSE nextUid IN
     /\ hwCtxImplUIDMap' = [k \in DOMAIN hwCtxImplUIDMap \cup {c} |-> IF k = c THEN [uid |-> uid, count |-> 1] ELSE hwCtxImplUIDMap[k]]
     /\ Give(c, uid)
     /\ UNCHANGED nextUid
  /\ UNCHANGED <<otherVars, style, deviceInfo, readers, intfFor, aborted>>

\* getHwCtxImplUid and getHwCtxImplUidElf: the uid of a new context, 0 with a PL half
assignUid(c) ==
  /\ ~aborted /\ Assigns(c)
  /\ LET uid == IF HasPL(contexts[c].x) THEN Default ELSE nextUid IN
     /\ hwCtxImplUIDMap' = [k \in DOMAIN hwCtxImplUIDMap \cup {c} |-> IF k = c THEN [uid |-> uid, count |-> 1] ELSE hwCtxImplUIDMap[k]]
     /\ Give(c, uid)
     /\ nextUid' = IF HasPL(contexts[c].x) THEN nextUid ELSE nextUid + 1
  /\ UNCHANGED <<otherVars, style, deviceInfo, readers, intfFor, aborted>>

pluginUpdate(c) ==
  /\ ~aborted /\ contexts[c].pc = "update"
  /\ updateInfo(contexts[c].uid, contexts[c].x, Head(contexts[c].todo))
  /\ contexts' = [contexts EXCEPT ![c].pc = "call", ![c].todo = Tail(@)]
  /\ UNCHANGED <<otherVars, style, hwCtxImplUIDMap, nextUid, usedBy>>

\* The context at c is destroyed: AIE trace and AIE profile unregister from it.
contextDestroyed(c) ==
  /\ ~aborted /\ contexts[c].pc = "call" /\ contexts[c].todo = <<>>
  /\ contexts' = [contexts EXCEPT ![c] = [x |-> Nobody, todo |-> <<>>, n |-> 0, uid |-> -1, pc |-> "idle"]]
  /\ LET gone == Cardinality(Range(enabled) \cap {"trace", "profile"})
     IN  hwCtxImplUIDMap' = IF style # "register" \/ c \notin DOMAIN hwCtxImplUIDMap THEN hwCtxImplUIDMap
                            ELSE [hwCtxImplUIDMap EXCEPT ![c].count = IF @ > gone THEN @ - gone ELSE 0]
  /\ UNCHANGED <<otherVars, style, deviceInfo, readers, nextUid, intfFor, usedBy, aborted>>

SiNext ==
  \/ \E x \in Binaries : loadXclbin(x)
  \/ pluginLoad
  \/ \E c \in InfoHandles :
       \/ \E x \in InContexts : contextCreated(c, x)
       \/ skipContext(c) \/ uidKnown(c) \/ uidUnknown(c) \/ assignUid(c)
       \/ pluginUpdate(c) \/ contextDestroyed(c)

SiSpec == SiInit /\ [][SiNext]_siVars

-----------------------------------------------------------------------------
AtRest == ~aborted /\ load.todo = <<>> /\ \A c \in InfoHandles : contexts[c].todo = <<>>

\* Whatever is loaded in whichever order, the current configuration names the
\* xclbins whose halves are on the device, and if it was not formed of two, the
\* number of PLIO trace streams is that of its PL half.  Its PL device interface
\* was created for that half, through all the configurations it was handed
\* along, and belongs to one configuration only (which deletes it).  Not so
\* once a complete xclbin was loaded again while half of it was in use: it is
\* taken as known.
ConfigRight ==
  /\ \A d, e \in DOMAIN deviceInfo : \A j \in DOMAIN deviceInfo[d], k \in DOMAIN deviceInfo[e] :
       deviceInfo[d][j].intf = deviceInfo[e][k].intf /\ deviceInfo[d][j].intf # NoIntf => <<d, j>> = <<e, k>>
  /\ AtRest /\ style = "load" /\ ~again =>
       /\ getPlBinary(currentConfig(1)).uuid = onDevice.pl
       /\ getAieBinary(currentConfig(1)).uuid = onDevice.aie
       /\ currentConfig(1).type # "AIE_PL_FORMED" =>
            getNumTracePLIO(currentConfig(1)) = IF onDevice.pl = Nobody THEN 0 ELSE PlioOf[onDevice.pl]
       /\ currentConfig(1).intf # NoIntf => intfFor[currentConfig(1).intf] = onDevice.pl

\* "We only want to configure once per xclbin": when all plugins have been called
\* for a load, the counters of AIE profile are set up for the AIE half on the
\* device, as isAIEcounterRead says.
CountersOnce ==
  AtRest /\ style = "load" /\ ~again /\ enabled = <<"offload", "profile">> =>
    (getAieBinary(currentConfig(1)).aie => getAieBinary(currentConfig(1)).counters)

\* A context without a PL half has a uid, and so a device of its own in every
\* database, that no other context had before: the plugins that unregister
\* balance the calls that count them.  (Device offload, AIE status and the ELF
\* flow, which sets no style, do not unregister.)
FreshUid ==
  Range(enabled) \subseteq {"profile", "trace"} /\ style = "register" =>
    \A u \in DOMAIN usedBy \ {Default} :
      (\A use \in usedBy[u] : TypeOf[use[2]] # "ELF") => Cardinality(usedBy[u]) <= 1
=============================================================================
