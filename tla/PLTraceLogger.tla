--------------------------- MODULE PLTraceLogger ---------------------------
(***************************************************************************)
(* PLDeviceTraceLogger: the packets of the monitors of a device, of which  *)
(* the hardware may have dropped any, become start and end events; a start *)
(* waits in PLDB, per monitor, for the end that names it.                  *)
(*                                                                         *)
(* Host times are counted in half cycles of the trace clock: device time t *)
(* is host time 2t between two clock trainings.  An event id is any number *)
(* that no open start and no entry of a queue has.                         *)
(*                                                                         *)
(* The processing thread calls the logger for one packet after the other,  *)
(* so that the logger is a function of its state (a record) and a packet.  *)
(***************************************************************************)
EXTENDS Integers, Sequences, FiniteSets

CONSTANTS
  AM, AIM, ASM,   \* slots of the monitors: on compute units, memory ports, streams
  CuOf,           \* the compute unit of a memory port or stream: an AM slot, or -1
  Stall,          \* kinds of stall: subset of {"int", "str", "ext"}
  Flow,           \* kinds of stream event: subset of {"tx", "starve", "stall"}
  NumUserASM,     \* getNumUserASMWithTrace
  MaxTime,        \* bound: device time
  MaxWaiting      \* bound: starts that wait in PLDB, and starts without an end

ASSUME MonitorAssumption == /\ IsFiniteSet(AM) /\ IsFiniteSet(AIM) /\ IsFiniteSet(ASM)
                            /\ AM \cup AIM \cup ASM \subseteq Nat
ASSUME CuAssumption == CuOf \in [AIM \cup ASM -> AM \cup {-1}]
ASSUME KindAssumption == Stall \subseteq {"int", "str", "ext"} /\ Flow \subseteq {"tx", "starve", "stall"}
ASSUME LoggerBoundAssumption == NumUserASM \in Nat /\ MaxTime \in Nat /\ MaxWaiting \in Nat

VARIABLES
  log,        \* the logger, PLDB's startEvents and what the trace has so far
  now,        \* device time of the last packet
  phase       \* "trace", or "ended": endProcessTraceData was called

logVars == <<log, now, phase>>

\* trace ids: a port has one for reads and one for writes
Mon == {<<"am", a>> : a \in AM} \cup {<<"read", p>> : p \in AIM}
         \cup {<<"write", p>> : p \in AIM} \cup {<<"asm", s>> : s \in ASM}
MaxOf(S) == CHOOSE x \in S : \A y \in S : y <= x

\* what a loop over monitors counts up to
Slots == MaxOf({0} \cup AM \cup AIM \cup ASM) + 1

TypesOf(m) == IF m[1] = "am" THEN {"cu"} \cup Stall ELSE IF m[1] = "asm" THEN Flow ELSE {m[1]}

-----------------------------------------------------------------------------
(* The event database                                                      *)

QueueIds(L) == (UNION {{L.db[m][k].id : k \in 1..Len(L.db[m])} : m \in Mon})
                 \cup (UNION {{L.cuStarts[a][k].id : k \in 1..Len(L.cuStarts[a])} : a \in AM})

NewId(L) == LET used == {s.id : s \in L.open} \cup QueueIds(L)
            IN  CHOOSE i \in 1..(Cardinality(used) + 1) : i \notin used

\* addEvent of a start
AddStart(L, id, m, type, host) ==
  [L EXCEPT !.open = @ \cup {[id |-> id, mon |-> m, type |-> type, host |-> host]}]

\* addEvent of an end that names start id; without one it is a start.
\* wrong records an end that names no open start of its kind, or lies
\* before its start by more than a half cycle
AddEnd(L, id, m, type, host) ==
  IF id = 0 THEN AddStart(L, NewId(L), m, type, host)
  ELSE LET mine == {s \in L.open : s.id = id /\ s.mon = m /\ s.type = type}
       IN [L EXCEPT !.open = @ \ mine,
                    !.wrong = @ \cup (IF mine = {} THEN {"unmatched"} ELSE {})
                                \cup (IF \E s \in mine : host < s.host - 1 THEN {"backwards"} ELSE {})]

Waiting(L, m, type) == {k \in 1..Len(L.db[m]) : L.db[m][k].type = type}

Unknown == [type |-> "unknown", id |-> 0, dev |-> 0]

\* mutant: the newest start of the type, which stays in the list
FindMatchingStartKeep(L, m, type) ==
  IF Waiting(L, m, type) = {} THEN [info |-> Unknown, rest |-> L.db[m]]
  ELSE LET k == CHOOSE k \in Waiting(L, m, type) : \A j \in Waiting(L, m, type) : j <= k
       IN [info |-> L.db[m][k], rest |-> L.db[m]]

\* PLDB::findMatchingStart: the oldest start of the type leaves the list
FindMatchingStart(L, m, type) ==
  IF Waiting(L, m, type) = {} THEN [info |-> Unknown, rest |-> L.db[m]]
  ELSE LET k == CHOOSE k \in Waiting(L, m, type) : \A j \in Waiting(L, m, type) : k <= j
       IN [info |-> L.db[m][k],
           rest |-> SubSeq(L.db[m], 1, k - 1) \o SubSeq(L.db[m], k + 1, Len(L.db[m]))]

Match(L, m, type) == FindMatchingStart(L, m, type).info
Matched(L, m, type) == [L EXCEPT !.db[m] = FindMatchingStart(L, m, type).rest]

\* a start event that is also marked in PLDB
MarkStart(L, m, type, t) ==
  LET id == NewId(L)
  IN  [AddStart(L, id, m, type, 2 * t) EXCEPT !.db[m] = Append(@, [type |-> type, id |-> id, dev |-> t])]

-----------------------------------------------------------------------------
(* Accelerator monitors: executions of a compute unit and its stalls       *)

\* addCUEndEvent
AddCUEnd(L, a, t) ==
  AddEnd([L EXCEPT !.cuStarts[a] = Tail(@)], Head(L.cuStarts[a]).id, <<"am", a>>, "cu", 2 * t)

\* addCUEvent
AddCU(L, a, isStart, t) ==
  LET m == <<"am", a>>
      started == [MarkStart(L, m, "cu", t) EXCEPT !.cuStarts[a] = Append(@, [id |-> NewId(L), dev |-> t])]
      taken == Matched(L, m, "cu")
  IN IF isStart
     THEN IF Len(started.cuStarts[a]) = 1 THEN [started EXCEPT !.traceIDs[a] = {}] ELSE started
     ELSE IF Match(L, m, "cu").type = "unknown" \/ L.cuStarts[a] = <<>> THEN taken
          ELSE AddCUEnd(taken, a, t)

\* addStallEvent: the end of a stall if the status has it, else a start
AddStall(L, a, k, host, t) ==
  LET m == <<"am", a>> IN
  IF k \in L.traceIDs[a] THEN AddEnd(Matched(L, m, k), Match(L, m, k).id, m, k, host)
  ELSE MarkStart(L, m, k, t)

\* addStallEvent for every kind of ks
AddStalls(L, a, ks, host, t) ==
  LET step1 == IF "int" \in ks THEN AddStall(L, a, "int", host, t) ELSE L
      step2 == IF "str" \in ks THEN AddStall(step1, a, "str", host, t) ELSE step1
  IN IF "ext" \in ks THEN AddStall(step2, a, "ext", host, t) ELSE step2

-----------------------------------------------------------------------------
(* Memory ports                                                            *)

\* mutant: the end is put at the last activity of the unit, however early
TransferEndAtUnit(L, m, amId) ==
  IF amId = -1 THEN 2 * Match(L, m, m[1]).dev + 1 ELSE 2 * L.amLast[amId]

\* the approximate end of an open transfer: the last activity of its unit,
\* if that is later than the start
TransferEnd(L, m, amId) ==
  IF amId # -1 /\ Match(L, m, m[1]).dev < L.amLast[amId]
  THEN 2 * L.amLast[amId] ELSE 2 * Match(L, m, m[1]).dev + 1

\* addApproximateDataTransferEvent.  The end names its start, but carries the
\* monitor of the unit, or none, where the start carries that of the port: astray
\* when the two ids differ, as the writer looks its row up by the id.
ApproxTransfer(L, m, amId) ==
  IF Match(L, m, m[1]).type = "unknown" THEN L
  ELSE [AddEnd(Matched(L, m, m[1]), Match(L, m, m[1]).id, m, m[1], TransferEnd(L, m, amId))
          EXCEPT !.astray = @ \/ amId # m[2]]

ApproxPort(L, p) == ApproxTransfer(ApproxTransfer(L, <<"read", p>>, CuOf[p]), <<"write", p>>, CuOf[p])

\* the ports of ps, one after the other
ApproxPorts(L, ps) ==
  LET f[n \in 0..Slots] ==
        IF n = 0 THEN L ELSE IF n - 1 \in ps THEN ApproxPort(f[n - 1], n - 1) ELSE f[n - 1]
  IN f[Slots]

\* mutant: a start after a start leaves the first one open
AddTransferStartAgain(L, m, t) == MarkStart(L, m, m[1], t)

\* addKernelDataTransferEvent: a start, which ends the one before it
AddTransferStart(L, m, t) ==
  IF Waiting(L, m, m[1]) = {} THEN MarkStart(L, m, m[1], t)
  ELSE LET ended == AddEnd(Matched(L, m, m[1]), Match(L, m, m[1]).id, m, m[1], 2 * t - 1)
       IN MarkStart([ended EXCEPT !.aimLast[m[2]] = t], m, m[1], t)

\* a start and an end, half a cycle later, for an end packet without a start
\* or for a pulse
AddPulse(L, m, type, t) ==
  AddEnd(AddStart(L, NewId(L), m, type, 2 * t), NewId(L), m, type, 2 * t + 1)

\* addKernelDataTransferEvent: an end; pulse is its reserved bit
AddTransferEnd(L, m, pulse, t) ==
  LET start == Match(L, m, m[1])
      taken == [Matched(L, m, m[1]) EXCEPT !.aimLast[m[2]] = t]
  IN IF start.type = "unknown" THEN AddPulse(taken, m, m[1], t)
     ELSE IF ~pulse THEN AddEnd(taken, start.id, m, m[1], 2 * t)
     ELSE IF start.dev = t THEN AddEnd(taken, start.id, m, m[1], 2 * t + 1)
     ELSE AddPulse(AddEnd(taken, start.id, m, m[1], 2 * t), m, m[1], t)

-----------------------------------------------------------------------------
(* addAMEvent: a packet with a subset of the events of a compute unit      *)

\* a unit that has just ended: its transfers and stalls are tied off
TieOff(L, a, t) ==
  LET ports == ApproxPorts(L, {p \in AIM : CuOf[p] = a})
  IN AddStalls(ports, a, Stall \cap ports.traceIDs[a], 2 * t - 1, t)

AddAM(L, a, cu, ks, t) ==
  LET bits == ks \cup (IF cu = "none" THEN {} ELSE {"cu"})
      unit == IF cu = "none" THEN L ELSE AddCU(L, a, cu = "start", t)
      stalled == AddStalls(unit, a, ks, 2 * t, t)
      toggled == [stalled EXCEPT !.traceIDs[a] = (@ \ bits) \cup (bits \ @), !.amLast[a] = t]
  IN IF cu # "none" /\ toggled.cuStarts[a] = <<>> THEN TieOff(toggled, a, t) ELSE toggled

-----------------------------------------------------------------------------
(* addASMEvent                                                             *)

AddASM(L, s, f, isStart, isSingle, t) ==
  LET m == <<"asm", s>>
      start == Match(L, m, f)
      taken == [Matched(L, m, f) EXCEPT !.asmLast[s] = t]
  IN IF isStart THEN MarkStart(L, m, f, t)
     ELSE IF isSingle \/ start.type = "unknown" THEN AddPulse(taken, m, f, t)
     ELSE AddEnd(taken, start.id, m, f, 2 * t)

-----------------------------------------------------------------------------
(* endProcessTraceData                                                     *)

\* addApproximateCUEndEvents: the oldest execution of each unit ends with
\* the last activity on the unit and on its ports and streams
CuLast(L, a) ==
  MaxOf({L.amLast[a]} \cup {L.aimLast[p] : p \in {p \in AIM : CuOf[p] = a}}
                      \cup {L.asmLast[s] : s \in {s \in ASM : CuOf[s] = a}})

ApproxCUEnd(L, a) ==
  IF L.cuStarts[a] = <<>> \/ CuLast(L, a) = 0 THEN L ELSE AddCUEnd(L, a, CuLast(L, a))

ApproxCUEnds(L) ==
  LET f[n \in 0..Slots] ==
        IF n = 0 THEN L ELSE IF n - 1 \in AM THEN ApproxCUEnd(f[n - 1], n - 1) ELSE f[n - 1]
  IN f[Slots]

\* the approximate end of a stream event that started at d
StreamEnd(L, s, d) == IF CuOf[s] # -1 /\ d < L.amLast[CuOf[s]] THEN L.amLast[CuOf[s]] ELSE d

AddStreamEnd(L, s, e) ==
  AddEnd(L, e.id, <<"asm", s>>, e.type,
         IF StreamEnd(L, s, e.dev) > e.dev THEN 2 * StreamEnd(L, s, e.dev) ELSE 2 * e.dev + 1)

\* addApproximateStreamEndEvent for each type: all that wait.  The last
\* activity of the stream is put back.
ApproxStream(L, s) ==
  LET q == L.db[<<"asm", s>>]
      f[k \in 0..Len(q)] == IF k = 0 THEN L ELSE AddStreamEnd(f[k - 1], s, q[k])
      ends == {StreamEnd(L, s, q[k].dev) : k \in 1..Len(q)}
  IN [f[Len(q)] EXCEPT !.db[<<"asm", s>>] = <<>>, !.asmLast[s] = IF ends = {} THEN 0 ELSE MaxOf(ends)]

ApproxStreams(L) ==
  LET f[n \in 0..Slots] ==
        IF n = 0 THEN L
        ELSE IF n - 1 \in ASM /\ n - 1 < NumUserASM THEN ApproxStream(f[n - 1], n - 1) ELSE f[n - 1]
  IN f[Slots]

\* mutant: ports that belong to a unit are left to the end of the unit
EndProcessFloatingOnly(L) == ApproxStreams(ApproxPorts(ApproxCUEnds(L), {p \in AIM : CuOf[p] = -1}))

EndProcess(L) == ApproxStreams(ApproxPorts(ApproxCUEnds(L), AIM))

-----------------------------------------------------------------------------
NewLogger(db, open, wrong) ==
  [cuStarts |-> [a \in AM |-> <<>>], traceIDs |-> [a \in AM |-> {}],
   amLast |-> [a \in AM |-> 0], aimLast |-> [p \in AIM |-> 0], asmLast |-> [s \in ASM |-> 0],
   db |-> db, open |-> open, wrong |-> wrong, astray |-> FALSE]

LogInit == log = NewLogger([m \in Mon |-> <<>>], {}, {}) /\ now = 1 /\ phase = "trace"

\* a packet of processTraceData: at the time of the one before it or later
Packet(L) ==
  /\ phase = "trace"
  /\ Cardinality(L.open) <= MaxWaiting
  /\ Cardinality(UNION {{m} \X DOMAIN L.db[m] : m \in Mon}) <= MaxWaiting
  /\ log' = L
  /\ UNCHANGED phase

Times == {t \in {now, now + 1} : t <= MaxTime}

AMPacket == \E a \in AM, cu \in {"none", "start", "end"}, ks \in SUBSET Stall, t \in Times :
              /\ cu # "none" \/ ks # {}
              /\ Packet(AddAM(log, a, cu, ks, t)) /\ now' = t

AIMPacket == \E p \in AIM, dir \in {"read", "write"}, t \in Times :
               /\ \/ Packet(AddTransferStart(log, <<dir, p>>, t))
                  \/ \E pulse \in BOOLEAN : Packet(AddTransferEnd(log, <<dir, p>>, pulse, t))
               /\ now' = t

\* only an end looks at the flag for a single cycle
ASMPacket == \E s \in ASM, f \in Flow, isStart, isSingle \in BOOLEAN, t \in Times :
               /\ isStart => ~isSingle
               /\ Packet(AddASM(log, s, f, isStart, isSingle, t)) /\ now' = t

\* endProcessTraceData, by read_trace_end
TraceEnds ==
  /\ phase = "trace" /\ phase' = "ended"
  /\ log' = EndProcess(log)
  /\ UNCHANGED now

\* another design is loaded: a new logger, and the database as it is
Reload ==
  /\ phase = "ended" /\ phase' = "trace"
  /\ log' = NewLogger(log.db, log.open, log.wrong)
  /\ UNCHANGED now

LogNext == AMPacket \/ AIMPacket \/ ASMPacket \/ TraceEnds \/ Reload

LogSpec == LogInit /\ [][LogNext]_logVars

-----------------------------------------------------------------------------
(* Properties                                                              *)

Transfers(L) == {s \in L.open : s.mon[1] \in {"read", "write"}}

\* Every variable has its type; the status of a unit is made of its events.
LogTypeOK ==
  /\ now \in 1..MaxTime /\ phase \in {"trace", "ended"}
  /\ \A m \in Mon : \A k \in 1..Len(log.db[m]) : log.db[m][k].type \in TypesOf(m)
  /\ \A a \in AM : log.traceIDs[a] \subseteq {"cu"} \cup Stall
  /\ \A s \in log.open : s.type \in TypesOf(s.mon)

\* An end event names a start of its type that has no end yet and was made for
\* the trace id that the end is made for, whatever packets were dropped and
\* although executions wait in two queues (PLDB's and cuStarts) that are emptied
\* separately.  Nothing is said of the monitor that it carries, by which the
\* writer finds its row: log.astray notes when that is not the start's.
EndsOnce == "unmatched" \notin log.wrong

\* An end, approximate ones included, is not before its start (a dummy end
\* may be half a cycle off).
NeverBackwards == "backwards" \notin log.wrong

\* A memory port has at most one open read and one open write, and PLDB
\* knows it: no transfer is forgotten when packets are dropped.
OneOpenTransfer ==
  \A p \in AIM, dir \in {"read", "write"} :
    LET mine == {s \in log.open : s.mon = <<dir, p>>}
    IN Cardinality(mine) <= 1 /\ {s.id : s \in mine} = {log.db[<<dir, p>>][k].id : k \in 1..Len(log.db[<<dir, p>>])}

\* When the trace has ended no transfer is open, nor a stream event known to
\* PLDB on the streams that are traced.
TraceTiesOff ==
  phase = "ended" =>
    /\ Transfers(log) = {}
    /\ \A s \in ASM : s < NumUserASM => log.db[<<"asm", s>>] = <<>>

\* Start and end events pair up: each end names the one start it ends, and is not
\* before it, no start of a transfer is left behind by the next, and the
\* approximate ends that endProcessTraceData adds leave no transfer open and no
\* stream event that PLDB knows of.  A stall, all but the oldest execution of a
\* unit and a stream event without an entry in PLDB may stay open.
EventsPaired == EndsOnce /\ NeverBackwards /\ OneOpenTransfer /\ TraceTiesOff
=============================================================================
