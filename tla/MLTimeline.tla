----------------------------- MODULE MLTimeline -----------------------------
(***************************************************************************)
(* MLTimelinePlugin with the implementation for VE2 (the one for client    *)
(* devices reads its buffer alike): every hardware context gets a buffer   *)
(* with one segment per microcontroller, which the microcontrollers fill   *)
(* with record timer entries.  When the context goes, or when asked for    *)
(* all data, the buffer is read into a JSON file.                          *)
(***************************************************************************)
EXTENDS Integers, Sequences, SequencesExt, FiniteSets

CONSTANTS
  CtxHandles,    \* addresses of hardware contexts, reused by later contexts
  NumSegments,   \* mNumBufSegments
  SegmentSize,   \* entries in a segment
  MaxContexts, MaxBuffers    \* bounds of the model: contexts and buffers created

ASSUME TimelineAssumption ==
  /\ NumSegments \in Nat \ {0} /\ SegmentSize \in Nat \ {0}
  /\ MaxContexts \in Nat \ {0} /\ MaxBuffers \in Nat \ {0}

Serials == 1..MaxContexts
Buffers == 1..MaxBuffers
Segments == 0..(NumSegments - 1)
BufferSize == NumSegments * SegmentSize

\* The buffer of an implementation that could not allocate one.
NoBuffer == 0

VARIABLES
  ctx,         \* the contexts that are there: their number, by address
  created,     \* contexts created so far
  impl,        \* mMultiImpl: the context it was made for and its buffer, by address
  buffers,     \* buffers allocated so far
  seen,        \* one of the buffers just written: how many entries each segment
               \*   of it holds, and the records in the file
  mlWrites,    \* history: how often each buffer was written to a file
  mlUp         \* MLTimelinePlugin::live

mlVars == <<ctx, created, impl, buffers, seen, mlWrites, mlUp>>

MLTypeOK ==
  /\ \E S \in SUBSET CtxHandles : ctx \in [S -> Serials]
  /\ created \in 0..MaxContexts /\ buffers \in 0..MaxBuffers
  /\ \E S \in SUBSET CtxHandles : impl \in [S -> [serial : Serials, buffer : 0..MaxBuffers]]
  /\ seen.counts \in [Segments -> 0..SegmentSize]
  /\ mlWrites \in [Buffers -> Nat]
  /\ mlUp \in BOOLEAN

MLInit ==
  /\ ctx = <<>> /\ created = 0 /\ impl = <<>> /\ buffers = 0
  /\ seen = [counts |-> [g \in Segments |-> 0], out |-> <<>>]
  /\ mlWrites = [b \in Buffers |-> 0]
  /\ mlUp = TRUE

Put(f, x, v) == [y \in DOMAIN f \cup {x} |-> IF y = x THEN v ELSE f[y]]
Drop(f, x) == [y \in DOMAIN f \ {x} |-> f[y]]

-----------------------------------------------------------------------------
(* Reading a buffer.  An entry is the pair of its segment and its index    *)
(* there; zero marks the end of what a segment holds.                      *)

Zero == <<>>
Beyond == <<NumSegments, 0>>

Entry(counts, p) ==
  IF p >= BufferSize THEN Beyond
  ELSE IF p % SegmentSize < counts[p \div SegmentSize]
       THEN <<p \div SegmentSize, p % SegmentSize>>
       ELSE Zero

noSegments(counts, s) ==
  LET e == Entry(counts, s.ptr)
  IN
  IF s.stop THEN s
  ELSE IF e # Zero THEN [s EXCEPT !.ptr = @ + 1, !.out = Append(@, e)]
  ELSE [s EXCEPT !.stop = TRUE]

\* One turn of the loop of finishflushDevice.  At a zero entry it goes to the
\* segment after the one it last jumped to, until it has seen as many zeroes as
\* there are segments.
ReadEntry(counts, s) ==
  LET e == Entry(counts, s.ptr)
  IN
  IF s.stop THEN s
  ELSE IF e # Zero THEN [s EXCEPT !.ptr = @ + 1, !.out = Append(@, e)]
  ELSE IF s.segmentsRead + 1 = NumSegments THEN [s EXCEPT !.stop = TRUE]
  ELSE [s EXCEPT !.segmentsRead = @ + 1,
                 !.ptr = s.segment + SegmentSize,
                 !.segment = s.segment + SegmentSize]

\* The pointer and the counts before the loop.
ReadStart == [ptr |-> 0, segment |-> 0, segmentsRead |-> 0, stop |-> FALSE, out |-> <<>>]

\* The loop: at most as many turns as the buffer has entries.
ReadBuffer(counts) ==
  LET turn[k \in 0..BufferSize] ==
        IF k = 0 THEN ReadStart ELSE ReadEntry(counts, turn[k - 1])
  IN turn[BufferSize].out

\* What the microcontrollers have written, segment by segment.
Written(counts) ==
  FlattenSeq([g \in 1..NumSegments |-> [i \in 1..counts[g - 1] |-> <<g - 1, i - 1>>]])

-----------------------------------------------------------------------------
\* updateDevice for context s at address c: an address has one implementation, which
\* has a buffer if it can be allocated.  There is none when the flow or the device is
\* not supported or the context not yet fully configured.
updateDevice(c, s) ==
  \/ UNCHANGED <<impl, buffers>>
  \/ /\ c \notin DOMAIN impl
     /\ impl' = Put(impl, c, [serial |-> s, buffer |-> NoBuffer])
     /\ UNCHANGED buffers
  \/ /\ c \notin DOMAIN impl /\ buffers < MaxBuffers
     /\ buffers' = buffers + 1
     /\ impl' = Put(impl, c, [serial |-> s, buffer |-> buffers'])

\* The application creates a context at an address that is free.
createContext(c) ==
  /\ mlUp /\ created < MaxContexts /\ c \notin DOMAIN ctx
  /\ created' = created + 1 /\ ctx' = Put(ctx, c, created + 1)
  /\ updateDevice(c, created + 1)
  /\ UNCHANGED <<seen, mlWrites, mlUp>>

\* The application adds a configuration to a context, and XRT calls updateDevice again.
addConfig(c) ==
  /\ mlUp /\ c \in DOMAIN ctx
  /\ updateDevice(c, ctx[c])
  /\ UNCHANGED <<ctx, created, seen, mlWrites, mlUp>>

\* finishflushDevice of the implementations at the addresses in S: each with a buffer
\* reads it, whatever the microcontrollers have recorded there, and writes its file.
Flush(S) ==
  LET B == {impl[c].buffer : c \in S} \ {NoBuffer}
  IN
  /\ IF B = {} THEN UNCHANGED seen
     ELSE \E counts \in [Segments -> 0..SegmentSize] :
            seen' = [counts |-> counts, out |-> ReadBuffer(counts)]
  /\ mlWrites' = [b \in Buffers |-> IF b \in B THEN mlWrites[b] + 1 ELSE mlWrites[b]]

notErased(c) ==
  /\ mlUp /\ c \in DOMAIN ctx
  /\ ctx' = Drop(ctx, c)
  /\ IF c \in DOMAIN impl THEN Flush({c}) ELSE UNCHANGED <<seen, mlWrites>>
  /\ UNCHANGED <<impl, buffers, created, mlUp>>

\* The context at c is destroyed: finishflushDevice.
finishflushDevice(c) ==
  /\ mlUp /\ c \in DOMAIN ctx
  /\ ctx' = Drop(ctx, c)
  /\ IF c \in DOMAIN impl
     THEN Flush({c}) /\ impl' = Drop(impl, c)
     ELSE UNCHANGED <<seen, mlWrites, impl>>
  /\ UNCHANGED <<buffers, created, mlUp>>

\* writeAll writes every buffer and lets go of it.
writeAllTimelines ==
  /\ Flush(DOMAIN impl)
  /\ impl' = <<>>

\* READ_RECORD_TIMESTAMPS
readRecordTimestamps ==
  /\ mlUp /\ writeAllTimelines
  /\ UNCHANGED <<ctx, created, buffers, mlUp>>

\* ~MLTimelinePlugin, or ~VPDatabase with a broadcast before it.
timelineExit ==
  /\ mlUp /\ writeAllTimelines
  /\ mlUp' = FALSE
  /\ UNCHANGED <<ctx, created, buffers>>

MLNext ==
  \/ \E c \in CtxHandles : createContext(c) \/ addConfig(c) \/ finishflushDevice(c)
  \/ readRecordTimestamps \/ timelineExit

MLSpec == MLInit /\ [][MLNext]_mlVars

-----------------------------------------------------------------------------
NoneFull(counts) == \A g \in Segments : counts[g] < SegmentSize

\* The implementation at an address is that of the context that lives there, so that
\* a context at the address of an earlier one records into a buffer of its own, and
\* a buffer is written out at most once: neither the broadcast nor the destructor
\* writes one again that a flush has written.
OwnBuffer ==
  /\ \A c \in DOMAIN impl : c \in DOMAIN ctx /\ impl[c].serial = ctx[c]
  /\ \A b \in Buffers : mlWrites[b] <= 1

\* A buffer none of whose segments is full is read exactly, every entry of every
\* segment once and in order, and it is the buffer of its context and written once.
OwnTimeline ==
  /\ NoneFull(seen.counts) => seen.out = Written(seen.counts)
  /\ OwnBuffer

\* ml_timeline_plugin.cpp aligns the buffer size "to avoid incorrect reads when Host
\* Buffer gets overwritten with excess record timer data": whatever the segments
\* hold, the file names entries of the buffer only, and each of them once.
ReadsCorrectly ==
  /\ Beyond \notin ToSet(seen.out)
  /\ IsInjective(seen.out)
=============================================================================
