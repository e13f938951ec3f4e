--------------------------- MODULE HostTraceProofs --------------------------
(***************************************************************************)
(* Theorems of HostTrace for every set of threads, of uses of XRT and for  *)
(* every number of calls and files: the statistics pair every call with    *)
(* its own end, every line of a file finds its names in that file, every   *)
(* event is in one place and in a file in the end, every end event finds   *)
(* the start of its own call, and every arrow leads from the end of a      *)
(* command to the start of one that waited for it.                         *)
(***************************************************************************)
EXTENDS HostTrace, FiniteSetTheorems, SequenceTheorems, WellFoundedInduction, TLAPS

-----------------------------------------------------------------------------
(* The programs of the callbacks                                           *)

Kinds == {"clAPI", "clTransfer", "clCopy", "clEnqueue", "lopAPI", "lop", "halAPI", "halTransfer",
          "native", "user"}
Tables == {"event", "uid", "pair"}
Keys == {"fn", "ev", "lop", "buffer"}

\* the calls a callback makes on the databases
Op == {Name, MapCommand, CallStart, CallEnd, QuitUnstarted}
        \cup {Add(k) : k \in Kinds}
        \cup {Mark(b, k) : b \in Tables, k \in Keys} \cup {Look(b, k) : b \in Tables, k \in Keys}

\* the callback has still to make a call of this name
Has(ops, name) == \E i \in DOMAIN ops : ops[i].op = name

Once(ops, name) == \A i, j \in DOMAIN ops : ops[i].op = name /\ ops[j].op = name => i = j

\* the string is in the table before an event that uses it is added
NamedFirst(ops) ==
  \A j \in DOMAIN ops : ops[j].op = "add" /\ ops[j].kind # "lop" =>
    \E i \in 1..(j - 1) : ops[i].op = "name"

AddsOnly(ops, kinds) == \A i \in DOMAIN ops : ops[i].op = "add" => ops[i].kind \in kinds

\* the functions that are counted
Counted == {"halCall", "halWrite", "halRead", "native", "sync"}

StartProgram(api, ops) ==
  /\ ops \in Seq(Op) /\ Once(ops, "callStart")
  /\ ~Has(ops, "callEnd") /\ ~Has(ops, "quit")
  /\ api \in Counted <=> Has(ops, "callStart")
  /\ NamedFirst(ops) /\ AddsOnly(ops, Takes[API[api].plugin])

EndProgram(api, ops) ==
  /\ ops \in Seq(Op) /\ Once(ops, "callEnd")
  /\ ~Has(ops, "callStart") /\ (Has(ops, "quit") => ~Has(ops, "callEnd"))
  /\ api \in Counted <=> Has(ops, "callEnd")
  /\ NamedFirst(ops) \/ api = "userRange"
  /\ AddsOnly(ops, Takes[API[api].plugin])

\* A program of six calls, in two parts.
LEMMA ConcatSix ==
  ASSUME NEW S, NEW s, NEW u, NEW w, NEW a \in S, NEW b \in S, NEW c \in S, NEW d \in S,
         NEW e \in S, NEW f \in S,
         s = <<a, b, c, d>>, u = <<e, f>>, w = <<a, b, c, d, e, f>>
  PROVE  s \o u = w
<1>1. /\ s \in Seq(S) /\ u \in Seq(S) /\ w \in Seq(S)
      /\ Len(s) = 4 /\ Len(u) = 2 /\ Len(w) = 6
      /\ s[1] = a /\ s[2] = b /\ s[3] = c /\ s[4] = d /\ u[1] = e /\ u[2] = f
      /\ w[1] = a /\ w[2] = b /\ w[3] = c /\ w[4] = d /\ w[5] = e /\ w[6] = f
  OBVIOUS
<1>2. /\ s \o u \in Seq(S) /\ Len(s \o u) = 6
      /\ \A i \in 1..6 : (s \o u)[i] = IF i <= 4 THEN s[i] ELSE u[i - 4]
  <2>1. /\ s \o u \in Seq(S) /\ Len(s \o u) = Len(s) + Len(u)
        /\ \A i \in 1..(Len(s) + Len(u)) :
             (s \o u)[i] = IF i <= Len(s) THEN s[i] ELSE u[i - Len(s)]
    BY <1>1, ConcatProperties
  <2> QED BY <1>1, <2>1
<1>3. \A i \in 1..6 : (s \o u)[i] = w[i]
  <2> SUFFICES ASSUME NEW i \in 1..6 PROVE (s \o u)[i] = w[i] OBVIOUS
  <2>1. (s \o u)[1] = w[1] /\ (s \o u)[2] = w[2] /\ (s \o u)[3] = w[3] /\ (s \o u)[4] = w[4]
    BY <1>1, <1>2
  <2>2. (s \o u)[5] = w[5] /\ (s \o u)[6] = w[6]
    BY <1>1, <1>2
  <2>3. i = 1 \/ i = 2 \/ i = 3 \/ i = 4 \/ i = 5 \/ i = 6 OBVIOUS
  <2> QED BY <2>1, <2>2, <2>3
<1> QED BY <1>1, <1>2, <1>3, SeqEqual

\* Every API is one of these.
LEMMA APINames ==
  APIs = {"clCall", "clRead", "clWrite", "migrated", "clCopy", "clKernel", "lopCall", "lopRead",
          "lopWrite", "lopKernel", "halCall", "halWrite", "halRead", "native", "sync", "userRange",
          "userMark", "userTime"}
BY DEF APIs, API

\* The record of each API.
LEMMA APIRecords ==
  /\ API["clCall"] = Function("opencl", log_function_start, log_function_end)
  /\ API["clRead"] = Command("opencl", action_read(TRUE), action_read(FALSE))
  /\ API["clWrite"] = Command("opencl", action_write(TRUE), action_write(FALSE))
  /\ API["migrated"] = Command("opencl", NoCallback, action_write(FALSE))
  /\ API["clCopy"] = Command("opencl", action_copy(TRUE), action_copy(FALSE))
  /\ API["clKernel"] = Command("opencl", action_ndrange(TRUE), action_ndrange(FALSE))
  /\ API["lopCall"] = Function("lop", lop_function_start, lop_function_end)
  /\ API["lopRead"] = Command("lop", lop_read(TRUE), lop_read(FALSE))
  /\ API["lopWrite"] = Command("lop", lop_write(TRUE), lop_write(FALSE))
  /\ API["lopKernel"] = Command("lop", lop_kernel_enqueue(TRUE), lop_kernel_enqueue(FALSE))
  /\ API["halCall"] = Function("hal", generic_log_function_start, generic_log_function_end)
  /\ API["halWrite"] = Function("hal", write_bo_start, write_bo_end)
  /\ API["halRead"] = Function("hal", read_bo_start, read_bo_end)
  /\ API["native"] = Function("native", native_function_start, native_function_end)
  /\ API["sync"] = Function("native", native_sync_start, native_sync_end)
  /\ API["userRange"] = Function("user", user_event_start_cb, user_event_end_cb)
  /\ API["userMark"] = Function("user", user_event_happened_cb, NoCallback)
  /\ API["userTime"] = Function("user", user_event_time_ns_cb, NoCallback)
BY DEF API

\* What the start and the end callback of each API do, call by call.
LEMMA APIPrograms ==
  /\ API["clCall"].start = <<Name, Add("clAPI"), Mark("event", "fn")>>
  /\ API["clCall"].end = <<Look("event", "fn"), Name, Add("clAPI")>>
  /\ API["clRead"].start = <<Name, Add("clTransfer"), Mark("uid", "ev")>>
  /\ API["clRead"].end = <<Look("uid", "ev"), Name, Add("clTransfer"), MapCommand>>
  /\ API["clWrite"].start = <<Name, Add("clTransfer"), Mark("uid", "ev")>>
  /\ API["clWrite"].end = <<Look("uid", "ev"), QuitUnstarted, Name, Add("clTransfer"), MapCommand>>
  /\ API["migrated"].start = <<>>
  /\ API["migrated"].end = <<Look("uid", "ev"), QuitUnstarted, Name, Add("clTransfer"), MapCommand>>
  /\ API["clCopy"].start = <<Name, Add("clCopy"), Mark("uid", "ev")>>
  /\ API["clCopy"].end = <<Look("uid", "ev"), Name, Add("clCopy"), MapCommand>>
  /\ API["clKernel"].start = <<Name, Add("clEnqueue"), Mark("uid", "ev")>>
  /\ API["clKernel"].end = <<Look("uid", "ev"), Name, Add("clEnqueue"), MapCommand>>
  /\ API["lopCall"].start = <<Name, Add("lopAPI"), Mark("event", "fn")>>
  /\ API["lopCall"].end = <<Look("event", "fn"), Name, Add("lopAPI")>>
  /\ API["lopRead"].start = <<Add("lop"), Mark("event", "lop")>>
  /\ API["lopRead"].end = <<Look("event", "lop"), Add("lop")>>
  /\ API["lopWrite"].start = <<Add("lop"), Mark("event", "lop")>>
  /\ API["lopWrite"].end = <<Look("event", "lop"), Add("lop")>>
  /\ API["lopKernel"].start = <<Add("lop"), Mark("event", "lop")>>
  /\ API["lopKernel"].end = <<Look("event", "lop"), Add("lop")>>
  /\ API["halCall"].start = <<CallStart, Name, Add("halAPI"), Mark("event", "fn")>>
  /\ API["halCall"].end = <<CallEnd, Look("event", "fn"), Name, Add("halAPI")>>
  /\ API["halWrite"].start = <<CallStart, Name, Add("halAPI"), Mark("event", "fn"),
          Add("halTransfer"), Mark("event", "buffer")>>
  /\ API["halWrite"].end = <<CallEnd, Look("event", "fn"), Name, Add("halAPI"), Look("event",
          "buffer"), Add("halTransfer")>>
  /\ API["halRead"].start = <<CallStart, Name, Add("halAPI"), Mark("event", "fn"),
          Add("halTransfer"), Mark("event", "buffer")>>
  /\ API["halRead"].end = <<CallEnd, Look("event", "fn"), Name, Add("halAPI"), Look("event",
          "buffer"), Add("halTransfer")>>
  /\ API["native"].start = <<Name, Add("native"), Mark("event", "fn"), CallStart>>
  /\ API["native"].end = <<CallEnd, Look("event", "fn"), Name, Add("native")>>
  /\ API["sync"].start = <<Name, Add("native"), Add("native"), Mark("pair", "fn"), CallStart>>
  /\ API["sync"].end = <<CallEnd, Look("pair", "fn"), Name, Add("native"), Add("native")>>
  /\ API["userRange"].start = <<Name, Add("user"), Mark("event", "fn")>>
  /\ API["userRange"].end = <<Look("event", "fn"), Add("user")>>
  /\ API["userMark"].start = <<Name, Add("user")>>
  /\ API["userMark"].end = <<>>
  /\ API["userTime"].start = <<Name, Add("user")>>
  /\ API["userTime"].end = <<>>
<1>0. \A p, s, e : Function(p, s, e).start = s /\ Function(p, s, e).end = e
  BY DEF Function
<1>c. \A p, s, e : Command(p, s, e).start = s /\ Command(p, s, e).end = e
  BY DEF Command
<1>o. /\ Name \in Op /\ MapCommand \in Op /\ CallStart \in Op /\ CallEnd \in Op /\ QuitUnstarted \in Op
      /\ (\A k \in Kinds : Add(k) \in Op)
      /\ \A b \in Tables, k \in Keys : Mark(b, k) \in Op /\ Look(b, k) \in Op
  BY DEF Op
<1>m. /\ Add("halAPI") \in Op /\ Add("halTransfer") \in Op
      /\ Mark("event", "fn") \in Op /\ Mark("event", "buffer") \in Op
      /\ Look("event", "fn") \in Op /\ Look("event", "buffer") \in Op
  BY <1>o DEF Kinds, Tables, Keys
<1>s. write_bo_start = <<CallStart, Name, Add("halAPI"), Mark("event", "fn"),
                         Add("halTransfer"), Mark("event", "buffer")>>
  BY <1>m, <1>o, ConcatSix DEF write_bo_start, generic_log_function_start
<1>e. write_bo_end = <<CallEnd, Look("event", "fn"), Name, Add("halAPI"),
                       Look("event", "buffer"), Add("halTransfer")>>
  BY <1>m, <1>o, ConcatSix DEF write_bo_end, generic_log_function_end
<1>r. read_bo_start = write_bo_start /\ read_bo_end = write_bo_end
  BY DEF read_bo_start, read_bo_end, write_bo_start, write_bo_end
<1>1. /\ API["clCall"].start = <<Name, Add("clAPI"), Mark("event", "fn")>>
      /\ API["clCall"].end = <<Look("event", "fn"), Name, Add("clAPI")>>
  BY <1>0, APIRecords DEF log_function_start, log_function_end
<1>2. /\ API["clRead"].start = <<Name, Add("clTransfer"), Mark("uid", "ev")>>
      /\ API["clRead"].end = <<Look("uid", "ev"), Name, Add("clTransfer"), MapCommand>>
  BY <1>c, APIRecords DEF action_read
<1>3. /\ API["clWrite"].start = <<Name, Add("clTransfer"), Mark("uid", "ev")>>
      /\ API["clWrite"].end = <<Look("uid", "ev"), QuitUnstarted, Name, Add("clTransfer"),
          MapCommand>>
  BY <1>c, APIRecords DEF action_write
<1>4. /\ API["migrated"].start = <<>>
      /\ API["migrated"].end = <<Look("uid", "ev"), QuitUnstarted, Name, Add("clTransfer"),
          MapCommand>>
  BY <1>c, APIRecords DEF action_write, NoCallback
<1>5. /\ API["clCopy"].start = <<Name, Add("clCopy"), Mark("uid", "ev")>>
      /\ API["clCopy"].end = <<Look("uid", "ev"), Name, Add("clCopy"), MapCommand>>
  BY <1>c, APIRecords DEF action_copy
<1>6. /\ API["clKernel"].start = <<Name, Add("clEnqueue"), Mark("uid", "ev")>>
      /\ API["clKernel"].end = <<Look("uid", "ev"), Name, Add("clEnqueue"), MapCommand>>
  BY <1>c, APIRecords DEF action_ndrange
<1>7. /\ API["lopCall"].start = <<Name, Add("lopAPI"), Mark("event", "fn")>>
      /\ API["lopCall"].end = <<Look("event", "fn"), Name, Add("lopAPI")>>
  BY <1>0, APIRecords DEF lop_function_start, lop_function_end
<1>8. /\ API["lopRead"].start = <<Add("lop"), Mark("event", "lop")>>
      /\ API["lopRead"].end = <<Look("event", "lop"), Add("lop")>>
  BY <1>c, APIRecords DEF lop_read
<1>9. /\ API["lopWrite"].start = <<Add("lop"), Mark("event", "lop")>>
      /\ API["lopWrite"].end = <<Look("event", "lop"), Add("lop")>>
  BY <1>c, APIRecords DEF lop_write
<1>10. /\ API["lopKernel"].start = <<Add("lop"), Mark("event", "lop")>>
       /\ API["lopKernel"].end = <<Look("event", "lop"), Add("lop")>>
  BY <1>c, APIRecords DEF lop_kernel_enqueue
<1>11. /\ API["halCall"].start = <<CallStart, Name, Add("halAPI"), Mark("event", "fn")>>
       /\ API["halCall"].end = <<CallEnd, Look("event", "fn"), Name, Add("halAPI")>>
  BY <1>0, APIRecords DEF generic_log_function_start, generic_log_function_end
<1>12. /\ API["halWrite"].start = <<CallStart, Name, Add("halAPI"), Mark("event", "fn"),
          Add("halTransfer"), Mark("event", "buffer")>>
       /\ API["halWrite"].end = <<CallEnd, Look("event", "fn"), Name, Add("halAPI"), Look("event",
          "buffer"), Add("halTransfer")>>
  BY <1>0, <1>s, <1>e, APIRecords
<1>13. /\ API["halRead"].start = <<CallStart, Name, Add("halAPI"), Mark("event", "fn"),
          Add("halTransfer"), Mark("event", "buffer")>>
       /\ API["halRead"].end = <<CallEnd, Look("event", "fn"), Name, Add("halAPI"), Look("event",
          "buffer"), Add("halTransfer")>>
  BY <1>0, <1>s, <1>e, <1>r, APIRecords
<1>14. /\ API["native"].start = <<Name, Add("native"), Mark("event", "fn"), CallStart>>
       /\ API["native"].end = <<CallEnd, Look("event", "fn"), Name, Add("native")>>
  BY <1>0, APIRecords DEF native_function_start, native_function_end
<1>15. /\ API["sync"].start = <<Name, Add("native"), Add("native"), Mark("pair", "fn"), CallStart>>
       /\ API["sync"].end = <<CallEnd, Look("pair", "fn"), Name, Add("native"), Add("native")>>
  BY <1>0, APIRecords DEF native_sync_start, native_sync_end
<1>16. /\ API["userRange"].start = <<Name, Add("user"), Mark("event", "fn")>>
       /\ API["userRange"].end = <<Look("event", "fn"), Add("user")>>
  BY <1>0, APIRecords DEF user_event_start_cb, user_event_end_cb
<1>17. /\ API["userMark"].start = <<Name, Add("user")>>
       /\ API["userMark"].end = <<>>
  BY <1>0, APIRecords DEF user_event_happened_cb, NoCallback
<1>18. /\ API["userTime"].start = <<Name, Add("user")>>
       /\ API["userTime"].end = <<>>
  BY <1>0, APIRecords DEF user_event_time_ns_cb, NoCallback
<1> QED
  BY <1>1, <1>2, <1>3, <1>4, <1>5, <1>6, <1>7, <1>8, <1>9, <1>10, <1>11, <1>12, <1>13,
     <1>14, <1>15, <1>16, <1>17, <1>18

\* The plugin of each API, and whether it is a command.
LEMMA APIFields ==
  /\ API["clCall"].plugin = "opencl" /\ ~API["clCall"].command
  /\ API["clRead"].plugin = "opencl" /\ API["clRead"].command
  /\ API["clWrite"].plugin = "opencl" /\ API["clWrite"].command
  /\ API["migrated"].plugin = "opencl" /\ API["migrated"].command
  /\ API["clCopy"].plugin = "opencl" /\ API["clCopy"].command
  /\ API["clKernel"].plugin = "opencl" /\ API["clKernel"].command
  /\ API["lopCall"].plugin = "lop" /\ ~API["lopCall"].command
  /\ API["lopRead"].plugin = "lop" /\ API["lopRead"].command
  /\ API["lopWrite"].plugin = "lop" /\ API["lopWrite"].command
  /\ API["lopKernel"].plugin = "lop" /\ API["lopKernel"].command
  /\ API["halCall"].plugin = "hal" /\ ~API["halCall"].command
  /\ API["halWrite"].plugin = "hal" /\ ~API["halWrite"].command
  /\ API["halRead"].plugin = "hal" /\ ~API["halRead"].command
  /\ API["native"].plugin = "native" /\ ~API["native"].command
  /\ API["sync"].plugin = "native" /\ ~API["sync"].command
  /\ API["userRange"].plugin = "user" /\ ~API["userRange"].command
  /\ API["userMark"].plugin = "user" /\ ~API["userMark"].command
  /\ API["userTime"].plugin = "user" /\ ~API["userTime"].command
BY APIRecords DEF Function, Command

\* The callbacks of an API, each taken as a whole.
ProgramOK(a) ==
  /\ StartProgram(a, API[a].start) /\ EndProgram(a, API[a].end)
  /\ API[a].plugin \in Plugins /\ API[a].command \in BOOLEAN
  /\ a \in Counted => ~API[a].command /\ API[a].end # NoCallback
  /\ API[a].start = NoCallback => API[a].end # NoCallback /\ API[a].command

\* The callbacks of every API count a call once at its start and once at its
\* end, name what they add before they add it, and add only events that the
\* writer of their plugin takes.
LEMMA Programs == \A a \in APIs : ProgramOK(a)
<1>o. /\ Name \in Op /\ MapCommand \in Op /\ CallStart \in Op /\ CallEnd \in Op /\ QuitUnstarted \in Op
      /\ (\A k \in Kinds : Add(k) \in Op)
      /\ \A b \in Tables, k \in Keys : Mark(b, k) \in Op /\ Look(b, k) \in Op
  BY DEF Op
<1>n. /\ Name.op = "name" /\ MapCommand.op = "map" /\ CallStart.op = "callStart"
      /\ CallEnd.op = "callEnd" /\ QuitUnstarted.op = "quit"
      /\ (\A k : Add(k).op = "add" /\ Add(k).kind = k)
      /\ \A b, k : Mark(b, k).op = "mark" /\ Look(b, k).op = "look"
  BY DEF Name, MapCommand, CallStart, CallEnd, QuitUnstarted, Add, Mark, Look
<1>t. /\ Takes["opencl"] = isOpenCLHostEvent /\ Takes["lop"] = LOPEvents /\ Takes["hal"] = HALEvents
      /\ Takes["native"] = NativeEvents /\ Takes["user"] = UserEvents
  BY DEF Takes
<1>1. ProgramOK("clCall")
  <2>1. /\ API["clCall"].start = <<Name, Add("clAPI"), Mark("event", "fn")>>
        /\ API["clCall"].end = <<Look("event", "fn"), Name, Add("clAPI")>>
    BY APIPrograms
  <2>2. API["clCall"].plugin = "opencl" /\ ~API["clCall"].command BY APIFields
  <2>3. API["clCall"].command \in BOOLEAN BY APIRecords DEF Function, Command
  <2>4. API["clCall"].start \in Seq(Op) /\ API["clCall"].end \in Seq(Op)
    BY <1>o, <2>1 DEF Kinds, Tables, Keys
  <2>5. StartProgram("clCall", API["clCall"].start)
    BY <1>n, <1>t, <2>1, <2>2, <2>4
    DEF StartProgram, Once, Has, NamedFirst, AddsOnly, Counted, isOpenCLHostEvent
  <2>6. EndProgram("clCall", API["clCall"].end)
    BY <1>n, <1>t, <2>1, <2>2, <2>4
    DEF EndProgram, Once, Has, NamedFirst, AddsOnly, Counted, isOpenCLHostEvent
  <2> QED BY <2>1, <2>2, <2>3, <2>5, <2>6 DEF ProgramOK, Plugins, Counted, NoCallback
<1>2. ProgramOK("clRead")
  <2>1. /\ API["clRead"].start = <<Name, Add("clTransfer"), Mark("uid", "ev")>>
        /\ API["clRead"].end = <<Look("uid", "ev"), Name, Add("clTransfer"), MapCommand>>
    BY APIPrograms
  <2>2. API["clRead"].plugin = "opencl" /\ API["clRead"].command BY APIFields
  <2>3. API["clRead"].command \in BOOLEAN BY APIRecords DEF Function, Command
  <2>4. API["clRead"].start \in Seq(Op) /\ API["clRead"].end \in Seq(Op)
    BY <1>o, <2>1 DEF Kinds, Tables, Keys
  <2>5. StartProgram("clRead", API["clRead"].start)
    BY <1>n, <1>t, <2>1, <2>2, <2>4
    DEF StartProgram, Once, Has, NamedFirst, AddsOnly, Counted, isOpenCLHostEvent
  <2>6. EndProgram("clRead", API["clRead"].end)
    BY <1>n, <1>t, <2>1, <2>2, <2>4
    DEF EndProgram, Once, Has, NamedFirst, AddsOnly, Counted, isOpenCLHostEvent
  <2> QED BY <2>1, <2>2, <2>3, <2>5, <2>6 DEF ProgramOK, Plugins, Counted, NoCallback
<1>3. ProgramOK("clWrite")
  <2>1. /\ API["clWrite"].start = <<Name, Add("clTransfer"), Mark("uid", "ev")>>
        /\ API["clWrite"].end = <<Look("uid", "ev"), QuitUnstarted, Name, Add("clTransfer"),
          MapCommand>>
    BY APIPrograms
  <2>2. API["clWrite"].plugin = "opencl" /\ API["clWrite"].command BY APIFields
  <2>3. API["clWrite"].command \in BOOLEAN BY APIRecords DEF Function, Command
  <2>4. API["clWrite"].start \in Seq(Op) /\ API["clWrite"].end \in Seq(Op)
    BY <1>o, <2>1 DEF Kinds, Tables, Keys
  <2>5. StartProgram("clWrite", API["clWrite"].start)
    BY <1>n, <1>t, <2>1, <2>2, <2>4
    DEF StartProgram, Once, Has, NamedFirst, AddsOnly, Counted, isOpenCLHostEvent
  <2>6. EndProgram("clWrite", API["clWrite"].end)
    BY <1>n, <1>t, <2>1, <2>2, <2>4
    DEF EndProgram, Once, Has, NamedFirst, AddsOnly, Counted, isOpenCLHostEvent
  <2> QED BY <2>1, <2>2, <2>3, <2>5, <2>6 DEF ProgramOK, Plugins, Counted, NoCallback
<1>4. ProgramOK("migrated")
  <2>1. /\ API["migrated"].start = <<>>
        /\ API["migrated"].end = <<Look("uid", "ev"), QuitUnstarted, Name, Add("clTransfer"),
          MapCommand>>
    BY APIPrograms
  <2>2. API["migrated"].plugin = "opencl" /\ API["migrated"].command BY APIFields
  <2>3. API["migrated"].command \in BOOLEAN BY APIRecords DEF Function, Command
  <2>4. API["migrated"].start \in Seq(Op) /\ API["migrated"].end \in Seq(Op)
    BY <1>o, <2>1 DEF Kinds, Tables, Keys
  <2>5. StartProgram("migrated", API["migrated"].start)
    BY <1>n, <1>t, <2>1, <2>2, <2>4
    DEF StartProgram, Once, Has, NamedFirst, AddsOnly, Counted, isOpenCLHostEvent
  <2>6. EndProgram("migrated", API["migrated"].end)
    BY <1>n, <1>t, <2>1, <2>2, <2>4
    DEF EndProgram, Once, Has, NamedFirst, AddsOnly, Counted, isOpenCLHostEvent
  <2> QED BY <2>1, <2>2, <2>3, <2>5, <2>6 DEF ProgramOK, Plugins, Counted, NoCallback
<1>5. ProgramOK("clCopy")
  <2>1. /\ API["clCopy"].start = <<Name, Add("clCopy"), Mark("uid", "ev")>>
        /\ API["clCopy"].end = <<Look("uid", "ev"), Name, Add("clCopy"), MapCommand>>
    BY APIPrograms
  <2>2. API["clCopy"].plugin = "opencl" /\ API["clCopy"].command BY APIFields
  <2>3. API["clCopy"].command \in BOOLEAN BY APIRecords DEF Function, Command
  <2>4. API["clCopy"].start \in Seq(Op) /\ API["clCopy"].end \in Seq(Op)
    BY <1>o, <2>1 DEF Kinds, Tables, Keys
  <2>5. StartProgram("clCopy", API["clCopy"].start)
    BY <1>n, <1>t, <2>1, <2>2, <2>4
    DEF StartProgram, Once, Has, NamedFirst, AddsOnly, Counted, isOpenCLHostEvent
  <2>6. EndProgram("clCopy", API["clCopy"].end)
    BY <1>n, <1>t, <2>1, <2>2, <2>4
    DEF EndProgram, Once, Has, NamedFirst, AddsOnly, Counted, isOpenCLHostEvent
  <2> QED BY <2>1, <2>2, <2>3, <2>5, <2>6 DEF ProgramOK, Plugins, Counted, NoCallback
<1>6. ProgramOK("clKernel")
  <2>1. /\ API["clKernel"].start = <<Name, Add("clEnqueue"), Mark("uid", "ev")>>
        /\ API["clKernel"].end = <<Look("uid", "ev"), Name, Add("clEnqueue"), MapCommand>>
    BY APIPrograms
  <2>2. API["clKernel"].plugin = "opencl" /\ API["clKernel"].command BY APIFields
  <2>3. API["clKernel"].command \in BOOLEAN BY APIRecords DEF Function, Command
  <2>4. API["clKernel"].start \in Seq(Op) /\ API["clKernel"].end \in Seq(Op)
    BY <1>o, <2>1 DEF Kinds, Tables, Keys
  <2>5. StartProgram("clKernel", API["clKernel"].start)
    BY <1>n, <1>t, <2>1, <2>2, <2>4
    DEF StartProgram, Once, Has, NamedFirst, AddsOnly, Counted, isOpenCLHostEvent
  <2>6. EndProgram("clKernel", API["clKernel"].end)
    BY <1>n, <1>t, <2>1, <2>2, <2>4
    DEF EndProgram, Once, Has, NamedFirst, AddsOnly, Counted, isOpenCLHostEvent
  <2> QED BY <2>1, <2>2, <2>3, <2>5, <2>6 DEF ProgramOK, Plugins, Counted, NoCallback
<1>7. ProgramOK("lopCall")
  <2>1. /\ API["lopCall"].start = <<Name, Add("lopAPI"), Mark("event", "fn")>>
        /\ API["lopCall"].end = <<Look("event", "fn"), Name, Add("lopAPI")>>
    BY APIPrograms
  <2>2. API["lopCall"].plugin = "lop" /\ ~API["lopCall"].command BY APIFields
  <2>3. API["lopCall"].command \in BOOLEAN BY APIRecords DEF Function, Command
  <2>4. API["lopCall"].start \in Seq(Op) /\ API["lopCall"].end \in Seq(Op)
    BY <1>o, <2>1 DEF Kinds, Tables, Keys
  <2>5. StartProgram("lopCall", API["lopCall"].start)
    BY <1>n, <1>t, <2>1, <2>2, <2>4
    DEF StartProgram, Once, Has, NamedFirst, AddsOnly, Counted, LOPEvents
  <2>6. EndProgram("lopCall", API["lopCall"].end)
    BY <1>n, <1>t, <2>1, <2>2, <2>4
    DEF EndProgram, Once, Has, NamedFirst, AddsOnly, Counted, LOPEvents
  <2> QED BY <2>1, <2>2, <2>3, <2>5, <2>6 DEF ProgramOK, Plugins, Counted, NoCallback
<1>8. ProgramOK("lopRead")
  <2>1. /\ API["lopRead"].start = <<Add("lop"), Mark("event", "lop")>>
        /\ API["lopRead"].end = <<Look("event", "lop"), Add("lop")>>
    BY APIPrograms
  <2>2. API["lopRead"].plugin = "lop" /\ API["lopRead"].command BY APIFields
  <2>3. API["lopRead"].command \in BOOLEAN BY APIRecords DEF Function, Command
  <2>4. API["lopRead"].start \in Seq(Op) /\ API["lopRead"].end \in Seq(Op)
    BY <1>o, <2>1 DEF Kinds, Tables, Keys
  <2>5. StartProgram("lopRead", API["lopRead"].start)
    BY <1>n, <1>t, <2>1, <2>2, <2>4
    DEF StartProgram, Once, Has, NamedFirst, AddsOnly, Counted, LOPEvents
  <2>6. EndProgram("lopRead", API["lopRead"].end)
    BY <1>n, <1>t, <2>1, <2>2, <2>4
    DEF EndProgram, Once, Has, NamedFirst, AddsOnly, Counted, LOPEvents
  <2> QED BY <2>1, <2>2, <2>3, <2>5, <2>6 DEF ProgramOK, Plugins, Counted, NoCallback
<1>9. ProgramOK("lopWrite")
  <2>1. /\ API["lopWrite"].start = <<Add("lop"), Mark("event", "lop")>>
        /\ API["lopWrite"].end = <<Look("event", "lop"), Add("lop")>>
    BY APIPrograms
  <2>2. API["lopWrite"].plugin = "lop" /\ API["lopWrite"].command BY APIFields
  <2>3. API["lopWrite"].command \in BOOLEAN BY APIRecords DEF Function, Command
  <2>4. API["lopWrite"].start \in Seq(Op) /\ API["lopWrite"].end \in Seq(Op)
    BY <1>o, <2>1 DEF Kinds, Tables, Keys
  <2>5. StartProgram("lopWrite", API["lopWrite"].start)
    BY <1>n, <1>t, <2>1, <2>2, <2>4
    DEF StartProgram, Once, Has, NamedFirst, AddsOnly, Counted, LOPEvents
  <2>6. EndProgram("lopWrite", API["lopWrite"].end)
    BY <1>n, <1>t, <2>1, <2>2, <2>4
    DEF EndProgram, Once, Has, NamedFirst, AddsOnly, Counted, LOPEvents
  <2> QED BY <2>1, <2>2, <2>3, <2>5, <2>6 DEF ProgramOK, Plugins, Counted, NoCallback
<1>10. ProgramOK("lopKernel")
  <2>1. /\ API["lopKernel"].start = <<Add("lop"), Mark("event", "lop")>>
        /\ API["lopKernel"].end = <<Look("event", "lop"), Add("lop")>>
    BY APIPrograms
  <2>2. API["lopKernel"].plugin = "lop" /\ API["lopKernel"].command BY APIFields
  <2>3. API["lopKernel"].command \in BOOLEAN BY APIRecords DEF Function, Command
  <2>4. API["lopKernel"].start \in Seq(Op) /\ API["lopKernel"].end \in Seq(Op)
    BY <1>o, <2>1 DEF Kinds, Tables, Keys
  <2>5. StartProgram("lopKernel", API["lopKernel"].start)
    BY <1>n, <1>t, <2>1, <2>2, <2>4
    DEF StartProgram, Once, Has, NamedFirst, AddsOnly, Counted, LOPEvents
  <2>6. EndProgram("lopKernel", API["lopKernel"].end)
    BY <1>n, <1>t, <2>1, <2>2, <2>4
    DEF EndProgram, Once, Has, NamedFirst, AddsOnly, Counted, LOPEvents
  <2> QED BY <2>1, <2>2, <2>3, <2>5, <2>6 DEF ProgramOK, Plugins, Counted, NoCallback
<1>11. ProgramOK("halCall")
  <2>1. /\ API["halCall"].start = <<CallStart, Name, Add("halAPI"), Mark("event", "fn")>>
        /\ API["halCall"].end = <<CallEnd, Look("event", "fn"), Name, Add("halAPI")>>
    BY APIPrograms
  <2>2. API["halCall"].plugin = "hal" /\ ~API["halCall"].command BY APIFields
  <2>3. API["halCall"].command \in BOOLEAN BY APIRecords DEF Function, Command
  <2>4. API["halCall"].start \in Seq(Op) /\ API["halCall"].end \in Seq(Op)
    BY <1>o, <2>1 DEF Kinds, Tables, Keys
  <2>5. StartProgram("halCall", API["halCall"].start)
    BY <1>n, <1>t, <2>1, <2>2, <2>4
    DEF StartProgram, Once, Has, NamedFirst, AddsOnly, Counted, HALEvents
  <2>6. EndProgram("halCall", API["halCall"].end)
    BY <1>n, <1>t, <2>1, <2>2, <2>4
    DEF EndProgram, Once, Has, NamedFirst, AddsOnly, Counted, HALEvents
  <2> QED BY <2>1, <2>2, <2>3, <2>5, <2>6 DEF ProgramOK, Plugins, Counted, NoCallback
<1>12. ProgramOK("halWrite")
  <2>1. /\ API["halWrite"].start = <<CallStart, Name, Add("halAPI"), Mark("event", "fn"),
          Add("halTransfer"), Mark("event", "buffer")>>
        /\ API["halWrite"].end = <<CallEnd, Look("event", "fn"), Name, Add("halAPI"), Look("event",
          "buffer"), Add("halTransfer")>>
    BY APIPrograms
  <2>2. API["halWrite"].plugin = "hal" /\ ~API["halWrite"].command BY APIFields
  <2>3. API["halWrite"].command \in BOOLEAN BY APIRecords DEF Function, Command
  <2>4. API["halWrite"].start \in Seq(Op) /\ API["halWrite"].end \in Seq(Op)
    BY <1>o, <2>1 DEF Kinds, Tables, Keys
  <2>5. StartProgram("halWrite", API["halWrite"].start)
    BY <1>n, <1>t, <2>1, <2>2, <2>4
    DEF StartProgram, Once, Has, NamedFirst, AddsOnly, Counted, HALEvents
  <2>6. EndProgram("halWrite", API["halWrite"].end)
    BY <1>n, <1>t, <2>1, <2>2, <2>4
    DEF EndProgram, Once, Has, NamedFirst, AddsOnly, Counted, HALEvents
  <2> QED BY <2>1, <2>2, <2>3, <2>5, <2>6 DEF ProgramOK, Plugins, Counted, NoCallback
<1>13. ProgramOK("halRead")
  <2>1. /\ API["halRead"].start = <<CallStart, Name, Add("halAPI"), Mark("event", "fn"),
          Add("halTransfer"), Mark("event", "buffer")>>
        /\ API["halRead"].end = <<CallEnd, Look("event", "fn"), Name, Add("halAPI"), Look("event",
          "buffer"), Add("halTransfer")>>
    BY APIPrograms
  <2>2. API["halRead"].plugin = "hal" /\ ~API["halRead"].command BY APIFields
  <2>3. API["halRead"].command \in BOOLEAN BY APIRecords DEF Function, Command
  <2>4. API["halRead"].start \in Seq(Op) /\ API["halRead"].end \in Seq(Op)
    BY <1>o, <2>1 DEF Kinds, Tables, Keys
  <2>5. StartProgram("halRead", API["halRead"].start)
    BY <1>n, <1>t, <2>1, <2>2, <2>4
    DEF StartProgram, Once, Has, NamedFirst, AddsOnly, Counted, HALEvents
  <2>6. EndProgram("halRead", API["halRead"].end)
    BY <1>n, <1>t, <2>1, <2>2, <2>4
    DEF EndProgram, Once, Has, NamedFirst, AddsOnly, Counted, HALEvents
  <2> QED BY <2>1, <2>2, <2>3, <2>5, <2>6 DEF ProgramOK, Plugins, Counted, NoCallback
<1>14. ProgramOK("native")
  <2>1. /\ API["native"].start = <<Name, Add("native"), Mark("event", "fn"), CallStart>>
        /\ API["native"].end = <<CallEnd, Look("event", "fn"), Name, Add("native")>>
    BY APIPrograms
  <2>2. API["native"].plugin = "native" /\ ~API["native"].command BY APIFields
  <2>3. API["native"].command \in BOOLEAN BY APIRecords DEF Function, Command
  <2>4. API["native"].start \in Seq(Op) /\ API["native"].end \in Seq(Op)
    BY <1>o, <2>1 DEF Kinds, Tables, Keys
  <2>5. StartProgram("native", API["native"].start)
    BY <1>n, <1>t, <2>1, <2>2, <2>4
    DEF StartProgram, Once, Has, NamedFirst, AddsOnly, Counted, NativeEvents
  <2>6. EndProgram("native", API["native"].end)
    BY <1>n, <1>t, <2>1, <2>2, <2>4
    DEF EndProgram, Once, Has, NamedFirst, AddsOnly, Counted, NativeEvents
  <2> QED BY <2>1, <2>2, <2>3, <2>5, <2>6 DEF ProgramOK, Plugins, Counted, NoCallback
<1>15. ProgramOK("sync")
  <2>1. /\ API["sync"].start = <<Name, Add("native"), Add("native"), Mark("pair", "fn"), CallStart>>
        /\ API["sync"].end = <<CallEnd, Look("pair", "fn"), Name, Add("native"), Add("native")>>
    BY APIPrograms
  <2>2. API["sync"].plugin = "native" /\ ~API["sync"].command BY APIFields
  <2>3. API["sync"].command \in BOOLEAN BY APIRecords DEF Function, Command
  <2>4. API["sync"].start \in Seq(Op) /\ API["sync"].end \in Seq(Op)
    BY <1>o, <2>1 DEF Kinds, Tables, Keys
  <2>5. StartProgram("sync", API["sync"].start)
    BY <1>n, <1>t, <2>1, <2>2, <2>4
    DEF StartProgram, Once, Has, NamedFirst, AddsOnly, Counted, NativeEvents
  <2>6. EndProgram("sync", API["sync"].end)
    BY <1>n, <1>t, <2>1, <2>2, <2>4
    DEF EndProgram, Once, Has, NamedFirst, AddsOnly, Counted, NativeEvents
  <2> QED BY <2>1, <2>2, <2>3, <2>5, <2>6 DEF ProgramOK, Plugins, Counted, NoCallback
<1>16. ProgramOK("userRange")
  <2>1. /\ API["userRange"].start = <<Name, Add("user"), Mark("event", "fn")>>
        /\ API["userRange"].end = <<Look("event", "fn"), Add("user")>>
    BY APIPrograms
  <2>2. API["userRange"].plugin = "user" /\ ~API["userRange"].command BY APIFields
  <2>3. API["userRange"].command \in BOOLEAN BY APIRecords DEF Function, Command
  <2>4. API["userRange"].start \in Seq(Op) /\ API["userRange"].end \in Seq(Op)
    BY <1>o, <2>1 DEF Kinds, Tables, Keys
  <2>5. StartProgram("userRange", API["userRange"].start)
    BY <1>n, <1>t, <2>1, <2>2, <2>4
    DEF StartProgram, Once, Has, NamedFirst, AddsOnly, Counted, UserEvents
  <2>6. EndProgram("userRange", API["userRange"].end)
    BY <1>n, <1>t, <2>1, <2>2, <2>4
    DEF EndProgram, Once, Has, NamedFirst, AddsOnly, Counted, UserEvents
  <2> QED BY <2>1, <2>2, <2>3, <2>5, <2>6 DEF ProgramOK, Plugins, Counted, NoCallback
<1>17. ProgramOK("userMark")
  <2>1. /\ API["userMark"].start = <<Name, Add("user")>>
        /\ API["userMark"].end = <<>>
    BY APIPrograms
  <2>2. API["userMark"].plugin = "user" /\ ~API["userMark"].command BY APIFields
  <2>3. API["userMark"].command \in BOOLEAN BY APIRecords DEF Function, Command
  <2>4. API["userMark"].start \in Seq(Op) /\ API["userMark"].end \in Seq(Op)
    BY <1>o, <2>1 DEF Kinds, Tables, Keys
  <2>5. StartProgram("userMark", API["userMark"].start)
    BY <1>n, <1>t, <2>1, <2>2, <2>4
    DEF StartProgram, Once, Has, NamedFirst, AddsOnly, Counted, UserEvents
  <2>6. EndProgram("userMark", API["userMark"].end)
    BY <1>n, <1>t, <2>1, <2>2, <2>4
    DEF EndProgram, Once, Has, NamedFirst, AddsOnly, Counted, UserEvents
  <2> QED BY <2>1, <2>2, <2>3, <2>5, <2>6 DEF ProgramOK, Plugins, Counted, NoCallback
<1>18. ProgramOK("userTime")
  <2>1. /\ API["userTime"].start = <<Name, Add("user")>>
        /\ API["userTime"].end = <<>>
    BY APIPrograms
  <2>2. API["userTime"].plugin = "user" /\ ~API["userTime"].command BY APIFields
  <2>3. API["userTime"].command \in BOOLEAN BY APIRecords DEF Function, Command
  <2>4. API["userTime"].start \in Seq(Op) /\ API["userTime"].end \in Seq(Op)
    BY <1>o, <2>1 DEF Kinds, Tables, Keys
  <2>5. StartProgram("userTime", API["userTime"].start)
    BY <1>n, <1>t, <2>1, <2>2, <2>4
    DEF StartProgram, Once, Has, NamedFirst, AddsOnly, Counted, UserEvents
  <2>6. EndProgram("userTime", API["userTime"].end)
    BY <1>n, <1>t, <2>1, <2>2, <2>4
    DEF EndProgram, Once, Has, NamedFirst, AddsOnly, Counted, UserEvents
  <2> QED BY <2>1, <2>2, <2>3, <2>5, <2>6 DEF ProgramOK, Plugins, Counted, NoCallback
<1> QED
  BY <1>1, <1>2, <1>3, <1>4, <1>5, <1>6, <1>7, <1>8, <1>9, <1>10, <1>11, <1>12, <1>13,
     <1>14, <1>15, <1>16, <1>17, <1>18, APINames

-----------------------------------------------------------------------------
(* The callbacks that run                                                  *)

CallRec == [api : APIs, by : Threads, fn : Nat, ev : Nat]

\* call c is a function of thread t
Runs(t, c) == calls[c].by = t /\ ~API[calls[c].api].command

\* what is left of the callback at the start or the end of an API
StartRest(api, ops) ==
  /\ Once(ops, "callStart") /\ ~Has(ops, "callEnd") /\ ~Has(ops, "quit")
  /\ Has(ops, "callStart") => api \in Counted
  /\ AddsOnly(ops, Takes[API[api].plugin])

EndRest(api, ops) ==
  /\ Once(ops, "callEnd") /\ ~Has(ops, "callStart") /\ (Has(ops, "quit") => ~Has(ops, "callEnd"))
  /\ Has(ops, "callEnd") => api \in Counted
  /\ AddsOnly(ops, Takes[API[api].plugin])

\* r has the fields of a callback
CbForm(r) ==
  r \in [ops : {r.ops}, call : {r.call}, held : {r.held}, found : {r.found}, phase : {r.phase}]

\* the function that a thread ends is the last one it has called
CbOK(t) ==
  /\ CbForm(cb[t]) /\ cb[t].ops \in Seq(Op)
  /\ cb[t].ops = <<>> => cb[t] = Idle
  /\ cb[t].ops # <<>> =>
       /\ cb[t].call \in 1..Len(calls)
       /\ \/ /\ cb[t].phase = "start" /\ StartRest(calls[cb[t].call].api, cb[t].ops)
             /\ calls[cb[t].call].by = t
          \/ /\ cb[t].phase = "end" /\ EndRest(calls[cb[t].call].api, cb[t].ops)
             /\ ~API[calls[cb[t].call].api].command =>
                  calls[cb[t].call].by = t /\ \A d \in open : Runs(t, d) => d < cb[t].call

CbInv ==
  /\ use \in Uses /\ calls \in Seq(CallRec)
  /\ open \subseteq 1..Len(calls) /\ (\A c \in open : API[calls[c].api].end # NoCallback)
  /\ cb = [t \in Threads |-> cb[t]] /\ \A t \in Threads : CbOK(t)

\* thread t goes on in its callback
Goes(t) ==
  /\ cb[t].ops # <<>> /\ calls' = calls /\ use' = use
  /\ cb' = [u \in Threads |-> cb'[u]] /\ \A u \in Threads : u # t => cb'[u] = cb[u]
  /\ cb'[t].ops = Tail(cb[t].ops) \/ (Has(cb[t].ops, "quit") /\ cb'[t].ops = <<>>)
  /\ cb'[t].ops = <<>> =>
       /\ cb'[t] = Idle
       /\ open' = IF cb[t].phase = "start" /\ API[calls[cb[t].call].api].end # NoCallback
                  THEN open \cup {cb[t].call} ELSE open
  /\ cb'[t].ops # <<>> =>
       CbForm(cb'[t]) /\ cb'[t].call = cb[t].call /\ cb'[t].phase = cb[t].phase /\ open' = open

\* Advance goes on in a callback.
LEMMA AdvanceGoes ==
  ASSUME CbInv, NEW t \in Threads, cb[t].ops # <<>>, NEW me, CbForm(me),
         me.call = cb[t].call, me.phase = cb[t].phase,
         NEW rest, rest = Tail(cb[t].ops) \/ (Has(cb[t].ops, "quit") /\ rest = <<>>),
         Advance(t, rest, me)
  PROVE  Goes(t)
<1>1. calls' = calls /\ use' = use BY DEF Advance, writerVars
<1>2. cb = [u \in Threads |-> cb[u]] BY DEF CbInv
<1>3. CASE rest = <<>>
  <2>1. /\ cb' = [cb EXCEPT ![t] = Idle]
        /\ open' = IF me.phase = "start" /\ API[calls[me.call].api].end # NoCallback
                   THEN open \cup {me.call} ELSE open
    BY <1>3 DEF Advance
  <2>2. /\ cb'[t] = Idle /\ cb' = [u \in Threads |-> cb'[u]]
        /\ \A u \in Threads : u # t => cb'[u] = cb[u]
    BY <1>2, <2>1
  <2>3. Idle.ops = <<>> BY DEF Idle
  <2> QED BY <1>1, <1>3, <2>1, <2>2, <2>3 DEF Goes
<1>4. CASE rest # <<>>
  <2> DEFINE q == [me EXCEPT !.ops = rest]
  <2>1. cb' = [cb EXCEPT ![t] = q] /\ open' = open BY <1>4 DEF Advance
  <2>2. CbForm(q) /\ q.ops = rest /\ q.call = me.call /\ q.phase = me.phase BY DEF CbForm
  <2> HIDE DEF q
  <2>3. /\ cb'[t] = q /\ cb' = [u \in Threads |-> cb'[u]]
        /\ \A u \in Threads : u # t => cb'[u] = cb[u]
    BY <1>2, <2>1
  <2> QED BY <1>1, <1>4, <2>1, <2>2, <2>3 DEF Goes
<1> QED BY <1>3, <1>4

\* a callback with other ids in hand
Updated(r, h, f) == [r EXCEPT !.held = h, !.found = f]

\* It is at the same call of the same callback.
LEMMA CbUpdate ==
  ASSUME NEW r, CbForm(r), NEW h, NEW f
  PROVE  /\ CbForm(Updated(r, h, f)) /\ Updated(r, h, f).ops = r.ops
         /\ Updated(r, h, f).call = r.call /\ Updated(r, h, f).phase = r.phase
         /\ Updated(r, h, f).held = h /\ Updated(r, h, f).found = f
<1> DEFINE T == [ops : {r.ops}, call : {r.call}, held : {r.held, h}, found : {r.found, f},
                 phase : {r.phase}]
           me == Updated(r, h, f)
<1>1. r \in T BY DEF CbForm
<1>2. /\ me \in T /\ me.ops = r.ops /\ me.call = r.call /\ me.phase = r.phase
      /\ me.held = h /\ me.found = f
  BY <1>1 DEF Updated
<1> HIDE DEF me
<1>3. CbForm(me) BY <1>2 DEF CbForm
<1> QED BY <1>2, <1>3 DEF me

\* one call of a callback
Operation(t) ==
  \/ addString(t) \/ addEvent(t) \/ registerStart(t) \/ lookupStart(t)
  \/ quitUnstarted(t) \/ addOpenCLMapping(t)
  \/ logFunctionCallStart(t) \/ logFunctionCallEnd(t)

\* Every call goes on in its callback.
LEMMA OperationGoes ==
  ASSUME CbInv, NEW t \in Threads, Operation(t)
  PROVE  Goes(t)
<1>0. CbForm(cb[t]) BY DEF CbInv, CbOK
<1>2. CASE addString(t) BY <1>0, <1>2, AdvanceGoes DEF addString, Next1
<1>3. CASE addEvent(t)
  <2>1. PICK h, f : Advance(t, Tail(cb[t].ops), Updated(cb[t], h, f))
    BY <1>3, Zenon DEF addEvent, Updated
  <2>2. cb[t].ops # <<>> BY <1>3 DEF addEvent, Next1
  <2>3. PICK me : me = Updated(cb[t], h, f) OBVIOUS
  <2>4. CbForm(me) /\ me.call = cb[t].call /\ me.phase = cb[t].phase BY <1>0, <2>3, CbUpdate
  <2>5. Advance(t, Tail(cb[t].ops), me) BY <2>1, <2>3
  <2> QED BY <2>2, <2>4, <2>5, AdvanceGoes
<1>4. CASE registerStart(t) BY <1>0, <1>4, AdvanceGoes DEF registerStart, Next1
<1>5. CASE lookupStart(t)
  <2>1. PICK ids : Advance(t, Tail(cb[t].ops), [cb[t] EXCEPT !.found = ids]) /\ cb[t].ops # <<>>
    BY <1>5 DEF lookupStart, Next1
  <2> DEFINE me == [cb[t] EXCEPT !.found = ids]
  <2>2. CbForm(me) /\ me.call = cb[t].call /\ me.phase = cb[t].phase BY <1>0 DEF CbForm
  <2>3. Advance(t, Tail(cb[t].ops), me) BY <2>1
  <2> HIDE DEF me
  <2> QED BY <2>1, <2>2, <2>3, AdvanceGoes
<1>6. CASE quitUnstarted(t)
  <2>1. PICK rest : /\ Advance(t, rest, cb[t]) /\ cb[t].ops # <<>> /\ Head(cb[t].ops).op = "quit"
                    /\ rest = <<>> \/ rest = Tail(cb[t].ops)
    BY <1>6 DEF quitUnstarted, Next1
  <2>2. cb[t].ops \in Seq(Op) BY DEF CbInv, CbOK
  <2>3. Has(cb[t].ops, "quit")
    <3>1. PICK ops \in Seq(Op) : ops = cb[t].ops BY <2>2
    <3>2. 1 \in DOMAIN ops /\ Head(ops) = ops[1] BY <2>1, <3>1
    <3> QED BY <2>1, <3>1, <3>2 DEF Has
  <2> QED BY <1>0, <2>1, <2>3, AdvanceGoes
<1>7. CASE addOpenCLMapping(t) BY <1>0, <1>7, AdvanceGoes DEF addOpenCLMapping, Next1
<1>8. CASE logFunctionCallStart(t) BY <1>0, <1>8, AdvanceGoes DEF logFunctionCallStart, Next1
<1>9. CASE logFunctionCallEnd(t) BY <1>0, <1>9, AdvanceGoes DEF logFunctionCallEnd, Next1
<1> QED BY <1>2, <1>3, <1>4, <1>5, <1>6, <1>7, <1>8, <1>9 DEF Operation

\* What is left after the next call of a program.
LEMMA TailProgram ==
  ASSUME NEW ops \in Seq(Op), ops # <<>>
  PROVE  /\ Tail(ops) \in Seq(Op)
         /\ Head(ops) = ops[1] /\ 1 \in DOMAIN ops
         /\ \A i \in DOMAIN Tail(ops) : Tail(ops)[i] = ops[i + 1] /\ i + 1 \in DOMAIN ops
         /\ \A j \in DOMAIN ops : j = 1 \/ (j - 1 \in DOMAIN Tail(ops) /\ Tail(ops)[j - 1] = ops[j])
         /\ \A name : Once(ops, name) => Once(Tail(ops), name)
         /\ \A name : Has(Tail(ops), name) => Has(ops, name)
         /\ \A name : Has(ops, name) /\ Head(ops).op # name => Has(Tail(ops), name)
         /\ \A name : Once(ops, name) /\ Head(ops).op = name => ~Has(Tail(ops), name)
         /\ \A kinds : AddsOnly(ops, kinds) => AddsOnly(Tail(ops), kinds)
<1>1. /\ Tail(ops) \in Seq(Op) /\ Len(Tail(ops)) = Len(ops) - 1 /\ Head(ops) = ops[1]
      /\ Len(ops) \in Nat /\ Len(ops) >= 1 /\ Len(Tail(ops)) \in Nat
      /\ \A i \in 1..Len(Tail(ops)) : Tail(ops)[i] = ops[i + 1]
  BY HeadTailProperties
<1>2. PICK r \in Seq(Op) : r = Tail(ops) BY <1>1
<1>3. /\ DOMAIN ops = 1..Len(ops) /\ DOMAIN r = 1..(Len(ops) - 1)
      /\ \A i \in DOMAIN r : r[i] = ops[i + 1]
  BY <1>1, <1>2
<1>4. \A i \in DOMAIN r : r[i] = ops[i + 1] /\ i + 1 \in DOMAIN ops BY <1>1, <1>3
<1>5. ASSUME NEW j \in DOMAIN ops PROVE j = 1 \/ (j - 1 \in DOMAIN r /\ r[j - 1] = ops[j])
  BY <1>1, <1>3
<1>6. 1 \in DOMAIN ops BY <1>1, <1>3
<1>d. (\A i \in DOMAIN ops : i \in Nat) /\ \A i \in DOMAIN r : i \in Nat BY <1>3
<1>7. ASSUME NEW name, Once(ops, name) PROVE Once(r, name)
  <2> SUFFICES ASSUME NEW i \in DOMAIN r, NEW j \in DOMAIN r, r[i].op = name, r[j].op = name
               PROVE  i = j
    BY DEF Once
  <2>1. i + 1 = j + 1 BY <1>4, <1>7 DEF Once
  <2> QED BY <1>d, <2>1
<1>8. ASSUME NEW name, Has(r, name) PROVE Has(ops, name) BY <1>4, <1>8 DEF Has
<1>9. ASSUME NEW name, Has(ops, name), ops[1].op # name PROVE Has(r, name)
  <2>1. PICK j \in DOMAIN ops : ops[j].op = name BY <1>9 DEF Has
  <2>2. j - 1 \in DOMAIN r /\ r[j - 1] = ops[j] BY <1>5, <1>9, <2>1
  <2> QED BY <2>1, <2>2 DEF Has
<1>10. ASSUME NEW name, Once(ops, name), ops[1].op = name PROVE ~Has(r, name)
  <2> SUFFICES ASSUME NEW i \in DOMAIN r, r[i].op = name PROVE FALSE BY DEF Has
  <2>1. i + 1 = 1 BY <1>4, <1>6, <1>10 DEF Once
  <2> QED BY <1>3, <2>1
<1>11. ASSUME NEW kinds, AddsOnly(ops, kinds) PROVE AddsOnly(r, kinds)
  BY <1>4, <1>11 DEF AddsOnly
<1> QED BY <1>1, <1>2, <1>4, <1>5, <1>6, <1>7, <1>8, <1>9, <1>10, <1>11

\* A call that goes on leaves the rest of a program.
LEMMA GoesRest ==
  ASSUME CbInv, NEW t \in Threads, Goes(t)
  PROVE  /\ cb'[t].ops \in Seq(Op) /\ cb[t].ops \in Seq(Op)
         /\ cb'[t].ops # <<>> => cb'[t].ops = Tail(cb[t].ops)
         /\ \A api : StartRest(api, cb[t].ops) => StartRest(api, cb'[t].ops)
         /\ \A api : EndRest(api, cb[t].ops) => EndRest(api, cb'[t].ops)
<1>1. PICK ops \in Seq(Op) : ops = cb[t].ops BY DEF CbInv, CbOK
<1>2. ops # <<>> BY <1>1 DEF Goes
<1>3. PICK r : r = cb'[t].ops /\ (r = Tail(ops) \/ r = <<>>) BY <1>1 DEF Goes
<1>4. r \in Seq(Op)
  <2>1. <<>> \in Seq(Op) OBVIOUS
  <2>2. Tail(ops) \in Seq(Op) BY <1>2, HeadTailProperties
  <2> QED BY <1>3, <2>1, <2>2
<1>5. CASE r = <<>>
  <2>1. DOMAIN r = {} BY <1>5
  <2> QED BY <1>1, <1>3, <1>4, <1>5, <2>1 DEF StartRest, EndRest, Once, Has, AddsOnly
<1>6. CASE r = Tail(ops)
  <2>1. /\ \A name : Once(ops, name) => Once(r, name)
        /\ \A name : Has(r, name) => Has(ops, name)
        /\ \A kinds : AddsOnly(ops, kinds) => AddsOnly(r, kinds)
    BY <1>2, <1>6, TailProgram
  <2> QED BY <1>1, <1>3, <1>4, <1>6, <2>1 DEF StartRest, EndRest
<1> QED BY <1>3, <1>5, <1>6

\* The callback that a thread begins.
LEMMA CallbackForm ==
  ASSUME NEW c, NEW ops, NEW phase
  PROVE  /\ CbForm(Callback(c, ops, phase)) /\ Callback(c, ops, phase).ops = ops
         /\ Callback(c, ops, phase).call = c /\ Callback(c, ops, phase).phase = phase
         /\ Callback(c, ops, phase).held = <<>> /\ Callback(c, ops, phase).found = <<>>
<1> DEFINE T == [ops : {<<>>, ops}, call : {0, c}, held : {<<>>}, found : {<<>>},
                 phase : {"none", phase}]
           q == Callback(c, ops, phase)
<1>1. PICK r \in T : r = Idle BY DEF Idle
<1>2. r.held = <<>> /\ r.found = <<>> OBVIOUS
<1>3. /\ q \in T /\ q.ops = ops /\ q.call = c /\ q.phase = phase /\ q.held = <<>> /\ q.found = <<>>
  BY <1>1, <1>2 DEF Callback
<1> HIDE DEF q
<1>4. CbForm(q) BY <1>3 DEF CbForm
<1> QED BY <1>3, <1>4 DEF q

\* A call is added to the history and the others stay.
LEMMA CallsAppend ==
  ASSUME calls \in Seq(CallRec), NEW r \in CallRec, calls' = Append(calls, r)
  PROVE  /\ calls' \in Seq(CallRec) /\ Len(calls) \in Nat /\ Len(calls') = Len(calls) + 1
         /\ (\A i \in 1..Len(calls) : calls'[i] = calls[i]) /\ calls'[Len(calls) + 1] = r
         /\ 1..Len(calls) \subseteq 1..Len(calls')
BY AppendProperties

\* What a new call is.
LEMMA BeginEffect ==
  ASSUME CbInv, NEW t \in Threads, NEW api \in use.apis, NEW ev \in use.traced \cup {0},
         Begin(t, api, ev)
  PROVE  \E r \in CallRec : \E phase \in {"start", "end"} :
           /\ calls' = Append(calls, r)
           /\ r.api = api /\ r.by = t /\ r.fn = 2 * (Len(calls) + 1) - 1 /\ r.ev = ev
           /\ api \in APIs /\ ev \in Nat /\ (API[api].command <=> ev # 0)
           /\ \A i \in DOMAIN calls : calls[i].ev # ev \/ ev = 0
           /\ phase = IF API[api].start = NoCallback THEN "end" ELSE "start"
           /\ cb[t] = Idle /\ stopping = {} /\ API[api].plugin \in loaded
           /\ Len(calls) + 1 <= MaxCalls
           /\ cb' = [u \in Threads |-> cb'[u]] /\ \A u \in Threads : u # t => cb'[u] = cb[u]
           /\ cb'[t] = Callback(Len(calls) + 1, IF phase = "end" THEN API[api].end ELSE API[api].start, phase)
           /\ UNCHANGED <<open, dependencies, databaseVars, writerVars>>
<1>0. /\ api \in APIs /\ ev \in Nat /\ calls \in Seq(CallRec) /\ cb = [u \in Threads |-> cb[u]]
  <2>1. use.apis \subseteq APIs /\ use.traced \subseteq Commands /\ Commands \subseteq Nat
    BY HostAssumption DEF CbInv, Commands
  <2> QED BY <2>1 DEF CbInv
<1>1. PICK n \in Nat : n = Len(calls) + 1 BY <1>0
<1>2. PICK r : r = [api |-> api, by |-> t, fn |-> 2 * n - 1, ev |-> ev] OBVIOUS
<1>3. r \in CallRec /\ r.api = api /\ r.by = t /\ r.fn = 2 * n - 1 /\ r.ev = ev
  <2>1. 2 * n - 1 \in Nat BY <1>0, <1>1
  <2>2. PICK k \in Nat : k = 2 * n - 1 BY <2>1
  <2> QED BY <1>0, <1>2, <2>2 DEF CallRec
<1>4. calls' = Append(calls, r) BY <1>1, <1>2 DEF Begin
<1>5. PICK phase \in {"start", "end"} : phase = IF API[api].start = NoCallback THEN "end" ELSE "start"
  OBVIOUS
<1>6. cb' = [cb EXCEPT ![t] = Callback(n, API[api][phase], phase)] BY <1>1, <1>5 DEF Begin
<1>7. API[api][phase] = IF phase = "end" THEN API[api].end ELSE API[api].start BY <1>5
<1>8. PICK q : q = Callback(n, IF phase = "end" THEN API[api].end ELSE API[api].start, phase) OBVIOUS
<1>9. /\ cb' = [u \in Threads |-> cb'[u]] /\ cb'[t] = q
      /\ \A u \in Threads : u # t => cb'[u] = cb[u]
  BY <1>0, <1>6, <1>7, <1>8
<1>10. /\ (API[api].command <=> ev # 0) /\ \A i \in DOMAIN calls : calls[i].ev # ev \/ ev = 0
       /\ cb[t] = Idle /\ stopping = {} /\ API[api].plugin \in loaded /\ n <= MaxCalls
       /\ UNCHANGED <<open, dependencies, databaseVars, writerVars>>
  BY <1>1 DEF Begin
<1> QED BY <1>0, <1>1, <1>3, <1>4, <1>5, <1>8, <1>9, <1>10

\* A program, not begun yet, is the rest of itself.
LEMMA WholeProgram ==
  ASSUME NEW a \in APIs
  PROVE  /\ API[a].start \in Seq(Op) /\ API[a].end \in Seq(Op)
         /\ StartRest(a, API[a].start) /\ EndRest(a, API[a].end)
BY Programs DEF ProgramOK, StartProgram, EndProgram, StartRest, EndRest

\* A thread in a callback is where it was when another thread makes a call.
LEMMA CbOther ==
  ASSUME CbInv, NEW u \in Threads, cb'[u] = cb[u],
         Len(calls) \in Nat, Len(calls') \in Nat, Len(calls') >= Len(calls),
         \A i \in 1..Len(calls) : calls'[i] = calls[i],
         open' \subseteq 1..Len(calls'),
         \A d \in open' : d \in open \/ calls'[d].by # u
  PROVE  CbOK(u)'
<1>0. CbOK(u) /\ open \subseteq 1..Len(calls) BY DEF CbInv
<1>1. CASE cb[u].ops = <<>> BY <1>0, <1>1 DEF CbOK
<1>2. CASE cb[u].ops # <<>>
  <2>1. cb[u].call \in 1..Len(calls) /\ cb[u].call \in 1..Len(calls') BY <1>0, <1>2 DEF CbOK
  <2>2. calls'[cb[u].call] = calls[cb[u].call] BY <2>1
  <2>3. \A d \in open' : Runs(u, d)' => d \in open /\ Runs(u, d) BY <1>0 DEF Runs
  <2> QED BY <1>0, <1>2, <2>1, <2>2, <2>3 DEF CbOK
<1> QED BY <1>1, <1>2

\* Begin keeps the callbacks.
LEMMA CbBegin ==
  ASSUME CbInv, NEW t \in Threads, NEW api \in use.apis, NEW ev \in use.traced \cup {0},
         Begin(t, api, ev)
  PROVE  CbInv'
<1>1. PICK r \in CallRec, phase \in {"start", "end"} :
         /\ calls' = Append(calls, r) /\ r.api = api /\ r.by = t
         /\ api \in APIs /\ (API[api].command <=> ev # 0)
         /\ phase = IF API[api].start = NoCallback THEN "end" ELSE "start"
         /\ cb' = [u \in Threads |-> cb'[u]] /\ \A u \in Threads : u # t => cb'[u] = cb[u]
         /\ cb'[t] = Callback(Len(calls) + 1,
                              IF phase = "end" THEN API[api].end ELSE API[api].start, phase)
         /\ open' = open /\ use' = use
  BY BeginEffect DEF writerVars
<1>2. /\ calls \in Seq(CallRec) /\ open \subseteq 1..Len(calls) /\ use \in Uses
      /\ \A c \in open : API[calls[c].api].end # NoCallback
  BY DEF CbInv
<1>3. /\ calls' \in Seq(CallRec) /\ Len(calls) \in Nat /\ Len(calls') = Len(calls) + 1
      /\ (\A i \in 1..Len(calls) : calls'[i] = calls[i]) /\ calls'[Len(calls) + 1] = r
      /\ 1..Len(calls) \subseteq 1..Len(calls')
  BY <1>1, <1>2, CallsAppend
<1>4. open' \subseteq 1..Len(calls') /\ \A c \in open' : API[calls'[c].api].end # NoCallback
  BY <1>1, <1>2, <1>3
<1>5. Len(calls') \in Nat /\ Len(calls') >= Len(calls) BY <1>3
<1>6. ASSUME NEW u \in Threads, u # t PROVE CbOK(u)'
  BY <1>1, <1>3, <1>4, <1>5, <1>6, CbOther
<1>7. CbOK(t)'
  <2>1. PICK n \in Nat : n = Len(calls) + 1 BY <1>3
  <2>2. PICK ops \in Seq(Op) : ops = IF phase = "end" THEN API[api].end ELSE API[api].start
    BY <1>1, WholeProgram
  <2>3. CbForm(cb'[t]) /\ cb'[t].ops = ops /\ cb'[t].call = n /\ cb'[t].phase = phase
    BY <1>1, <2>1, <2>2, CallbackForm
  <2>4. n \in 1..Len(calls') /\ calls'[n] = r BY <1>3, <2>1
  <2>5. ops # <<>>
    <3>1. API[api].start = NoCallback => API[api].end # NoCallback BY <1>1, Programs DEF ProgramOK
    <3> QED BY <1>1, <2>2, <3>1 DEF NoCallback
  <2>6. CASE phase = "start"
    BY <1>1, <2>2, <2>3, <2>4, <2>5, <2>6, WholeProgram DEF CbOK
  <2>7. CASE phase = "end"
    <3>1. EndRest(api, ops) BY <1>1, <2>2, <2>7, WholeProgram
    <3>2. API[api].start = NoCallback BY <1>1, <2>7
    <3>3. API[api].command BY <1>1, <3>2, Programs DEF ProgramOK
    <3> QED BY <1>1, <2>3, <2>4, <2>5, <2>7, <3>1, <3>3 DEF CbOK
  <2> QED BY <2>6, <2>7
<1> QED BY <1>1, <1>2, <1>3, <1>4, <1>6, <1>7 DEF CbInv

\* End keeps the callbacks.
LEMMA CbEnd ==
  ASSUME CbInv, NEW t \in Threads, NEW c \in open, End(t, c)
  PROVE  CbInv'
<1>0. /\ calls \in Seq(CallRec) /\ open \subseteq 1..Len(calls) /\ use \in Uses
      /\ \A d \in open : API[calls[d].api].end # NoCallback
      /\ cb = [u \in Threads |-> cb[u]]
  BY DEF CbInv
<1>1. /\ UNCHANGED <<calls, use>> /\ open' = open \ {c}
      /\ cb' = [cb EXCEPT ![t] = Callback(c, API[calls[c].api].end, "end")]
      /\ ~API[calls[c].api].command =>
           /\ calls[c].by = t
           /\ \A d \in open : calls[d].by = t /\ ~API[calls[d].api].command => d <= c
  BY DEF End, writerVars
<1>2. c \in 1..Len(calls) /\ calls[c].api \in APIs /\ c \in Nat /\ Len(calls) \in Nat
  <2>1. c \in 1..Len(calls) /\ Len(calls) \in Nat BY <1>0
  <2>2. calls[c] \in CallRec BY <1>0, <2>1, ElementOfSeq
  <2> QED BY <2>1, <2>2 DEF CallRec
<1>3. PICK q : q = Callback(c, API[calls[c].api].end, "end") OBVIOUS
<1>4. /\ CbForm(q) /\ q.ops = API[calls[c].api].end /\ q.call = c /\ q.phase = "end"
  BY <1>3, CallbackForm
<1>5. /\ cb' = [u \in Threads |-> cb'[u]] /\ cb'[t] = q
      /\ \A u \in Threads : u # t => cb'[u] = cb[u]
  BY <1>0, <1>1, <1>3
<1>6. ASSUME NEW u \in Threads, u # t PROVE CbOK(u)'
  BY <1>0, <1>1, <1>2, <1>5, <1>6, CbOther
<1>7. CbOK(t)'
  <2>1. /\ q.ops \in Seq(Op) /\ EndRest(calls[c].api, q.ops) BY <1>2, <1>4, WholeProgram
  <2>2. q.ops # <<>> BY <1>0, <1>4 DEF NoCallback
  <2>3. ~API[calls[c].api].command =>
          calls[c].by = t /\ \A d \in open' : Runs(t, d)' => d < c
    <3> SUFFICES ASSUME ~API[calls[c].api].command
                 PROVE  calls[c].by = t /\ \A d \in open' : Runs(t, d)' => d < c
      OBVIOUS
    <3>1. \A d \in open' : Runs(t, d)' => d <= c /\ d # c BY <1>1 DEF Runs
    <3>2. \A d \in open' : d \in Nat BY <1>0, <1>1
    <3>3. ASSUME NEW d \in open', Runs(t, d)' PROVE d < c
      <4>1. d <= c /\ d # c /\ d \in Nat BY <3>1, <3>2, <3>3
      <4> QED BY <1>2, <4>1
    <3> QED BY <1>1, <3>3
  <2> QED BY <1>1, <1>2, <1>4, <1>5, <2>1, <2>2, <2>3 DEF CbOK
<1> QED BY <1>0, <1>1, <1>5, <1>6, <1>7 DEF CbInv

\* A call of a callback keeps the callbacks.
LEMMA CbGoes ==
  ASSUME CbInv, NEW t \in Threads, Goes(t)
  PROVE  CbInv'
<1>0. /\ calls \in Seq(CallRec) /\ open \subseteq 1..Len(calls) /\ use \in Uses
      /\ \A d \in open : API[calls[d].api].end # NoCallback
      /\ CbOK(t) /\ Len(calls) \in Nat
  BY DEF CbInv
<1>1. /\ cb[t].ops # <<>> /\ calls' = calls /\ use' = use
      /\ cb' = [u \in Threads |-> cb'[u]] /\ \A u \in Threads : u # t => cb'[u] = cb[u]
  BY DEF Goes
<1>2. cb[t].call \in 1..Len(calls) BY <1>0, <1>1 DEF CbOK
<1>3. \/ open' = open
      \/ /\ open' = open \cup {cb[t].call} /\ cb[t].phase = "start"
         /\ API[calls[cb[t].call].api].end # NoCallback
  BY DEF Goes
<1>4. open' \subseteq 1..Len(calls) /\ \A d \in open' : API[calls[d].api].end # NoCallback
  BY <1>0, <1>2, <1>3
<1>5. cb[t].phase = "start" => calls[cb[t].call].by = t BY <1>0, <1>1 DEF CbOK
<1>6. ASSUME NEW u \in Threads, u # t PROVE CbOK(u)'
  <2>1. \A d \in open' : d \in open \/ calls'[d].by # u BY <1>1, <1>3, <1>5, <1>6
  <2> QED BY <1>0, <1>1, <1>4, <1>6, <2>1, CbOther
<1>7. CbOK(t)'
  <2>1. /\ cb'[t].ops \in Seq(Op)
        /\ \A api : StartRest(api, cb[t].ops) => StartRest(api, cb'[t].ops)
        /\ \A api : EndRest(api, cb[t].ops) => EndRest(api, cb'[t].ops)
    BY GoesRest
  <2>2. CASE cb'[t].ops = <<>>
    <3>1. cb'[t] = Idle BY <2>2 DEF Goes
    <3>2. CbForm(Idle) BY DEF CbForm, Idle
    <3> QED BY <2>1, <2>2, <3>1, <3>2 DEF CbOK
  <2>3. CASE cb'[t].ops # <<>>
    <3>1. CbForm(cb'[t]) /\ cb'[t].call = cb[t].call /\ cb'[t].phase = cb[t].phase /\ open' = open
      BY <2>3 DEF Goes
    <3>2. \A d \in open : Runs(t, d)' <=> Runs(t, d) BY <1>1 DEF Runs
    <3> QED BY <1>0, <1>1, <2>1, <2>3, <3>1, <3>2 DEF CbOK
  <2> QED BY <2>2, <2>3
<1> QED BY <1>0, <1>1, <1>4, <1>6, <1>7 DEF CbInv

\* a step of a writer, or one that says what a command waits for
WriterStep ==
  \/ \E p \in Plugins : BeginPass(p) \/ writeTables(p) \/ moveEvents(p) \/ dumpEvents(p)
                          \/ ClosePass(p) \/ DestroyPlugin(p)
  \/ collapseDependencyChains \/ writeDependencies

OtherStep == WriterStep \/ (\E w \in use.waits : add_dependency(w[1], w[2])) \/ Gone \/ UNCHANGED vars

\* These change no callback.
LEMMA OtherFrame ==
  ASSUME OtherStep
  PROVE  UNCHANGED <<use, calls, open, cb, events, names, callCount>>
BY DEF OtherStep, WriterStep, BeginPass, writeTables, moveEvents, dumpEvents, ClosePass, DestroyPlugin,
       collapseDependencyChains, writeDependencies, add_dependency, Gone, vars, callbackVars,
       databaseVars, writerVars

\* Every step is a call's beginning or end, a call of a callback, or another.
LEMMA StepKinds ==
  ASSUME [Next]_vars
  PROVE  \/ \E t \in Threads : \E api \in use.apis, ev \in use.traced \cup {0} : Begin(t, api, ev)
         \/ \E t \in Threads : \E c \in open : End(t, c)
         \/ \E t \in Threads : Operation(t)
         \/ OtherStep
BY DEF Next, Operation, OtherStep, WriterStep

\* Every step keeps the callbacks.
LEMMA CbStep ==
  ASSUME CbInv, [Next]_vars
  PROVE  CbInv'
<1>1. ASSUME OtherStep PROVE CbInv'
  <2>1. UNCHANGED <<use, calls, open, cb>> BY <1>1, OtherFrame
  <2> QED BY <2>1 DEF CbInv, CbOK, Runs
<1> QED BY <1>1, StepKinds, CbBegin, CbEnd, CbGoes, OperationGoes

-----------------------------------------------------------------------------
(* The statistics                                                          *)

CountRec == [name : APIs, call : Nat, ended : Nat]

\* the callback of thread t has counted the start of its call, and is still
\* to count the end
InCount(t) ==
  /\ cb[t].ops # <<>> /\ calls[cb[t].call].api \in Counted
  /\ \/ cb[t].phase = "start" /\ ~Has(cb[t].ops, "callStart")
     \/ cb[t].phase = "end" /\ Has(cb[t].ops, "callEnd")

\* entry i of the statistics of thread t
EntryOK(t, i) ==
  LET e == callCount[t][i]
  IN /\ e.call \in 1..Len(calls) /\ e.name = calls[e.call].api /\ e.name \in Counted
     /\ Runs(t, e.call) /\ e.ended \in {0, e.call}
     /\ e.ended = 0 => e.call \in open \/ (InCount(t) /\ e.call = cb[t].call)

\* call c of thread t is counted and has not ended
Running(t, c) == \E i \in DOMAIN callCount[t] : callCount[t][i].call = c /\ callCount[t][i].ended = 0

StatsOK(t) ==
  /\ callCount[t] \in Seq(CountRec)
  /\ \A i \in DOMAIN callCount[t] : EntryOK(t, i)
  /\ \A i, j \in DOMAIN callCount[t] : i < j => callCount[t][i].call < callCount[t][j].call
  /\ \A c \in open : Runs(t, c) /\ calls[c].api \in Counted => Running(t, c)
  /\ InCount(t) => Running(t, cb[t].call)
  /\ cb[t].ops # <<>> /\ cb[t].phase = "start" /\ Has(cb[t].ops, "callStart") =>
       \A i \in DOMAIN callCount[t] : callCount[t][i].call < cb[t].call

StatsInv == callCount = [t \in Threads |-> callCount[t]] /\ \A t \in Threads : StatsOK(t)

\* The statistics of a thread stay right when another one makes a step.
LEMMA StatsOther ==
  ASSUME CbInv, NEW u \in Threads, StatsOK(u), callCount'[u] = callCount[u], cb'[u] = cb[u],
         Len(calls) \in Nat, Len(calls') \in Nat, Len(calls') >= Len(calls),
         \A i \in 1..Len(calls) : calls'[i] = calls[i],
         open' \subseteq 1..Len(calls),
         \A c \in 1..Len(calls) : Runs(u, c) => (c \in open' <=> c \in open)
  PROVE  StatsOK(u)'
<1>0. CbOK(u) /\ open \subseteq 1..Len(calls) BY DEF CbInv
<1>1. InCount(u)' <=> InCount(u)
  <2>1. CASE cb[u].ops = <<>> BY <2>1 DEF InCount
  <2>2. CASE cb[u].ops # <<>>
    <3>1. calls'[cb[u].call] = calls[cb[u].call] BY <1>0, <2>2 DEF CbOK
    <3> QED BY <3>1 DEF InCount
  <2> QED BY <2>1, <2>2
<1>2. \A c \in 1..Len(calls) : Runs(u, c)' <=> Runs(u, c) BY DEF Runs
<1>3. \A c : Running(u, c)' <=> Running(u, c) BY DEF Running
<1>4. ASSUME NEW i \in DOMAIN callCount[u] PROVE EntryOK(u, i)'
  <2>1. EntryOK(u, i) BY DEF StatsOK
  <2>2. callCount[u][i].call \in 1..Len(calls) /\ Runs(u, callCount[u][i].call) BY <2>1 DEF EntryOK
  <2>3. callCount[u][i].call \in 1..Len(calls') BY <2>2
  <2> QED BY <1>1, <1>2, <2>1, <2>2, <2>3 DEF EntryOK
<1>5. \A c \in open' : Runs(u, c)' /\ calls'[c].api \in Counted => Running(u, c)'
  BY <1>2, <1>3 DEF StatsOK
<1> QED BY <1>1, <1>3, <1>4, <1>5 DEF StatsOK

\* The statistics while a call begins.
LEMMA StatsBegin ==
  ASSUME CbInv, StatsInv, NEW t \in Threads, NEW api \in use.apis,
         NEW ev \in use.traced \cup {0}, Begin(t, api, ev)
  PROVE  StatsInv'
<1>1. PICK r \in CallRec, phase \in {"start", "end"} :
         /\ calls' = Append(calls, r) /\ r.api = api /\ r.by = t
         /\ api \in APIs
         /\ phase = IF API[api].start = NoCallback THEN "end" ELSE "start"
         /\ cb[t] = Idle /\ \A u \in Threads : u # t => cb'[u] = cb[u]
         /\ cb'[t] = Callback(Len(calls) + 1,
                              IF phase = "end" THEN API[api].end ELSE API[api].start, phase)
         /\ open' = open /\ callCount' = callCount
  BY BeginEffect DEF databaseVars
<1>2. calls \in Seq(CallRec) /\ open \subseteq 1..Len(calls) BY DEF CbInv
<1>3. /\ Len(calls) \in Nat /\ Len(calls') = Len(calls) + 1
      /\ (\A i \in 1..Len(calls) : calls'[i] = calls[i]) /\ calls'[Len(calls) + 1] = r
  BY <1>1, <1>2, CallsAppend
<1>4. Len(calls') \in Nat /\ Len(calls') >= Len(calls) BY <1>3
<1>5. ASSUME NEW u \in Threads, u # t PROVE StatsOK(u)'
  BY <1>1, <1>2, <1>3, <1>4, <1>5, StatsOther DEF StatsInv
<1>6. StatsOK(t)'
  <2>0. StatsOK(t) BY DEF StatsInv
  <2>1. PICK n \in Nat : n = Len(calls) + 1 BY <1>3
  <2>2. PICK ops : ops = IF phase = "end" THEN API[api].end ELSE API[api].start OBVIOUS
  <2>3. cb'[t].ops = ops /\ cb'[t].call = n /\ cb'[t].phase = phase
    BY <1>1, <2>1, <2>2, CallbackForm
  <2>4. ~InCount(t) BY <1>1 DEF InCount, Idle
  <2>5. ~InCount(t)'
    <3>1. calls'[n].api = api BY <1>1, <1>3, <2>1
    <3>2. CASE phase = "start"
      <4>1. api \in Counted => Has(ops, "callStart")
        BY <1>1, <2>2, <3>2, Programs DEF ProgramOK, StartProgram
      <4> QED BY <2>3, <3>1, <3>2, <4>1 DEF InCount
    <3>3. CASE phase = "end"
      <4>1. API[api].start = NoCallback BY <1>1, <3>3
      <4>2. api \notin Counted BY <1>1, <4>1, Programs DEF ProgramOK
      <4> QED BY <2>3, <3>1, <4>2 DEF InCount
    <3> QED BY <3>2, <3>3
  <2>6. \A c \in 1..Len(calls) : Runs(t, c)' <=> Runs(t, c) BY <1>3 DEF Runs
  <2>7. \A c : Running(t, c)' <=> Running(t, c) BY <1>1 DEF Running
  <2>8. ASSUME NEW i \in DOMAIN callCount[t]
        PROVE  EntryOK(t, i)' /\ callCount[t][i].call < n
    <3>1. EntryOK(t, i) BY <2>0 DEF StatsOK
    <3>2. callCount[t][i].call \in 1..Len(calls) BY <3>1 DEF EntryOK
    <3>3. callCount[t][i].call \in 1..Len(calls') /\ callCount[t][i].call < n
      BY <1>3, <2>1, <3>2
    <3> QED BY <1>1, <1>3, <2>4, <2>6, <3>1, <3>2, <3>3 DEF EntryOK
  <2>9. \A c \in open' : Runs(t, c)' /\ calls'[c].api \in Counted => Running(t, c)'
    BY <1>1, <1>2, <1>3, <2>0, <2>6, <2>7 DEF StatsOK
  <2> QED BY <1>1, <2>0, <2>3, <2>5, <2>8, <2>9 DEF StatsOK
<1> QED BY <1>1, <1>5, <1>6 DEF StatsInv

\* The statistics while a call ends.
LEMMA StatsEnd ==
  ASSUME CbInv, StatsInv, NEW t \in Threads, NEW c \in open, End(t, c)
  PROVE  StatsInv'
<1>0. /\ calls \in Seq(CallRec) /\ open \subseteq 1..Len(calls) /\ Len(calls) \in Nat
      /\ cb = [u \in Threads |-> cb[u]]
  BY DEF CbInv
<1>1. /\ UNCHANGED <<calls, callCount>> /\ open' = open \ {c} /\ cb[t] = Idle
      /\ cb' = [cb EXCEPT ![t] = Callback(c, API[calls[c].api].end, "end")]
      /\ ~API[calls[c].api].command => calls[c].by = t
  BY DEF End, databaseVars
<1>2. c \in 1..Len(calls) /\ calls[c].api \in APIs
  <2>1. c \in 1..Len(calls) /\ Len(calls) \in Nat BY <1>0
  <2>2. calls[c] \in CallRec BY <1>0, <2>1, ElementOfSeq
  <2> QED BY <2>1, <2>2 DEF CallRec
<1>3. PICK q : q = Callback(c, API[calls[c].api].end, "end") OBVIOUS
<1>4. q.ops = API[calls[c].api].end /\ q.call = c /\ q.phase = "end" BY <1>3, CallbackForm
<1>5. cb'[t] = q /\ \A u \in Threads : u # t => cb'[u] = cb[u] BY <1>0, <1>1, <1>3
<1>6. ASSUME NEW u \in Threads, u # t PROVE StatsOK(u)'
  <2>1. \A d \in 1..Len(calls) : Runs(u, d) => (d \in open' <=> d \in open)
    BY <1>1, <1>6 DEF Runs
  <2>2. /\ StatsOK(u) /\ callCount'[u] = callCount[u] /\ cb'[u] = cb[u] /\ calls' = calls
        /\ open' \subseteq 1..Len(calls) /\ Len(calls) >= Len(calls)
    BY <1>0, <1>1, <1>5, <1>6 DEF StatsInv
  <2> QED BY <1>0, <2>1, <2>2, StatsOther
<1>7. StatsOK(t)'
  <2>0. StatsOK(t) BY DEF StatsInv
  <2>1. ~InCount(t) BY <1>1 DEF InCount, Idle
  <2>2. calls[c].api \in Counted =>
          Has(q.ops, "callEnd") /\ q.ops # <<>> /\ ~API[calls[c].api].command
    BY <1>2, <1>4, Programs DEF ProgramOK, EndProgram, NoCallback
  <2>3. \A d : Running(t, d)' <=> Running(t, d) BY <1>1 DEF Running
  <2>4. ASSUME NEW i \in DOMAIN callCount[t] PROVE EntryOK(t, i)'
    <3>1. EntryOK(t, i) BY <2>0 DEF StatsOK
    <3>2. PICK e : e = callCount[t][i] OBVIOUS
    <3>3. e.ended = 0 => e.call \in open BY <2>1, <3>1, <3>2 DEF EntryOK
    <3>4. e.call = c => InCount(t)'
      BY <1>1, <1>4, <1>5, <2>2, <3>1, <3>2 DEF InCount, EntryOK
    <3> QED BY <1>1, <1>4, <1>5, <3>1, <3>2, <3>3, <3>4 DEF EntryOK, Runs
  <2>5. \A d \in open' : Runs(t, d)' /\ calls'[d].api \in Counted => Running(t, d)'
    BY <1>1, <2>0, <2>3 DEF StatsOK, Runs
  <2>6. InCount(t)' => Running(t, cb[t].call)'
    <3>1. InCount(t)' => calls[c].api \in Counted BY <1>1, <1>4, <1>5 DEF InCount
    <3>2. calls[c].api \in Counted => Running(t, c) BY <1>1, <2>0, <2>2 DEF StatsOK, Runs
    <3> QED BY <1>4, <1>5, <2>3, <3>1, <3>2
  <2> QED BY <1>1, <1>4, <1>5, <2>0, <2>4, <2>5, <2>6 DEF StatsOK
<1> QED BY <1>1, <1>6, <1>7 DEF StatsInv

\* The statistics of the other threads while a callback goes on.
LEMMA StatsGoesOther ==
  ASSUME CbInv, StatsInv, NEW t \in Threads, Goes(t), NEW u \in Threads, u # t,
         callCount'[u] = callCount[u]
  PROVE  StatsOK(u)'
<1>0. /\ open \subseteq 1..Len(calls) /\ Len(calls) \in Nat /\ CbOK(t) BY DEF CbInv
<1>1. /\ StatsOK(u) /\ cb'[u] = cb[u] /\ calls' = calls /\ Len(calls) >= Len(calls)
  BY <1>0 DEF StatsInv, Goes
<1>2. \/ open' = open
      \/ open' = open \cup {cb[t].call} /\ cb[t].phase = "start" /\ cb[t].ops # <<>>
  BY DEF Goes
<1>3. cb[t].phase = "start" /\ cb[t].ops # <<>> =>
        cb[t].call \in 1..Len(calls) /\ calls[cb[t].call].by = t
  BY <1>0 DEF CbOK
<1>4. open' \subseteq 1..Len(calls) BY <1>0, <1>2, <1>3
<1>5. \A d \in 1..Len(calls) : Runs(u, d) => (d \in open' <=> d \in open)
  BY <1>2, <1>3 DEF Runs
<1> QED BY <1>0, <1>1, <1>4, <1>5, StatsOther

\* A call of a callback that does not count.
LEMMA StatsGoes ==
  ASSUME CbInv, StatsInv, NEW t \in Threads, Goes(t), callCount' = callCount,
         Head(cb[t].ops).op \notin {"callStart", "callEnd"}
  PROVE  StatsInv'
<1>0. /\ open \subseteq 1..Len(calls) /\ CbOK(t) /\ StatsOK(t) BY DEF CbInv, StatsInv
<1>1. PICK ops \in Seq(Op) : ops = cb[t].ops BY <1>0 DEF CbOK
<1>2. /\ ops # <<>> /\ calls' = calls /\ Head(ops).op # "callStart" /\ Head(ops).op # "callEnd"
  BY <1>1 DEF Goes
<1>3. PICK rest : rest = cb'[t].ops /\ (rest = Tail(ops) \/ (Has(ops, "quit") /\ rest = <<>>))
  BY <1>1 DEF Goes
<1>4. /\ \A name : Has(Tail(ops), name) => Has(ops, name)
      /\ \A name : Has(ops, name) /\ Head(ops).op # name => Has(Tail(ops), name)
  BY <1>2, TailProgram
<1>5. ASSUME NEW u \in Threads, u # t PROVE StatsOK(u)' BY <1>5, StatsGoesOther
<1>6. \A d : (Running(t, d)' <=> Running(t, d)) /\ (Runs(t, d)' <=> Runs(t, d))
  BY <1>2 DEF Running, Runs
<1>7. CASE rest # <<>>
  <2>1. /\ cb'[t].call = cb[t].call /\ cb'[t].phase = cb[t].phase /\ open' = open /\ rest = Tail(ops)
    BY <1>3, <1>7 DEF Goes
  <2>2. (Has(rest, "callStart") <=> Has(ops, "callStart")) /\ (Has(rest, "callEnd") <=> Has(ops, "callEnd"))
    BY <1>2, <1>4, <2>1
  <2>3. InCount(t)' <=> InCount(t) BY <1>1, <1>2, <1>3, <1>7, <2>1, <2>2 DEF InCount
  <2>4. ASSUME NEW i \in DOMAIN callCount[t] PROVE EntryOK(t, i)'
    BY <1>0, <1>2, <1>6, <2>1, <2>3 DEF StatsOK, EntryOK
  <2>5. StatsOK(t)'
    BY <1>0, <1>1, <1>2, <1>3, <1>6, <1>7, <2>1, <2>2, <2>3, <2>4 DEF StatsOK
  <2> QED BY <1>5, <2>5 DEF StatsInv
<1>8. CASE rest = <<>>
  <2>1. /\ cb'[t].ops = <<>>
        /\ open' = IF cb[t].phase = "start" /\ API[calls[cb[t].call].api].end # NoCallback
                   THEN open \cup {cb[t].call} ELSE open
    BY <1>3, <1>8 DEF Goes
  <2>2. ~InCount(t)' BY <2>1 DEF InCount
  <2>3. cb[t].call \in 1..Len(calls) /\ calls[cb[t].call].api \in APIs
    <3>1. cb[t].call \in 1..Len(calls) BY <1>0, <1>1, <1>2 DEF CbOK
    <3>2. calls[cb[t].call] \in CallRec BY <3>1, ElementOfSeq DEF CbInv
    <3> QED BY <3>1, <3>2 DEF CallRec
  <2>4. ~Has(<<>>, "callStart") /\ ~Has(<<>>, "callEnd") BY DEF Has
  <2>5. /\ cb[t].phase = "start" => ~Has(ops, "callStart")
        /\ cb[t].phase = "end" => ~Has(ops, "callEnd")
    BY <1>0, <1>1, <1>2, <1>3, <1>4, <1>8, <2>4 DEF CbOK, StartRest, EndRest
  <2>6. calls[cb[t].call].api \in Counted => API[calls[cb[t].call].api].end # NoCallback
    BY <2>3, Programs DEF ProgramOK
  <2>7. InCount(t) => cb[t].call \in open' BY <1>1, <2>1, <2>5, <2>6 DEF InCount
  <2>8. ASSUME NEW i \in DOMAIN callCount[t] PROVE EntryOK(t, i)'
    BY <1>0, <1>2, <1>6, <2>1, <2>7 DEF StatsOK, EntryOK
  <2>9. ASSUME NEW d \in open', Runs(t, d), calls[d].api \in Counted PROVE Running(t, d)
    <3>1. CASE d \in open BY <1>0, <2>9, <3>1 DEF StatsOK
    <3>2. CASE d \notin open
      <4>1. d = cb[t].call /\ cb[t].phase = "start" BY <2>1, <2>9, <3>2
      <4>2. InCount(t) BY <1>1, <1>2, <2>5, <2>9, <4>1 DEF InCount
      <4> QED BY <1>0, <4>1, <4>2 DEF StatsOK
    <3> QED BY <3>1, <3>2
  <2>10. StatsOK(t)'
    BY <1>0, <1>2, <1>6, <2>1, <2>2, <2>8, <2>9 DEF StatsOK
  <2> QED BY <1>5, <2>10 DEF StatsInv
<1> QED BY <1>7, <1>8

\* The function that a thread is counting the end of is the last one in its
\* statistics that has not ended: this is the one logFunctionCallEnd finds,
\* going backwards.
LEMMA LastUnended ==
  ASSUME CbInv, NEW t \in Threads, StatsOK(t), InCount(t), cb[t].phase = "end"
  PROVE  \E k \in Unended(t, calls[cb[t].call].api) :
           /\ k = Max(Unended(t, calls[cb[t].call].api))
           /\ k \in DOMAIN callCount[t] /\ callCount[t][k].call = cb[t].call
<1> DEFINE S == Unended(t, calls[cb[t].call].api)
<1>0. /\ CbOK(t) /\ callCount[t] \in Seq(CountRec) /\ open \subseteq 1..Len(calls)
      /\ cb[t].ops # <<>> /\ calls[cb[t].call].api \in Counted
  BY DEF CbInv, StatsOK, InCount
<1>1. PICK k \in DOMAIN callCount[t] : callCount[t][k].call = cb[t].call /\ callCount[t][k].ended = 0
  BY DEF StatsOK, Running
<1>2. k \in S
  <2>1. callCount[t][k].name = calls[cb[t].call].api BY <1>1 DEF StatsOK, EntryOK
  <2> QED BY <1>1, <2>1 DEF Unended
<1>d. DOMAIN callCount[t] \subseteq Nat /\ S \subseteq DOMAIN callCount[t] BY <1>0 DEF Unended
<1>3. ~API[calls[cb[t].call].api].command
  <2>1. calls[cb[t].call].api \in APIs BY <1>0, APINames DEF Counted
  <2> QED BY <1>0, <2>1, Programs DEF ProgramOK
<1>4. \A d \in open : Runs(t, d) => d < cb[t].call BY <1>0, <1>3 DEF CbOK
<1>5. ASSUME NEW j \in S PROVE j <= k
  <2>1. /\ j \in DOMAIN callCount[t] /\ callCount[t][j].ended = 0 BY DEF Unended
  <2>2. /\ Runs(t, callCount[t][j].call)
        /\ callCount[t][j].call \in open \/ callCount[t][j].call = cb[t].call
    BY <2>1 DEF StatsOK, EntryOK
  <2>3. callCount[t][j].call \in Nat /\ cb[t].call \in Nat
    <3>1. callCount[t][j] \in CountRec /\ callCount[t][k] \in CountRec BY <1>0, <1>1, <2>1
    <3> QED BY <1>1, <3>1 DEF CountRec
  <2>4. callCount[t][j].call <= callCount[t][k].call BY <1>1, <1>4, <2>2, <2>3
  <2>5. ~(k < j) BY <1>1, <2>1, <2>3, <2>4 DEF StatsOK
  <2> QED BY <1>1, <1>d, <2>1, <2>5
<1>6. k = Max(S)
  <2>1. \A j \in S : k >= j BY <1>1, <1>5, <1>d
  <2>2. PICK m : m = Max(S) OBVIOUS
  <2>3. m \in S /\ \A j \in S : m >= j BY <1>2, <2>1, <2>2 DEF Max
  <2>4. m >= k /\ k >= m /\ m \in Nat /\ k \in Nat BY <1>2, <1>d, <2>1, <2>3
  <2> QED BY <2>2, <2>4
<1> QED BY <1>1, <1>2, <1>6

\* logFunctionCallStart keeps the statistics.
LEMMA StatsCallStart ==
  ASSUME CbInv, StatsInv, NEW t \in Threads, logFunctionCallStart(t)
  PROVE  StatsInv'
<1>0. /\ CbOK(t) /\ StatsOK(t) /\ Goes(t) /\ callCount = [u \in Threads |-> callCount[u]]
      /\ open \subseteq 1..Len(calls)
  BY OperationGoes DEF CbInv, StatsInv, Operation
<1>1. PICK ops \in Seq(Op) : ops = cb[t].ops BY <1>0 DEF CbOK
<1>2. ops # <<>> /\ Head(ops).op = "callStart" /\ calls' = calls
  BY <1>0, <1>1 DEF logFunctionCallStart, Next1, Goes
<1>3. Has(ops, "callStart") BY <1>2, TailProgram DEF Has
<1>4. /\ cb[t].phase = "start" /\ StartRest(calls[cb[t].call].api, ops) /\ calls[cb[t].call].by = t
      /\ cb[t].call \in 1..Len(calls)
  BY <1>0, <1>1, <1>2, <1>3 DEF CbOK, EndRest
<1>5. ~Has(Tail(ops), "callStart") /\ ~Has(ops, "quit") BY <1>2, <1>4, TailProgram DEF StartRest
<1>6. PICK c \in Nat : c = cb[t].call BY <1>4
<1>7. /\ calls[c].api \in Counted /\ calls[c].api \in APIs /\ ~API[calls[c].api].command
      /\ API[calls[c].api].end # NoCallback
  <2>1. calls[c].api \in Counted BY <1>3, <1>4, <1>6 DEF StartRest
  <2>2. calls[c].api \in APIs BY <2>1, APINames DEF Counted
  <2> QED BY <2>1, <2>2, Programs DEF ProgramOK
<1>8. PICK e : e = [name |-> calls[c].api, call |-> c, ended |-> 0] OBVIOUS
<1>9. e \in CountRec /\ e.name = calls[c].api /\ e.call = c /\ e.ended = 0 BY <1>7, <1>8 DEF CountRec
<1>10. PICK s \in Seq(CountRec) : s = callCount[t] BY <1>0 DEF StatsOK
<1>11. callCount' = [callCount EXCEPT ![t] = Append(s, e)]
  BY <1>6, <1>8, <1>10 DEF logFunctionCallStart
<1>12. /\ callCount'[t] = Append(s, e) /\ callCount' = [u \in Threads |-> callCount'[u]]
       /\ \A u \in Threads : u # t => callCount'[u] = callCount[u]
  BY <1>0, <1>11
<1>13. PICK n \in Nat : n = Len(s) OBVIOUS
<1>14. /\ Append(s, e) \in Seq(CountRec) /\ DOMAIN Append(s, e) = 1..(n + 1) /\ DOMAIN s = 1..n
       /\ (\A i \in 1..n : Append(s, e)[i] = s[i]) /\ Append(s, e)[n + 1] = e
  <2>1. /\ Append(s, e) \in Seq(CountRec) /\ Len(Append(s, e)) = Len(s) + 1
        /\ (\A i \in 1..Len(s) : Append(s, e)[i] = s[i]) /\ Append(s, e)[Len(s) + 1] = e
    BY <1>9, AppendProperties
  <2>2. DOMAIN Append(s, e) = 1..Len(Append(s, e)) /\ DOMAIN s = 1..Len(s) BY <2>1
  <2> QED BY <1>13, <2>1, <2>2
<1> PICK v : v = callCount'[t] OBVIOUS
<1>15. /\ v \in Seq(CountRec) /\ DOMAIN v = 1..(n + 1) /\ (\A i \in 1..n : v[i] = s[i])
       /\ v[n + 1] = e /\ v = callCount'[t]
  BY <1>12, <1>14
<1>16. \A i \in DOMAIN v : i \in 1..n \/ i = n + 1 BY <1>13, <1>15
<1>17. \A i \in 1..n : s[i].call < c
  BY <1>0, <1>1, <1>2, <1>3, <1>4, <1>6, <1>10, <1>14 DEF StatsOK
<1>18. ASSUME NEW u \in Threads, u # t PROVE StatsOK(u)' BY <1>0, <1>12, <1>18, StatsGoesOther
<1>19. c \in open' \/ (InCount(t)' /\ cb'[t].call = c)
  <2>1. cb'[t].ops = Tail(ops) BY <1>0, <1>1, <1>5 DEF Goes
  <2>2. CASE Tail(ops) = <<>> BY <1>0, <1>4, <1>6, <1>7, <2>1, <2>2 DEF Goes
  <2>3. CASE Tail(ops) # <<>>
    <3>1. cb'[t].call = c /\ cb'[t].phase = "start" BY <1>0, <1>4, <1>6, <2>1, <2>3 DEF Goes
    <3> QED BY <1>2, <1>5, <1>7, <2>1, <2>3, <3>1 DEF InCount
  <2> QED BY <2>2, <2>3
<1>20. ~InCount(t) BY <1>1, <1>3, <1>4 DEF InCount
<1>21. open \subseteq open' /\ open' \subseteq open \cup {c} BY <1>0, <1>6 DEF Goes
<1>22. \A d : Runs(t, d)' <=> Runs(t, d) BY <1>2 DEF Runs
<1>23. Runs(t, c) BY <1>4, <1>6, <1>7 DEF Runs
<1>24. ASSUME NEW i \in DOMAIN v PROVE EntryOK(t, i)'
  <2>1. CASE i \in 1..n
    <3>1. EntryOK(t, i) BY <1>0, <1>10, <1>14, <2>1 DEF StatsOK
    <3>2. callCount'[t][i] = callCount[t][i] BY <1>10, <1>15, <2>1
    <3> QED BY <1>2, <1>20, <1>21, <1>22, <3>1, <3>2 DEF EntryOK
  <2>2. CASE i = n + 1
    <3>1. callCount'[t][i] = e BY <1>15, <2>2
    <3> QED BY <1>2, <1>4, <1>6, <1>7, <1>9, <1>19, <1>22, <1>23, <3>1 DEF EntryOK
  <2> QED BY <1>16, <2>1, <2>2
<1>25. Running(t, c)'
  <2>1. n + 1 \in DOMAIN v BY <1>13, <1>15
  <2> QED BY <1>9, <1>15, <2>1 DEF Running
<1>26. \A d : Running(t, d) => Running(t, d)'
  <2> SUFFICES ASSUME NEW d, Running(t, d) PROVE Running(t, d)' OBVIOUS
  <2>1. PICK i \in 1..n : s[i].call = d /\ s[i].ended = 0 BY <1>10, <1>14 DEF Running
  <2>2. i \in DOMAIN v BY <1>13, <1>15, <2>1
  <2> QED BY <1>15, <2>1, <2>2 DEF Running
<1>27. \A d \in open' : Runs(t, d)' /\ calls'[d].api \in Counted => Running(t, d)'
  BY <1>0, <1>2, <1>21, <1>22, <1>25, <1>26 DEF StatsOK
<1>28. InCount(t)' => Running(t, cb[t].call)'
  <2>1. InCount(t)' => cb'[t].call = c BY <1>0, <1>6 DEF InCount, Goes
  <2> QED BY <1>25, <2>1
<1>29. \A i, j \in DOMAIN v : i < j => v[i].call < v[j].call
  <2> SUFFICES ASSUME NEW i \in DOMAIN v, NEW j \in DOMAIN v, i < j PROVE v[i].call < v[j].call
    OBVIOUS
  <2>1. i \in 1..n BY <1>13, <1>15
  <2>2. CASE j \in 1..n BY <1>0, <1>10, <1>14, <1>15, <2>1, <2>2 DEF StatsOK
  <2>3. CASE j = n + 1 BY <1>9, <1>15, <1>17, <2>1, <2>3
  <2> QED BY <1>16, <2>2, <2>3
<1>30. cb'[t].ops # <<>> => ~Has(cb'[t].ops, "callStart") BY <1>0, <1>1, <1>5 DEF Goes
<1>31. StatsOK(t)' BY <1>15, <1>24, <1>27, <1>28, <1>29, <1>30 DEF StatsOK
<1> QED BY <1>12, <1>18, <1>31 DEF StatsInv

\* logFunctionCallEnd keeps the statistics.
LEMMA StatsCallEnd ==
  ASSUME CbInv, StatsInv, NEW t \in Threads, logFunctionCallEnd(t)
  PROVE  StatsInv'
<1>0. /\ CbOK(t) /\ StatsOK(t) /\ Goes(t) /\ callCount = [u \in Threads |-> callCount[u]]
      /\ open \subseteq 1..Len(calls)
  BY OperationGoes DEF CbInv, StatsInv, Operation
<1>1. PICK ops \in Seq(Op) : ops = cb[t].ops BY <1>0 DEF CbOK
<1>2. ops # <<>> /\ Head(ops).op = "callEnd" /\ calls' = calls
  BY <1>0, <1>1 DEF logFunctionCallEnd, Next1, Goes
<1>3. Has(ops, "callEnd") BY <1>2, TailProgram DEF Has
<1>4. /\ cb[t].phase = "end" /\ EndRest(calls[cb[t].call].api, ops) /\ cb[t].call \in 1..Len(calls)
      /\ ~API[calls[cb[t].call].api].command => \A d \in open : Runs(t, d) => d < cb[t].call
  BY <1>0, <1>1, <1>2, <1>3 DEF CbOK, StartRest
<1>5. ~Has(Tail(ops), "callEnd") BY <1>2, <1>4, TailProgram DEF EndRest
<1>6. PICK c \in Nat : c = cb[t].call BY <1>4
<1>7. calls[c].api \in Counted /\ ~API[calls[c].api].command
  <2>1. calls[c].api \in Counted BY <1>3, <1>4, <1>6 DEF EndRest
  <2>2. calls[c].api \in APIs BY <2>1, APINames DEF Counted
  <2> QED BY <2>1, <2>2, Programs DEF ProgramOK
<1>8. InCount(t) BY <1>1, <1>2, <1>3, <1>4, <1>6, <1>7 DEF InCount
<1>9. PICK k \in Unended(t, calls[c].api) :
         /\ k = Max(Unended(t, calls[c].api)) /\ k \in DOMAIN callCount[t]
         /\ callCount[t][k].call = c
  BY <1>0, <1>4, <1>6, <1>8, LastUnended
<1>10. callCount' = [callCount EXCEPT ![t][k].ended = c]
  <2>1. Unended(t, calls[c].api) # {} BY <1>9
  <2> QED BY <1>6, <1>9, <2>1 DEF logFunctionCallEnd
<1>11. PICK s \in Seq(CountRec) : s = callCount[t] BY <1>0 DEF StatsOK
<1>12. PICK e \in CountRec : e = s[k] BY <1>9, <1>11
<1>13. e.call = c /\ e.ended = 0 BY <1>9, <1>11, <1>12 DEF Unended
<1> DEFINE q == [e EXCEPT !.ended = c]
<1>14. q \in CountRec /\ q.call = c /\ q.name = e.name /\ q.ended = c BY <1>13 DEF CountRec
<1>15. callCount' = [callCount EXCEPT ![t] = [s EXCEPT ![k] = q]] BY <1>10, <1>11, <1>12
<1> HIDE DEF q
<1> PICK v : v = callCount'[t] OBVIOUS
<1>16. /\ v = [s EXCEPT ![k] = q] /\ callCount' = [u \in Threads |-> callCount'[u]]
       /\ \A u \in Threads : u # t => callCount'[u] = callCount[u]
  BY <1>0, <1>15
<1>17. /\ v \in Seq(CountRec) /\ DOMAIN v = DOMAIN s /\ v[k] = q /\ k \in DOMAIN s
       /\ \A i \in DOMAIN s : i # k => v[i] = s[i]
  BY <1>9, <1>11, <1>14, <1>16, ExceptSeq
<1>18. \A i \in DOMAIN s : v[i].call = s[i].call /\ v[i].name = s[i].name
  BY <1>12, <1>13, <1>14, <1>17
<1>19. ASSUME NEW u \in Threads, u # t PROVE StatsOK(u)' BY <1>0, <1>16, <1>19, StatsGoesOther
<1>20. open' = open BY <1>0, <1>4 DEF Goes
<1>21. ~InCount(t)'
  <2>1. ~Has(<<>>, "callEnd") BY DEF Has
  <2>2. ~Has(cb'[t].ops, "callEnd") BY <1>0, <1>1, <1>5, <2>1 DEF Goes
  <2>3. cb'[t].ops # <<>> => cb'[t].phase = "end" BY <1>0, <1>4 DEF Goes
  <2> QED BY <2>2, <2>3 DEF InCount
<1>22. \A d : Runs(t, d)' <=> Runs(t, d) BY <1>2 DEF Runs
<1>23. ASSUME NEW i \in DOMAIN s, NEW j \in DOMAIN s, s[i].call = s[j].call PROVE i = j
  <2>1. s[i].call \in Nat /\ i \in Nat /\ j \in Nat
    <3>1. s[i] \in CountRec OBVIOUS
    <3> QED BY <3>1 DEF CountRec
  <2>2. ~(i < j) /\ ~(j < i) BY <1>0, <1>11, <1>23, <2>1 DEF StatsOK
  <2> QED BY <2>1, <2>2
<1>24. ASSUME NEW i \in DOMAIN v PROVE EntryOK(t, i)'
  <2>1. EntryOK(t, i) BY <1>0, <1>11, <1>17 DEF StatsOK
  <2>2. CASE i # k
    <3>1. callCount'[t][i] = callCount[t][i] BY <1>11, <1>17, <2>2
    <3>2. callCount[t][i].call # c BY <1>11, <1>12, <1>13, <1>17, <1>23, <2>2
    <3> QED BY <1>2, <1>6, <1>20, <1>22, <2>1, <3>1, <3>2 DEF EntryOK
  <2>3. CASE i = k
    <3>1. callCount'[t][i] = q BY <1>17, <2>3
    <3>2. callCount[t][i] = e BY <1>11, <1>12, <2>3
    <3>3. c # 0 BY <1>4, <1>6
    <3> QED BY <1>2, <1>13, <1>14, <1>22, <2>1, <3>1, <3>2, <3>3 DEF EntryOK
  <2> QED BY <2>2, <2>3
<1>25. ASSUME NEW d \in open, Runs(t, d), calls[d].api \in Counted PROVE Running(t, d)'
  <2>1. d # c /\ Running(t, d)
    <3>1. d < c BY <1>4, <1>6, <1>7, <1>25
    <3>2. d \in Nat BY <1>0
    <3> QED BY <1>0, <1>25, <3>1, <3>2 DEF StatsOK
  <2>2. PICK i \in DOMAIN s : s[i].call = d /\ s[i].ended = 0 BY <1>11, <2>1 DEF Running
  <2>3. i # k BY <1>12, <1>13, <2>1, <2>2
  <2>4. i \in DOMAIN v /\ v[i] = s[i] BY <1>17, <2>2, <2>3
  <2> QED BY <2>2, <2>4 DEF Running
<1>26. \A i, j \in DOMAIN v : i < j => v[i].call < v[j].call
  BY <1>0, <1>11, <1>17, <1>18 DEF StatsOK
<1>27. cb'[t].ops # <<>> => cb'[t].phase = "end" BY <1>0, <1>4 DEF Goes
<1>28. StatsOK(t)'
  BY <1>2, <1>17, <1>20, <1>21, <1>22, <1>24, <1>25, <1>26, <1>27 DEF StatsOK
<1> QED BY <1>16, <1>19, <1>28 DEF StatsInv

\* Every step keeps the statistics.
LEMMA StatsStep ==
  ASSUME CbInv, StatsInv, [Next]_vars
  PROVE  StatsInv'
<1>1. ASSUME NEW t \in Threads, NEW api \in use.apis, NEW ev \in use.traced \cup {0}, Begin(t, api, ev)
      PROVE  StatsInv'
  BY <1>1, StatsBegin
<1>2. ASSUME NEW t \in Threads, NEW c \in open, End(t, c) PROVE StatsInv' BY <1>2, StatsEnd
<1>3. ASSUME NEW t \in Threads, Operation(t) PROVE StatsInv'
  <2>1. CASE logFunctionCallStart(t) BY <2>1, StatsCallStart
  <2>2. CASE logFunctionCallEnd(t) BY <2>2, StatsCallEnd
  <2>3. CASE ~logFunctionCallStart(t) /\ ~logFunctionCallEnd(t)
    <3>1. Goes(t) BY <1>3, OperationGoes
    <3>2. callCount' = callCount /\ Head(cb[t].ops).op \notin {"callStart", "callEnd"}
      <4>1. CASE addString(t) BY <4>1 DEF addString, Next1
      <4>2. CASE addEvent(t) BY <4>2 DEF addEvent, Next1
      <4>3. CASE registerStart(t) BY <4>3 DEF registerStart, Next1
      <4>4. CASE lookupStart(t) BY <4>4 DEF lookupStart, Next1
      <4>5. CASE quitUnstarted(t) BY <4>5 DEF quitUnstarted, Next1, databaseVars
      <4>6. CASE addOpenCLMapping(t) BY <4>6 DEF addOpenCLMapping, Next1
      <4> QED BY <1>3, <2>3, <4>1, <4>2, <4>3, <4>4, <4>5, <4>6 DEF Operation
    <3> QED BY <3>1, <3>2, StatsGoes
  <2> QED BY <2>1, <2>2, <2>3
<1>4. CASE OtherStep
  <2>1. UNCHANGED <<use, calls, open, cb, callCount>> BY <1>4, OtherFrame
  <2>2. ASSUME NEW t \in Threads PROVE StatsOK(t)'
    <3>1. StatsOK(t) BY DEF StatsInv
    <3> QED BY <2>1, <3>1 DEF StatsOK, EntryOK, Running, Runs, InCount
  <2> QED BY <2>1, <2>2 DEF StatsInv
<1> QED BY <1>1, <1>2, <1>3, <1>4, StepKinds

\* No callback runs and no call is counted in the beginning.
LEMMA StatsInit ==
  ASSUME Init
  PROVE  CbInv /\ StatsInv
<1>1. CbInv
  <2>1. /\ calls = <<>> /\ open = {} /\ use \in Uses /\ cb = [t \in Threads |-> Idle] BY DEF Init
  <2>2. CbForm(Idle) /\ Idle.ops = <<>> BY DEF Idle, CbForm
  <2>3. ASSUME NEW t \in Threads PROVE CbOK(t)
    <3>1. cb[t] = Idle BY <2>1
    <3>2. <<>> \in Seq(Op) OBVIOUS
    <3>3. CbForm(cb[t]) /\ cb[t].ops = <<>> BY <2>2, <3>1
    <3> QED BY <3>1, <3>2, <3>3 DEF CbOK
  <2> QED BY <2>1, <2>3 DEF CbInv
<1>2. StatsInv
  <2>1. /\ calls = <<>> /\ open = {} /\ cb = [t \in Threads |-> Idle]
        /\ callCount = [t \in Threads |-> <<>>]
    BY DEF Init
  <2>2. Idle.ops = <<>> BY DEF Idle
  <2>3. ASSUME NEW t \in Threads PROVE StatsOK(t)
    <3>1. cb[t].ops = <<>> /\ callCount[t] = <<>> BY <2>1, <2>2
    <3> QED BY <2>1, <3>1 DEF StatsOK, InCount
  <2> QED BY <2>1, <2>3 DEF StatsInv
<1> QED BY <1>1, <1>2

\* The statistics of a thread give every call its own end, with calls of a
\* function from within that function: logFunctionCallEnd, going backwards, finds
\* the call that the callback is for.
THEOREM StatsArePaired == Spec => []StatsPaired
<1>1. Init => CbInv /\ StatsInv BY StatsInit
<1>2. CbInv /\ StatsInv /\ [Next]_vars => (CbInv /\ StatsInv)' BY CbStep, StatsStep
<1>3. StatsInv => StatsPaired BY DEF StatsInv, StatsOK, EntryOK, StatsPaired
<1> QED BY <1>1, <1>2, <1>3, PTL DEF Spec

-----------------------------------------------------------------------------
(* Events, names and files: the inductive invariant                        *)

\* s is a sequence
IsSeq(s) == \E S : s \in Seq(S)

\* the plugin that call c belongs to
PluginOf(c) == API[calls[c].api].plugin

\* what thread t has still to add is named by now or will be before
NamedOK(t) ==
  cb[t].ops # <<>> =>
    LET api == calls[cb[t].call].api
    IN \/ api \in names
       \/ /\ NamedFirst(cb[t].ops)
          /\ cb[t].phase = "start" => Has(cb[t].ops, "name") \/ NamedFirst(API[api].end)

\* event i is one that the writer of its plugin takes, and is named
EventOK(i) ==
  /\ events[i].call \in 1..Len(calls)
  /\ events[i].kind \in Takes[PluginOf(events[i].call)]
  /\ events[i].kind # "lop" => calls[events[i].call].api \in names

NameInv ==
  /\ \A t \in Threads : NamedOK(t)
  /\ \A c \in open : calls[c].api \in names \/ NamedFirst(API[calls[c].api].end)
  /\ \A c \in 1..Len(calls) : PluginOf(c) \in use.plugins
  /\ IsSeq(events) /\ \A i \in DOMAIN events : EventOK(i)

\* a plugin goes only after its destructor has begun, with all callbacks over
LoadInv ==
  /\ loaded \subseteq use.plugins /\ use.plugins \ loaded \subseteq stopping
  /\ stopping # {} => \A t \in Threads : cb[t] = Idle

\* the database holds events of the right kinds
DbInv ==
  /\ sortedEvents \subseteq DOMAIN events /\ unsortedEvents \subseteq DOMAIN events
  /\ (\A i \in sortedEvents : events[i].kind # "native")
  /\ \A i \in unsortedEvents : events[i].kind = "native"

\* the events that were there when a file was begun are named in it
FileOK(f) ==
  /\ f.lines \subseteq DOMAIN events /\ f.before \in 0..Len(events)
  /\ \A i \in 1..f.before : events[i].kind # "lop" => calls[events[i].call].api \in f.names

FileForm(f) ==
  f \in [names : {f.names}, before : {f.before}, lines : {f.lines}, arrows : {f.arrows}, final : {f.final}]

\* r has the fields of a pass
PassForm(r) ==
  /\ r \in [at : {r.at}, held : {r.held}, file : {r.file}, chains : {r.chains}]
  /\ FileForm(r.file)

\* the pass of plugin p holds events or has written them, never both
PassOK(p) ==
  /\ PassForm(pass[p])
  /\ pass[p].at \in {"wait", "tables", "events", "dump", "chains", "arrows", "close"}
  /\ pass[p].at # "dump" => pass[p].held = {}
  /\ pass[p].at \in {"wait", "tables", "events", "dump"} => pass[p].file.lines = {}
  /\ pass[p].at # "wait" => p \in loaded /\ (pass[p].file.final => p \in stopping)
  /\ pass[p].at # "wait" /\ ~pass[p].file.final => Len(files[p]) < MaxFiles
  /\ pass[p].held \subseteq DOMAIN events /\ pass[p].file.before \in 0..Len(events)
  /\ pass[p].at \in {"events", "dump", "chains", "arrows", "close"} => FileOK(pass[p].file)

FilesOK(p) ==
  /\ IsSeq(files[p]) /\ \A k \in DOMAIN files[p] : FileOK(files[p][k])
  /\ Len(files[p]) <= MaxFiles + 1 /\ (p \in loaded => Len(files[p]) <= MaxFiles)

WriterInv ==
  /\ pass = [p \in Plugins |-> pass[p]] /\ files = [p \in Plugins |-> files[p]]
  /\ \A p \in Plugins : PassOK(p) /\ FilesOK(p)

\* where event i can be
InDb(i) == i \in sortedEvents \/ i \in unsortedEvents
InPass(p, i) == i \in pass[p].held \/ i \in pass[p].file.lines
InFile(p, i) == \E k \in DOMAIN files[p] : i \in files[p][k].lines

\* it is in one place
OnceOK(i) ==
  /\ InDb(i) \/ \E p \in Moving : InPass(p, i) \/ InFile(p, i)
  /\ InDb(i) => \A p \in Moving : ~InPass(p, i) /\ ~InFile(p, i)
  /\ \A p, q \in Moving : /\ InPass(p, i) => ~InFile(q, i) /\ (InPass(q, i) => p = q)
                          /\ InFile(p, i) /\ InFile(q, i) => p = q
  /\ \A p \in Moving : \A k, m \in DOMAIN files[p] :
       i \in files[p][k].lines /\ i \in files[p][m].lines => k = m

OnceInv == \A i \in DOMAIN events : OnceOK(i)

\* plugin p has taken its events for the last time
Done(p) ==
  \/ p \in use.plugins \ loaded
  \/ p \in Plugins /\ pass[p].file.final /\ pass[p].at \in {"dump", "chains", "arrows", "close"}

\* it has left none in the database, but for those that it writes copies of
DoneOK(p) ==
  Done(p) => \A i \in DOMAIN events : events[i].kind \in Takes[p] /\ InDb(i) =>
               p \in Copying /\ (InPass(p, i) \/ InFile(p, i))

DoneInv == \A p \in Plugins : DoneOK(p)

\* plugin p lists only kinds of events that its filter lets through
KindsOK(p) == \A i \in DOMAIN events : InPass(p, i) \/ InFile(p, i) => events[i].kind \in Takes[p]

\* a writer that copies writes one file, at the end of its plugin
SoleOK(p) ==
  p \in Copying =>
    /\ p \in loaded => DOMAIN files[p] = {}
    /\ pass[p].at # "wait" => pass[p].file.final
    /\ \A k, m \in DOMAIN files[p] : k = m

ListInv == \A p \in Plugins : KindsOK(p) /\ SoleOK(p)

HostIInv ==
  /\ CbInv /\ StatsInv /\ NameInv /\ LoadInv /\ DbInv
  /\ WriterInv /\ OnceInv /\ DoneInv /\ ListInv

\* An element is appended and the others stay.
LEMMA AppendForm ==
  ASSUME NEW s, IsSeq(s), NEW e
  PROVE  /\ IsSeq(Append(s, e)) /\ Len(s) \in Nat /\ Len(Append(s, e)) = Len(s) + 1
         /\ DOMAIN s = 1..Len(s) /\ DOMAIN Append(s, e) = 1..(Len(s) + 1)
         /\ DOMAIN s \subseteq DOMAIN Append(s, e)
         /\ \A i \in DOMAIN Append(s, e) : i \in DOMAIN s \/ i = Len(s) + 1
         /\ \A i \in DOMAIN s : Append(s, e)[i] = s[i]
         /\ Append(s, e)[Len(s) + 1] = e
<1>1. PICK S : s \in Seq(S) BY DEF IsSeq
<1>2. PICK T : T = S \cup {e} OBVIOUS
<1>3. s \in Seq(T) /\ e \in T
  <2>1. Len(s) \in Nat /\ DOMAIN s = 1..Len(s) /\ \A i \in 1..Len(s) : s[i] \in T BY <1>1, <1>2
  <2>2. s = [i \in 1..Len(s) |-> s[i]] BY <1>1
  <2> QED BY <1>2, <2>1, <2>2
<1>4. /\ Append(s, e) \in Seq(T) /\ Len(Append(s, e)) = Len(s) + 1
      /\ (\A i \in 1..Len(s) : Append(s, e)[i] = s[i]) /\ Append(s, e)[Len(s) + 1] = e
  BY <1>3, AppendProperties
<1>5. PICK n \in Nat : n = Len(s) BY <1>3
<1>6. DOMAIN s = 1..n /\ DOMAIN Append(s, e) = 1..(n + 1) BY <1>3, <1>4, <1>5
<1> QED BY <1>4, <1>5, <1>6 DEF IsSeq

-----------------------------------------------------------------------------
(* Names                                                                   *)

\* The calls, the events and the names so far stay.
Grown ==
  /\ Len(calls) \in Nat /\ Len(calls') \in Nat /\ Len(calls') >= Len(calls)
  /\ 1..Len(calls) \subseteq 1..Len(calls')
  /\ (\A i \in 1..Len(calls) : calls'[i] = calls[i])
  /\ names \subseteq names' /\ use' = use
  /\ IsSeq(events') /\ Len(events) \in Nat /\ Len(events') \in Nat /\ Len(events') >= Len(events)
  /\ DOMAIN events \subseteq DOMAIN events' /\ \A i \in DOMAIN events : events'[i] = events[i]

\* the steps of callbacks
CallbackStep ==
  \/ \E t \in Threads : \E api \in use.apis, ev \in use.traced \cup {0} : Begin(t, api, ev)
  \/ \E t \in Threads : \E c \in open : End(t, c)
  \/ \E t \in Threads : Operation(t)

\* Only addEvent adds an event, and only addString a name.
LEMMA OperationFrame ==
  ASSUME CbInv, NEW t \in Threads, Operation(t)
  PROVE  /\ UNCHANGED <<pass, files, stopping, loaded, use, calls>>
         /\ Goes(t) /\ Next1(t, Head(cb[t].ops).op)
         /\ names' = IF Head(cb[t].ops).op = "name" THEN names \cup {calls[cb[t].call].api} ELSE names
         /\ addEvent(t) \/ UNCHANGED <<events, sortedEvents, unsortedEvents>>
<1>0. Goes(t) BY OperationGoes
<1>1. CASE addString(t) BY <1>0, <1>1 DEF addString, Next1, Advance, writerVars
<1>2. CASE addEvent(t) BY <1>0, <1>2 DEF addEvent, Next1, Advance, writerVars
<1>3. CASE registerStart(t) BY <1>0, <1>3 DEF registerStart, Next1, Advance, writerVars
<1>4. CASE lookupStart(t) BY <1>0, <1>4 DEF lookupStart, Next1, Advance, writerVars
<1>5. CASE quitUnstarted(t) BY <1>0, <1>5 DEF quitUnstarted, Next1, Advance, writerVars, databaseVars
<1>6. CASE addOpenCLMapping(t) BY <1>0, <1>6 DEF addOpenCLMapping, Next1, Advance, writerVars
<1>7. CASE logFunctionCallStart(t) BY <1>0, <1>7 DEF logFunctionCallStart, Next1, Advance, writerVars
<1>8. CASE logFunctionCallEnd(t) BY <1>0, <1>8 DEF logFunctionCallEnd, Next1, Advance, writerVars
<1> QED BY <1>1, <1>2, <1>3, <1>4, <1>5, <1>6, <1>7, <1>8 DEF Operation

\* What a new event is.
LEMMA EventEffect ==
  ASSUME CbInv, NameInv, NEW t \in Threads, addEvent(t)
  PROVE  \E e : /\ events' = Append(events, e) /\ e.call = cb[t].call
                /\ e.kind = Head(cb[t].ops).kind /\ Head(cb[t].ops).op = "add" /\ cb[t].ops # <<>>
                /\ e.phase = cb[t].phase
                /\ IF e.kind = "native"
                   THEN unsortedEvents' = unsortedEvents \cup {Len(events) + 1}
                          /\ sortedEvents' = sortedEvents
                   ELSE sortedEvents' = sortedEvents \cup {Len(events) + 1}
                          /\ unsortedEvents' = unsortedEvents
<1> DEFINE me == cb[t]
           e == [kind |-> Head(me.ops).kind, call |-> me.call, phase |-> me.phase,
                 start |-> IF me.found = <<>> THEN 0 ELSE Head(me.found)]
<1>1. e.kind = Head(me.ops).kind /\ e.call = me.call /\ e.phase = me.phase OBVIOUS
<1>2. events' = Append(events, e) BY DEF addEvent
<1>3. IF Head(me.ops).kind = "native"
      THEN unsortedEvents' = unsortedEvents \cup {Len(events) + 1} /\ sortedEvents' = sortedEvents
      ELSE sortedEvents' = sortedEvents \cup {Len(events) + 1} /\ unsortedEvents' = unsortedEvents
  BY DEF addEvent
<1>4. me.ops # <<>> /\ Head(me.ops).op = "add" BY DEF addEvent, Next1
<1> HIDE DEF e
<1> QED BY <1>1, <1>2, <1>3, <1>4

\* Callbacks leave the writers alone, and run only before the plugins go.
LEMMA CallbackFrame ==
  ASSUME CbInv, CallbackStep
  PROVE  /\ UNCHANGED <<pass, files, stopping, loaded, use>>
         /\ (\E t \in Threads : addEvent(t)) \/ UNCHANGED <<events, sortedEvents, unsortedEvents>>
         /\ LoadInv => stopping = {}
<1>1. ASSUME NEW t \in Threads, NEW api \in use.apis, NEW ev \in use.traced \cup {0}, Begin(t, api, ev)
      PROVE  UNCHANGED <<pass, files, stopping, loaded, use, events, sortedEvents, unsortedEvents>>
               /\ stopping = {}
  BY <1>1 DEF Begin, writerVars, databaseVars
<1>2. ASSUME NEW t \in Threads, NEW c \in open, End(t, c)
      PROVE  UNCHANGED <<pass, files, stopping, loaded, use, events, sortedEvents, unsortedEvents>>
               /\ stopping = {}
  BY <1>2 DEF End, writerVars, databaseVars
<1>3. ASSUME NEW t \in Threads, Operation(t)
      PROVE  /\ UNCHANGED <<pass, files, stopping, loaded, use>>
             /\ addEvent(t) \/ UNCHANGED <<events, sortedEvents, unsortedEvents>>
             /\ LoadInv => stopping = {}
  <2>1. Goes(t) BY <1>3, OperationFrame
  <2>2. cb[t] # Idle BY <2>1 DEF Goes, Idle
  <2>3. LoadInv => stopping = {} BY <2>2 DEF LoadInv
  <2> QED BY <1>3, <2>3, OperationFrame
<1> QED BY <1>1, <1>2, <1>3 DEF CallbackStep

\* No step takes a call, an event or a name back.
LEMMA GrownStep ==
  ASSUME CbInv, NameInv, [Next]_vars
  PROVE  Grown
<1>0. IsSeq(events) /\ calls \in Seq(CallRec) BY DEF NameInv, CbInv
<1>e. Len(events) \in Nat /\ Len(calls) \in Nat /\ DOMAIN events = 1..Len(events) BY <1>0, AppendForm
<1>1. ASSUME NEW t \in Threads, NEW api \in use.apis, NEW ev \in use.traced \cup {0}, Begin(t, api, ev)
      PROVE  Grown
  <2>1. PICK r \in CallRec : calls' = Append(calls, r) BY <1>1, BeginEffect
  <2>2. events' = events /\ names' = names /\ use' = use BY <1>1 DEF Begin, databaseVars, writerVars
  <2>3. /\ Len(calls') = Len(calls) + 1 /\ (\A i \in 1..Len(calls) : calls'[i] = calls[i])
        /\ 1..Len(calls) \subseteq 1..Len(calls')
    BY <1>0, <2>1, CallsAppend
  <2> QED BY <1>0, <1>e, <2>2, <2>3 DEF Grown
<1>2. ASSUME NEW t \in Threads, NEW c \in open, End(t, c) PROVE Grown
  <2>1. UNCHANGED <<calls, events, names, use>> BY <1>2 DEF End, databaseVars, writerVars
  <2> QED BY <1>0, <1>e, <2>1 DEF Grown
<1>3. ASSUME NEW t \in Threads, Operation(t) PROVE Grown
  <2>1. UNCHANGED <<calls, use>> /\ names \subseteq names' BY <1>3, OperationFrame
  <2>2. CASE addEvent(t)
    <3>1. PICK e : events' = Append(events, e) BY <2>2, EventEffect
    <3> QED BY <1>0, <1>e, <2>1, <3>1, AppendForm DEF Grown
  <2>3. CASE events' = events BY <1>0, <1>e, <2>1, <2>3 DEF Grown
  <2> QED BY <1>3, <2>2, <2>3, OperationFrame
<1>4. CASE OtherStep
  <2>1. UNCHANGED <<calls, events, names, use>> BY <1>4, OtherFrame
  <2> QED BY <1>0, <1>e, <2>1 DEF Grown
<1> QED BY <1>1, <1>2, <1>3, <1>4, StepKinds

\* What is left of a program that names before it adds.
LEMMA NamedTail ==
  ASSUME NEW ops \in Seq(Op), ops # <<>>
  PROVE  /\ NamedFirst(ops) /\ Head(ops).op # "name" => NamedFirst(Tail(ops))
         /\ NamedFirst(ops) /\ Head(ops).op = "add" => Head(ops).kind = "lop"
<1>1. /\ Head(ops) = ops[1] /\ 1 \in DOMAIN ops
      /\ \A i \in DOMAIN Tail(ops) : Tail(ops)[i] = ops[i + 1] /\ i + 1 \in DOMAIN ops
      /\ \A j \in DOMAIN ops : j = 1 \/ (j - 1 \in DOMAIN Tail(ops) /\ Tail(ops)[j - 1] = ops[j])
      /\ Tail(ops) \in Seq(Op)
  BY TailProgram
<1>2. ASSUME NamedFirst(ops), Head(ops).op # "name" PROVE NamedFirst(Tail(ops))
  <2> SUFFICES ASSUME NEW j \in DOMAIN Tail(ops), Tail(ops)[j].op = "add", Tail(ops)[j].kind # "lop"
               PROVE  \E i \in 1..(j - 1) : Tail(ops)[i].op = "name"
    BY DEF NamedFirst
  <2>1. j \in Nat /\ j >= 1 /\ Len(ops) \in Nat /\ DOMAIN ops = 1..Len(ops) BY <1>1
  <2>2. ops[j + 1].op = "add" /\ ops[j + 1].kind # "lop" /\ j + 1 \in DOMAIN ops BY <1>1
  <2>3. PICK i \in 1..((j + 1) - 1) : ops[i].op = "name" BY <1>2, <2>2 DEF NamedFirst
  <2>4. i # 1 /\ i \in DOMAIN ops BY <1>1, <1>2, <2>1, <2>2, <2>3
  <2>5. i - 1 \in 1..(j - 1) /\ Tail(ops)[i - 1].op = "name" BY <1>1, <2>1, <2>3, <2>4
  <2> QED BY <2>5
<1>3. ASSUME NamedFirst(ops), Head(ops).op = "add" PROVE Head(ops).kind = "lop"
  <2> SUFFICES ASSUME ops[1].kind # "lop" PROVE FALSE BY <1>1
  <2>1. PICK i \in 1..(1 - 1) : ops[i].op = "name" BY <1>1, <1>3 DEF NamedFirst
  <2> QED BY <2>1
<1> QED BY <1>2, <1>3

\* A thread that makes no step keeps what it has named, and so do open calls.
LEMMA NamedOther ==
  ASSUME CbInv, Grown, NEW u \in Threads, NamedOK(u), cb'[u] = cb[u]
  PROVE  NamedOK(u)'
<1>1. cb[u].ops # <<>> => cb[u].call \in 1..Len(calls) BY DEF CbInv, CbOK
<1>2. cb[u].ops # <<>> => calls'[cb[u].call] = calls[cb[u].call] BY <1>1 DEF Grown
<1> QED BY <1>2 DEF NamedOK, Grown

\* A call of a callback keeps what its thread has named.
LEMMA NamedGoes ==
  ASSUME CbInv, NameInv, NEW t \in Threads, Operation(t)
  PROVE  /\ NamedOK(t)'
         /\ \A c \in open' : calls'[c].api \in names' \/ NamedFirst(API[calls'[c].api].end)
<1>0. /\ Goes(t) /\ calls' = calls
      /\ names' = IF Head(cb[t].ops).op = "name" THEN names \cup {calls[cb[t].call].api} ELSE names
  BY OperationFrame
<1>1. PICK ops \in Seq(Op) : ops = cb[t].ops BY DEF CbInv, CbOK
<1>2. PICK api : api = calls[cb[t].call].api OBVIOUS
<1>3. ops # <<>> BY <1>0, <1>1 DEF Goes
<1>4. \/ api \in names
      \/ /\ NamedFirst(ops)
         /\ cb[t].phase = "start" => Has(ops, "name") \/ NamedFirst(API[api].end)
  BY <1>1, <1>2, <1>3 DEF NameInv, NamedOK
<1>5. \/ api \in names'
      \/ /\ Head(ops).op # "name" /\ NamedFirst(Tail(ops))
         /\ cb[t].phase = "start" => Has(Tail(ops), "name") \/ NamedFirst(API[api].end)
  <2>1. CASE Head(ops).op = "name" BY <1>0, <1>1, <1>2, <2>1
  <2>2. CASE Head(ops).op # "name"
    <3>1. Has(ops, "name") => Has(Tail(ops), "name") BY <1>3, <2>2, TailProgram
    <3>2. NamedFirst(ops) => NamedFirst(Tail(ops)) BY <1>3, <2>2, NamedTail
    <3> QED BY <1>0, <1>1, <1>4, <2>2, <3>1, <3>2
  <2> QED BY <2>1, <2>2
<1>6. NamedOK(t)'
  <2> SUFFICES ASSUME cb'[t].ops # <<>> PROVE NamedOK(t)' BY DEF NamedOK
  <2>1. cb'[t].ops = Tail(ops) /\ cb'[t].call = cb[t].call /\ cb'[t].phase = cb[t].phase
    BY <1>0, <1>1 DEF Goes
  <2>2. calls'[cb'[t].call].api = api BY <1>0, <1>2, <2>1
  <2> QED BY <1>5, <2>1, <2>2 DEF NamedOK
<1>7. ASSUME NEW c \in open' PROVE calls'[c].api \in names' \/ NamedFirst(API[calls'[c].api].end)
  <2>1. CASE c \in open
    <3>1. calls[c].api \in names \/ NamedFirst(API[calls[c].api].end) BY <2>1 DEF NameInv
    <3> QED BY <1>0, <3>1
  <2>2. CASE c \notin open
    <3>1. cb'[t].ops = <<>> /\ c = cb[t].call /\ cb[t].phase = "start" BY <1>0, <1>7, <2>2 DEF Goes
    <3>2. ~Has(ops, "quit")
      <4>1. CbOK(t) BY DEF CbInv
      <4> QED BY <1>1, <1>3, <3>1, <4>1 DEF CbOK, StartRest
    <3>3. Tail(ops) = <<>> BY <1>0, <1>1, <3>1, <3>2 DEF Goes
    <3>4. ~Has(Tail(ops), "name") BY <3>3 DEF Has
    <3> QED BY <1>0, <1>2, <1>5, <3>1, <3>4
  <2> QED BY <2>1, <2>2
<1> QED BY <1>6, <1>7

\* An event stays named.
LEMMA EventStays ==
  ASSUME Grown, NEW i \in DOMAIN events, EventOK(i)
  PROVE  EventOK(i)'
<1>1. events'[i] = events[i] BY DEF Grown
<1>2. PICK c \in 1..Len(calls) : c = events[i].call BY DEF EventOK
<1>3. calls'[c] = calls[c] /\ c \in 1..Len(calls') BY DEF Grown
<1> QED BY <1>1, <1>2, <1>3 DEF EventOK, PluginOf, Grown

\* A new event is one that the writer of its plugin takes, and its name is
\* in the table: the callback has put it there before.
LEMMA EventNamed ==
  ASSUME CbInv, NameInv, Grown, NEW t \in Threads, addEvent(t)
  PROVE  \A i \in DOMAIN events' : EventOK(i)'
<1>1. PICK e : /\ events' = Append(events, e) /\ e.call = cb[t].call
               /\ e.kind = Head(cb[t].ops).kind /\ Head(cb[t].ops).op = "add" /\ cb[t].ops # <<>>
  BY EventEffect
<1>2. IsSeq(events) BY DEF NameInv
<1>3. /\ \A i \in DOMAIN events' : i \in DOMAIN events \/ i = Len(events) + 1
      /\ events'[Len(events) + 1] = e
  BY <1>1, <1>2, AppendForm
<1>4. PICK ops \in Seq(Op) : ops = cb[t].ops BY DEF CbInv, CbOK
<1>5. PICK c \in 1..Len(calls) : c = cb[t].call BY <1>1 DEF CbInv, CbOK
<1>6. calls'[c] = calls[c] /\ c \in 1..Len(calls') BY DEF Grown
<1>7. AddsOnly(ops, Takes[API[calls[c].api].plugin])
  BY <1>1, <1>4, <1>5 DEF CbInv, CbOK, StartRest, EndRest
<1>8. e.kind \in Takes[API[calls[c].api].plugin]
  <2>1. Head(ops) = ops[1] /\ 1 \in DOMAIN ops BY <1>1, <1>4, TailProgram
  <2> QED BY <1>1, <1>4, <1>7, <2>1 DEF AddsOnly
<1>9. e.kind # "lop" => calls[c].api \in names
  <2>1. calls[c].api \in names \/ NamedFirst(ops) BY <1>1, <1>4, <1>5 DEF NameInv, NamedOK
  <2> QED BY <1>1, <1>4, <2>1, NamedTail
<1>10. PICK j : j = Len(events) + 1 OBVIOUS
<1>11. EventOK(j)' BY <1>1, <1>3, <1>5, <1>6, <1>8, <1>9, <1>10 DEF EventOK, PluginOf, Grown
<1>12. \A i \in DOMAIN events : EventOK(i)' BY EventStays DEF NameInv
<1> QED BY <1>3, <1>10, <1>11, <1>12

\* What a callback names when a call begins.
LEMMA NamedBegin ==
  ASSUME NEW api \in APIs
  PROVE  /\ NamedFirst(API[api].start)
         /\ Has(API[api].start, "name") \/ NamedFirst(API[api].end)
         /\ API[api].start = NoCallback => NamedFirst(API[api].end)
<1>1. /\ StartProgram(api, API[api].start) /\ EndProgram(api, API[api].end)
      /\ API[api].start = NoCallback => API[api].command
  BY Programs DEF ProgramOK
<1>2. api = "userRange" => Has(API[api].start, "name") /\ ~API[api].command
  <2>1. API["userRange"].start = <<Name, Add("user"), Mark("event", "fn")>> BY APIPrograms
  <2>2. Name.op = "name" BY DEF Name
  <2>3. Has(API["userRange"].start, "name") BY <2>1, <2>2 DEF Has
  <2> QED BY <2>3, APIFields
<1> QED BY <1>1, <1>2 DEF StartProgram, EndProgram

\* Begin keeps the names.
LEMMA NameBegin ==
  ASSUME CbInv, NameInv, LoadInv, Grown, NEW t \in Threads, NEW api \in use.apis,
         NEW ev \in use.traced \cup {0}, Begin(t, api, ev)
  PROVE  NameInv'
<1>1. PICK r \in CallRec, phase \in {"start", "end"} :
        /\ calls' = Append(calls, r) /\ r.api = api /\ api \in APIs
        /\ phase = IF API[api].start = NoCallback THEN "end" ELSE "start"
        /\ API[api].plugin \in loaded /\ \A u \in Threads : u # t => cb'[u] = cb[u]
        /\ cb'[t] = Callback(Len(calls) + 1,
                             IF phase = "end" THEN API[api].end ELSE API[api].start, phase)
        /\ open' = open
  BY BeginEffect
<1>2. events' = events /\ names' = names /\ use' = use BY DEF Begin, databaseVars, writerVars
<1>3. PICK c \in Nat : c = Len(calls) + 1 BY DEF Grown
<1>4. /\ calls'[c] = r /\ Len(calls') = c
      /\ \A d \in 1..c : d \in 1..Len(calls) \/ d = c
  BY <1>1, <1>3, CallsAppend DEF CbInv
<1>5. NamedOK(t)'
  <2>1. cb'[t].call = c /\ cb'[t].phase = phase BY <1>1, <1>3, CallbackForm
  <2>2. cb'[t].ops = IF phase = "end" THEN API[api].end ELSE API[api].start BY <1>1, CallbackForm
  <2>3. NamedFirst(cb'[t].ops) BY <1>1, <2>2, NamedBegin
  <2>4. calls'[cb'[t].call].api = api BY <1>1, <1>4, <2>1
  <2> QED BY <1>1, <2>1, <2>2, <2>3, <2>4, NamedBegin DEF NamedOK
<1>6. ASSUME NEW u \in Threads, u # t PROVE NamedOK(u)'
  <2>1. NamedOK(u) /\ cb'[u] = cb[u] BY <1>1, <1>6 DEF NameInv
  <2> QED BY <2>1, NamedOther
<1>7. ASSUME NEW d \in open' PROVE calls'[d].api \in names' \/ NamedFirst(API[calls'[d].api].end)
  <2>1. d \in open /\ d \in 1..Len(calls) BY <1>1, <1>7 DEF CbInv
  <2>2. calls'[d] = calls[d] BY <2>1 DEF Grown
  <2> QED BY <1>2, <2>1, <2>2 DEF NameInv
<1>8. ASSUME NEW d \in 1..Len(calls') PROVE API[calls'[d].api].plugin \in use'.plugins
  <2>1. CASE d = c BY <1>1, <1>2, <1>4, <2>1 DEF LoadInv
  <2>2. CASE d \in 1..Len(calls) BY <1>2, <2>2 DEF NameInv, Grown, PluginOf
  <2> QED BY <1>4, <2>1, <2>2
<1>9. \A i \in DOMAIN events' : EventOK(i)' BY <1>2, EventStays DEF NameInv
<1>10. IsSeq(events') BY DEF Grown
<1> QED BY <1>5, <1>6, <1>7, <1>8, <1>9, <1>10 DEF NameInv, PluginOf

\* End keeps the names.
LEMMA NameEnd ==
  ASSUME CbInv, NameInv, Grown, NEW t \in Threads, NEW c \in open, End(t, c)
  PROVE  NameInv'
<1>1. /\ calls' = calls /\ open' = open \ {c} /\ events' = events /\ names' = names /\ use' = use
      /\ cb' = [cb EXCEPT ![t] = Callback(c, API[calls[c].api].end, "end")]
      /\ cb = [u \in Threads |-> cb[u]]
  BY DEF End, databaseVars, writerVars, CbInv
<1>2. cb'[t] = Callback(c, API[calls[c].api].end, "end") /\ \A u \in Threads : u # t => cb'[u] = cb[u]
  BY <1>1
<1>3. NamedOK(t)'
  <2>1. cb'[t].call = c /\ cb'[t].phase = "end" /\ cb'[t].ops = API[calls[c].api].end
    BY <1>2, CallbackForm
  <2>2. calls[c].api \in names \/ NamedFirst(API[calls[c].api].end) BY DEF NameInv
  <2>3. calls'[cb'[t].call].api = calls[c].api BY <1>1, <2>1
  <2> QED BY <1>1, <2>1, <2>2, <2>3 DEF NamedOK
<1>4. ASSUME NEW u \in Threads, u # t PROVE NamedOK(u)'
  <2>1. NamedOK(u) /\ cb'[u] = cb[u] BY <1>2, <1>4 DEF NameInv
  <2> QED BY <2>1, NamedOther
<1>5. \A i \in DOMAIN events' : EventOK(i)' BY <1>1, EventStays DEF NameInv
<1> QED BY <1>1, <1>3, <1>4, <1>5 DEF NameInv, PluginOf

\* Every step keeps the names: what a line of a file refers to is in the
\* table before the event is in the database.
LEMMA NameStep ==
  ASSUME CbInv, NameInv, LoadInv, [Next]_vars
  PROVE  NameInv'
<1>0. Grown BY GrownStep
<1>1. ASSUME NEW t \in Threads, NEW api \in use.apis, NEW ev \in use.traced \cup {0}, Begin(t, api, ev)
      PROVE  NameInv'
  BY <1>0, <1>1, NameBegin
<1>2. ASSUME NEW t \in Threads, NEW c \in open, End(t, c) PROVE NameInv' BY <1>0, <1>2, NameEnd
<1>3. ASSUME NEW t \in Threads, Operation(t) PROVE NameInv'
  <2>1. Goes(t) /\ calls' = calls /\ use' = use BY <1>3, OperationFrame
  <2>2. NamedOK(t)' BY <1>3, NamedGoes
  <2>3. ASSUME NEW u \in Threads, u # t PROVE NamedOK(u)'
    <3>1. NamedOK(u) /\ cb'[u] = cb[u] BY <2>1, <2>3 DEF NameInv, Goes
    <3> QED BY <1>0, <3>1, NamedOther
  <2>4. \A c \in open' : calls'[c].api \in names' \/ NamedFirst(API[calls'[c].api].end)
    BY <1>3, NamedGoes
  <2>5. \A i \in DOMAIN events' : EventOK(i)'
    <3>1. CASE addEvent(t) BY <1>0, <3>1, EventNamed
    <3>2. CASE events' = events BY <1>0, <3>2, EventStays DEF NameInv
    <3> QED BY <1>3, <3>1, <3>2, OperationFrame
  <2>6. IsSeq(events') BY <1>0 DEF Grown
  <2>7. \A c \in 1..Len(calls') : API[calls'[c].api].plugin \in use'.plugins
    BY <2>1 DEF NameInv, PluginOf
  <2> QED BY <2>2, <2>3, <2>4, <2>5, <2>6, <2>7 DEF NameInv, PluginOf
<1>4. CASE OtherStep
  <2>1. UNCHANGED <<use, calls, open, cb, events, names>> BY <1>4, OtherFrame
  <2>2. ASSUME NEW u \in Threads PROVE NamedOK(u)'
    <3>1. NamedOK(u) /\ cb'[u] = cb[u] BY <2>1 DEF NameInv
    <3> QED BY <1>0, <3>1, NamedOther
  <2>3. \A i \in DOMAIN events' : EventOK(i)' BY <1>0, <2>1, EventStays DEF NameInv
  <2> QED BY <2>1, <2>2, <2>3 DEF NameInv, PluginOf
<1> QED BY <1>1, <1>2, <1>3, <1>4, StepKinds

\* Only moveEvents takes events out of the database.
LEMMA DbFrame ==
  ASSUME OtherStep
  PROVE  (\E p \in Plugins : moveEvents(p)) \/ UNCHANGED <<sortedEvents, unsortedEvents>>
<1>1. ASSUME NEW p \in Plugins, BeginPass(p) \/ writeTables(p) \/ dumpEvents(p) \/ ClosePass(p) \/ DestroyPlugin(p)
      PROVE  UNCHANGED <<sortedEvents, unsortedEvents>>
  BY <1>1 DEF BeginPass, writeTables, dumpEvents, ClosePass, DestroyPlugin
<1>2. ASSUME collapseDependencyChains \/ writeDependencies PROVE UNCHANGED <<sortedEvents, unsortedEvents>>
  BY <1>2 DEF collapseDependencyChains, writeDependencies
<1>3. ASSUME NEW w \in use.waits, add_dependency(w[1], w[2]) PROVE UNCHANGED <<sortedEvents, unsortedEvents>>
  BY <1>3 DEF add_dependency, databaseVars
<1>4. ASSUME Gone \/ UNCHANGED vars PROVE UNCHANGED <<sortedEvents, unsortedEvents>>
  BY <1>4 DEF Gone, vars
<1> QED BY <1>1, <1>2, <1>3, <1>4 DEF OtherStep, WriterStep

\* The database keeps its kinds.
LEMMA DbStep ==
  ASSUME CbInv, NameInv, DbInv, [Next]_vars
  PROVE  DbInv'
<1>0. Grown BY GrownStep
<1>1. ASSUME NEW t \in Threads, addEvent(t) PROVE DbInv'
  <2>1. PICK e : /\ events' = Append(events, e)
                 /\ IF e.kind = "native"
                    THEN unsortedEvents' = unsortedEvents \cup {Len(events) + 1}
                           /\ sortedEvents' = sortedEvents
                    ELSE sortedEvents' = sortedEvents \cup {Len(events) + 1}
                           /\ unsortedEvents' = unsortedEvents
    BY <1>1, EventEffect
  <2>2. PICK n : n = Len(events) + 1 OBVIOUS
  <2>3. /\ n \in DOMAIN events' /\ events'[n] = e
    BY <2>1, <2>2, AppendForm DEF NameInv
  <2> QED BY <1>0, <2>1, <2>2, <2>3 DEF DbInv, Grown
<1>2. CASE /\ events' = events /\ sortedEvents' \subseteq sortedEvents
           /\ unsortedEvents' \subseteq unsortedEvents
  BY <1>2 DEF DbInv
<1>3. CASE CallbackStep BY <1>1, <1>2, <1>3, CallbackFrame
<1>4. CASE OtherStep
  <2>1. sortedEvents' \subseteq sortedEvents /\ unsortedEvents' \subseteq unsortedEvents
    <3>1. ASSUME NEW p \in Plugins, moveEvents(p)
          PROVE  sortedEvents' \subseteq sortedEvents /\ unsortedEvents' \subseteq unsortedEvents
      <4>1. PICK taken : sortedEvents' = sortedEvents \ taken /\ unsortedEvents' = unsortedEvents \ taken
        BY <3>1 DEF moveEvents
      <4> QED BY <4>1
    <3> QED BY <1>4, <3>1, DbFrame
  <2> QED BY <1>2, <1>4, <2>1, OtherFrame
<1> QED BY <1>3, <1>4, StepKinds DEF CallbackStep

-----------------------------------------------------------------------------
(* The writers                                                             *)

\* Only the pass of plugin p changes.
OnlyPass(p) ==
  /\ pass' = [q \in Plugins |-> pass'[q]]
  /\ \A q \in Plugins : q # p => pass'[q] = pass[q]

\* writeTables puts the names in the file.
LEMMA TablesEffect ==
  ASSUME WriterInv, NEW p \in Plugins, writeTables(p)
  PROVE  /\ OnlyPass(p) /\ PassForm(pass'[p])
         /\ pass[p].at = "tables" /\ pass'[p].at = "events"
         /\ pass'[p].held = pass[p].held
         /\ pass'[p].file.names = names /\ pass'[p].file.before = pass[p].file.before
         /\ pass'[p].file.lines = pass[p].file.lines /\ pass'[p].file.final = pass[p].file.final
<1>1. pass = [q \in Plugins |-> pass[q]] /\ PassForm(pass[p]) BY DEF WriterInv, PassOK
<1>2. pass' = [pass EXCEPT ![p].file.names = names, ![p].at = "events"] BY DEF writeTables
<1>3. PICK f : f = pass[p].file OBVIOUS
<1>4. PICK r : r = pass[p] OBVIOUS
<1>5. f \in [names : {f.names}, before : {f.before}, lines : {f.lines}, arrows : {f.arrows}, final : {f.final}]
  BY <1>1, <1>3 DEF PassForm, FileForm
<1>6. r \in [at : {r.at}, held : {r.held}, file : {f}, chains : {r.chains}]
  BY <1>1, <1>3, <1>4 DEF PassForm
<1> DEFINE g == [f EXCEPT !.names = names]
<1>7. /\ g \in [names : {g.names}, before : {g.before}, lines : {g.lines}, arrows : {g.arrows}, final : {g.final}]
      /\ g.names = names /\ g.before = f.before /\ g.lines = f.lines /\ g.final = f.final
  BY <1>5
<1> HIDE DEF g
<1> DEFINE s == [r EXCEPT !.file = g, !.at = "events"]
<1>8. /\ s \in [at : {s.at}, held : {s.held}, file : {s.file}, chains : {s.chains}]
      /\ s.at = "events" /\ s.held = r.held /\ s.file = g
  BY <1>6
<1>9. pass' = [pass EXCEPT ![p] = s] BY <1>1, <1>2, <1>3, <1>4 DEF g
<1> HIDE DEF s
<1>10. pass'[p] = s /\ OnlyPass(p) BY <1>1, <1>9 DEF OnlyPass
<1>11. pass[p].at = "tables" BY DEF writeTables
<1> QED BY <1>3, <1>4, <1>7, <1>8, <1>10, <1>11 DEF PassForm, FileForm

\* moveEvents takes the events in hand, out of the database unless it copies.
LEMMA MoveEffect ==
  ASSUME WriterInv, NEW p \in Plugins, moveEvents(p)
  PROVE  \E held :
           /\ OnlyPass(p) /\ PassForm(pass'[p])
           /\ pass[p].at = "events" /\ pass'[p].at = "dump" /\ pass'[p].held = held
           /\ pass'[p].file = pass[p].file
           /\ held = OfKind(IF p = "native" THEN unsortedEvents ELSE sortedEvents, Takes[p])
           /\ p \in Copying => UNCHANGED <<sortedEvents, unsortedEvents>>
           /\ p \notin Copying =>
                sortedEvents' = sortedEvents \ held /\ unsortedEvents' = unsortedEvents \ held
           /\ UNCHANGED <<loaded, files, stopping>>
<1>1. pass = [q \in Plugins |-> pass[q]] /\ PassForm(pass[p]) BY DEF WriterInv, PassOK
<1>2. PICK held : held = OfKind(IF p = "native" THEN unsortedEvents ELSE sortedEvents, Takes[p]) OBVIOUS
<1>3. PICK taken : taken = IF p \in Copying THEN {} ELSE held OBVIOUS
<1>4. /\ pass' = [pass EXCEPT ![p].held = held, ![p].at = "dump"] /\ pass[p].at = "events"
      /\ sortedEvents' = sortedEvents \ taken /\ unsortedEvents' = unsortedEvents \ taken
      /\ UNCHANGED <<loaded, files, stopping>>
  BY <1>2, <1>3 DEF moveEvents
<1>5. PICK r : r = pass[p] OBVIOUS
<1>6. r \in [at : {r.at}, held : {r.held}, file : {r.file}, chains : {r.chains}] BY <1>1, <1>5 DEF PassForm
<1> DEFINE s == [r EXCEPT !.held = held, !.at = "dump"]
<1>7. /\ s \in [at : {s.at}, held : {s.held}, file : {s.file}, chains : {s.chains}]
      /\ s.at = "dump" /\ s.held = held /\ s.file = r.file
  BY <1>6
<1>8. pass' = [pass EXCEPT ![p] = s] BY <1>1, <1>4, <1>5
<1> HIDE DEF s
<1>9. pass'[p] = s /\ OnlyPass(p) BY <1>1, <1>8 DEF OnlyPass
<1>10. PassForm(pass'[p]) BY <1>1, <1>5, <1>7, <1>9 DEF PassForm
<1>11. p \in Copying => UNCHANGED <<sortedEvents, unsortedEvents>> BY <1>3, <1>4
<1>12. p \notin Copying => sortedEvents' = sortedEvents \ held /\ unsortedEvents' = unsortedEvents \ held
  BY <1>3, <1>4
<1> QED BY <1>2, <1>4, <1>5, <1>7, <1>9, <1>10, <1>11, <1>12

\* dumpEvents writes the events it has in hand.
LEMMA DumpEffect ==
  ASSUME WriterInv, NEW p \in Plugins, dumpEvents(p)
  PROVE  /\ OnlyPass(p) /\ PassForm(pass'[p])
         /\ pass[p].at = "dump" /\ pass'[p].at \in {"chains", "close"} /\ pass'[p].held = {}
         /\ pass'[p].file.names = pass[p].file.names /\ pass'[p].file.before = pass[p].file.before
         /\ pass'[p].file.lines = pass[p].held /\ pass'[p].file.final = pass[p].file.final
         /\ UNCHANGED <<loaded, files, stopping, sortedEvents, unsortedEvents>>
<1>1. pass = [q \in Plugins |-> pass[q]] /\ PassForm(pass[p]) BY DEF WriterInv, PassOK
<1>2. PICK at \in {"chains", "close"} : at = IF p = "opencl" THEN "chains" ELSE "close" OBVIOUS
<1>3. PICK f : f = pass[p].file OBVIOUS
<1>4. PICK r : r = pass[p] OBVIOUS
<1>5. /\ pass' = [pass EXCEPT ![p].file.lines = r.held, ![p].held = {}, ![p].at = at]
      /\ pass[p].at = "dump" /\ UNCHANGED <<loaded, files, stopping, sortedEvents, unsortedEvents>>
  BY <1>2, <1>4 DEF dumpEvents
<1>6. f \in [names : {f.names}, before : {f.before}, lines : {f.lines}, arrows : {f.arrows}, final : {f.final}]
  BY <1>1, <1>3 DEF PassForm, FileForm
<1>7. r \in [at : {r.at}, held : {r.held}, file : {f}, chains : {r.chains}]
  BY <1>1, <1>3, <1>4 DEF PassForm
<1> DEFINE g == [f EXCEPT !.lines = r.held]
<1>8. /\ g \in [names : {g.names}, before : {g.before}, lines : {g.lines}, arrows : {g.arrows}, final : {g.final}]
      /\ g.names = f.names /\ g.before = f.before /\ g.lines = r.held /\ g.final = f.final
  BY <1>6
<1> HIDE DEF g
<1> DEFINE s == [r EXCEPT !.file = g, !.held = {}, !.at = at]
<1>9. /\ s \in [at : {s.at}, held : {s.held}, file : {s.file}, chains : {s.chains}]
      /\ s.at = at /\ s.held = {} /\ s.file = g
  BY <1>7
<1>10. pass' = [pass EXCEPT ![p] = s] BY <1>1, <1>3, <1>4, <1>5 DEF g
<1> HIDE DEF s
<1>11. pass'[p] = s /\ OnlyPass(p) BY <1>1, <1>10 DEF OnlyPass
<1> QED BY <1>2, <1>3, <1>4, <1>5, <1>8, <1>9, <1>11 DEF PassForm, FileForm

\* collapseDependencyChains and writeDependencies write no event.
LEMMA ArrowsEffect ==
  ASSUME WriterInv, collapseDependencyChains \/ writeDependencies
  PROVE  /\ OnlyPass("opencl") /\ PassForm(pass'["opencl"])
         /\ pass["opencl"].at \in {"chains", "arrows"} /\ pass'["opencl"].at \in {"arrows", "close"}
         /\ pass'["opencl"].held = pass["opencl"].held
         /\ pass'["opencl"].file.names = pass["opencl"].file.names
         /\ pass'["opencl"].file.before = pass["opencl"].file.before
         /\ pass'["opencl"].file.lines = pass["opencl"].file.lines
         /\ pass'["opencl"].file.final = pass["opencl"].file.final
         /\ UNCHANGED <<loaded, files, stopping, sortedEvents, unsortedEvents>>
<1>0. "opencl" \in Plugins BY DEF Plugins
<1>1. pass = [q \in Plugins |-> pass[q]] /\ PassForm(pass["opencl"]) BY <1>0 DEF WriterInv, PassOK
<1>2. UNCHANGED <<loaded, files, stopping, sortedEvents, unsortedEvents>>
  BY DEF collapseDependencyChains, writeDependencies
<1>3. PICK f : f = pass["opencl"].file OBVIOUS
<1>4. PICK r : r = pass["opencl"] OBVIOUS
<1>5. f \in [names : {f.names}, before : {f.before}, lines : {f.lines}, arrows : {f.arrows}, final : {f.final}]
  BY <1>1, <1>3 DEF PassForm, FileForm
<1>6. r \in [at : {r.at}, held : {r.held}, file : {f}, chains : {r.chains}]
  BY <1>1, <1>3, <1>4 DEF PassForm
<1>7. CASE collapseDependencyChains
  <2>1. PICK chains : pass' = [pass EXCEPT !["opencl"].chains = chains, !["opencl"].at = "arrows"]
    BY <1>7 DEF collapseDependencyChains
  <2>2. r.at = "chains" BY <1>4, <1>7 DEF collapseDependencyChains
  <2> DEFINE s == [r EXCEPT !.chains = chains, !.at = "arrows"]
  <2>3. /\ s \in [at : {s.at}, held : {s.held}, file : {s.file}, chains : {s.chains}]
        /\ s.at = "arrows" /\ s.held = r.held /\ s.file = f
    BY <1>6
  <2>4. pass' = [pass EXCEPT !["opencl"] = s] BY <1>0, <1>1, <1>4, <2>1
  <2> HIDE DEF s
  <2>5. pass'["opencl"] = s /\ OnlyPass("opencl") BY <1>0, <1>1, <2>4 DEF OnlyPass
  <2>6. PassForm(pass'["opencl"]) BY <1>1, <1>3, <2>3, <2>5 DEF PassForm
  <2> QED BY <1>2, <1>3, <1>4, <2>2, <2>3, <2>5, <2>6
<1>8. CASE writeDependencies
  <2>1. PICK arrows : pass' = [pass EXCEPT !["opencl"].at = "close", !["opencl"].file.arrows = arrows]
    BY <1>8 DEF writeDependencies
  <2>2. r.at = "arrows" BY <1>4, <1>8 DEF writeDependencies
  <2> DEFINE g == [f EXCEPT !.arrows = arrows]
  <2>3. /\ g \in [names : {g.names}, before : {g.before}, lines : {g.lines}, arrows : {g.arrows}, final : {g.final}]
        /\ g.names = f.names /\ g.before = f.before /\ g.lines = f.lines /\ g.final = f.final
    BY <1>5
  <2> HIDE DEF g
  <2> DEFINE s == [r EXCEPT !.at = "close", !.file = g]
  <2>4. /\ s \in [at : {s.at}, held : {s.held}, file : {s.file}, chains : {s.chains}]
        /\ s.at = "close" /\ s.held = r.held /\ s.file = g
    BY <1>6
  <2>5. pass' = [pass EXCEPT !["opencl"] = s] BY <1>0, <1>1, <1>3, <1>4, <2>1 DEF g
  <2> HIDE DEF s
  <2>6. pass'["opencl"] = s /\ OnlyPass("opencl") BY <1>0, <1>1, <2>5 DEF OnlyPass
  <2> QED BY <1>2, <1>3, <1>4, <2>2, <2>3, <2>4, <2>6 DEF PassForm, FileForm
<1> QED BY <1>7, <1>8

\* the pass that waits holds nothing
LEMMA WaitingForm ==
  /\ PassForm(Waiting) /\ Waiting.at = "wait" /\ Waiting.held = {}
  /\ Waiting.file = EmptyFile /\ EmptyFile.lines = {} /\ EmptyFile.before = 0
  /\ FileForm(EmptyFile) /\ EmptyFile.final = FALSE
<1>1. /\ FileForm(EmptyFile) /\ EmptyFile.lines = {} /\ EmptyFile.before = 0 /\ EmptyFile.final = FALSE
  BY DEF EmptyFile, FileForm
<1>2. /\ Waiting \in [at : {Waiting.at}, held : {Waiting.held}, file : {Waiting.file}, chains : {Waiting.chains}]
      /\ Waiting.at = "wait" /\ Waiting.held = {} /\ Waiting.file = EmptyFile
  BY DEF Waiting
<1> QED BY <1>1, <1>2 DEF PassForm

\* BeginPass begins a file.
LEMMA BeginPassEffect ==
  ASSUME WriterInv, NEW p \in Plugins, BeginPass(p)
  PROVE  /\ OnlyPass(p) /\ PassForm(pass'[p]) /\ p \in loaded
         /\ pass[p].at = "wait" /\ pass'[p].at = "tables" /\ pass'[p].held = {}
         /\ pass'[p].file.before = Len(events) /\ pass'[p].file.lines = {}
         /\ pass'[p].file.final <=> p \in stopping
         /\ p \in stopping \/ p \in Threaded
         /\ ~pass'[p].file.final => Len(files[p]) < MaxFiles
         /\ UNCHANGED <<loaded, files, stopping, sortedEvents, unsortedEvents>>
<1>1. pass = [q \in Plugins |-> pass[q]] BY DEF WriterInv
<1>2. PICK fin : fin = (p \in stopping) OBVIOUS
<1>3. PICK n : n = Len(events) OBVIOUS
<1>4. /\ pass' = [pass EXCEPT ![p] = [Waiting EXCEPT !.at = "tables", !.file.before = n, !.file.final = fin]]
      /\ p \in loaded /\ pass[p].at = "wait" /\ UNCHANGED <<loaded, files, stopping, sortedEvents, unsortedEvents>>
      /\ p \in stopping \/ (Len(files[p]) < MaxFiles /\ p \in Threaded)
  BY <1>2, <1>3 DEF BeginPass
<1> DEFINE g == [EmptyFile EXCEPT !.before = n, !.final = fin]
<1>5. /\ g \in [names : {g.names}, before : {g.before}, lines : {g.lines}, arrows : {g.arrows}, final : {g.final}]
      /\ g.before = n /\ g.lines = {} /\ g.final = fin
  BY DEF EmptyFile
<1> HIDE DEF g
<1> DEFINE s == [Waiting EXCEPT !.at = "tables", !.file = g]
<1>6. /\ s \in [at : {s.at}, held : {s.held}, file : {s.file}, chains : {s.chains}]
      /\ s.at = "tables" /\ s.held = {} /\ s.file = g
  BY DEF Waiting
<1>7. s = [Waiting EXCEPT !.at = "tables", !.file.before = n, !.file.final = fin]
  BY DEF Waiting, EmptyFile, g
<1> HIDE DEF s
<1>8. pass'[p] = s /\ OnlyPass(p) BY <1>1, <1>4, <1>7 DEF OnlyPass
<1>9. (g.final <=> p \in stopping) /\ (~g.final => Len(files[p]) < MaxFiles)
  <2>1. g.final = (p \in stopping) BY <1>2, <1>5
  <2>2. g.final <=> p \in stopping BY <2>1
  <2> QED BY <1>4, <2>2
<1> QED BY <1>3, <1>4, <1>5, <1>6, <1>8, <1>9 DEF PassForm, FileForm

\* ClosePass puts the file with the others.
LEMMA CloseEffect ==
  ASSUME WriterInv, NEW p \in Plugins, ClosePass(p)
  PROVE  /\ OnlyPass(p) /\ pass[p].at = "close" /\ pass'[p] = Waiting
         /\ files' = [q \in Plugins |-> files'[q]] /\ \A q \in Plugins : q # p => files'[q] = files[q]
         /\ files'[p] = Append(files[p], pass[p].file)
         /\ pass[p].file.final => loaded' = loaded \ {p}
         /\ ~pass[p].file.final => loaded' = loaded
         /\ UNCHANGED <<stopping, sortedEvents, unsortedEvents>>
<1>1. pass = [q \in Plugins |-> pass[q]] /\ files = [q \in Plugins |-> files[q]] BY DEF WriterInv
<1>2. /\ pass' = [pass EXCEPT ![p] = Waiting] /\ files' = [files EXCEPT ![p] = Append(files[p], pass[p].file)]
      /\ pass[p].at = "close" /\ UNCHANGED <<stopping, sortedEvents, unsortedEvents>>
  BY DEF ClosePass
<1>3. /\ pass[p].file.final => loaded' = loaded \ {p}
      /\ ~pass[p].file.final => loaded' = loaded
  BY DEF ClosePass
<1>4. OnlyPass(p) /\ pass'[p] = Waiting BY <1>1, <1>2 DEF OnlyPass
<1>5. /\ files' = [q \in Plugins |-> files'[q]] /\ \A q \in Plugins : q # p => files'[q] = files[q]
      /\ files'[p] = Append(files[p], pass[p].file)
  BY <1>1, <1>2
<1> QED BY <1>2, <1>3, <1>4, <1>5

\* A file stays right: what it lists stays, and so do its events.
LEMMA FileStays ==
  ASSUME Grown, NameInv, NEW f, FileOK(f)
  PROVE  FileOK(f)'
<1>1. f.lines \subseteq DOMAIN events' BY DEF FileOK, Grown
<1>2. PICK n \in Nat : n = Len(events) BY DEF Grown
<1>3. PICK b \in 0..n : b = f.before BY <1>2 DEF FileOK
<1>4. b \in 0..Len(events') BY <1>2, <1>3 DEF Grown
<1>5. DOMAIN events = 1..n BY <1>2, AppendForm DEF NameInv
<1>6. ASSUME NEW i \in 1..b, events'[i].kind # "lop" PROVE calls'[events'[i].call].api \in f.names
  <2>1. i \in DOMAIN events BY <1>3, <1>5
  <2>2. events'[i] = events[i] /\ events[i].call \in 1..Len(calls) BY <2>1 DEF Grown, NameInv, EventOK
  <2>3. calls'[events[i].call] = calls[events[i].call] BY <2>2 DEF Grown
  <2> QED BY <1>3, <1>6, <2>2, <2>3 DEF FileOK
<1> QED BY <1>1, <1>3, <1>4, <1>6 DEF FileOK

\* A pass that makes no step stays right.
LEMMA PassStays ==
  ASSUME Grown, NameInv, NEW q \in Plugins, PassOK(q), pass'[q] = pass[q],
         q \in loaded => q \in loaded', stopping \subseteq stopping', files'[q] = files[q]
  PROVE  PassOK(q)'
<1>1. PICK f : f = pass[q].file OBVIOUS
<1>2. FileOK(f) => FileOK(f)' BY FileStays
<1>3. pass'[q].file = f BY <1>1
<1>4. pass[q].at \in {"events", "dump", "chains", "arrows", "close"} => FileOK(pass[q].file)'
  BY <1>1, <1>2, <1>3 DEF PassOK, FileOK
<1>5. /\ pass[q].held \subseteq DOMAIN events' /\ f.before \in 0..Len(events')
  <2>1. pass[q].held \subseteq DOMAIN events /\ f.before \in 0..Len(events) BY <1>1 DEF PassOK
  <2> QED BY <2>1 DEF Grown
<1> QED BY <1>1, <1>4, <1>5 DEF PassOK

\* The files of a plugin that writes none stay right.
LEMMA FilesStay ==
  ASSUME Grown, NameInv, NEW q \in Plugins, FilesOK(q), files'[q] = files[q], loaded' \subseteq loaded
  PROVE  FilesOK(q)'
<1>1. ASSUME NEW k \in DOMAIN files[q] PROVE FileOK(files[q][k])'
  <2>1. PICK f : f = files[q][k] OBVIOUS
  <2>2. FileOK(f)' BY <2>1, FileStays DEF FilesOK
  <2>3. files'[q][k] = f BY <2>1
  <2> QED BY <2>2, <2>3 DEF FileOK
<1> QED BY <1>1 DEF FilesOK

\* The other plugins and the files stay right when the pass of one goes on.
LEMMA OthersStay ==
  ASSUME WriterInv, Grown, NameInv, NEW p \in Plugins, OnlyPass(p), PassOK(p)',
         UNCHANGED <<loaded, files, stopping>>
  PROVE  WriterInv'
<1>1. ASSUME NEW q \in Plugins PROVE PassOK(q)'
  <2>1. CASE q # p
    <3>1. PassOK(q) /\ pass'[q] = pass[q] BY <2>1 DEF WriterInv, OnlyPass
    <3> QED BY <3>1, PassStays
  <2> QED BY <2>1
<1>2. ASSUME NEW q \in Plugins PROVE FilesOK(q)'
  <2>1. FilesOK(q) BY DEF WriterInv
  <2> QED BY <2>1, FilesStay
<1>3. pass' = [q \in Plugins |-> pass'[q]] /\ files' = [q \in Plugins |-> files'[q]]
  BY DEF OnlyPass, WriterInv
<1> QED BY <1>1, <1>2, <1>3 DEF WriterInv

\* Every step keeps the passes and the files.
LEMMA WriterKeeps ==
  ASSUME CbInv, NameInv, LoadInv, DbInv, WriterInv, [Next]_vars
  PROVE  WriterInv'
<1>0. Grown BY GrownStep
<1>1. CASE UNCHANGED <<pass, files, loaded, stopping>>
  <2>1. ASSUME NEW q \in Plugins PROVE PassOK(q)' /\ FilesOK(q)'
    <3>1. PassOK(q) /\ FilesOK(q) BY DEF WriterInv
    <3> QED BY <1>0, <1>1, <3>1, PassStays, FilesStay
  <2> QED BY <1>1, <2>1 DEF WriterInv
<1>2. CASE CallbackStep BY <1>1, <1>2, CallbackFrame
<1>3. ASSUME NEW p \in Plugins, BeginPass(p) PROVE WriterInv'
  <2>1. /\ OnlyPass(p) /\ PassForm(pass'[p]) /\ p \in loaded
        /\ pass[p].at = "wait" /\ pass'[p].at = "tables" /\ pass'[p].held = {}
        /\ pass'[p].file.before = Len(events) /\ pass'[p].file.lines = {}
        /\ pass'[p].file.final => p \in stopping
        /\ ~pass'[p].file.final => Len(files[p]) < MaxFiles
        /\ UNCHANGED <<loaded, files, stopping>>
    BY <1>3, BeginPassEffect
  <2>2. events' = events BY <1>3 DEF BeginPass, callbackVars
  <2>3. Len(events) \in 0..Len(events) BY <1>0 DEF Grown
  <2>4. PassOK(p)' BY <2>1, <2>2, <2>3 DEF PassOK
  <2> QED BY <1>0, <2>1, <2>4, OthersStay
<1>4. ASSUME NEW p \in Plugins, writeTables(p) PROVE WriterInv'
  <2>1. /\ OnlyPass(p) /\ PassForm(pass'[p])
        /\ pass[p].at = "tables" /\ pass'[p].at = "events" /\ pass'[p].held = pass[p].held
        /\ pass'[p].file.names = names /\ pass'[p].file.before = pass[p].file.before
        /\ pass'[p].file.lines = pass[p].file.lines /\ pass'[p].file.final = pass[p].file.final
    BY <1>4, TablesEffect
  <2>2. UNCHANGED <<loaded, files, stopping, events, calls, names>> BY <1>4 DEF writeTables, callbackVars
  <2>3. PassOK(p) BY DEF WriterInv
  <2>4. /\ pass'[p].held = {} /\ pass'[p].file.lines = {} /\ pass[p].file.before \in 0..Len(events)
        /\ p \in loaded /\ (pass[p].file.final => p \in stopping)
        /\ ~pass[p].file.final => Len(files[p]) < MaxFiles
    BY <2>1, <2>3 DEF PassOK
  <2>5. PICK n \in Nat : n = Len(events) BY <1>0 DEF Grown
  <2>6. DOMAIN events = 1..n BY <2>5, AppendForm DEF NameInv
  <2>7. PICK b \in 0..n : b = pass[p].file.before BY <2>4, <2>5
  <2>8. \A i \in 1..b : i \in DOMAIN events BY <2>6, <2>7
  <2>9. \A i \in 1..b : events[i].kind # "lop" => calls[events[i].call].api \in names
    BY <2>8 DEF NameInv, EventOK
  <2>10. FileOK(pass[p].file)' BY <2>1, <2>2, <2>4, <2>7, <2>9 DEF FileOK
  <2>11. PassOK(p)' BY <2>1, <2>2, <2>4, <2>10 DEF PassOK
  <2> QED BY <1>0, <2>1, <2>2, <2>11, OthersStay
<1>5. ASSUME NEW p \in Plugins, moveEvents(p) PROVE WriterInv'
  <2>1. PICK held :
           /\ OnlyPass(p) /\ PassForm(pass'[p])
           /\ pass[p].at = "events" /\ pass'[p].at = "dump" /\ pass'[p].held = held
           /\ pass'[p].file = pass[p].file
           /\ held = OfKind(IF p = "native" THEN unsortedEvents ELSE sortedEvents, Takes[p])
           /\ UNCHANGED <<loaded, files, stopping>>
    BY <1>5, MoveEffect
  <2>2. UNCHANGED <<events, calls>> BY <1>5 DEF moveEvents, callbackVars
  <2>3. PassOK(p) BY DEF WriterInv
  <2>4. held \subseteq DOMAIN events BY <2>1 DEF OfKind, DbInv
  <2>5. FileOK(pass[p].file)' BY <2>1, <2>2, <2>3 DEF PassOK, FileOK
  <2>6. PassOK(p)' BY <2>1, <2>2, <2>3, <2>4, <2>5 DEF PassOK
  <2> QED BY <1>0, <2>1, <2>6, OthersStay
<1>6. ASSUME NEW p \in Plugins, dumpEvents(p) PROVE WriterInv'
  <2>1. /\ OnlyPass(p) /\ PassForm(pass'[p])
        /\ pass[p].at = "dump" /\ pass'[p].at \in {"chains", "close"} /\ pass'[p].held = {}
        /\ pass'[p].file.names = pass[p].file.names /\ pass'[p].file.before = pass[p].file.before
        /\ pass'[p].file.lines = pass[p].held /\ pass'[p].file.final = pass[p].file.final
        /\ UNCHANGED <<loaded, files, stopping>>
    BY <1>6, DumpEffect
  <2>2. UNCHANGED <<events, calls>> BY <1>6 DEF dumpEvents, callbackVars
  <2>3. PassOK(p) BY DEF WriterInv
  <2>4. FileOK(pass[p].file)' BY <2>1, <2>2, <2>3 DEF PassOK, FileOK
  <2>5. PassOK(p)' BY <2>1, <2>2, <2>3, <2>4 DEF PassOK
  <2> QED BY <1>0, <2>1, <2>5, OthersStay
<1>7. ASSUME collapseDependencyChains \/ writeDependencies PROVE WriterInv'
  <2>0. PICK p \in Plugins : p = "opencl" BY DEF Plugins
  <2>1. /\ OnlyPass(p) /\ PassForm(pass'[p])
        /\ pass[p].at \in {"chains", "arrows"} /\ pass'[p].at \in {"arrows", "close"}
        /\ pass'[p].held = pass[p].held
        /\ pass'[p].file.names = pass[p].file.names /\ pass'[p].file.before = pass[p].file.before
        /\ pass'[p].file.lines = pass[p].file.lines /\ pass'[p].file.final = pass[p].file.final
        /\ UNCHANGED <<loaded, files, stopping>>
    BY <1>7, <2>0, ArrowsEffect
  <2>2. UNCHANGED <<events, calls>>
    BY <1>7 DEF collapseDependencyChains, writeDependencies, callbackVars
  <2>3. PassOK(p) BY DEF WriterInv
  <2>4. FileOK(pass[p].file)' BY <2>1, <2>2, <2>3 DEF PassOK, FileOK
  <2>5. PassOK(p)' BY <2>1, <2>2, <2>3, <2>4 DEF PassOK
  <2> QED BY <1>0, <2>1, <2>5, OthersStay
<1>8. ASSUME NEW p \in Plugins, ClosePass(p) PROVE WriterInv'
  <2>1. /\ OnlyPass(p) /\ pass[p].at = "close" /\ pass'[p] = Waiting
        /\ files' = [q \in Plugins |-> files'[q]] /\ \A q \in Plugins : q # p => files'[q] = files[q]
        /\ files'[p] = Append(files[p], pass[p].file)
        /\ pass[p].file.final => loaded' = loaded \ {p}
        /\ ~pass[p].file.final => loaded' = loaded
        /\ UNCHANGED stopping
    BY <1>8, CloseEffect
  <2>2. PassOK(p) /\ FilesOK(p) BY DEF WriterInv
  <2>3. UNCHANGED <<events, calls>> BY <1>8 DEF ClosePass, callbackVars
  <2>4. PassOK(p)'
    <3>1. PassForm(pass'[p]) /\ pass'[p].at = "wait" /\ pass'[p].held = {} BY <2>1, WaitingForm
    <3>2. pass'[p].file.lines = {} /\ pass'[p].file.before = 0 BY <2>1, WaitingForm
    <3>3. 0 \in 0..Len(events') BY <1>0 DEF Grown
    <3> QED BY <3>1, <3>2, <3>3 DEF PassOK
  <2>5. ASSUME NEW q \in Plugins, q # p PROVE PassOK(q)' /\ FilesOK(q)'
    <3>1. /\ PassOK(q) /\ FilesOK(q) /\ pass'[q] = pass[q] /\ files'[q] = files[q]
          /\ loaded' \subseteq loaded /\ (q \in loaded => q \in loaded') /\ stopping \subseteq stopping'
      BY <2>1, <2>5 DEF WriterInv, OnlyPass
    <3> QED BY <1>0, <3>1, PassStays, FilesStay
  <2>6. FilesOK(p)'
    <3>1. PICK s : s = files[p] OBVIOUS
    <3>2. PICK f : f = pass[p].file OBVIOUS
    <3>3. IsSeq(s) BY <2>2, <3>1 DEF FilesOK
    <3>4. PICK n \in Nat : n = Len(s) BY <3>3, AppendForm
    <3>5. PICK v : v = files'[p] OBVIOUS
    <3>6. /\ IsSeq(v) /\ Len(v) = n + 1 /\ v[n + 1] = f
          /\ \A k \in DOMAIN v : k \in DOMAIN s \/ k = n + 1
          /\ \A k \in DOMAIN s : v[k] = s[k]
      BY <2>1, <3>1, <3>2, <3>3, <3>4, <3>5, AppendForm
    <3>7. FileOK(f)' BY <2>1, <2>2, <2>3, <3>2 DEF PassOK, FileOK
    <3>8. ASSUME NEW k \in DOMAIN s PROVE FileOK(v[k])'
      <4>1. PICK g : g = s[k] OBVIOUS
      <4>2. FileOK(g)' BY <1>0, <2>2, <3>1, <4>1, FileStays DEF FilesOK
      <4>3. v[k] = g BY <3>6, <4>1
      <4> QED BY <4>2, <4>3
    <3>9. \A k \in DOMAIN v : FileOK(v[k])' BY <3>6, <3>7, <3>8
    <3>10. n <= MaxFiles /\ MaxFiles \in Nat
      BY <2>1, <2>2, <3>1, <3>4, HostAssumption DEF FilesOK, PassOK
    <3>11. p \in loaded' => n + 1 <= MaxFiles
      <4>1. p \in loaded' => ~pass[p].file.final BY <2>1
      <4>2. ~pass[p].file.final => n < MaxFiles BY <2>1, <2>2, <3>1, <3>4 DEF PassOK
      <4> QED BY <3>4, <3>10, <4>1, <4>2
    <3>12. \A k \in DOMAIN files'[p] : FileOK(files[p][k])' BY <3>5, <3>9 DEF FileOK
    <3>13. IsSeq(files'[p]) /\ Len(files'[p]) = n + 1 BY <3>5, <3>6
    <3> QED BY <3>4, <3>10, <3>11, <3>12, <3>13 DEF FilesOK
  <2>7. pass' = [q \in Plugins |-> pass'[q]] BY <2>1 DEF OnlyPass
  <2> QED BY <2>1, <2>4, <2>5, <2>6, <2>7 DEF WriterInv
<1>9. ASSUME NEW p \in Plugins, DestroyPlugin(p) PROVE WriterInv'
  <2>1. UNCHANGED <<pass, files, loaded>> /\ stopping \subseteq stopping' BY <1>9 DEF DestroyPlugin
  <2>2. ASSUME NEW q \in Plugins PROVE PassOK(q)' /\ FilesOK(q)'
    <3>1. PassOK(q) /\ FilesOK(q) BY DEF WriterInv
    <3> QED BY <1>0, <2>1, <3>1, PassStays, FilesStay
  <2> QED BY <2>1, <2>2 DEF WriterInv
<1>10. ASSUME NEW w \in use.waits, add_dependency(w[1], w[2]) PROVE WriterInv'
  BY <1>1, <1>10 DEF add_dependency, writerVars
<1>11. CASE Gone \/ UNCHANGED vars BY <1>1, <1>11 DEF Gone, vars
<1>12. CASE OtherStep
  BY <1>3, <1>4, <1>5, <1>6, <1>7, <1>8, <1>9, <1>10, <1>11, <1>12 DEF OtherStep, WriterStep
<1> QED BY <1>2, <1>12, StepKinds DEF CallbackStep

\* A plugin goes only when its destructor has begun.
LEMMA LoadStep ==
  ASSUME CbInv, NameInv, LoadInv, WriterInv, [Next]_vars
  PROVE  LoadInv'
<1>1. CASE CallbackStep
  <2>1. UNCHANGED <<loaded, stopping, use>> /\ stopping = {} BY <1>1, CallbackFrame
  <2> QED BY <2>1 DEF LoadInv
<1>2. CASE OtherStep
  <2>1. use' = use /\ cb' = cb BY <1>2, OtherFrame
  <2>2. ASSUME NEW p \in Plugins, ClosePass(p) PROVE LoadInv'
    <3>1. /\ pass[p].at = "close" /\ stopping' = stopping
          /\ pass[p].file.final => loaded' = loaded \ {p}
          /\ ~pass[p].file.final => loaded' = loaded
      BY <2>2, CloseEffect
    <3>2. pass[p].file.final => p \in stopping BY <3>1 DEF WriterInv, PassOK
    <3> QED BY <2>1, <3>1, <3>2 DEF LoadInv
  <2>3. ASSUME NEW p \in Plugins, DestroyPlugin(p) PROVE LoadInv'
    BY <2>1, <2>3 DEF DestroyPlugin, LoadInv
  <2>4. CASE UNCHANGED <<loaded, stopping>> BY <2>1, <2>4 DEF LoadInv
  <2>5. ASSUME NEW p \in Plugins, BeginPass(p) \/ writeTables(p) \/ moveEvents(p) \/ dumpEvents(p)
        PROVE  UNCHANGED <<loaded, stopping>>
    BY <2>5 DEF BeginPass, writeTables, moveEvents, dumpEvents
  <2>6. ASSUME collapseDependencyChains \/ writeDependencies PROVE UNCHANGED <<loaded, stopping>>
    BY <2>6 DEF collapseDependencyChains, writeDependencies
  <2>7. ASSUME NEW w \in use.waits, add_dependency(w[1], w[2]) PROVE UNCHANGED <<loaded, stopping>>
    BY <2>7 DEF add_dependency, writerVars
  <2>8. ASSUME Gone \/ UNCHANGED vars PROVE UNCHANGED <<loaded, stopping>> BY <2>8 DEF Gone, vars
  <2> QED BY <1>2, <2>2, <2>3, <2>4, <2>5, <2>6, <2>7, <2>8 DEF OtherStep, WriterStep
<1> QED BY <1>1, <1>2, StepKinds DEF CallbackStep

-----------------------------------------------------------------------------
(* One place for every event                                               *)

\* Nothing has changed place.
SamePlaces ==
  /\ events' = events /\ \A i \in DOMAIN events : InDb(i)' <=> InDb(i)
  /\ \A p \in Plugins : files'[p] = files[p]
  /\ \A p \in Plugins, i \in DOMAIN events : InPass(p, i)' <=> InPass(p, i)

\* An event that has not moved is still in one place.
LEMMA OnceSame ==
  ASSUME OnceInv, SamePlaces
  PROVE  OnceInv'
<1>1. ASSUME NEW i \in DOMAIN events' PROVE OnceOK(i)'
  <2>1. i \in DOMAIN events BY <1>1 DEF SamePlaces
  <2>2. OnceOK(i) BY <2>1 DEF OnceInv
  <2>3. InDb(i)' <=> InDb(i) BY <2>1 DEF SamePlaces
  <2>4. \A p \in Moving : /\ InPass(p, i)' <=> InPass(p, i)
                          /\ InFile(p, i)' <=> InFile(p, i)
                          /\ files'[p] = files[p]
    BY <2>1 DEF SamePlaces, Moving, InFile
  <2> QED BY <2>2, <2>3, <2>4 DEF OnceOK
<1> QED BY <1>1 DEF OnceInv

\* Only moveEvents and ClosePass give an event another place.
LEMMA PlacesFrame ==
  ASSUME CbInv, NameInv, WriterInv, [Next]_vars
  PROVE  \/ \E t \in Threads : addEvent(t)
         \/ \E p \in Plugins : moveEvents(p) \/ ClosePass(p)
         \/ SamePlaces
<1>1. ASSUME UNCHANGED <<events, sortedEvents, unsortedEvents, pass, files>> PROVE SamePlaces
  BY <1>1 DEF SamePlaces, InDb, InPass
<1>2. CASE CallbackStep BY <1>1, <1>2, CallbackFrame
<1>3. ASSUME OtherStep, UNCHANGED <<sortedEvents, unsortedEvents, files>>,
             NEW p \in Plugins, OnlyPass(p), \A i : InPass(p, i)' <=> InPass(p, i)
      PROVE  SamePlaces
  <2>1. events' = events BY <1>3, OtherFrame
  <2>2. ASSUME NEW q \in Plugins, NEW i PROVE InPass(q, i)' <=> InPass(q, i)
    BY <1>3 DEF OnlyPass, InPass
  <2> QED BY <1>3, <2>1, <2>2 DEF SamePlaces, InDb
<1>4. ASSUME NEW p \in Plugins, BeginPass(p) PROVE SamePlaces
  <2>1. /\ OnlyPass(p) /\ pass[p].at = "wait" /\ pass'[p].held = {} /\ pass'[p].file.lines = {}
        /\ UNCHANGED <<files, sortedEvents, unsortedEvents>>
    BY <1>4, BeginPassEffect
  <2>2. pass[p].held = {} /\ pass[p].file.lines = {} BY <2>1 DEF WriterInv, PassOK
  <2>3. \A i : InPass(p, i)' <=> InPass(p, i) BY <2>1, <2>2 DEF InPass
  <2> QED BY <1>3, <1>4, <2>1, <2>3 DEF OtherStep, WriterStep
<1>5. ASSUME NEW p \in Plugins, writeTables(p) PROVE SamePlaces
  <2>1. OnlyPass(p) /\ pass'[p].held = pass[p].held /\ pass'[p].file.lines = pass[p].file.lines
    BY <1>5, TablesEffect
  <2>2. UNCHANGED <<files, sortedEvents, unsortedEvents>> BY <1>5 DEF writeTables
  <2>3. \A i : InPass(p, i)' <=> InPass(p, i) BY <2>1 DEF InPass
  <2> QED BY <1>3, <1>5, <2>1, <2>2, <2>3 DEF OtherStep, WriterStep
<1>6. ASSUME NEW p \in Plugins, dumpEvents(p) PROVE SamePlaces
  <2>1. /\ OnlyPass(p) /\ pass[p].at = "dump" /\ pass'[p].held = {} /\ pass'[p].file.lines = pass[p].held
        /\ UNCHANGED <<files, sortedEvents, unsortedEvents>>
    BY <1>6, DumpEffect
  <2>2. pass[p].file.lines = {} BY <2>1 DEF WriterInv, PassOK
  <2>3. \A i : InPass(p, i)' <=> InPass(p, i) BY <2>1, <2>2 DEF InPass
  <2> QED BY <1>3, <1>6, <2>1, <2>3 DEF OtherStep, WriterStep
<1>7. ASSUME collapseDependencyChains \/ writeDependencies PROVE SamePlaces
  <2>0. PICK p \in Plugins : p = "opencl" BY DEF Plugins
  <2>1. /\ OnlyPass(p) /\ pass'[p].held = pass[p].held /\ pass'[p].file.lines = pass[p].file.lines
        /\ UNCHANGED <<files, sortedEvents, unsortedEvents>>
    BY <1>7, <2>0, ArrowsEffect
  <2>3. \A i : InPass(p, i)' <=> InPass(p, i) BY <2>1 DEF InPass
  <2> QED BY <1>3, <1>7, <2>1, <2>3 DEF OtherStep, WriterStep
<1>8. ASSUME NEW p \in Plugins, DestroyPlugin(p) PROVE SamePlaces
  BY <1>1, <1>8 DEF DestroyPlugin, callbackVars
<1>9. ASSUME NEW w \in use.waits, add_dependency(w[1], w[2]) PROVE SamePlaces
  BY <1>1, <1>9 DEF add_dependency, writerVars, databaseVars
<1>10. CASE Gone \/ UNCHANGED vars BY <1>1, <1>10 DEF Gone, vars
<1>11. CASE OtherStep
  BY <1>4, <1>5, <1>6, <1>7, <1>8, <1>9, <1>10, <1>11 DEF OtherStep, WriterStep
<1> QED BY <1>2, <1>11, StepKinds DEF CallbackStep

\* A new event is in the database, and nowhere else.
LEMMA OnceAdd ==
  ASSUME CbInv, NameInv, WriterInv, OnceInv, Grown, NEW t \in Threads, addEvent(t)
  PROVE  OnceInv'
<1>1. PICK e : /\ events' = Append(events, e)
               /\ IF e.kind = "native"
                  THEN unsortedEvents' = unsortedEvents \cup {Len(events) + 1}
                         /\ sortedEvents' = sortedEvents
                  ELSE sortedEvents' = sortedEvents \cup {Len(events) + 1}
                         /\ unsortedEvents' = unsortedEvents
  BY EventEffect
<1>2. UNCHANGED <<pass, files>> BY DEF addEvent, Advance, writerVars
<1>3. PICK n : n = Len(events) + 1 OBVIOUS
<1>4. /\ n \notin DOMAIN events /\ \A i \in DOMAIN events' : i \in DOMAIN events \/ i = n
  BY <1>1, <1>3, AppendForm DEF NameInv
<1>5. \A p \in Plugins : \A i : (InPass(p, i)' <=> InPass(p, i)) /\ (InFile(p, i)' <=> InFile(p, i))
  BY <1>2 DEF InPass, InFile
<1>6. \A i \in DOMAIN events : InDb(i)' <=> InDb(i) BY <1>1, <1>3, <1>4 DEF InDb
<1>7. ASSUME NEW i \in DOMAIN events PROVE OnceOK(i)'
  <2>1. OnceOK(i) /\ (InDb(i)' <=> InDb(i)) BY <1>6 DEF OnceInv
  <2>2. \A p \in Moving : (InPass(p, i)' <=> InPass(p, i)) /\ (InFile(p, i)' <=> InFile(p, i))
    BY <1>5 DEF Moving
  <2> QED BY <1>2, <2>1, <2>2 DEF OnceOK
<1>8. OnceOK(n)'
  <2>1. InDb(n)' BY <1>1, <1>3 DEF InDb
  <2>2. ASSUME NEW p \in Moving PROVE ~InPass(p, n) /\ ~InFile(p, n)
    <3>1. PassOK(p) /\ FilesOK(p) BY DEF WriterInv, Moving
    <3>2. pass[p].held \subseteq DOMAIN events /\ pass[p].file.lines \subseteq DOMAIN events
      BY <3>1 DEF PassOK, FileOK
    <3>3. \A k \in DOMAIN files[p] : files[p][k].lines \subseteq DOMAIN events
      BY <3>1 DEF FilesOK, FileOK
    <3> QED BY <1>4, <3>2, <3>3 DEF InPass, InFile
  <2>3. ASSUME NEW p \in Moving PROVE ~InPass(p, n)' /\ ~InFile(p, n)' BY <1>5, <2>2 DEF Moving
  <2>4. \A p \in Moving : \A k \in DOMAIN files'[p] : n \notin files'[p][k].lines
    BY <2>3 DEF InFile
  <2> QED BY <2>1, <2>3, <2>4 DEF OnceOK
<1> QED BY <1>4, <1>7, <1>8 DEF OnceInv

\* The events that a writer takes are in its hands, and not in the database
\* any more: no other writer can take them.
LEMMA OnceMove ==
  ASSUME CbInv, NameInv, DbInv, WriterInv, OnceInv, NEW p \in Plugins, moveEvents(p)
  PROVE  OnceInv'
<1>1. PICK held :
        /\ OnlyPass(p) /\ pass[p].at = "events" /\ pass'[p].held = held
        /\ pass'[p].file = pass[p].file
        /\ held = OfKind(IF p = "native" THEN unsortedEvents ELSE sortedEvents, Takes[p])
        /\ p \in Copying => UNCHANGED <<sortedEvents, unsortedEvents>>
        /\ p \notin Copying =>
             sortedEvents' = sortedEvents \ held /\ unsortedEvents' = unsortedEvents \ held
        /\ UNCHANGED <<loaded, files, stopping>>
  BY MoveEffect
<1>2. events' = events BY DEF moveEvents, callbackVars
<1>3. pass[p].held = {} /\ pass[p].file.lines = {} BY <1>1 DEF WriterInv, PassOK
<1>4. \A i \in held : InDb(i) BY <1>1 DEF OfKind, InDb
<1>5. \A i : InPass(p, i)' <=> i \in held BY <1>1, <1>3 DEF InPass
<1>6. \A i : ~InPass(p, i) BY <1>3 DEF InPass
<1>7. \A q \in Plugins : \A i : /\ q # p => (InPass(q, i)' <=> InPass(q, i))
                                /\ InFile(q, i)' <=> InFile(q, i)
  BY <1>1 DEF OnlyPass, InPass, InFile
<1>8. \A i : InDb(i)' <=> InDb(i) /\ (i \notin held \/ p \in Copying)
  BY <1>1 DEF InDb
<1>9. ASSUME NEW i \in DOMAIN events' PROVE OnceOK(i)'
  <2>1. OnceOK(i) BY <1>2 DEF OnceInv
  <2>2. \A q \in Moving : InFile(q, i)' <=> InFile(q, i) BY <1>7 DEF Moving
  <2>3. \A q \in Moving : InPass(q, i)' <=> InPass(q, i) \/ (q = p /\ i \in held)
    BY <1>5, <1>6, <1>7 DEF Moving
  <2>4. CASE p \in Copying
    <3>1. \A q \in Moving : q # p BY <2>4 DEF Moving
    <3>2. InDb(i)' <=> InDb(i) BY <1>8, <2>4
    <3> QED BY <1>1, <2>1, <2>2, <2>3, <3>1, <3>2 DEF OnceOK
  <2>5. CASE p \notin Copying /\ i \in held
    <3>1. p \in Moving /\ InDb(i) /\ ~InDb(i)' BY <1>4, <1>8, <2>5 DEF Moving
    <3>2. \A q \in Moving : ~InPass(q, i) /\ ~InFile(q, i) BY <2>1, <3>1 DEF OnceOK
    <3>3. InPass(p, i)' /\ \A q \in Moving : ~InFile(q, i)' /\ (InPass(q, i)' => q = p)
      BY <2>2, <2>3, <2>5, <3>2, <1>5
    <3>4. \A q \in Moving : \A k \in DOMAIN files'[q] : i \notin files'[q][k].lines
      BY <3>3 DEF InFile
    <3> QED BY <3>1, <3>3, <3>4 DEF OnceOK
  <2>6. CASE p \notin Copying /\ i \notin held
    <3>1. InDb(i)' <=> InDb(i) BY <1>8, <2>6
    <3>2. \A q \in Moving : InPass(q, i)' <=> InPass(q, i) BY <2>3, <2>6
    <3> QED BY <1>1, <2>1, <2>2, <3>1, <3>2 DEF OnceOK
  <2> QED BY <2>4, <2>5, <2>6
<1> QED BY <1>9 DEF OnceInv

\* The events of a pass go to its file.
LEMMA OnceClose ==
  ASSUME CbInv, NameInv, WriterInv, OnceInv, NEW p \in Plugins, ClosePass(p)
  PROVE  /\ OnceInv'
         /\ \A i \in DOMAIN events : (InDb(i)' <=> InDb(i)) /\ (InPass(p, i) \/ InFile(p, i) => InFile(p, i)')
<1>1. /\ OnlyPass(p) /\ pass[p].at = "close" /\ pass'[p] = Waiting
      /\ \A q \in Plugins : q # p => files'[q] = files[q]
      /\ files'[p] = Append(files[p], pass[p].file)
      /\ UNCHANGED <<sortedEvents, unsortedEvents>>
  BY CloseEffect
<1>2. events' = events BY DEF ClosePass, callbackVars
<1>3. pass[p].held = {} BY <1>1 DEF WriterInv, PassOK
<1>4. PICK n : n = Len(files[p]) + 1 OBVIOUS
<1>5. /\ n \in DOMAIN files'[p] /\ files'[p][n] = pass[p].file /\ n \notin DOMAIN files[p]
      /\ \A k \in DOMAIN files'[p] : k \in DOMAIN files[p] \/ k = n
      /\ \A k \in DOMAIN files[p] : k \in DOMAIN files'[p] /\ files'[p][k] = files[p][k]
  <2>1. IsSeq(files[p]) BY DEF WriterInv, FilesOK
  <2> QED BY <1>1, <1>4, <2>1, AppendForm
<1>6. \A i : InPass(p, i) <=> i \in files'[p][n].lines BY <1>3, <1>5 DEF InPass
<1>7. \A i : ~InPass(p, i)' BY <1>1, WaitingForm DEF InPass
<1>8. \A i : InFile(p, i)' <=> InFile(p, i) \/ InPass(p, i)
  <2> SUFFICES ASSUME NEW i PROVE InFile(p, i)' <=> InFile(p, i) \/ InPass(p, i) OBVIOUS
  <2>1. ASSUME InFile(p, i)' PROVE InFile(p, i) \/ InPass(p, i) BY <1>5, <1>6, <2>1 DEF InFile
  <2>2. ASSUME InFile(p, i) PROVE InFile(p, i)' BY <1>5, <2>2 DEF InFile
  <2>3. ASSUME InPass(p, i) PROVE InFile(p, i)' BY <1>5, <1>6, <2>3 DEF InFile
  <2> QED BY <2>1, <2>2, <2>3
<1>9. \A q \in Plugins : \A i : q # p => (InPass(q, i)' <=> InPass(q, i)) /\ (InFile(q, i)' <=> InFile(q, i))
  BY <1>1 DEF OnlyPass, InPass, InFile
<1>10. \A i : InDb(i)' <=> InDb(i) BY <1>1 DEF InDb
<1>11. ASSUME NEW i \in DOMAIN events' PROVE OnceOK(i)'
  <2>1. OnceOK(i) BY <1>2 DEF OnceInv
  <2>2. \A q \in Moving : (InPass(q, i)' <=> InPass(q, i) /\ q # p)
          /\ (InFile(q, i)' <=> InFile(q, i) \/ (q = p /\ InPass(p, i)))
    BY <1>7, <1>8, <1>9 DEF Moving
  <2>3. ASSUME NEW q \in Moving, NEW k \in DOMAIN files'[q], NEW m \in DOMAIN files'[q],
               i \in files'[q][k].lines, i \in files'[q][m].lines
        PROVE  k = m
    <3>1. CASE q # p BY <1>1, <2>1, <2>3, <3>1 DEF OnceOK, Moving
    <3>2. CASE q = p /\ ~InPass(p, i)
      <4>1. k \in DOMAIN files[p] /\ m \in DOMAIN files[p] BY <1>5, <1>6, <2>3, <3>2
      <4> QED BY <1>5, <2>1, <2>3, <3>2, <4>1 DEF OnceOK
    <3>3. CASE q = p /\ InPass(p, i)
      <4>1. ~InFile(p, i) BY <2>1, <3>3 DEF OnceOK
      <4>2. k \notin DOMAIN files[p] /\ m \notin DOMAIN files[p]
        BY <1>5, <2>3, <3>3, <4>1 DEF InFile
      <4> QED BY <1>5, <2>3, <3>3, <4>2
    <3> QED BY <3>1, <3>2, <3>3
  <2>4. /\ InDb(i)' \/ \E q \in Moving : InPass(q, i)' \/ InFile(q, i)'
        /\ InDb(i)' => \A q \in Moving : ~InPass(q, i)' /\ ~InFile(q, i)'
    BY <1>10, <2>1, <2>2 DEF OnceOK
  <2>5. ASSUME NEW q \in Moving, NEW s \in Moving
        PROVE  /\ InPass(q, i)' => ~InFile(s, i)' /\ (InPass(s, i)' => q = s)
               /\ InFile(q, i)' /\ InFile(s, i)' => q = s
    BY <2>1, <2>2 DEF OnceOK
  <2> QED BY <2>3, <2>4, <2>5 DEF OnceOK
<1>12. OnceInv' BY <1>11 DEF OnceInv
<1> QED BY <1>8, <1>10, <1>12

\* Every step leaves every event in one place.
LEMMA OnceStep ==
  ASSUME CbInv, NameInv, DbInv, WriterInv, OnceInv, [Next]_vars
  PROVE  OnceInv'
<1>0. Grown BY GrownStep
<1>1. ASSUME NEW t \in Threads, addEvent(t) PROVE OnceInv' BY <1>0, <1>1, OnceAdd
<1>2. ASSUME NEW p \in Plugins, moveEvents(p) PROVE OnceInv' BY <1>2, OnceMove
<1>3. ASSUME NEW p \in Plugins, ClosePass(p) PROVE OnceInv' BY <1>3, OnceClose
<1>4. CASE SamePlaces BY <1>4, OnceSame
<1> QED BY <1>1, <1>2, <1>3, <1>4, PlacesFrame

-----------------------------------------------------------------------------
(* Nothing is left behind                                                  *)

\* A step that moves no event ends the taking of no plugin.
LEMMA DoneFrame ==
  ASSUME CbInv, LoadInv, WriterInv, OtherStep, NEW q \in Plugins, Done(q)'
  PROVE  Done(q) \/ \E p \in Plugins : moveEvents(p) \/ ClosePass(p)
<1>0. use' = use BY OtherFrame
<1>1. ASSUME NEW p \in Plugins, OnlyPass(p), loaded' = loaded, p \in loaded,
             \/ pass'[p].at \notin {"dump", "chains", "arrows", "close"}
             \/ pass[p].at \in {"dump", "chains", "arrows", "close"} /\ pass'[p].file.final = pass[p].file.final
      PROVE  Done(q)
  BY <1>0, <1>1 DEF Done, OnlyPass
<1>2. ASSUME UNCHANGED <<pass, loaded>> PROVE Done(q) BY <1>0, <1>2 DEF Done
<1>3. ASSUME NEW p \in Plugins, BeginPass(p) PROVE Done(q) BY <1>1, <1>3, BeginPassEffect
<1>4. ASSUME NEW p \in Plugins, writeTables(p) PROVE Done(q)
  <2>1. OnlyPass(p) /\ pass[p].at = "tables" /\ pass'[p].at = "events" BY <1>4, TablesEffect
  <2>2. loaded' = loaded BY <1>4 DEF writeTables
  <2>3. p \in loaded BY <2>1 DEF WriterInv, PassOK
  <2> QED BY <1>1, <2>1, <2>2, <2>3
<1>5. ASSUME NEW p \in Plugins, dumpEvents(p) PROVE Done(q)
  <2>1. /\ OnlyPass(p) /\ pass[p].at = "dump" /\ pass'[p].file.final = pass[p].file.final
        /\ loaded' = loaded
    BY <1>5, DumpEffect
  <2>2. p \in loaded BY <2>1 DEF WriterInv, PassOK
  <2> QED BY <1>1, <2>1, <2>2
<1>6. ASSUME collapseDependencyChains \/ writeDependencies PROVE Done(q)
  <2>0. PICK p \in Plugins : p = "opencl" BY DEF Plugins
  <2>1. /\ OnlyPass(p) /\ pass[p].at \in {"chains", "arrows"} /\ pass'[p].file.final = pass[p].file.final
        /\ loaded' = loaded
    BY <1>6, <2>0, ArrowsEffect
  <2>2. p \in loaded BY <2>1 DEF WriterInv, PassOK
  <2> QED BY <1>1, <2>1, <2>2
<1>7. ASSUME NEW p \in Plugins, DestroyPlugin(p) PROVE Done(q) BY <1>2, <1>7 DEF DestroyPlugin
<1>8. ASSUME NEW w \in use.waits, add_dependency(w[1], w[2]) PROVE Done(q)
  BY <1>2, <1>8 DEF add_dependency, writerVars
<1>9. CASE Gone \/ UNCHANGED vars BY <1>2, <1>9 DEF Gone, vars
<1> QED BY <1>3, <1>4, <1>5, <1>6, <1>7, <1>8, <1>9 DEF OtherStep, WriterStep

\* Only the native plugin takes native events, and it takes no others.
LEMMA NativeTakes ==
  /\ Takes["native"] = {"native"} /\ \A p \in Plugins : p # "native" => "native" \notin Takes[p]
BY DEF Takes, Plugins, isOpenCLHostEvent, LOPEvents, HALEvents, NativeEvents, UserEvents

\* What a plugin has moved for the last time.
LEMMA DoneMove ==
  ASSUME CbInv, NameInv, LoadInv, DbInv, WriterInv, DoneInv, NEW p \in Plugins, moveEvents(p)
  PROVE  DoneInv'
<1>1. PICK held :
        /\ OnlyPass(p) /\ pass'[p].held = held /\ pass[p].at = "events"
        /\ held = OfKind(IF p = "native" THEN unsortedEvents ELSE sortedEvents, Takes[p])
        /\ p \in Copying => UNCHANGED <<sortedEvents, unsortedEvents>>
        /\ p \notin Copying =>
             sortedEvents' = sortedEvents \ held /\ unsortedEvents' = unsortedEvents \ held
        /\ UNCHANGED <<loaded, files, stopping>>
  BY MoveEffect
<1>2. events' = events /\ use' = use BY DEF moveEvents, callbackVars
<1>3. \A i : InDb(i)' <=> InDb(i) /\ (i \notin held \/ p \in Copying) BY <1>1 DEF InDb
<1>4. ASSUME NEW i \in DOMAIN events, events[i].kind \in Takes[p], InDb(i) PROVE i \in held
  BY <1>1, <1>4, NativeTakes DEF InDb, DbInv, OfKind
<1>5. DoneOK(p)'
  <2>1. ASSUME NEW i \in DOMAIN events', events'[i].kind \in Takes[p], InDb(i)'
        PROVE  p \in Copying /\ InPass(p, i)'
    BY <1>1, <1>2, <1>3, <1>4, <2>1 DEF InPass
  <2> QED BY <2>1 DEF DoneOK
<1>6. ASSUME NEW q \in Plugins, q # p PROVE DoneOK(q)'
  <2>1. Done(q)' <=> Done(q) BY <1>1, <1>2, <1>6 DEF Done, OnlyPass
  <2>2. \A i : (InPass(q, i)' <=> InPass(q, i)) /\ (InFile(q, i)' <=> InFile(q, i))
    BY <1>1, <1>6 DEF InPass, InFile, OnlyPass
  <2>3. DoneOK(q) BY DEF DoneInv
  <2> QED BY <1>2, <1>3, <2>1, <2>2, <2>3 DEF DoneOK
<1> QED BY <1>5, <1>6 DEF DoneInv

\* What the last file of a plugin has.
LEMMA DoneClose ==
  ASSUME CbInv, NameInv, LoadInv, WriterInv, OnceInv, DoneInv, NEW p \in Plugins, ClosePass(p)
  PROVE  DoneInv'
<1>1. /\ OnlyPass(p) /\ pass[p].at = "close" /\ pass'[p] = Waiting
      /\ \A q \in Plugins : q # p => files'[q] = files[q]
      /\ pass[p].file.final => loaded' = loaded \ {p}
      /\ ~pass[p].file.final => loaded' = loaded
  BY CloseEffect
<1>2. events' = events /\ use' = use BY DEF ClosePass, callbackVars
<1>3. \A i \in DOMAIN events : (InDb(i)' <=> InDb(i)) /\ (InPass(p, i) \/ InFile(p, i) => InFile(p, i)')
  BY OnceClose
<1>4. p \in loaded BY <1>1 DEF WriterInv, PassOK
<1>5. Done(p)' => Done(p)
  <2>1. pass'[p].at = "wait" BY <1>1, WaitingForm
  <2>2. Done(p)' => p \notin loaded' BY <2>1 DEF Done
  <2> QED BY <1>1, <1>4, <2>2 DEF Done
<1>6. DoneOK(p)'
  <2>1. DoneOK(p) BY DEF DoneInv
  <2> QED BY <1>2, <1>3, <1>5, <2>1 DEF DoneOK
<1>7. ASSUME NEW q \in Plugins, q # p PROVE DoneOK(q)'
  <2>1. pass'[q] = pass[q] /\ files'[q] = files[q] /\ (q \in loaded' <=> q \in loaded)
    BY <1>1, <1>7 DEF OnlyPass
  <2>2. Done(q)' => Done(q) BY <1>2, <2>1 DEF Done
  <2>3. \A i : (InPass(q, i)' <=> InPass(q, i)) /\ (InFile(q, i)' <=> InFile(q, i))
    BY <2>1 DEF InPass, InFile
  <2>4. DoneOK(q) BY DEF DoneInv
  <2> QED BY <1>2, <1>3, <2>2, <2>3, <2>4 DEF DoneOK
<1> QED BY <1>6, <1>7 DEF DoneInv

\* Every step keeps this: callbacks add no event once a destructor has begun,
\* and the last pass of a plugin takes all that it is there to take.
LEMMA DoneStep ==
  ASSUME CbInv, NameInv, LoadInv, DbInv, WriterInv, OnceInv, DoneInv, [Next]_vars
  PROVE  DoneInv'
<1>1. CASE CallbackStep
  <2>1. UNCHANGED <<pass, loaded, use>> /\ stopping = {} BY <1>1, CallbackFrame
  <2>2. ASSUME NEW p \in Plugins PROVE ~Done(p)
    BY <2>1 DEF LoadInv, WriterInv, PassOK, Done
  <2>3. \A p \in Plugins : ~Done(p)' BY <2>1, <2>2 DEF Done
  <2> QED BY <2>3 DEF DoneInv, DoneOK
<1>2. ASSUME NEW p \in Plugins, moveEvents(p) PROVE DoneInv' BY <1>2, DoneMove
<1>3. ASSUME NEW p \in Plugins, ClosePass(p) PROVE DoneInv' BY <1>3, DoneClose
<1>4. CASE OtherStep /\ ~(\E p \in Plugins : moveEvents(p) \/ ClosePass(p))
  <2>1. \A p \in Plugins : Done(p)' => Done(p) BY <1>4, DoneFrame
  <2>2. CASE SamePlaces
    <3>1. ASSUME NEW p \in Plugins PROVE DoneOK(p)'
      <4>1. DoneOK(p) BY DEF DoneInv
      <4>2. \A i : InFile(p, i)' <=> InFile(p, i) BY <2>2 DEF SamePlaces, InFile
      <4> QED BY <2>1, <2>2, <4>1, <4>2 DEF DoneOK, SamePlaces
    <3> QED BY <3>1 DEF DoneInv
  <2>3. ASSUME NEW t \in Threads, addEvent(t) PROVE DoneInv'
    BY <1>1, <2>3 DEF CallbackStep, Operation
  <2> QED BY <1>4, <2>2, <2>3, PlacesFrame
<1> QED BY <1>1, <1>2, <1>3, <1>4, StepKinds DEF CallbackStep

-----------------------------------------------------------------------------
(* What the files of a plugin list                                         *)

\* An event in the hands of a writer or in a file has been recorded.
LEMMA ListedKnown ==
  ASSUME WriterInv, NEW p \in Plugins, NEW i, InPass(p, i) \/ InFile(p, i)
  PROVE  i \in DOMAIN events
<1>1. PassOK(p) /\ FilesOK(p) BY DEF WriterInv
<1>2. CASE i \in pass[p].held BY <1>1, <1>2 DEF PassOK
<1>3. CASE i \in pass[p].file.lines
  <2>1. pass[p].at \notin {"wait", "tables", "events", "dump"} BY <1>1, <1>3 DEF PassOK
  <2>2. FileOK(pass[p].file) BY <1>1, <2>1 DEF PassOK
  <2> QED BY <1>3, <2>2 DEF FileOK
<1>4. CASE InFile(p, i) BY <1>1, <1>4 DEF InFile, FilesOK, FileOK
<1> QED BY <1>2, <1>3, <1>4 DEF InPass

\* A plugin lists only what its filter lets through.
LEMMA KindsStep ==
  ASSUME CbInv, NameInv, DbInv, WriterInv, ListInv, [Next]_vars, NEW q \in Plugins
  PROVE  KindsOK(q)'
<1>0. Grown /\ KindsOK(q) BY GrownStep DEF ListInv
<1>1. ASSUME NEW t \in Threads, addEvent(t) PROVE KindsOK(q)'
  <2>1. UNCHANGED <<pass, files>> BY <1>1 DEF addEvent, Advance, writerVars
  <2>2. ASSUME NEW i \in DOMAIN events', (InPass(q, i) \/ InFile(q, i))' PROVE events'[i].kind \in Takes[q]
    <3>1. InPass(q, i) \/ InFile(q, i) BY <2>1, <2>2 DEF InPass, InFile
    <3>2. i \in DOMAIN events BY <3>1, ListedKnown
    <3>3. events'[i] = events[i] BY <1>0, <3>2 DEF Grown
    <3> QED BY <1>0, <3>1, <3>2, <3>3 DEF KindsOK
  <2> QED BY <2>2 DEF KindsOK
<1>2. ASSUME NEW p \in Plugins, moveEvents(p) PROVE KindsOK(q)'
  <2>1. PICK held :
           /\ OnlyPass(p) /\ pass'[p].held = held /\ pass'[p].file = pass[p].file
           /\ held = OfKind(IF p = "native" THEN unsortedEvents ELSE sortedEvents, Takes[p])
           /\ UNCHANGED files
    BY <1>2, MoveEffect
  <2>2. events' = events BY <1>2 DEF moveEvents, callbackVars
  <2>3. ASSUME NEW i \in DOMAIN events, (InPass(q, i) \/ InFile(q, i))' PROVE events[i].kind \in Takes[q]
    <3>1. InFile(q, i)' <=> InFile(q, i) BY <2>1 DEF InFile
    <3>2. CASE q = p /\ i \in held BY <2>1, <3>2 DEF OfKind
    <3>3. CASE ~(q = p /\ i \in held)
      <4>1. InPass(q, i)' => InPass(q, i) BY <2>1, <3>3 DEF InPass, OnlyPass
      <4> QED BY <1>0, <2>3, <3>1, <4>1 DEF KindsOK
    <3> QED BY <3>2, <3>3
  <2> QED BY <2>2, <2>3 DEF KindsOK
<1>3. ASSUME NEW p \in Plugins, ClosePass(p) PROVE KindsOK(q)'
  <2>1. /\ OnlyPass(p) /\ pass'[p] = Waiting /\ \A r \in Plugins : r # p => files'[r] = files[r]
        /\ files'[p] = Append(files[p], pass[p].file)
    BY <1>3, CloseEffect
  <2>2. events' = events BY <1>3 DEF ClosePass, callbackVars
  <2>3. ASSUME NEW i \in DOMAIN events, (InPass(q, i) \/ InFile(q, i))' PROVE events[i].kind \in Takes[q]
    <3>1. CASE q # p
      <4>1. pass'[q] = pass[q] /\ files'[q] = files[q] BY <2>1, <3>1 DEF OnlyPass
      <4>2. InPass(q, i) \/ InFile(q, i) BY <2>3, <4>1 DEF InPass, InFile
      <4> QED BY <1>0, <4>2 DEF KindsOK
    <3>2. CASE q = p
      <4>1. ~InPass(p, i)' BY <2>1, WaitingForm DEF InPass
      <4>2. PICK k \in DOMAIN files'[p] : i \in files'[p][k].lines BY <2>3, <3>2, <4>1 DEF InFile
      <4>3. PICK s : s = files[p] OBVIOUS
      <4>4. PICK f : f = pass[p].file OBVIOUS
      <4>5. IsSeq(s) BY <4>3 DEF WriterInv, FilesOK
      <4>6. PICK v : v = files'[p] OBVIOUS
      <4>7. /\ v[Len(s) + 1] = f /\ (\A m \in DOMAIN v : m \in DOMAIN s \/ m = Len(s) + 1)
            /\ \A m \in DOMAIN s : v[m] = s[m]
        BY <2>1, <4>3, <4>4, <4>5, <4>6, AppendForm
      <4>8. InPass(p, i) \/ InFile(p, i) BY <4>2, <4>3, <4>4, <4>6, <4>7 DEF InPass, InFile
      <4> QED BY <1>0, <3>2, <4>8 DEF KindsOK
    <3> QED BY <3>1, <3>2
  <2> QED BY <2>2, <2>3 DEF KindsOK
<1>4. CASE SamePlaces
  <2>1. \A i : InFile(q, i)' <=> InFile(q, i) BY <1>4 DEF SamePlaces, InFile
  <2> QED BY <1>0, <1>4, <2>1 DEF SamePlaces, KindsOK
<1> QED BY <1>1, <1>2, <1>3, <1>4, PlacesFrame

\* A writer that copies has no write thread.
LEMMA CopyingAlone == Copying \cap Threaded = {} /\ "opencl" \notin Copying /\ Copying \subseteq Plugins
BY DEF Copying, Threaded, Plugins

\* It writes once.
LEMMA SoleStep ==
  ASSUME CbInv, NameInv, LoadInv, WriterInv, ListInv, [Next]_vars, NEW q \in Plugins
  PROVE  SoleOK(q)'
<1>0. SoleOK(q) BY DEF ListInv
<1>1. ASSUME UNCHANGED <<loaded, files>>, pass'[q].at # "wait" => pass[q].at # "wait",
             pass'[q].file.final = pass[q].file.final \/ pass'[q].at = "wait"
      PROVE  SoleOK(q)'
  BY <1>0, <1>1 DEF SoleOK
<1>2. ASSUME NEW p \in Plugins, OnlyPass(p), UNCHANGED <<loaded, files>>,
             pass[p].at # "wait", pass'[p].file.final = pass[p].file.final
      PROVE  SoleOK(q)'
  <2>1. CASE q = p BY <1>1, <1>2, <2>1
  <2>2. CASE q # p
    <3>1. pass'[q] = pass[q] BY <1>2, <2>2 DEF OnlyPass
    <3> QED BY <1>1, <1>2, <3>1
  <2> QED BY <2>1, <2>2
<1>3. CASE UNCHANGED <<pass, loaded, files>> BY <1>1, <1>3
<1>4. CASE CallbackStep BY <1>3, <1>4, CallbackFrame
<1>5. ASSUME NEW p \in Plugins, BeginPass(p) PROVE SoleOK(q)'
  <2>1. /\ OnlyPass(p) /\ (pass'[p].file.final <=> p \in stopping) /\ (p \in stopping \/ p \in Threaded)
        /\ UNCHANGED <<loaded, files>>
    BY <1>5, BeginPassEffect
  <2>2. CASE q = p BY <1>0, <2>1, <2>2, CopyingAlone DEF SoleOK
  <2>3. CASE q # p
    <3>1. pass'[q] = pass[q] BY <2>1, <2>3 DEF OnlyPass
    <3> QED BY <1>1, <2>1, <3>1
  <2> QED BY <2>2, <2>3
<1>6. ASSUME NEW p \in Plugins, writeTables(p) PROVE SoleOK(q)'
  <2>1. OnlyPass(p) /\ pass[p].at = "tables" /\ pass'[p].file.final = pass[p].file.final
    BY <1>6, TablesEffect
  <2>2. UNCHANGED <<loaded, files>> BY <1>6 DEF writeTables
  <2> QED BY <1>2, <2>1, <2>2
<1>7. ASSUME NEW p \in Plugins, moveEvents(p) PROVE SoleOK(q)'
  <2>1. /\ OnlyPass(p) /\ pass[p].at = "events" /\ pass'[p].file = pass[p].file
        /\ UNCHANGED <<loaded, files>>
    BY <1>7, MoveEffect
  <2> QED BY <1>2, <2>1
<1>8. ASSUME NEW p \in Plugins, dumpEvents(p) PROVE SoleOK(q)'
  <2>1. /\ OnlyPass(p) /\ pass[p].at = "dump" /\ pass'[p].file.final = pass[p].file.final
        /\ UNCHANGED <<loaded, files>>
    BY <1>8, DumpEffect
  <2> QED BY <1>2, <2>1
<1>9. ASSUME collapseDependencyChains \/ writeDependencies PROVE SoleOK(q)'
  <2>0. PICK p \in Plugins : p = "opencl" BY DEF Plugins
  <2>1. /\ OnlyPass(p) /\ pass[p].at \in {"chains", "arrows"} /\ pass'[p].file.final = pass[p].file.final
        /\ UNCHANGED <<loaded, files>>
    BY <1>9, <2>0, ArrowsEffect
  <2> QED BY <1>2, <2>1
<1>10. ASSUME NEW p \in Plugins, ClosePass(p) PROVE SoleOK(q)'
  <2>1. /\ OnlyPass(p) /\ pass[p].at = "close" /\ pass'[p] = Waiting
        /\ \A r \in Plugins : r # p => files'[r] = files[r]
        /\ files'[p] = Append(files[p], pass[p].file)
        /\ pass[p].file.final => loaded' = loaded \ {p}
        /\ ~pass[p].file.final => loaded' = loaded
    BY <1>10, CloseEffect
  <2>2. CASE q # p
    <3>1. pass'[q] = pass[q] /\ files'[q] = files[q] /\ (q \in loaded' => q \in loaded)
      BY <2>1, <2>2 DEF OnlyPass
    <3> QED BY <1>0, <3>1 DEF SoleOK
  <2>3. ASSUME q = p, p \in Copying PROVE SoleOK(q)'
    <3>1. p \in loaded /\ pass[p].file.final BY <1>0, <2>1, <2>3 DEF SoleOK, WriterInv, PassOK
    <3>2. DOMAIN files[p] = {} /\ p \notin loaded' BY <1>0, <2>1, <2>3, <3>1 DEF SoleOK
    <3>3. PICK s : s = files[p] OBVIOUS
    <3>4. IsSeq(s) BY <3>3 DEF WriterInv, FilesOK
    <3>5. \A k \in DOMAIN files'[p] : k \in DOMAIN s \/ k = Len(s) + 1
      BY <2>1, <3>3, <3>4, AppendForm
    <3>6. \A k, m \in DOMAIN files'[p] : k = m BY <3>2, <3>3, <3>5
    <3>7. pass'[p].at = "wait" BY <2>1, WaitingForm
    <3> QED BY <2>3, <3>2, <3>6, <3>7 DEF SoleOK
  <2> QED BY <2>2, <2>3 DEF SoleOK
<1>11. ASSUME NEW p \in Plugins, DestroyPlugin(p) PROVE SoleOK(q)' BY <1>3, <1>11 DEF DestroyPlugin
<1>12. ASSUME NEW w \in use.waits, add_dependency(w[1], w[2]) PROVE SoleOK(q)'
  BY <1>3, <1>12 DEF add_dependency, writerVars
<1>13. CASE Gone \/ UNCHANGED vars BY <1>3, <1>13 DEF Gone, vars
<1>14. CASE OtherStep
  BY <1>5, <1>6, <1>7, <1>8, <1>9, <1>10, <1>11, <1>12, <1>13, <1>14 DEF OtherStep, WriterStep
<1> QED BY <1>4, <1>14, StepKinds DEF CallbackStep

\* Every step keeps both.
LEMMA ListStep ==
  ASSUME CbInv, NameInv, LoadInv, DbInv, WriterInv, ListInv, [Next]_vars
  PROVE  ListInv'
BY KindsStep, SoleStep DEF ListInv

\* No event, no callback and no file in the beginning.
LEMMA HostInit ==
  ASSUME Init
  PROVE  HostIInv
<1>1. CbInv /\ StatsInv BY StatsInit
<1>2. /\ calls = <<>> /\ open = {} /\ cb = [t \in Threads |-> Idle] /\ events = <<>>
      /\ sortedEvents = {} /\ unsortedEvents = {} /\ stopping = {} /\ loaded = use.plugins
      /\ pass = [p \in Plugins |-> Waiting] /\ files = [p \in Plugins |-> <<>>]
  BY DEF Init
<1>3. NameInv
  <2>1. Idle.ops = <<>> BY DEF Idle
  <2>2. \A t \in Threads : cb[t].ops = <<>> BY <1>2, <2>1
  <2>3. IsSeq(events)
    <3>1. <<>> \in Seq({}) OBVIOUS
    <3> QED BY <1>2, <3>1 DEF IsSeq
  <2> QED BY <1>2, <2>2, <2>3 DEF NameInv, NamedOK
<1>4. LoadInv /\ DbInv BY <1>2 DEF LoadInv, DbInv
<1>5. ASSUME NEW p \in Plugins PROVE PassOK(p) /\ FilesOK(p)
  <2>1. pass[p] = Waiting /\ files[p] = <<>> BY <1>2
  <2>2. PassOK(p)
    <3>1. 0 \in 0..Len(events) BY <1>2
    <3> QED BY <2>1, <3>1, WaitingForm DEF PassOK
  <2>3. FilesOK(p)
    <3>1. <<>> \in Seq({}) /\ Len(<<>>) = 0 OBVIOUS
    <3>2. IsSeq(files[p]) /\ Len(files[p]) = 0 BY <2>1, <3>1 DEF IsSeq
    <3> QED BY <2>1, <3>2, HostAssumption DEF FilesOK
  <2> QED BY <2>2, <2>3
<1>6. WriterInv BY <1>2, <1>5 DEF WriterInv
<1>7. OnceInv /\ DoneInv BY <1>2 DEF OnceInv, DoneInv, DoneOK
<1>8. ListInv
  <2>1. \A p \in Plugins : pass[p].at = "wait" /\ DOMAIN files[p] = {} BY <1>2, WaitingForm
  <2> QED BY <1>2, <2>1 DEF ListInv, KindsOK, SoleOK
<1> QED BY <1>1, <1>3, <1>4, <1>6, <1>7, <1>8 DEF HostIInv

\* The invariant that the theorems about events rest on: the callbacks that
\* run, the names, the passes of the writers, the one place of every event,
\* what the last pass of a plugin leaves, and what its files list.
THEOREM HostInvariance == Spec => []HostIInv
<1>1. Init => HostIInv BY HostInit
<1>2. HostIInv /\ [Next]_vars => HostIInv'
  <2> SUFFICES ASSUME HostIInv, [Next]_vars PROVE HostIInv' OBVIOUS
  <2>1. /\ CbInv /\ StatsInv /\ NameInv /\ LoadInv /\ DbInv
        /\ WriterInv /\ OnceInv /\ DoneInv /\ ListInv
    BY DEF HostIInv
  <2>2. CbInv' /\ StatsInv' BY <2>1, CbStep, StatsStep
  <2>3. NameInv' /\ LoadInv' /\ DbInv' BY <2>1, NameStep, LoadStep, DbStep
  <2>4. WriterInv' BY <2>1, WriterKeeps
  <2>5. OnceInv' BY <2>1, OnceStep
  <2>6. DoneInv' BY <2>1, DoneStep
  <2>7. ListInv' BY <2>1, ListStep
  <2> QED BY <2>2, <2>3, <2>4, <2>5, <2>6, <2>7 DEF HostIInv
<1> QED BY <1>1, <1>2, PTL DEF Spec

\* A line uses only rows and strings that its own file lists, if its event was
\* in the database when the writer began the file, whatever callbacks run while
\* it is written: each adds the string before the event.
THEOREM LinesAreReadable == Spec => []LinesReadable
<1>1. HostIInv => LinesReadable
  <2> SUFFICES ASSUME HostIInv, NEW p \in Plugins, NEW k \in DOMAIN files[p],
                      NEW i \in files[p][k].lines, i <= files[p][k].before, events[i].kind # "lop"
               PROVE  calls[events[i].call].api \in files[p][k].names
    BY DEF LinesReadable
  <2>1. PICK f : f = files[p][k] OBVIOUS
  <2>2. FileOK(f) BY <2>1 DEF HostIInv, WriterInv, FilesOK
  <2>3. DOMAIN events = 1..Len(events) /\ Len(events) \in Nat BY AppendForm DEF HostIInv, NameInv
  <2>4. i \in 1..f.before BY <2>1, <2>2, <2>3 DEF FileOK
  <2> QED BY <2>1, <2>2, <2>4 DEF FileOK
<1> QED BY <1>1, HostInvariance, PTL

\* One place is one member of Places.
LEMMA OnePlace ==
  ASSUME HostIInv, NEW i \in DOMAIN events
  PROVE  \E x : Places(i) = {x}
<1>1. OnceOK(i) BY DEF HostIInv, OnceInv
<1>2. \A p \in Moving : FilesOK(p) /\ p \in Plugins BY DEF HostIInv, WriterInv, Moving
<1>3. \A p \in Moving : \A k \in DOMAIN files[p] : k \in 1..(MaxFiles + 1)
  <2> SUFFICES ASSUME NEW p \in Moving, NEW k \in DOMAIN files[p] PROVE k \in 1..(MaxFiles + 1) OBVIOUS
  <2>1. IsSeq(files[p]) /\ Len(files[p]) <= MaxFiles + 1 BY <1>2 DEF FilesOK
  <2>2. Len(files[p]) \in Nat /\ DOMAIN files[p] = 1..Len(files[p]) BY <2>1, AppendForm
  <2> QED BY <2>1, <2>2, HostAssumption
<1> DEFINE D == IF i \in sortedEvents \cup unsortedEvents THEN {<<"database">>} ELSE {}
           P == {<<"pass", p>> : p \in {q \in Moving : i \in pass[q].held \cup pass[q].file.lines}}
           F == {f \in Moving \X (1..(MaxFiles + 1)) :
                   f[2] \in DOMAIN files[f[1]] /\ i \in files[f[1]][f[2]].lines}
<1>4. Places(i) = D \cup P \cup F BY DEF Places
<1>5. D = IF InDb(i) THEN {<<"database">>} ELSE {} BY DEF InDb
<1>6. \A x : x \in P <=> \E p \in Moving : x = <<"pass", p>> /\ InPass(p, i) BY DEF InPass
<1>7. \A x : x \in F <=> \E p \in Moving : \E k \in DOMAIN files[p] :
                            x = <<p, k>> /\ i \in files[p][k].lines
  <2>1. ASSUME NEW x \in F PROVE \E p \in Moving : \E k \in DOMAIN files[p] :
                                   x = <<p, k>> /\ i \in files[p][k].lines
    <3>1. x \in Moving \X (1..(MaxFiles + 1)) BY <2>1
    <3>2. x[1] \in Moving /\ x = <<x[1], x[2]>> BY <3>1
    <3> QED BY <2>1, <3>2
  <2>2. ASSUME NEW p \in Moving, NEW k \in DOMAIN files[p], i \in files[p][k].lines
        PROVE  <<p, k>> \in F
    <3>1. k \in 1..(MaxFiles + 1) BY <1>3
    <3> QED BY <2>2, <3>1
  <2> QED BY <2>1, <2>2
<1> HIDE DEF D, P, F
<1>8. CASE InDb(i)
  <2>1. \A p \in Moving : ~InPass(p, i) /\ ~InFile(p, i) BY <1>1, <1>8 DEF OnceOK
  <2>2. D = {<<"database">>} /\ P = {} BY <1>5, <1>6, <1>8, <2>1
  <2>3. F = {} BY <1>7, <2>1 DEF InFile
  <2>4. Places(i) = {<<"database">>} BY <1>4, <2>2, <2>3
  <2> QED BY <2>4
<1>9. ASSUME ~InDb(i), NEW p \in Moving, InPass(p, i) PROVE \E x : Places(i) = {x}
  <2>1. \A q \in Moving : ~InFile(q, i) /\ (InPass(q, i) => p = q) BY <1>1, <1>9 DEF OnceOK
  <2>2. D = {} BY <1>5, <1>9
  <2>3. P = {<<"pass", p>>} BY <1>6, <1>9, <2>1
  <2>4. F = {} BY <1>7, <2>1 DEF InFile
  <2>5. Places(i) = {<<"pass", p>>} BY <1>4, <2>2, <2>3, <2>4
  <2> QED BY <2>5
<1>10. ASSUME ~InDb(i), NEW p \in Moving, InFile(p, i) PROVE \E x : Places(i) = {x}
  <2>1. \A q \in Moving : ~InPass(q, i) /\ (InFile(q, i) => p = q) BY <1>1, <1>10 DEF OnceOK
  <2>2. D = {} /\ P = {} BY <1>5, <1>6, <1>10, <2>1
  <2>3. PICK k \in DOMAIN files[p] : i \in files[p][k].lines BY <1>10 DEF InFile
  <2>4. \A m \in DOMAIN files[p] : i \in files[p][m].lines => m = k BY <1>1, <2>3 DEF OnceOK
  <2>5. <<p, k>> \in F BY <1>7, <2>3
  <2>6. ASSUME NEW x \in F PROVE x = <<p, k>>
    <3>1. PICK q \in Moving : \E m \in DOMAIN files[q] : x = <<q, m>> /\ i \in files[q][m].lines
      BY <1>7, <2>6
    <3>2. q = p BY <2>1, <3>1 DEF InFile
    <3> QED BY <2>4, <3>1, <3>2
  <2>7. F = {<<p, k>>} BY <2>5, <2>6
  <2>8. Places(i) = {<<p, k>>} BY <1>4, <2>2, <2>7
  <2> QED BY <2>8
<1> QED BY <1>1, <1>8, <1>9, <1>10 DEF OnceOK

\* What passes two filters, and which: only those of OpenCL and HAL meet.
LEMMA FiltersMeet ==
  /\ \A p, q \in Plugins : p # q /\ p \notin {"opencl", "hal"} => Takes[p] \cap Takes[q] = {}
  /\ Takes["opencl"] \cap Takes["hal"] = Transfers
<1>1. /\ Takes["opencl"] = isOpenCLHostEvent /\ Takes["lop"] = LOPEvents /\ Takes["hal"] = HALEvents
      /\ Takes["native"] = NativeEvents /\ Takes["user"] = UserEvents
  BY DEF Takes
<1>2. Takes["opencl"] \cap Takes["hal"] = Transfers BY <1>1 DEF Transfers
<1>3. \A q \in Plugins : q # "lop" => Takes["lop"] \cap Takes[q] = {}
  BY <1>1 DEF Plugins, isOpenCLHostEvent, LOPEvents, HALEvents, NativeEvents, UserEvents
<1>4. \A q \in Plugins : q # "native" => Takes["native"] \cap Takes[q] = {}
  BY <1>1 DEF Plugins, isOpenCLHostEvent, LOPEvents, HALEvents, NativeEvents, UserEvents
<1>5. \A q \in Plugins : q # "user" => Takes["user"] \cap Takes[q] = {}
  BY <1>1 DEF Plugins, isOpenCLHostEvent, LOPEvents, HALEvents, NativeEvents, UserEvents
<1> QED BY <1>2, <1>3, <1>4, <1>5 DEF Plugins

\* The plugin that recorded an event takes events of its kind.
LEMMA HomeTakes ==
  ASSUME HostIInv, NEW i \in DOMAIN events
  PROVE  Home(i) \in Plugins /\ Home(i) \in use.plugins /\ events[i].kind \in Takes[Home(i)]
<1>1. PICK c \in 1..Len(calls) : c = events[i].call /\ events[i].kind \in Takes[PluginOf(c)]
  BY DEF HostIInv, NameInv, EventOK
<1>2. Home(i) = PluginOf(c) BY <1>1 DEF Home, PluginOf
<1>3. PluginOf(c) \in use.plugins BY DEF HostIInv, NameInv
<1>4. PluginOf(c) \in Plugins
  <2>1. calls[c] \in CallRec BY DEF HostIInv, CbInv
  <2>2. calls[c].api \in APIs BY <2>1 DEF CallRec
  <2> QED BY <2>2, Programs DEF PluginOf, ProgramOK
<1> QED BY <1>1, <1>2, <1>3, <1>4

\* A file that lists an event is one of its own plugin, but for transfers.
LEMMA ListedWhere ==
  ASSUME HostIInv, NEW i \in DOMAIN events, NEW p \in Plugins, InFile(p, i), p # Home(i)
  PROVE  /\ events[i].kind \in Transfers /\ p \in {"opencl", "hal"} /\ Home(i) \in {"opencl", "hal"}
<1>1. PICK h \in Plugins : h = Home(i) /\ events[i].kind \in Takes[h] BY HomeTakes
<1>2. events[i].kind \in Takes[p] BY DEF HostIInv, ListInv, KindsOK
<1>3. p \in {"opencl", "hal"} /\ h \in {"opencl", "hal"} BY <1>1, <1>2, FiltersMeet
<1>4. events[i].kind \in Takes["opencl"] \cap Takes["hal"] BY <1>1, <1>2, <1>3
<1> QED BY <1>1, <1>3, <1>4, FiltersMeet

\* The files of a plugin list an event once.
LEMMA ListsOnce ==
  ASSUME HostIInv
  PROVE  ListedOnce
<1> SUFFICES ASSUME NEW i \in DOMAIN events, NEW p \in Plugins
             PROVE  /\ \A j, k \in Listed(p, i) : j = k
                    /\ Listed(p, i) # {} =>
                         p = Home(i) \/ (events[i].kind \in Transfers /\ p \in {"opencl", "hal"})
  BY DEF ListedOnce
<1>1. \A k : k \in Listed(p, i) <=> k \in DOMAIN files[p] /\ i \in files[p][k].lines BY DEF Listed
<1>2. CASE p \in Moving
  <2>1. OnceOK(i) BY DEF HostIInv, OnceInv
  <2> QED BY <1>1, <1>2, <2>1, ListedWhere DEF OnceOK, InFile
<1>3. CASE p \in Copying
  <2>1. SoleOK(p) BY DEF HostIInv, ListInv
  <2> QED BY <1>1, <1>3, <2>1, ListedWhere DEF SoleOK, InFile
<1> QED BY <1>2, <1>3 DEF Moving

\* When the plugins are gone, every event is in a file of its own plugin, or
\* is a transfer of HAL that OpenCL took.
LEMMA AllWritten ==
  ASSUME HostIInv, loaded = {}, NEW i \in DOMAIN events
  PROVE  \/ Listed(Home(i), i) # {}
         \/ Home(i) = "hal" /\ events[i].kind \in Transfers /\ Listed("opencl", i) # {}
<1>1. PICK h \in Plugins : h = Home(i) /\ h \in use.plugins /\ events[i].kind \in Takes[h] BY HomeTakes
<1>2. \A p : InFile(p, i) <=> Listed(p, i) # {} BY DEF InFile, Listed
<1>3. \A q \in Plugins : ~InPass(q, i)
  <2> SUFFICES ASSUME NEW q \in Plugins PROVE ~InPass(q, i) OBVIOUS
  <2>1. PassOK(q) BY DEF HostIInv, WriterInv
  <2>2. pass[q].at = "wait" BY <2>1 DEF PassOK
  <2> QED BY <2>1, <2>2 DEF PassOK, InPass
<1>4. DoneOK(h) /\ Done(h) BY <1>1 DEF HostIInv, DoneInv, Done
<1>5. CASE InDb(i)
  <2>1. InFile(h, i) BY <1>1, <1>3, <1>4, <1>5 DEF DoneOK
  <2> QED BY <1>1, <1>2, <2>1
<1>6. CASE ~InDb(i)
  <2>1. OnceOK(i) BY DEF HostIInv, OnceInv
  <2>2. PICK q \in Moving : InFile(q, i) BY <1>3, <1>6, <2>1 DEF OnceOK, Moving
  <2>3. q \in Plugins /\ q # "hal" BY DEF Moving, Copying
  <2>4. CASE q = h BY <1>1, <1>2, <2>2, <2>4
  <2>5. CASE q # h
    <3>1. events[i].kind \in Transfers /\ q \in {"opencl", "hal"} /\ h \in {"opencl", "hal"}
      BY <1>1, <2>2, <2>3, <2>5, ListedWhere
    <3>2. q = "opencl" /\ h = "hal" BY <2>3, <2>5, <3>1
    <3> QED BY <1>1, <1>2, <2>2, <3>1, <3>2
  <2> QED BY <2>4, <2>5
<1> QED BY <1>5, <1>6

\* No host event is lost, deleted by two writers or listed twice by one plugin.
\* It has one owner; when all plugins are gone the plugin that recorded it lists
\* it, unless OpenCL has taken a transfer of HAL; and only OpenCL and HAL list
\* transfers of each other.
THEOREM HostEventsWritten == Spec => []HostWritten
<1>1. HostIInv => HostOnce
  <2> SUFFICES ASSUME HostIInv, NEW i \in DOMAIN events PROVE Cardinality(Places(i)) = 1 BY DEF HostOnce
  <2>1. PICK x : Places(i) = {x} BY OnePlace
  <2>2. Cardinality({x}) = 1 BY FS_Singleton
  <2> QED BY <2>1, <2>2
<1>2. HostIInv => ExitWritesAll BY AllWritten DEF ExitWritesAll
<1>3. HostIInv => HostWritten BY <1>1, <1>2, ListsOnce DEF HostWritten
<1> QED BY <1>3, HostInvariance, PTL

-----------------------------------------------------------------------------
(* Starts and ends: what the programs register and look up                 *)

\* the kind of event that an API adds first
MainKind ==
  [clCall |-> "clAPI", clRead |-> "clTransfer", clWrite |-> "clTransfer", migrated |-> "clTransfer",
   clCopy |-> "clCopy", clKernel |-> "clEnqueue", lopCall |-> "lopAPI", lopRead |-> "lop",
   lopWrite |-> "lop", lopKernel |-> "lop", halCall |-> "halAPI", halWrite |-> "halAPI",
   halRead |-> "halAPI", native |-> "native", sync |-> "native", userRange |-> "user",
   userMark |-> "user", userTime |-> "user"]

\* the kind of event that is registered under a key
KindAt(api, key) == IF key = "buffer" THEN "halTransfer" ELSE MainKind[api]

HasMark(ops, b, k) == \E j \in DOMAIN ops : ops[j].op = "mark" /\ ops[j].table = b /\ ops[j].key = k
HasLook(ops, b, k) == \E j \in DOMAIN ops : ops[j].op = "look" /\ ops[j].table = b /\ ops[j].key = k

\* the keys that the tables are for; only commands have an id in their series
Legal(api, b, k) ==
  \/ b = "event" /\ k \in {"fn", "buffer"}
  \/ b = "pair" /\ k = "fn"
  \/ API[api].command /\ ((b = "uid" /\ k = "ev") \/ (b = "event" /\ k = "lop"))

\* an event is registered right after it was added
MarksFollow(api, ops) ==
  \A j \in DOMAIN ops : j > 1 /\ ops[j].op = "mark" =>
    ops[j - 1].op = "add" /\ ops[j - 1].kind = KindAt(api, ops[j].key)

PairAt(ops, j) == ops[j].op = "mark" /\ ops[j].table = "pair"

\* the name and both events of a pair come before it is registered
PairShape(ops) ==
  \A j \in DOMAIN ops : PairAt(ops, j) =>
    j <= 4 /\ \A m \in 1..(j - 1) : ops[m].op = IF j = 4 /\ m = 1 THEN "name" ELSE "add"

\* nothing is looked up from after i to before j
NoLookBetween(ops, i, j) == \A m \in (i + 1)..(j - 1) : ops[m].op # "look"

\* an event takes the start that was looked up for its kind; a pair gives two
LooksRight(api, ops) ==
  \A i, j \in DOMAIN ops :
    i < j /\ ops[i].op = "look" /\ ops[j].op = "add" /\ NoLookBetween(ops, i, j) =>
      /\ ops[j].kind = KindAt(api, ops[i].key)
      /\ ops[i].table # "pair" => \A m \in (i + 1)..(j - 1) : ops[m].op # "add"

LookOnce(ops) ==
  \A i, j \in DOMAIN ops : ops[i].op = "look" /\ ops[j].op = "look" /\ ops[i].key = ops[j].key => i = j

TwoAdds(ops) ==
  \A i, j, m \in DOMAIN ops : i < j /\ j < m => ~(ops[i].op = "add" /\ ops[j].op = "add" /\ ops[m].op = "add")

LookFirst(ops) == \A j \in DOMAIN ops : ops[j].op = "add" => \E i \in 1..(j - 1) : ops[i].op = "look"

\* what is left of a callback at the start of an API
StartMarks(api, ops) ==
  MarksFollow(api, ops) /\ PairShape(ops) /\ ~Has(ops, "look")

\* and at its end
EndLooks(api, ops) ==
  /\ LooksRight(api, ops) /\ LookOnce(ops) /\ TwoAdds(ops) /\ ~Has(ops, "mark")
  /\ \A b \in Tables, k \in Keys : HasLook(ops, b, k) => Legal(api, b, k)

\* what the whole programs do
MarkingOK(api) ==
  LET start == API[api].start
      end == API[api].end
  IN
  /\ StartMarks(api, start) /\ EndLooks(api, end) /\ LookFirst(end)
  /\ \A j \in DOMAIN start : ~(j = 1 /\ start[j].op = "mark") /\ (PairAt(start, j) => j = 4 /\ api = "sync")
  /\ \A b \in Tables, k \in Keys : HasMark(start, b, k) => Legal(api, b, k)
  /\ start # NoCallback =>
       \A b \in Tables, k \in Keys : HasLook(end, b, k) => HasMark(start, b, k)


\* Every program registers a start right after it has added it, under a key of its
\* kind, and an end looks up the starts that its events need, each before it.
LEMMA Marking == \A a \in APIs : MarkingOK(a)
<1>n. /\ Name.op = "name" /\ MapCommand.op = "map" /\ CallStart.op = "callStart"
      /\ CallEnd.op = "callEnd" /\ QuitUnstarted.op = "quit"
      /\ (\A k : Add(k).op = "add" /\ Add(k).kind = k)
      /\ \A b, k : /\ Mark(b, k).op = "mark" /\ Mark(b, k).table = b /\ Mark(b, k).key = k
                   /\ Look(b, k).op = "look" /\ Look(b, k).table = b /\ Look(b, k).key = k
  BY DEF Name, MapCommand, CallStart, CallEnd, QuitUnstarted, Add, Mark, Look
<1>1. MarkingOK("clCall")
  <2>1. PICK s : s = <<Name, Add("clAPI"), Mark("event", "fn")>> OBVIOUS
  <2>2. PICK e : e = <<Look("event", "fn"), Name, Add("clAPI")>> OBVIOUS
  <2>3. API["clCall"].start = s /\ API["clCall"].end = e BY <2>1, <2>2, APIPrograms
  <2>4. ~API["clCall"].command BY APIFields
  <2>5. StartMarks("clCall", s)
    BY <1>n, <2>1 DEF StartMarks, MarksFollow, PairShape, PairAt, Has, KindAt, MainKind
  <2>6. EndLooks("clCall", e)
    <3>1. LooksRight("clCall", e)
      BY <1>n, <2>2 DEF LooksRight, NoLookBetween, KindAt, MainKind
    <3>2. LookOnce(e) /\ TwoAdds(e) /\ ~Has(e, "mark") BY <1>n, <2>2 DEF LookOnce, TwoAdds, Has
    <3>3. \A b \in Tables, k \in Keys : HasLook(e, b, k) => Legal("clCall", b, k)
      BY <1>n, <2>2, <2>4 DEF HasLook, Legal
    <3> QED BY <3>1, <3>2, <3>3 DEF EndLooks
  <2>7. LookFirst(e) BY <1>n, <2>2 DEF LookFirst
  <2>8. \A j \in DOMAIN s : ~(j = 1 /\ s[j].op = "mark") /\ (PairAt(s, j) => j = 4 /\ "clCall" = "sync")
    BY <1>n, <2>1 DEF PairAt
  <2>9. \A b \in Tables, k \in Keys : HasMark(s, b, k) => Legal("clCall", b, k)
    BY <1>n, <2>1, <2>4 DEF HasMark, Legal
  <2>10. s # NoCallback => \A b \in Tables, k \in Keys : HasLook(e, b, k) => HasMark(s, b, k)
    BY <1>n, <2>1, <2>2 DEF HasLook, HasMark, NoCallback
  <2> QED BY <2>3, <2>5, <2>6, <2>7, <2>8, <2>9, <2>10 DEF MarkingOK
<1>2. MarkingOK("clRead")
  <2>1. PICK s : s = <<Name, Add("clTransfer"), Mark("uid", "ev")>> OBVIOUS
  <2>2. PICK e : e = <<Look("uid", "ev"), Name, Add("clTransfer"), MapCommand>> OBVIOUS
  <2>3. API["clRead"].start = s /\ API["clRead"].end = e BY <2>1, <2>2, APIPrograms
  <2>4. API["clRead"].command BY APIFields
  <2>5. StartMarks("clRead", s)
    BY <1>n, <2>1 DEF StartMarks, MarksFollow, PairShape, PairAt, Has, KindAt, MainKind
  <2>6. EndLooks("clRead", e)
    <3>1. LooksRight("clRead", e)
      BY <1>n, <2>2 DEF LooksRight, NoLookBetween, KindAt, MainKind
    <3>2. LookOnce(e) /\ TwoAdds(e) /\ ~Has(e, "mark") BY <1>n, <2>2 DEF LookOnce, TwoAdds, Has
    <3>3. \A b \in Tables, k \in Keys : HasLook(e, b, k) => Legal("clRead", b, k)
      BY <1>n, <2>2, <2>4 DEF HasLook, Legal
    <3> QED BY <3>1, <3>2, <3>3 DEF EndLooks
  <2>7. LookFirst(e) BY <1>n, <2>2 DEF LookFirst
  <2>8. \A j \in DOMAIN s : ~(j = 1 /\ s[j].op = "mark") /\ (PairAt(s, j) => j = 4 /\ "clRead" = "sync")
    BY <1>n, <2>1 DEF PairAt
  <2>9. \A b \in Tables, k \in Keys : HasMark(s, b, k) => Legal("clRead", b, k)
    BY <1>n, <2>1, <2>4 DEF HasMark, Legal
  <2>10. s # NoCallback => \A b \in Tables, k \in Keys : HasLook(e, b, k) => HasMark(s, b, k)
    BY <1>n, <2>1, <2>2 DEF HasLook, HasMark, NoCallback
  <2> QED BY <2>3, <2>5, <2>6, <2>7, <2>8, <2>9, <2>10 DEF MarkingOK
<1>3. MarkingOK("clWrite")
  <2>1. PICK s : s = <<Name, Add("clTransfer"), Mark("uid", "ev")>> OBVIOUS
  <2>2. PICK e : e = <<Look("uid", "ev"), QuitUnstarted, Name, Add("clTransfer"), MapCommand>> OBVIOUS
  <2>3. API["clWrite"].start = s /\ API["clWrite"].end = e BY <2>1, <2>2, APIPrograms
  <2>4. API["clWrite"].command BY APIFields
  <2>5. StartMarks("clWrite", s)
    BY <1>n, <2>1 DEF StartMarks, MarksFollow, PairShape, PairAt, Has, KindAt, MainKind
  <2>6. EndLooks("clWrite", e)
    <3>1. LooksRight("clWrite", e)
      BY <1>n, <2>2 DEF LooksRight, NoLookBetween, KindAt, MainKind
    <3>2. LookOnce(e) /\ TwoAdds(e) /\ ~Has(e, "mark") BY <1>n, <2>2 DEF LookOnce, TwoAdds, Has
    <3>3. \A b \in Tables, k \in Keys : HasLook(e, b, k) => Legal("clWrite", b, k)
      BY <1>n, <2>2, <2>4 DEF HasLook, Legal
    <3> QED BY <3>1, <3>2, <3>3 DEF EndLooks
  <2>7. LookFirst(e) BY <1>n, <2>2 DEF LookFirst
  <2>8. \A j \in DOMAIN s : ~(j = 1 /\ s[j].op = "mark") /\ (PairAt(s, j) => j = 4 /\ "clWrite" = "sync")
    BY <1>n, <2>1 DEF PairAt
  <2>9. \A b \in Tables, k \in Keys : HasMark(s, b, k) => Legal("clWrite", b, k)
    BY <1>n, <2>1, <2>4 DEF HasMark, Legal
  <2>10. s # NoCallback => \A b \in Tables, k \in Keys : HasLook(e, b, k) => HasMark(s, b, k)
    BY <1>n, <2>1, <2>2 DEF HasLook, HasMark, NoCallback
  <2> QED BY <2>3, <2>5, <2>6, <2>7, <2>8, <2>9, <2>10 DEF MarkingOK
<1>4. MarkingOK("migrated")
  <2>1. PICK s : s = <<>> OBVIOUS
  <2>2. PICK e : e = <<Look("uid", "ev"), QuitUnstarted, Name, Add("clTransfer"), MapCommand>> OBVIOUS
  <2>3. API["migrated"].start = s /\ API["migrated"].end = e BY <2>1, <2>2, APIPrograms
  <2>4. API["migrated"].command BY APIFields
  <2>5. StartMarks("migrated", s)
    BY <1>n, <2>1 DEF StartMarks, MarksFollow, PairShape, PairAt, Has, KindAt, MainKind
  <2>6. EndLooks("migrated", e)
    <3>1. LooksRight("migrated", e)
      BY <1>n, <2>2 DEF LooksRight, NoLookBetween, KindAt, MainKind
    <3>2. LookOnce(e) /\ TwoAdds(e) /\ ~Has(e, "mark") BY <1>n, <2>2 DEF LookOnce, TwoAdds, Has
    <3>3. \A b \in Tables, k \in Keys : HasLook(e, b, k) => Legal("migrated", b, k)
      BY <1>n, <2>2, <2>4 DEF HasLook, Legal
    <3> QED BY <3>1, <3>2, <3>3 DEF EndLooks
  <2>7. LookFirst(e) BY <1>n, <2>2 DEF LookFirst
  <2>8. \A j \in DOMAIN s : ~(j = 1 /\ s[j].op = "mark") /\ (PairAt(s, j) => j = 4 /\ "migrated" = "sync")
    BY <1>n, <2>1 DEF PairAt
  <2>9. \A b \in Tables, k \in Keys : HasMark(s, b, k) => Legal("migrated", b, k)
    BY <1>n, <2>1, <2>4 DEF HasMark, Legal
  <2>10. s # NoCallback => \A b \in Tables, k \in Keys : HasLook(e, b, k) => HasMark(s, b, k)
    BY <1>n, <2>1, <2>2 DEF HasLook, HasMark, NoCallback
  <2> QED BY <2>3, <2>5, <2>6, <2>7, <2>8, <2>9, <2>10 DEF MarkingOK
<1>5. MarkingOK("clCopy")
  <2>1. PICK s : s = <<Name, Add("clCopy"), Mark("uid", "ev")>> OBVIOUS
  <2>2. PICK e : e = <<Look("uid", "ev"), Name, Add("clCopy"), MapCommand>> OBVIOUS
  <2>3. API["clCopy"].start = s /\ API["clCopy"].end = e BY <2>1, <2>2, APIPrograms
  <2>4. API["clCopy"].command BY APIFields
  <2>5. StartMarks("clCopy", s)
    BY <1>n, <2>1 DEF StartMarks, MarksFollow, PairShape, PairAt, Has, KindAt, MainKind
  <2>6. EndLooks("clCopy", e)
    <3>1. LooksRight("clCopy", e)
      BY <1>n, <2>2 DEF LooksRight, NoLookBetween, KindAt, MainKind
    <3>2. LookOnce(e) /\ TwoAdds(e) /\ ~Has(e, "mark") BY <1>n, <2>2 DEF LookOnce, TwoAdds, Has
    <3>3. \A b \in Tables, k \in Keys : HasLook(e, b, k) => Legal("clCopy", b, k)
      BY <1>n, <2>2, <2>4 DEF HasLook, Legal
    <3> QED BY <3>1, <3>2, <3>3 DEF EndLooks
  <2>7. LookFirst(e) BY <1>n, <2>2 DEF LookFirst
  <2>8. \A j \in DOMAIN s : ~(j = 1 /\ s[j].op = "mark") /\ (PairAt(s, j) => j = 4 /\ "clCopy" = "sync")
    BY <1>n, <2>1 DEF PairAt
  <2>9. \A b \in Tables, k \in Keys : HasMark(s, b, k) => Legal("clCopy", b, k)
    BY <1>n, <2>1, <2>4 DEF HasMark, Legal
  <2>10. s # NoCallback => \A b \in Tables, k \in Keys : HasLook(e, b, k) => HasMark(s, b, k)
    BY <1>n, <2>1, <2>2 DEF HasLook, HasMark, NoCallback
  <2> QED BY <2>3, <2>5, <2>6, <2>7, <2>8, <2>9, <2>10 DEF MarkingOK
<1>6. MarkingOK("clKernel")
  <2>1. PICK s : s = <<Name, Add("clEnqueue"), Mark("uid", "ev")>> OBVIOUS
  <2>2. PICK e : e = <<Look("uid", "ev"), Name, Add("clEnqueue"), MapCommand>> OBVIOUS
  <2>3. API["clKernel"].start = s /\ API["clKernel"].end = e BY <2>1, <2>2, APIPrograms
  <2>4. API["clKernel"].command BY APIFields
  <2>5. StartMarks("clKernel", s)
    BY <1>n, <2>1 DEF StartMarks, MarksFollow, PairShape, PairAt, Has, KindAt, MainKind
  <2>6. EndLooks("clKernel", e)
    <3>1. LooksRight("clKernel", e)
      BY <1>n, <2>2 DEF LooksRight, NoLookBetween, KindAt, MainKind
    <3>2. LookOnce(e) /\ TwoAdds(e) /\ ~Has(e, "mark") BY <1>n, <2>2 DEF LookOnce, TwoAdds, Has
    <3>3. \A b \in Tables, k \in Keys : HasLook(e, b, k) => Legal("clKernel", b, k)
      BY <1>n, <2>2, <2>4 DEF HasLook, Legal
    <3> QED BY <3>1, <3>2, <3>3 DEF EndLooks
  <2>7. LookFirst(e) BY <1>n, <2>2 DEF LookFirst
  <2>8. \A j \in DOMAIN s : ~(j = 1 /\ s[j].op = "mark") /\ (PairAt(s, j) => j = 4 /\ "clKernel" = "sync")
    BY <1>n, <2>1 DEF PairAt
  <2>9. \A b \in Tables, k \in Keys : HasMark(s, b, k) => Legal("clKernel", b, k)
    BY <1>n, <2>1, <2>4 DEF HasMark, Legal
  <2>10. s # NoCallback => \A b \in Tables, k \in Keys : HasLook(e, b, k) => HasMark(s, b, k)
    BY <1>n, <2>1, <2>2 DEF HasLook, HasMark, NoCallback
  <2> QED BY <2>3, <2>5, <2>6, <2>7, <2>8, <2>9, <2>10 DEF MarkingOK
<1>7. MarkingOK("lopCall")
  <2>1. PICK s : s = <<Name, Add("lopAPI"), Mark("event", "fn")>> OBVIOUS
  <2>2. PICK e : e = <<Look("event", "fn"), Name, Add("lopAPI")>> OBVIOUS
  <2>3. API["lopCall"].start = s /\ API["lopCall"].end = e BY <2>1, <2>2, APIPrograms
  <2>4. ~API["lopCall"].command BY APIFields
  <2>5. StartMarks("lopCall", s)
    BY <1>n, <2>1 DEF StartMarks, MarksFollow, PairShape, PairAt, Has, KindAt, MainKind
  <2>6. EndLooks("lopCall", e)
    <3>1. LooksRight("lopCall", e)
      BY <1>n, <2>2 DEF LooksRight, NoLookBetween, KindAt, MainKind
    <3>2. LookOnce(e) /\ TwoAdds(e) /\ ~Has(e, "mark") BY <1>n, <2>2 DEF LookOnce, TwoAdds, Has
    <3>3. \A b \in Tables, k \in Keys : HasLook(e, b, k) => Legal("lopCall", b, k)
      BY <1>n, <2>2, <2>4 DEF HasLook, Legal
    <3> QED BY <3>1, <3>2, <3>3 DEF EndLooks
  <2>7. LookFirst(e) BY <1>n, <2>2 DEF LookFirst
  <2>8. \A j \in DOMAIN s : ~(j = 1 /\ s[j].op = "mark") /\ (PairAt(s, j) => j = 4 /\ "lopCall" = "sync")
    BY <1>n, <2>1 DEF PairAt
  <2>9. \A b \in Tables, k \in Keys : HasMark(s, b, k) => Legal("lopCall", b, k)
    BY <1>n, <2>1, <2>4 DEF HasMark, Legal
  <2>10. s # NoCallback => \A b \in Tables, k \in Keys : HasLook(e, b, k) => HasMark(s, b, k)
    BY <1>n, <2>1, <2>2 DEF HasLook, HasMark, NoCallback
  <2> QED BY <2>3, <2>5, <2>6, <2>7, <2>8, <2>9, <2>10 DEF MarkingOK
<1>8. MarkingOK("lopRead")
  <2>1. PICK s : s = <<Add("lop"), Mark("event", "lop")>> OBVIOUS
  <2>2. PICK e : e = <<Look("event", "lop"), Add("lop")>> OBVIOUS
  <2>3. API["lopRead"].start = s /\ API["lopRead"].end = e BY <2>1, <2>2, APIPrograms
  <2>4. API["lopRead"].command BY APIFields
  <2>5. StartMarks("lopRead", s)
    BY <1>n, <2>1 DEF StartMarks, MarksFollow, PairShape, PairAt, Has, KindAt, MainKind
  <2>6. EndLooks("lopRead", e)
    <3>1. LooksRight("lopRead", e)
      BY <1>n, <2>2 DEF LooksRight, NoLookBetween, KindAt, MainKind
    <3>2. LookOnce(e) /\ TwoAdds(e) /\ ~Has(e, "mark") BY <1>n, <2>2 DEF LookOnce, TwoAdds, Has
    <3>3. \A b \in Tables, k \in Keys : HasLook(e, b, k) => Legal("lopRead", b, k)
      BY <1>n, <2>2, <2>4 DEF HasLook, Legal
    <3> QED BY <3>1, <3>2, <3>3 DEF EndLooks
  <2>7. LookFirst(e) BY <1>n, <2>2 DEF LookFirst
  <2>8. \A j \in DOMAIN s : ~(j = 1 /\ s[j].op = "mark") /\ (PairAt(s, j) => j = 4 /\ "lopRead" = "sync")
    BY <1>n, <2>1 DEF PairAt
  <2>9. \A b \in Tables, k \in Keys : HasMark(s, b, k) => Legal("lopRead", b, k)
    BY <1>n, <2>1, <2>4 DEF HasMark, Legal
  <2>10. s # NoCallback => \A b \in Tables, k \in Keys : HasLook(e, b, k) => HasMark(s, b, k)
    BY <1>n, <2>1, <2>2 DEF HasLook, HasMark, NoCallback
  <2> QED BY <2>3, <2>5, <2>6, <2>7, <2>8, <2>9, <2>10 DEF MarkingOK
<1>9. MarkingOK("lopWrite")
  <2>1. PICK s : s = <<Add("lop"), Mark("event", "lop")>> OBVIOUS
  <2>2. PICK e : e = <<Look("event", "lop"), Add("lop")>> OBVIOUS
  <2>3. API["lopWrite"].start = s /\ API["lopWrite"].end = e BY <2>1, <2>2, APIPrograms
  <2>4. API["lopWrite"].command BY APIFields
  <2>5. StartMarks("lopWrite", s)
    BY <1>n, <2>1 DEF StartMarks, MarksFollow, PairShape, PairAt, Has, KindAt, MainKind
  <2>6. EndLooks("lopWrite", e)
    <3>1. LooksRight("lopWrite", e)
      BY <1>n, <2>2 DEF LooksRight, NoLookBetween, KindAt, MainKind
    <3>2. LookOnce(e) /\ TwoAdds(e) /\ ~Has(e, "mark") BY <1>n, <2>2 DEF LookOnce, TwoAdds, Has
    <3>3. \A b \in Tables, k \in Keys : HasLook(e, b, k) => Legal("lopWrite", b, k)
      BY <1>n, <2>2, <2>4 DEF HasLook, Legal
    <3> QED BY <3>1, <3>2, <3>3 DEF EndLooks
  <2>7. LookFirst(e) BY <1>n, <2>2 DEF LookFirst
  <2>8. \A j \in DOMAIN s : ~(j = 1 /\ s[j].op = "mark") /\ (PairAt(s, j) => j = 4 /\ "lopWrite" = "sync")
    BY <1>n, <2>1 DEF PairAt
  <2>9. \A b \in Tables, k \in Keys : HasMark(s, b, k) => Legal("lopWrite", b, k)
    BY <1>n, <2>1, <2>4 DEF HasMark, Legal
  <2>10. s # NoCallback => \A b \in Tables, k \in Keys : HasLook(e, b, k) => HasMark(s, b, k)
    BY <1>n, <2>1, <2>2 DEF HasLook, HasMark, NoCallback
  <2> QED BY <2>3, <2>5, <2>6, <2>7, <2>8, <2>9, <2>10 DEF MarkingOK
<1>10. MarkingOK("lopKernel")
  <2>1. PICK s : s = <<Add("lop"), Mark("event", "lop")>> OBVIOUS
  <2>2. PICK e : e = <<Look("event", "lop"), Add("lop")>> OBVIOUS
  <2>3. API["lopKernel"].start = s /\ API["lopKernel"].end = e BY <2>1, <2>2, APIPrograms
  <2>4. API["lopKernel"].command BY APIFields
  <2>5. StartMarks("lopKernel", s)
    BY <1>n, <2>1 DEF StartMarks, MarksFollow, PairShape, PairAt, Has, KindAt, MainKind
  <2>6. EndLooks("lopKernel", e)
    <3>1. LooksRight("lopKernel", e)
      BY <1>n, <2>2 DEF LooksRight, NoLookBetween, KindAt, MainKind
    <3>2. LookOnce(e) /\ TwoAdds(e) /\ ~Has(e, "mark") BY <1>n, <2>2 DEF LookOnce, TwoAdds, Has
    <3>3. \A b \in Tables, k \in Keys : HasLook(e, b, k) => Legal("lopKernel", b, k)
      BY <1>n, <2>2, <2>4 DEF HasLook, Legal
    <3> QED BY <3>1, <3>2, <3>3 DEF EndLooks
  <2>7. LookFirst(e) BY <1>n, <2>2 DEF LookFirst
  <2>8. \A j \in DOMAIN s : ~(j = 1 /\ s[j].op = "mark") /\ (PairAt(s, j) => j = 4 /\ "lopKernel" = "sync")
    BY <1>n, <2>1 DEF PairAt
  <2>9. \A b \in Tables, k \in Keys : HasMark(s, b, k) => Legal("lopKernel", b, k)
    BY <1>n, <2>1, <2>4 DEF HasMark, Legal
  <2>10. s # NoCallback => \A b \in Tables, k \in Keys : HasLook(e, b, k) => HasMark(s, b, k)
    BY <1>n, <2>1, <2>2 DEF HasLook, HasMark, NoCallback
  <2> QED BY <2>3, <2>5, <2>6, <2>7, <2>8, <2>9, <2>10 DEF MarkingOK
<1>11. MarkingOK("halCall")
  <2>1. PICK s : s = <<CallStart, Name, Add("halAPI"), Mark("event", "fn")>> OBVIOUS
  <2>2. PICK e : e = <<CallEnd, Look("event", "fn"), Name, Add("halAPI")>> OBVIOUS
  <2>3. API["halCall"].start = s /\ API["halCall"].end = e BY <2>1, <2>2, APIPrograms
  <2>4. ~API["halCall"].command BY APIFields
  <2>5. StartMarks("halCall", s)
    BY <1>n, <2>1 DEF StartMarks, MarksFollow, PairShape, PairAt, Has, KindAt, MainKind
  <2>6. EndLooks("halCall", e)
    <3>1. LooksRight("halCall", e)
      BY <1>n, <2>2 DEF LooksRight, NoLookBetween, KindAt, MainKind
    <3>2. LookOnce(e) /\ TwoAdds(e) /\ ~Has(e, "mark") BY <1>n, <2>2 DEF LookOnce, TwoAdds, Has
    <3>3. \A b \in Tables, k \in Keys : HasLook(e, b, k) => Legal("halCall", b, k)
      BY <1>n, <2>2, <2>4 DEF HasLook, Legal
    <3> QED BY <3>1, <3>2, <3>3 DEF EndLooks
  <2>7. LookFirst(e) BY <1>n, <2>2 DEF LookFirst
  <2>8. \A j \in DOMAIN s : ~(j = 1 /\ s[j].op = "mark") /\ (PairAt(s, j) => j = 4 /\ "halCall" = "sync")
    BY <1>n, <2>1 DEF PairAt
  <2>9. \A b \in Tables, k \in Keys : HasMark(s, b, k) => Legal("halCall", b, k)
    BY <1>n, <2>1, <2>4 DEF HasMark, Legal
  <2>10. s # NoCallback => \A b \in Tables, k \in Keys : HasLook(e, b, k) => HasMark(s, b, k)
    BY <1>n, <2>1, <2>2 DEF HasLook, HasMark, NoCallback
  <2> QED BY <2>3, <2>5, <2>6, <2>7, <2>8, <2>9, <2>10 DEF MarkingOK
<1>12. MarkingOK("halWrite")
  <2>1. PICK s : s = <<CallStart, Name, Add("halAPI"), Mark("event", "fn"), Add("halTransfer"), Mark("event", "buffer")>> OBVIOUS
  <2>2. PICK e : e = <<CallEnd, Look("event", "fn"), Name, Add("halAPI"), Look("event", "buffer"), Add("halTransfer")>> OBVIOUS
  <2>3. API["halWrite"].start = s /\ API["halWrite"].end = e BY <2>1, <2>2, APIPrograms
  <2>4. ~API["halWrite"].command BY APIFields
  <2>5. StartMarks("halWrite", s)
    BY <1>n, <2>1 DEF StartMarks, MarksFollow, PairShape, PairAt, Has, KindAt, MainKind
  <2>6. EndLooks("halWrite", e)
    <3>1. LooksRight("halWrite", e)
      BY <1>n, <2>2 DEF LooksRight, NoLookBetween, KindAt, MainKind
    <3>2. LookOnce(e) /\ TwoAdds(e) /\ ~Has(e, "mark") BY <1>n, <2>2 DEF LookOnce, TwoAdds, Has
    <3>3. \A b \in Tables, k \in Keys : HasLook(e, b, k) => Legal("halWrite", b, k)
      BY <1>n, <2>2, <2>4 DEF HasLook, Legal
    <3> QED BY <3>1, <3>2, <3>3 DEF EndLooks
  <2>7. LookFirst(e) BY <1>n, <2>2 DEF LookFirst
  <2>8. \A j \in DOMAIN s : ~(j = 1 /\ s[j].op = "mark") /\ (PairAt(s, j) => j = 4 /\ "halWrite" = "sync")
    BY <1>n, <2>1 DEF PairAt
  <2>9. \A b \in Tables, k \in Keys : HasMark(s, b, k) => Legal("halWrite", b, k)
    BY <1>n, <2>1, <2>4 DEF HasMark, Legal
  <2>10. s # NoCallback => \A b \in Tables, k \in Keys : HasLook(e, b, k) => HasMark(s, b, k)
    BY <1>n, <2>1, <2>2 DEF HasLook, HasMark, NoCallback
  <2> QED BY <2>3, <2>5, <2>6, <2>7, <2>8, <2>9, <2>10 DEF MarkingOK
<1>13. MarkingOK("halRead")
  <2>1. PICK s : s = <<CallStart, Name, Add("halAPI"), Mark("event", "fn"), Add("halTransfer"), Mark("event", "buffer")>> OBVIOUS
  <2>2. PICK e : e = <<CallEnd, Look("event", "fn"), Name, Add("halAPI"), Look("event", "buffer"), Add("halTransfer")>> OBVIOUS
  <2>3. API["halRead"].start = s /\ API["halRead"].end = e BY <2>1, <2>2, APIPrograms
  <2>4. ~API["halRead"].command BY APIFields
  <2>5. StartMarks("halRead", s)
    BY <1>n, <2>1 DEF StartMarks, MarksFollow, PairShape, PairAt, Has, KindAt, MainKind
  <2>6. EndLooks("halRead", e)
    <3>1. LooksRight("halRead", e)
      BY <1>n, <2>2 DEF LooksRight, NoLookBetween, KindAt, MainKind
    <3>2. LookOnce(e) /\ TwoAdds(e) /\ ~Has(e, "mark") BY <1>n, <2>2 DEF LookOnce, TwoAdds, Has
    <3>3. \A b \in Tables, k \in Keys : HasLook(e, b, k) => Legal("halRead", b, k)
      BY <1>n, <2>2, <2>4 DEF HasLook, Legal
    <3> QED BY <3>1, <3>2, <3>3 DEF EndLooks
  <2>7. LookFirst(e) BY <1>n, <2>2 DEF LookFirst
  <2>8. \A j \in DOMAIN s : ~(j = 1 /\ s[j].op = "mark") /\ (PairAt(s, j) => j = 4 /\ "halRead" = "sync")
    BY <1>n, <2>1 DEF PairAt
  <2>9. \A b \in Tables, k \in Keys : HasMark(s, b, k) => Legal("halRead", b, k)
    BY <1>n, <2>1, <2>4 DEF HasMark, Legal
  <2>10. s # NoCallback => \A b \in Tables, k \in Keys : HasLook(e, b, k) => HasMark(s, b, k)
    BY <1>n, <2>1, <2>2 DEF HasLook, HasMark, NoCallback
  <2> QED BY <2>3, <2>5, <2>6, <2>7, <2>8, <2>9, <2>10 DEF MarkingOK
<1>14. MarkingOK("native")
  <2>1. PICK s : s = <<Name, Add("native"), Mark("event", "fn"), CallStart>> OBVIOUS
  <2>2. PICK e : e = <<CallEnd, Look("event", "fn"), Name, Add("native")>> OBVIOUS
  <2>3. API["native"].start = s /\ API["native"].end = e BY <2>1, <2>2, APIPrograms
  <2>4. ~API["native"].command BY APIFields
  <2>5. StartMarks("native", s)
    BY <1>n, <2>1 DEF StartMarks, MarksFollow, PairShape, PairAt, Has, KindAt, MainKind
  <2>6. EndLooks("native", e)
    <3>1. LooksRight("native", e)
      BY <1>n, <2>2 DEF LooksRight, NoLookBetween, KindAt, MainKind
    <3>2. LookOnce(e) /\ TwoAdds(e) /\ ~Has(e, "mark") BY <1>n, <2>2 DEF LookOnce, TwoAdds, Has
    <3>3. \A b \in Tables, k \in Keys : HasLook(e, b, k) => Legal("native", b, k)
      BY <1>n, <2>2, <2>4 DEF HasLook, Legal
    <3> QED BY <3>1, <3>2, <3>3 DEF EndLooks
  <2>7. LookFirst(e) BY <1>n, <2>2 DEF LookFirst
  <2>8. \A j \in DOMAIN s : ~(j = 1 /\ s[j].op = "mark") /\ (PairAt(s, j) => j = 4 /\ "native" = "sync")
    BY <1>n, <2>1 DEF PairAt
  <2>9. \A b \in Tables, k \in Keys : HasMark(s, b, k) => Legal("native", b, k)
    BY <1>n, <2>1, <2>4 DEF HasMark, Legal
  <2>10. s # NoCallback => \A b \in Tables, k \in Keys : HasLook(e, b, k) => HasMark(s, b, k)
    BY <1>n, <2>1, <2>2 DEF HasLook, HasMark, NoCallback
  <2> QED BY <2>3, <2>5, <2>6, <2>7, <2>8, <2>9, <2>10 DEF MarkingOK
<1>15. MarkingOK("sync")
  <2>1. PICK s : s = <<Name, Add("native"), Add("native"), Mark("pair", "fn"), CallStart>> OBVIOUS
  <2>2. PICK e : e = <<CallEnd, Look("pair", "fn"), Name, Add("native"), Add("native")>> OBVIOUS
  <2>3. API["sync"].start = s /\ API["sync"].end = e BY <2>1, <2>2, APIPrograms
  <2>4. ~API["sync"].command BY APIFields
  <2>5. StartMarks("sync", s)
    BY <1>n, <2>1 DEF StartMarks, MarksFollow, PairShape, PairAt, Has, KindAt, MainKind
  <2>6. EndLooks("sync", e)
    <3>1. LooksRight("sync", e)
      BY <1>n, <2>2 DEF LooksRight, NoLookBetween, KindAt, MainKind
    <3>2. LookOnce(e) /\ TwoAdds(e) /\ ~Has(e, "mark") BY <1>n, <2>2 DEF LookOnce, TwoAdds, Has
    <3>3. \A b \in Tables, k \in Keys : HasLook(e, b, k) => Legal("sync", b, k)
      BY <1>n, <2>2, <2>4 DEF HasLook, Legal
    <3> QED BY <3>1, <3>2, <3>3 DEF EndLooks
  <2>7. LookFirst(e) BY <1>n, <2>2 DEF LookFirst
  <2>8. \A j \in DOMAIN s : ~(j = 1 /\ s[j].op = "mark") /\ (PairAt(s, j) => j = 4 /\ "sync" = "sync")
    BY <1>n, <2>1 DEF PairAt
  <2>9. \A b \in Tables, k \in Keys : HasMark(s, b, k) => Legal("sync", b, k)
    BY <1>n, <2>1, <2>4 DEF HasMark, Legal
  <2>10. s # NoCallback => \A b \in Tables, k \in Keys : HasLook(e, b, k) => HasMark(s, b, k)
    BY <1>n, <2>1, <2>2 DEF HasLook, HasMark, NoCallback
  <2> QED BY <2>3, <2>5, <2>6, <2>7, <2>8, <2>9, <2>10 DEF MarkingOK
<1>16. MarkingOK("userRange")
  <2>1. PICK s : s = <<Name, Add("user"), Mark("event", "fn")>> OBVIOUS
  <2>2. PICK e : e = <<Look("event", "fn"), Add("user")>> OBVIOUS
  <2>3. API["userRange"].start = s /\ API["userRange"].end = e BY <2>1, <2>2, APIPrograms
  <2>4. ~API["userRange"].command BY APIFields
  <2>5. StartMarks("userRange", s)
    BY <1>n, <2>1 DEF StartMarks, MarksFollow, PairShape, PairAt, Has, KindAt, MainKind
  <2>6. EndLooks("userRange", e)
    <3>1. LooksRight("userRange", e)
      BY <1>n, <2>2 DEF LooksRight, NoLookBetween, KindAt, MainKind
    <3>2. LookOnce(e) /\ TwoAdds(e) /\ ~Has(e, "mark") BY <1>n, <2>2 DEF LookOnce, TwoAdds, Has
    <3>3. \A b \in Tables, k \in Keys : HasLook(e, b, k) => Legal("userRange", b, k)
      BY <1>n, <2>2, <2>4 DEF HasLook, Legal
    <3> QED BY <3>1, <3>2, <3>3 DEF EndLooks
  <2>7. LookFirst(e) BY <1>n, <2>2 DEF LookFirst
  <2>8. \A j \in DOMAIN s : ~(j = 1 /\ s[j].op = "mark") /\ (PairAt(s, j) => j = 4 /\ "userRange" = "sync")
    BY <1>n, <2>1 DEF PairAt
  <2>9. \A b \in Tables, k \in Keys : HasMark(s, b, k) => Legal("userRange", b, k)
    BY <1>n, <2>1, <2>4 DEF HasMark, Legal
  <2>10. s # NoCallback => \A b \in Tables, k \in Keys : HasLook(e, b, k) => HasMark(s, b, k)
    BY <1>n, <2>1, <2>2 DEF HasLook, HasMark, NoCallback
  <2> QED BY <2>3, <2>5, <2>6, <2>7, <2>8, <2>9, <2>10 DEF MarkingOK
<1>17. MarkingOK("userMark")
  <2>1. PICK s : s = <<Name, Add("user")>> OBVIOUS
  <2>2. PICK e : e = <<>> OBVIOUS
  <2>3. API["userMark"].start = s /\ API["userMark"].end = e BY <2>1, <2>2, APIPrograms
  <2>4. ~API["userMark"].command BY APIFields
  <2>5. StartMarks("userMark", s)
    BY <1>n, <2>1 DEF StartMarks, MarksFollow, PairShape, PairAt, Has, KindAt, MainKind
  <2>6. EndLooks("userMark", e)
    <3>1. LooksRight("userMark", e)
      BY <1>n, <2>2 DEF LooksRight, NoLookBetween, KindAt, MainKind
    <3>2. LookOnce(e) /\ TwoAdds(e) /\ ~Has(e, "mark") BY <1>n, <2>2 DEF LookOnce, TwoAdds, Has
    <3>3. \A b \in Tables, k \in Keys : HasLook(e, b, k) => Legal("userMark", b, k)
      BY <1>n, <2>2, <2>4 DEF HasLook, Legal
    <3> QED BY <3>1, <3>2, <3>3 DEF EndLooks
  <2>7. LookFirst(e) BY <1>n, <2>2 DEF LookFirst
  <2>8. \A j \in DOMAIN s : ~(j = 1 /\ s[j].op = "mark") /\ (PairAt(s, j) => j = 4 /\ "userMark" = "sync")
    BY <1>n, <2>1 DEF PairAt
  <2>9. \A b \in Tables, k \in Keys : HasMark(s, b, k) => Legal("userMark", b, k)
    BY <1>n, <2>1, <2>4 DEF HasMark, Legal
  <2>10. s # NoCallback => \A b \in Tables, k \in Keys : HasLook(e, b, k) => HasMark(s, b, k)
    BY <1>n, <2>1, <2>2 DEF HasLook, HasMark, NoCallback
  <2> QED BY <2>3, <2>5, <2>6, <2>7, <2>8, <2>9, <2>10 DEF MarkingOK
<1>18. MarkingOK("userTime")
  <2>1. PICK s : s = <<Name, Add("user")>> OBVIOUS
  <2>2. PICK e : e = <<>> OBVIOUS
  <2>3. API["userTime"].start = s /\ API["userTime"].end = e BY <2>1, <2>2, APIPrograms
  <2>4. ~API["userTime"].command BY APIFields
  <2>5. StartMarks("userTime", s)
    BY <1>n, <2>1 DEF StartMarks, MarksFollow, PairShape, PairAt, Has, KindAt, MainKind
  <2>6. EndLooks("userTime", e)
    <3>1. LooksRight("userTime", e)
      BY <1>n, <2>2 DEF LooksRight, NoLookBetween, KindAt, MainKind
    <3>2. LookOnce(e) /\ TwoAdds(e) /\ ~Has(e, "mark") BY <1>n, <2>2 DEF LookOnce, TwoAdds, Has
    <3>3. \A b \in Tables, k \in Keys : HasLook(e, b, k) => Legal("userTime", b, k)
      BY <1>n, <2>2, <2>4 DEF HasLook, Legal
    <3> QED BY <3>1, <3>2, <3>3 DEF EndLooks
  <2>7. LookFirst(e) BY <1>n, <2>2 DEF LookFirst
  <2>8. \A j \in DOMAIN s : ~(j = 1 /\ s[j].op = "mark") /\ (PairAt(s, j) => j = 4 /\ "userTime" = "sync")
    BY <1>n, <2>1 DEF PairAt
  <2>9. \A b \in Tables, k \in Keys : HasMark(s, b, k) => Legal("userTime", b, k)
    BY <1>n, <2>1, <2>4 DEF HasMark, Legal
  <2>10. s # NoCallback => \A b \in Tables, k \in Keys : HasLook(e, b, k) => HasMark(s, b, k)
    BY <1>n, <2>1, <2>2 DEF HasLook, HasMark, NoCallback
  <2> QED BY <2>3, <2>5, <2>6, <2>7, <2>8, <2>9, <2>10 DEF MarkingOK
<1> QED
  BY <1>1, <1>2, <1>3, <1>4, <1>5, <1>6, <1>7, <1>8, <1>9, <1>10, <1>11, <1>12, <1>13,
     <1>14, <1>15, <1>16, <1>17, <1>18, APINames


-----------------------------------------------------------------------------
(* Starts and ends: the inductive invariant                                *)

\* the events of the start of call c
StartsOf(c, kind) ==
  {i \in DOMAIN events : events[i].call = c /\ events[i].phase = "start" /\ events[i].kind = kind}

\* x is the start of call c, or it was deleted before it was registered
Good(c, kind, x) == x \in StartsOf(c, kind) \/ (x = 0 /\ StartsOf(c, kind) \cap dangling # {})

StartOf(c) == API[calls[c].api].start

Marks(c, b, k) == HasMark(StartOf(c), b, k)

Registered(c, b, k) == \E s \in starts : s.table = b /\ s.key = KeyOf(c, k)

\* ids is what a start of call c was registered with
Right(c, b, k, ids) ==
  /\ Len(ids) = IF b = "pair" THEN 2 ELSE 1
  /\ \A n \in DOMAIN ids : Good(c, KindAt(calls[c].api, k), ids[n])

\* the ids of functions and commands
CallsInv ==
  /\ Len(calls) <= MaxCalls
  /\ \A c \in 1..Len(calls) : calls[c].fn = 2 * c - 1 /\ (API[calls[c].api].command <=> calls[c].ev # 0)
  /\ \A c, d \in 1..Len(calls) : calls[c].ev = calls[d].ev => c = d \/ calls[c].ev = 0

\* one thread at a time is in a callback of a call
BusyInv ==
  /\ \A t \in Threads : cb[t].ops # <<>> => cb[t].call \notin open
  /\ \A t, u \in Threads : cb[t].ops # <<>> /\ cb[u].ops # <<>> /\ cb[t].call = cb[u].call => t = u

\* the events that the start callback of thread t has in hand
HeldOK(t) ==
  /\ IsSeq(cb[t].held)
  /\ \A n \in DOMAIN cb[t].held :
       LET i == cb[t].held[n]
       IN i \in DOMAIN events /\ events[i].call = cb[t].call /\ events[i].phase = "start"
  /\ cb[t].ops[1].op = "mark" =>
       /\ cb[t].held # <<>>
       /\ events[cb[t].held[Len(cb[t].held)]].kind = KindAt(calls[cb[t].call].api, cb[t].ops[1].key)
  /\ \A j \in DOMAIN cb[t].ops : PairAt(cb[t].ops, j) =>
       Len(cb[t].held) = (IF j >= 3 THEN 0 ELSE 3 - j) /\ calls[cb[t].call].api = "sync"

StartCb(t) ==
  cb[t].ops # <<>> /\ cb[t].phase = "start" =>
    /\ StartOf(cb[t].call) # NoCallback
    /\ StartMarks(calls[cb[t].call].api, cb[t].ops) /\ HeldOK(t)
    /\ \A b \in Tables, k \in Keys :
         /\ HasMark(cb[t].ops, b, k) => Marks(cb[t].call, b, k)
         /\ Marks(cb[t].call, b, k) => HasMark(cb[t].ops, b, k) \/ Registered(cb[t].call, b, k)

\* the start that event j of a callback takes, from those it has found
Turn(ops, j) == IF \E i \in 1..(j - 1) : ops[i].op = "add" THEN 2 ELSE 1

\* event j of the callback of thread t takes a start of its call
TakeOK(t, j) ==
  cb[t].ops[j].op = "add" /\ NoLookBetween(cb[t].ops, 0, j) =>
    /\ Turn(cb[t].ops, j) <= Len(cb[t].found)
    /\ Good(cb[t].call, cb[t].ops[j].kind, cb[t].found[Turn(cb[t].ops, j)])

EndCb(t) ==
  cb[t].ops # <<>> /\ cb[t].phase = "end" =>
    /\ EndLooks(calls[cb[t].call].api, cb[t].ops) /\ IsSeq(cb[t].found)
    /\ StartOf(cb[t].call) # NoCallback =>
         /\ \A b \in Tables, k \in Keys :
              HasLook(cb[t].ops, b, k) => Marks(cb[t].call, b, k) /\ Registered(cb[t].call, b, k)
         /\ \A j \in DOMAIN cb[t].ops : TakeOK(t, j)

\* an entry of the tables of starts is that of a call, and right for it
EntryRight(s) ==
  /\ s.table \in Tables /\ IsSeq(s.ids)
  /\ \E c \in 1..Len(calls), k \in Keys :
       Marks(c, s.table, k) /\ s.key = KeyOf(c, k) /\ Right(c, s.table, k, s.ids)

OpenInv == \A c \in open : \A b \in Tables, k \in Keys : Marks(c, b, k) => Registered(c, b, k)

\* what events i say of their start
PairedOK(i) ==
  /\ events[i].phase = "start" => StartOf(events[i].call) # NoCallback
  /\ events[i].phase = "end" /\ StartOf(events[i].call) # NoCallback =>
       Good(events[i].call, events[i].kind, events[i].start)

OwnInv ==
  /\ CallsInv /\ BusyInv /\ OpenInv
  /\ \A t \in Threads : StartCb(t) /\ EndCb(t)
  /\ \A s \in starts : EntryRight(s)
  /\ \A i \in DOMAIN events : PairedOK(i)


\* The rest of a program registers and looks up as the program does.
LEMMA MarksTail ==
  ASSUME NEW ops \in Seq(Op), ops # <<>>, NEW api
  PROVE  /\ StartMarks(api, ops) => StartMarks(api, Tail(ops))
         /\ EndLooks(api, ops) => EndLooks(api, Tail(ops))
         /\ \A b, k : /\ HasMark(Tail(ops), b, k) => HasMark(ops, b, k)
                      /\ HasLook(Tail(ops), b, k) => HasLook(ops, b, k)
                      /\ HasMark(ops, b, k) =>
                           HasMark(Tail(ops), b, k) \/ (ops[1].op = "mark" /\ ops[1].table = b /\ ops[1].key = k)
<1>1. /\ Tail(ops) \in Seq(Op)
      /\ \A i \in DOMAIN Tail(ops) : Tail(ops)[i] = ops[i + 1] /\ i + 1 \in DOMAIN ops
      /\ \A j \in DOMAIN ops : j = 1 \/ (j - 1 \in DOMAIN Tail(ops) /\ Tail(ops)[j - 1] = ops[j])
      /\ \A name : Has(Tail(ops), name) => Has(ops, name)
  BY TailProgram
<1>2. PICK r \in Seq(Op) : r = Tail(ops) BY <1>1
<1>3. /\ (\A i \in DOMAIN r : i \in Nat /\ i >= 1 /\ 1..i \subseteq DOMAIN r)
      /\ \A i \in DOMAIN ops : i \in Nat /\ i >= 1
  <2>1. /\ DOMAIN r = 1..Len(r) /\ Len(r) \in Nat /\ DOMAIN ops = 1..Len(ops) /\ Len(ops) \in Nat
    OBVIOUS
  <2> QED BY <2>1
<1>4. \A i \in DOMAIN r : r[i] = ops[i + 1] /\ i + 1 \in DOMAIN ops BY <1>1, <1>2
<1>5. ASSUME StartMarks(api, ops) PROVE StartMarks(api, r)
  <2>1. MarksFollow(api, r)
    <3> SUFFICES ASSUME NEW j \in DOMAIN r, j > 1, r[j].op = "mark"
                 PROVE  r[j - 1].op = "add" /\ r[j - 1].kind = KindAt(api, r[j].key)
      BY DEF MarksFollow
    <3>1. PICK m \in DOMAIN ops : m = j + 1 BY <1>4
    <3>2. m > 1 /\ ops[m].op = "mark" /\ m - 1 = j BY <1>3, <1>4, <3>1
    <3>3. ops[j].op = "add" /\ ops[j].kind = KindAt(api, ops[m].key)
      BY <1>5, <3>2 DEF StartMarks, MarksFollow
    <3>4. j - 1 \in DOMAIN r /\ r[j - 1] = ops[j] /\ r[j] = ops[m]
      <4>1. j - 1 \in DOMAIN r /\ (j - 1) + 1 = j BY <1>3
      <4> QED BY <1>4, <3>1, <4>1
    <3> QED BY <3>3, <3>4
  <2>2. PairShape(r)
    <3> SUFFICES ASSUME NEW j \in DOMAIN r, PairAt(r, j)
                 PROVE  j <= 4 /\ \A m \in 1..(j - 1) : r[m].op = IF j = 4 /\ m = 1 THEN "name" ELSE "add"
      BY DEF PairShape
    <3>1. PICK n \in DOMAIN ops : n = j + 1 BY <1>4
    <3>2. PairAt(ops, n) BY <1>4, <3>1 DEF PairAt
    <3>3. n <= 4 /\ \A m \in 1..(n - 1) : ops[m].op = IF n = 4 /\ m = 1 THEN "name" ELSE "add"
      BY <1>5, <3>2 DEF StartMarks, PairShape
    <3>4. ASSUME NEW m \in 1..(j - 1) PROVE r[m].op = "add"
      <4>1. m \in DOMAIN r /\ m + 1 \in 1..(n - 1) /\ m + 1 # 1 BY <1>3, <3>1
      <4>2. ops[m + 1].op = "add" BY <3>3, <4>1
      <4> QED BY <1>4, <4>1, <4>2
    <3> QED BY <1>3, <3>1, <3>3, <3>4
  <2> QED BY <1>1, <1>2, <1>5, <2>1, <2>2 DEF StartMarks
<1>6. ASSUME EndLooks(api, ops) PROVE EndLooks(api, r)
  <2>1. LooksRight(api, r)
    <3> SUFFICES ASSUME NEW i \in DOMAIN r, NEW j \in DOMAIN r, i < j, r[i].op = "look", r[j].op = "add",
                        NoLookBetween(r, i, j)
                 PROVE  /\ r[j].kind = KindAt(api, r[i].key)
                        /\ r[i].table # "pair" => \A m \in (i + 1)..(j - 1) : r[m].op # "add"
      BY DEF LooksRight
    <3>1. PICK p \in DOMAIN ops, q \in DOMAIN ops : p = i + 1 /\ q = j + 1 BY <1>4
    <3>2. ops[p] = r[i] /\ ops[q] = r[j] /\ p < q BY <1>3, <1>4, <3>1
    <3>3. ASSUME NEW m \in (i + 1)..(j - 1) PROVE m + 1 \in (p + 1)..(q - 1) /\ ops[m + 1] = r[m]
      <4>1. m \in DOMAIN r BY <1>3
      <4>2. i \in Nat /\ j \in Nat /\ m \in Nat BY <1>3, <4>1
      <4>3. m + 1 \in (p + 1)..(q - 1) BY <3>1, <4>2
      <4> QED BY <1>4, <4>1, <4>3
    <3>4. NoLookBetween(ops, p, q)
      <4> SUFFICES ASSUME NEW m \in (p + 1)..(q - 1) PROVE ops[m].op # "look" BY DEF NoLookBetween
      <4>1. m - 1 \in (i + 1)..(j - 1) /\ (m - 1) + 1 = m BY <1>3, <3>1
      <4> QED BY <3>3, <4>1 DEF NoLookBetween
    <3>5. /\ ops[q].kind = KindAt(api, ops[p].key)
          /\ ops[p].table # "pair" => \A m \in (p + 1)..(q - 1) : ops[m].op # "add"
      BY <1>6, <3>2, <3>4 DEF EndLooks, LooksRight
    <3> QED BY <3>2, <3>3, <3>5
  <2>2. LookOnce(r)
    <3> SUFFICES ASSUME NEW i \in DOMAIN r, NEW j \in DOMAIN r, r[i].op = "look", r[j].op = "look",
                        r[i].key = r[j].key
                 PROVE  i = j
      BY DEF LookOnce
    <3>1. i + 1 = j + 1 BY <1>4, <1>6 DEF EndLooks, LookOnce
    <3> QED BY <1>3, <3>1
  <2>3. TwoAdds(r)
    <3> SUFFICES ASSUME NEW i \in DOMAIN r, NEW j \in DOMAIN r, NEW m \in DOMAIN r, i < j, j < m,
                        r[i].op = "add", r[j].op = "add", r[m].op = "add"
                 PROVE  FALSE
      BY DEF TwoAdds
    <3>1. i + 1 < j + 1 /\ j + 1 < m + 1 BY <1>3
    <3> QED BY <1>4, <1>6, <3>1 DEF EndLooks, TwoAdds
  <2>4. \A b, k : HasLook(r, b, k) => HasLook(ops, b, k) BY <1>4 DEF HasLook
  <2> QED BY <1>1, <1>2, <1>6, <2>1, <2>2, <2>3, <2>4 DEF EndLooks
<1>7. ASSUME NEW b, NEW k
      PROVE  /\ HasMark(r, b, k) => HasMark(ops, b, k)
             /\ HasLook(r, b, k) => HasLook(ops, b, k)
  BY <1>4 DEF HasMark, HasLook
<1>8. ASSUME NEW b, NEW k, HasMark(ops, b, k)
      PROVE  HasMark(r, b, k) \/ (ops[1].op = "mark" /\ ops[1].table = b /\ ops[1].key = k)
  <2>1. PICK j \in DOMAIN ops : ops[j].op = "mark" /\ ops[j].table = b /\ ops[j].key = k
    BY <1>8 DEF HasMark
  <2>2. j = 1 \/ (j - 1 \in DOMAIN r /\ r[j - 1] = ops[j]) BY <1>1, <1>2
  <2> QED BY <2>1, <2>2 DEF HasMark
<1> QED BY <1>2, <1>5, <1>6, <1>7, <1>8


\* What MarkingOK says of the calls so far.
LEMMA MarkingOf ==
  ASSUME CbInv, NEW c \in 1..Len(calls)
  PROVE  calls[c].api \in APIs /\ MarkingOK(calls[c].api)
<1>1. calls[c] \in CallRec BY DEF CbInv
<1>2. calls[c].api \in APIs BY <1>1 DEF CallRec
<1> QED BY <1>2, Marking

\* x is the number of call c under key k of table b, with command e
KeyForm(b, k, c, x, e, n) ==
  \/ b \in {"event", "pair"} /\ k = "fn" /\ x = 2 * c - 1 /\ 2 * c - 1 <= 2 * n
  \/ b = "event" /\ k = "buffer" /\ x = 2 * c /\ 2 * c <= 2 * n
  \/ b = "uid" /\ k = "ev" /\ x = e /\ e # 0
  \/ b = "event" /\ k = "lop" /\ x = (2 * n + 1) + e /\ e # 0

\* The number of a function, of its buffer, of a command and of a masked command.
LEMMA KeyValue ==
  ASSUME CbInv, CallsInv, NEW c \in 1..Len(calls), NEW b, NEW k \in Keys, Legal(calls[c].api, b, k)
  PROVE  /\ calls[c].ev \in Nat /\ MaxCalls \in Nat
         /\ KeyForm(b, k, c, KeyOf(c, k), calls[c].ev, MaxCalls)
<1>1. PICK e \in Nat : e = calls[c].ev
  <2>1. calls[c] \in CallRec BY DEF CbInv
  <2> QED BY <2>1 DEF CallRec
<1>2. calls[c].fn = 2 * c - 1 /\ (API[calls[c].api].command <=> e # 0) BY <1>1 DEF CallsInv
<1>3. PICK n \in Nat : n = MaxCalls /\ Len(calls) <= n BY HostAssumption DEF CallsInv
<1>4. c \in Nat /\ c >= 1 /\ c <= n
  <2>1. Len(calls) \in Nat BY DEF CbInv
  <2> QED BY <1>3, <2>1
<1>5. /\ KeyOf(c, "fn") = 2 * c - 1 /\ KeyOf(c, "buffer") = (2 * c - 1) + 1
      /\ KeyOf(c, "ev") = e /\ KeyOf(c, "lop") = (2 * n + 1) + e
  BY <1>1, <1>2, <1>3 DEF KeyOf, LopMask
<1>6. (2 * c - 1) + 1 = 2 * c /\ 2 * c <= 2 * n /\ 2 * c - 1 <= 2 * n BY <1>3, <1>4
<1>7. CASE b = "event" /\ k = "fn" BY <1>1, <1>3, <1>5, <1>6, <1>7 DEF KeyForm
<1>8. CASE b = "event" /\ k = "buffer" BY <1>1, <1>3, <1>5, <1>6, <1>8 DEF KeyForm
<1>9. CASE b = "pair" /\ k = "fn" BY <1>1, <1>3, <1>5, <1>6, <1>9 DEF KeyForm
<1>10. CASE API[calls[c].api].command /\ b = "uid" /\ k = "ev" BY <1>1, <1>2, <1>3, <1>5, <1>10 DEF KeyForm
<1>11. CASE API[calls[c].api].command /\ b = "event" /\ k = "lop" BY <1>1, <1>2, <1>3, <1>5, <1>11 DEF KeyForm
<1> QED BY <1>7, <1>8, <1>9, <1>10, <1>11 DEF Legal

\* Functions, buffers and commands are numbered apart in each table.
LEMMA KeysDiffer ==
  ASSUME CbInv, CallsInv, NEW c \in 1..Len(calls), NEW d \in 1..Len(calls), NEW b, NEW k \in Keys,
         NEW m \in Keys, Legal(calls[c].api, b, k), Legal(calls[d].api, b, m), KeyOf(c, k) = KeyOf(d, m)
  PROVE  c = d /\ k = m
<1>1. PICK e \in Nat, f \in Nat, n \in Nat : e = calls[c].ev /\ f = calls[d].ev /\ n = MaxCalls
  BY KeyValue
<1>2. PICK x : x = KeyOf(c, k) /\ x = KeyOf(d, m) OBVIOUS
<1>3. KeyForm(b, k, c, x, e, n) /\ KeyForm(b, m, d, x, f, n) BY <1>1, <1>2, KeyValue
<1>4. e = f /\ e # 0 => c = d BY <1>1 DEF CallsInv
<1>5. c \in Nat /\ d \in Nat
  <2>1. Len(calls) \in Nat BY DEF CbInv
  <2> QED BY <2>1
<1>6. CASE k = "fn" BY <1>3, <1>5, <1>6 DEF KeyForm
<1>7. CASE k = "buffer" BY <1>3, <1>5, <1>7 DEF KeyForm
<1>8. CASE k = "ev" BY <1>3, <1>4, <1>5, <1>8 DEF KeyForm
<1>9. CASE k = "lop" BY <1>3, <1>4, <1>5, <1>9 DEF KeyForm
<1> QED BY <1>6, <1>7, <1>8, <1>9 DEF Keys

\* A call marks only keys of its own.
LEMMA MarksLegal ==
  ASSUME CbInv, NEW c \in 1..Len(calls), NEW b \in Tables, NEW k \in Keys, Marks(c, b, k)
  PROVE  Legal(calls[c].api, b, k)
BY MarkingOf DEF MarkingOK, Marks, StartOf

\* The entry under the key of a call is the start of that call.
LEMMA EntryOf ==
  ASSUME CbInv, CallsInv, NEW c \in 1..Len(calls), NEW b \in Tables, NEW k \in Keys,
         Legal(calls[c].api, b, k), NEW s \in starts, EntryRight(s), s.table = b, s.key = KeyOf(c, k)
  PROVE  Marks(c, b, k) /\ Right(c, b, k, s.ids) /\ IsSeq(s.ids)
<1>1. PICK d \in 1..Len(calls), m \in Keys :
        Marks(d, b, m) /\ s.key = KeyOf(d, m) /\ Right(d, b, m, s.ids)
  BY DEF EntryRight
<1>2. Legal(calls[d].api, b, m) BY <1>1, MarksLegal
<1>3. KeyOf(c, k) = KeyOf(d, m) BY <1>1
<1>4. c = d /\ k = m BY <1>2, <1>3, KeysDiffer
<1> QED BY <1>1, <1>4 DEF EntryRight


\* Nothing that was used after its deletion is forgotten.
LEMMA DanglingGrows ==
  ASSUME [Next]_vars
  PROVE  dangling \subseteq dangling'
<1>1. ASSUME NEW t \in Threads, NEW api, NEW ev, Begin(t, api, ev) PROVE dangling' = dangling
  BY <1>1 DEF Begin, databaseVars
<1>2. ASSUME NEW t \in Threads, NEW c, End(t, c) PROVE dangling' = dangling BY <1>2 DEF End, databaseVars
<1>3. ASSUME NEW t \in Threads, Operation(t) PROVE dangling \subseteq dangling'
  <2>1. CASE addString(t) BY <2>1 DEF addString
  <2>2. CASE addEvent(t) BY <2>2 DEF addEvent
  <2>3. CASE registerStart(t) BY <2>3 DEF registerStart
  <2>4. CASE lookupStart(t) BY <2>4 DEF lookupStart
  <2>5. CASE quitUnstarted(t) BY <2>5 DEF quitUnstarted, databaseVars
  <2>6. CASE addOpenCLMapping(t) BY <2>6 DEF addOpenCLMapping
  <2>7. CASE logFunctionCallStart(t) BY <2>7 DEF logFunctionCallStart
  <2>8. CASE logFunctionCallEnd(t) BY <2>8 DEF logFunctionCallEnd
  <2> QED BY <1>3, <2>1, <2>2, <2>3, <2>4, <2>5, <2>6, <2>7, <2>8 DEF Operation
<1>4. ASSUME OtherStep PROVE dangling \subseteq dangling'
  BY <1>4 DEF OtherStep, WriterStep, BeginPass, writeTables, moveEvents, dumpEvents, ClosePass,
     DestroyPlugin, collapseDependencyChains, writeDependencies, add_dependency, Gone, vars, databaseVars
<1> QED BY <1>1, <1>2, <1>3, <1>4, StepKinds

\* Only the start and the end of a call touch the tables of starts.
LEMMA StartsSame ==
  /\ \A t \in Threads : \A api, ev : Begin(t, api, ev) => starts' = starts
  /\ \A t \in Threads : \A c : End(t, c) => starts' = starts
  /\ OtherStep => starts' = starts
  /\ \A t \in Threads : Operation(t) => registerStart(t) \/ lookupStart(t) \/ starts' = starts
<1>1. ASSUME NEW t \in Threads, Operation(t) PROVE registerStart(t) \/ lookupStart(t) \/ starts' = starts
  BY <1>1 DEF Operation, addString, addEvent, quitUnstarted, addOpenCLMapping, logFunctionCallStart,
     logFunctionCallEnd, databaseVars
<1>2. OtherStep => starts' = starts
  BY DEF OtherStep, WriterStep, BeginPass, writeTables, moveEvents, dumpEvents, ClosePass,
     DestroyPlugin, collapseDependencyChains, writeDependencies, add_dependency, Gone, vars,
     callbackVars, databaseVars
<1>3. ASSUME NEW t \in Threads, NEW api, NEW ev, Begin(t, api, ev) PROVE starts' = starts
  BY <1>3 DEF Begin, databaseVars
<1>4. ASSUME NEW t \in Threads, NEW c, End(t, c) PROVE starts' = starts BY <1>4 DEF End, databaseVars
<1> QED BY <1>1, <1>2, <1>3, <1>4

\* the calls and events so far stay, and so do the used ones
Stays == Grown /\ dangling \subseteq dangling'

\* A call keeps its program and its numbers.
LEMMA CallStays ==
  ASSUME Stays, NEW c \in 1..Len(calls)
  PROVE  /\ c \in 1..Len(calls') /\ calls'[c] = calls[c] /\ StartOf(c)' = StartOf(c)
         /\ \A b, k : Marks(c, b, k)' <=> Marks(c, b, k)
         /\ \A k : KeyOf(c, k)' = KeyOf(c, k)
<1>1. c \in 1..Len(calls') /\ calls'[c] = calls[c] BY DEF Stays, Grown
<1>2. StartOf(c)' = StartOf(c) BY <1>1 DEF StartOf
<1>3. \A b, k : Marks(c, b, k)' <=> Marks(c, b, k) BY <1>2 DEF Marks
<1>4. \A k : KeyOf(c, k)' = KeyOf(c, k) BY <1>1 DEF KeyOf
<1> QED BY <1>1, <1>2, <1>3, <1>4

\* A start of a call stays one.
LEMMA GoodStays ==
  ASSUME Stays, NEW c, NEW kind, NEW x, Good(c, kind, x)
  PROVE  Good(c, kind, x)'
<1>1. StartsOf(c, kind) \subseteq StartsOf(c, kind)'
  <2> SUFFICES ASSUME NEW i \in StartsOf(c, kind) PROVE i \in StartsOf(c, kind)' OBVIOUS
  <2>1. i \in DOMAIN events /\ i \in DOMAIN events' /\ events'[i] = events[i]
    BY DEF StartsOf, Stays, Grown
  <2> QED BY <2>1 DEF StartsOf
<1> QED BY <1>1 DEF Good, Stays

\* What is registered for a call stays right.
LEMMA RightStays ==
  ASSUME Stays, NEW c \in 1..Len(calls), NEW b, NEW k, NEW ids, Right(c, b, k, ids)
  PROVE  Right(c, b, k, ids)'
<1>1. calls'[c] = calls[c] BY CallStays
<1>2. PICK kind : kind = KindAt(calls[c].api, k) OBVIOUS
<1>3. \A n \in DOMAIN ids : Good(c, kind, ids[n]) BY <1>2 DEF Right
<1>4. \A n \in DOMAIN ids : Good(c, kind, ids[n])' BY <1>3, GoodStays
<1>5. KindAt(calls'[c].api, k) = kind BY <1>1, <1>2
<1> QED BY <1>4, <1>5 DEF Right

\* An entry of the tables stays right.
LEMMA EntryStays ==
  ASSUME Stays, NEW s, EntryRight(s)
  PROVE  EntryRight(s)'
<1>1. PICK c \in 1..Len(calls), k \in Keys :
        Marks(c, s.table, k) /\ s.key = KeyOf(c, k) /\ Right(c, s.table, k, s.ids)
  BY DEF EntryRight
<1>2. c \in 1..Len(calls') /\ Marks(c, s.table, k)' /\ KeyOf(c, k)' = KeyOf(c, k) BY <1>1, CallStays
<1>3. Right(c, s.table, k, s.ids)' BY <1>1, RightStays
<1> QED BY <1>1, <1>2, <1>3 DEF EntryRight

\* call c keeps what it has registered
Kept(c) == \A b \in Tables, k \in Keys : Marks(c, b, k) /\ Registered(c, b, k) => Registered(c, b, k)'

\* If the tables stay, every call does.
LEMMA KeptSame ==
  ASSUME Stays, starts' = starts, NEW c \in 1..Len(calls)
  PROVE  Kept(c)
<1>1. \A k : KeyOf(c, k)' = KeyOf(c, k) BY CallStays
<1> QED BY <1>1 DEF Kept, Registered

\* An event keeps its start.
LEMMA PairedStays ==
  ASSUME CbInv, NameInv, Stays, NEW i \in DOMAIN events, PairedOK(i)
  PROVE  PairedOK(i)'
<1>1. events'[i] = events[i] BY DEF Stays, Grown
<1>2. PICK c \in 1..Len(calls) : c = events[i].call BY DEF NameInv, EventOK
<1>3. StartOf(c)' = StartOf(c) BY CallStays
<1>4. PICK kind, x : kind = events[i].kind /\ x = events[i].start OBVIOUS
<1>5. Good(c, kind, x) => Good(c, kind, x)' BY GoodStays
<1> QED BY <1>1, <1>2, <1>3, <1>4, <1>5 DEF PairedOK

\* A thread in a callback is not disturbed by the others.
LEMMA OwnOther ==
  ASSUME CbInv, Stays, NEW u \in Threads, cb'[u] = cb[u], StartCb(u), EndCb(u),
         cb[u].ops # <<>> => Kept(cb[u].call)
  PROVE  StartCb(u)' /\ EndCb(u)'
<1>0. CASE cb[u].ops = <<>> BY <1>0 DEF StartCb, EndCb
<1>1. CASE cb[u].ops # <<>>
  <2>1. PICK c \in 1..Len(calls) : c = cb[u].call BY <1>1 DEF CbInv, CbOK
  <2>2. PICK r : r = cb[u] OBVIOUS
  <2>3. /\ calls'[c] = calls[c] /\ StartOf(c)' = StartOf(c)
        /\ \A b, k : Marks(c, b, k)' <=> Marks(c, b, k)
    BY CallStays
  <2>4. /\ (\A i \in DOMAIN events : i \in DOMAIN events' /\ events'[i] = events[i]) BY DEF Stays, Grown
  <2>5. Kept(c) BY <1>1, <2>1
  <2>6. CASE r.phase = "start"
    <3>1. /\ StartOf(c) # NoCallback /\ StartMarks(calls[c].api, r.ops) /\ HeldOK(u)
          /\ \A b \in Tables, k \in Keys :
               /\ HasMark(r.ops, b, k) => Marks(c, b, k)
               /\ Marks(c, b, k) => HasMark(r.ops, b, k) \/ Registered(c, b, k)
      BY <1>1, <2>1, <2>2, <2>6 DEF StartCb
    <3>2. HeldOK(u)'
      <4>1. /\ IsSeq(r.held)
            /\ \A n \in DOMAIN r.held :
                 r.held[n] \in DOMAIN events /\ events[r.held[n]].call = c /\ events[r.held[n]].phase = "start"
            /\ r.ops[1].op = "mark" =>
                 /\ r.held # <<>>
                 /\ events[r.held[Len(r.held)]].kind = KindAt(calls[c].api, r.ops[1].key)
            /\ \A j \in DOMAIN r.ops : PairAt(r.ops, j) =>
                 Len(r.held) = (IF j >= 3 THEN 0 ELSE 3 - j) /\ calls[c].api = "sync"
        BY <2>1, <2>2, <3>1 DEF HeldOK
      <4>2. r.held # <<>> => Len(r.held) \in DOMAIN r.held BY <4>1 DEF IsSeq
      <4>3. cb'[u] = r /\ cb'[u].call = c BY <2>1, <2>2
      <4>4. \A n \in DOMAIN r.held :
               r.held[n] \in DOMAIN events' /\ events'[r.held[n]].call = c /\ events'[r.held[n]].phase = "start"
        BY <2>4, <4>1
      <4>5. r.ops[1].op = "mark" => events'[r.held[Len(r.held)]].kind = KindAt(calls'[c].api, r.ops[1].key)
        BY <2>3, <2>4, <4>1, <4>2
      <4> QED BY <2>3, <4>1, <4>3, <4>4, <4>5 DEF HeldOK
    <3>3. \A b \in Tables, k \in Keys :
            /\ HasMark(r.ops, b, k) => Marks(c, b, k)'
            /\ Marks(c, b, k)' => HasMark(r.ops, b, k) \/ Registered(c, b, k)'
      BY <2>3, <2>5, <3>1 DEF Kept
    <3> QED BY <2>1, <2>2, <2>3, <2>6, <3>1, <3>2, <3>3 DEF StartCb, EndCb
  <2>7. CASE r.phase # "start"
    <3> SUFFICES ASSUME r.phase = "end" PROVE EndCb(u)' BY <2>2, <2>7 DEF StartCb, EndCb
    <3>1. /\ EndLooks(calls[c].api, r.ops) /\ IsSeq(r.found)
          /\ StartOf(c) # NoCallback =>
               /\ \A b \in Tables, k \in Keys : HasLook(r.ops, b, k) => Marks(c, b, k) /\ Registered(c, b, k)
               /\ \A j \in DOMAIN r.ops : TakeOK(u, j)
      BY <1>1, <2>1, <2>2 DEF EndCb
    <3>2. ASSUME NEW j \in DOMAIN r.ops, TakeOK(u, j) PROVE TakeOK(u, j)'
      <4>1. PICK x, kind : x = r.found[Turn(r.ops, j)] /\ kind = r.ops[j].kind OBVIOUS
      <4>2. r.ops[j].op = "add" /\ NoLookBetween(r.ops, 0, j) =>
              Turn(r.ops, j) <= Len(r.found) /\ Good(c, kind, x)
        BY <2>1, <2>2, <3>2, <4>1 DEF TakeOK
      <4>3. Good(c, kind, x) => Good(c, kind, x)' BY GoodStays
      <4> QED BY <2>1, <2>2, <4>1, <4>2, <4>3 DEF TakeOK
    <3>3. \A b \in Tables, k \in Keys : Marks(c, b, k) /\ Registered(c, b, k) => Marks(c, b, k)' /\ Registered(c, b, k)'
      BY <2>3, <2>5 DEF Kept
    <3> QED BY <2>1, <2>2, <2>3, <3>1, <3>2, <3>3 DEF EndCb
  <2> QED BY <2>6, <2>7
<1> QED BY <1>0, <1>1


\* What a thread has in hand after a call of its callback.
LEMMA AdvanceHands ==
  ASSUME CbInv, NEW t \in Threads, NEW me, CbForm(me), NEW rest, Advance(t, rest, me), cb'[t].ops # <<>>
  PROVE  cb'[t].held = me.held /\ cb'[t].found = me.found
<1>1. cb = [u \in Threads |-> cb[u]] BY DEF CbInv
<1>2. CASE rest = <<>>
  <2>1. cb' = [cb EXCEPT ![t] = Idle] BY <1>2 DEF Advance
  <2>2. cb'[t] = Idle BY <1>1, <2>1
  <2> QED BY <2>2 DEF Idle
<1>3. CASE rest # <<>>
  <2> DEFINE q == [me EXCEPT !.ops = rest]
  <2>1. cb' = [cb EXCEPT ![t] = q] BY <1>3 DEF Advance
  <2>2. q.held = me.held /\ q.found = me.found BY DEF CbForm
  <2> HIDE DEF q
  <2>3. cb'[t] = q BY <1>1, <2>1
  <2> QED BY <2>2, <2>3
<1> QED BY <1>2, <1>3

\* addEvent: the new event is in hand, and it has taken a start that was found.
LEMMA AddHands ==
  ASSUME CbInv, NEW t \in Threads, addEvent(t), cb'[t].ops # <<>>
  PROVE  /\ cb'[t].held = Append(cb[t].held, Len(events) + 1)
         /\ cb'[t].found = IF cb[t].found = <<>> THEN cb[t].found ELSE Tail(cb[t].found)
<1>1. CbForm(cb[t]) BY DEF CbInv, CbOK
<1>2. PICK h, f : /\ h = Append(cb[t].held, Len(events) + 1)
                  /\ f = IF cb[t].found = <<>> THEN cb[t].found ELSE Tail(cb[t].found)
  OBVIOUS
<1>3. Advance(t, Tail(cb[t].ops), Updated(cb[t], h, f))
  <2>1. Updated(cb[t], h, f) =
          [cb[t] EXCEPT !.held = Append(@, Len(events) + 1),
                        !.found = IF @ = <<>> THEN @ ELSE Tail(@)]
    BY <1>2, Zenon DEF Updated
  <2> QED BY <2>1, Zenon DEF addEvent
<1>4. PICK me : me = Updated(cb[t], h, f) OBVIOUS
<1>5. CbForm(me) /\ me.held = h /\ me.found = f BY <1>1, <1>4, CbUpdate
<1>6. Advance(t, Tail(cb[t].ops), me) BY <1>3, <1>4
<1> QED BY <1>2, <1>5, <1>6, AdvanceHands

\* the entries that the next call of thread t looks up
Looked(t) ==
  {s \in starts : s.table = Head(cb[t].ops).table /\ s.key = KeyOf(cb[t].call, Head(cb[t].ops).key)}

\* lookupStart: the entry is taken out of the tables and in hand.
LEMMA LookHands ==
  ASSUME CbInv, NEW t \in Threads, lookupStart(t)
  PROVE  /\ Head(cb[t].ops).op = "look" /\ starts' = starts \ Looked(t)
         /\ cb'[t].ops # <<>> =>
              /\ cb'[t].held = cb[t].held
              /\ cb'[t].found = IF Looked(t) = {} THEN <<0>> ELSE (CHOOSE s \in Looked(t) : TRUE).ids
<1>1. CbForm(cb[t]) BY DEF CbInv, CbOK
<1>2. PICK f : f = IF Looked(t) = {} THEN <<0>> ELSE (CHOOSE s \in Looked(t) : TRUE).ids OBVIOUS
<1>3. /\ Head(cb[t].ops).op = "look" /\ starts' = starts \ Looked(t)
      /\ Advance(t, Tail(cb[t].ops), [cb[t] EXCEPT !.found = f])
  BY <1>2 DEF lookupStart, Looked, Next1
<1> DEFINE me == [cb[t] EXCEPT !.found = f]
<1>4. CbForm(me) /\ me.held = cb[t].held /\ me.found = f BY <1>1 DEF CbForm
<1>5. Advance(t, Tail(cb[t].ops), me) BY <1>3
<1> HIDE DEF me
<1>6. cb'[t].ops # <<>> => cb'[t].held = me.held /\ cb'[t].found = me.found BY <1>4, <1>5, AdvanceHands
<1> QED BY <1>2, <1>3, <1>4, <1>6

\* The other calls leave what is in hand.
LEMMA PlainHands ==
  ASSUME CbInv, NEW t \in Threads, Operation(t), ~addEvent(t), ~lookupStart(t), cb'[t].ops # <<>>
  PROVE  /\ cb'[t].held = cb[t].held /\ cb'[t].found = cb[t].found
         /\ Head(cb[t].ops).op \notin {"add", "look"}
<1>1. CbForm(cb[t]) BY DEF CbInv, CbOK
<1>2. /\ \E rest : Advance(t, rest, cb[t])
      /\ Head(cb[t].ops).op \notin {"add", "look"}
  <2>1. CASE addString(t) BY <2>1 DEF addString, Next1
  <2>2. CASE registerStart(t) BY <2>2 DEF registerStart, Next1
  <2>3. CASE quitUnstarted(t) BY <2>3 DEF quitUnstarted, Next1
  <2>4. CASE addOpenCLMapping(t) BY <2>4 DEF addOpenCLMapping, Next1
  <2>5. CASE logFunctionCallStart(t) BY <2>5 DEF logFunctionCallStart, Next1
  <2>6. CASE logFunctionCallEnd(t) BY <2>6 DEF logFunctionCallEnd, Next1
  <2> QED BY <2>1, <2>2, <2>3, <2>4, <2>5, <2>6 DEF Operation
<1> QED BY <1>1, <1>2, AdvanceHands

\* thread t registers ids under a key, with another id in the first place
Registers(t, b, key, ids, first) ==
  /\ b = Head(cb[t].ops).table /\ key = KeyOf(cb[t].call, Head(cb[t].ops).key)
  /\ ids = IF b = "pair" THEN cb[t].held ELSE <<Last(cb[t].held)>>
  /\ first = ids[1] \/ (first = 0 /\ ids[1] \in freed)
  /\ starts' = {s \in starts : s.table # b \/ s.key # key}
                 \cup {[table |-> b, key |-> key, ids |-> [ids EXCEPT ![1] = first]]}
  /\ dangling' = dangling \cup (ToSet(ids) \cap freed)

\* registerStart: the id of a start that was deleted may be lost.
LEMMA MarkEffect ==
  ASSUME NEW t \in Threads, registerStart(t)
  PROVE  /\ Head(cb[t].ops).op = "mark" /\ cb[t].ops # <<>>
         /\ \E b, key, ids, first : Registers(t, b, key, ids, first)
<1>1. PICK ids, b, key : /\ b = Head(cb[t].ops).table /\ key = KeyOf(cb[t].call, Head(cb[t].ops).key)
                         /\ ids = IF b = "pair" THEN cb[t].held ELSE <<Last(cb[t].held)>>
  OBVIOUS
<1>2. /\ \E first \in getEventId(ids[1]) :
           starts' = {s \in starts : s.table # b \/ s.key # key}
                       \cup {[table |-> b, key |-> key, ids |-> [ids EXCEPT ![1] = first]]}
      /\ dangling' = dangling \cup (ToSet(ids) \cap freed)
      /\ Head(cb[t].ops).op = "mark" /\ cb[t].ops # <<>>
  BY <1>1, Zenon DEF registerStart, Next1
<1>3. PICK first \in getEventId(ids[1]) :
           starts' = {s \in starts : s.table # b \/ s.key # key}
                       \cup {[table |-> b, key |-> key, ids |-> [ids EXCEPT ![1] = first]]}
  BY <1>2
<1>4. first = ids[1] \/ (first = 0 /\ ids[1] \in freed) BY <1>3 DEF getEventId
<1>5. Registers(t, b, key, ids, first) BY <1>1, <1>2, <1>3, <1>4, Zenon DEF Registers
<1> QED BY <1>2, <1>5, Zenon


\* What a call of a callback is.
LEMMA OpFacts ==
  ASSUME CbInv, NEW t \in Threads, Operation(t)
  PROVE  /\ cb[t].ops \in Seq(Op) /\ cb[t].ops # <<>> /\ 1 \in DOMAIN cb[t].ops
         /\ Head(cb[t].ops) = cb[t].ops[1] /\ cb[t].call \in 1..Len(calls)
         /\ cb[t].phase \in {"start", "end"} /\ calls' = calls /\ Goes(t)
         /\ cb[t].phase = "start" => ~Has(cb[t].ops, "quit")
         /\ cb[t].ops[1].op \in {"mark", "look"} =>
              cb[t].ops[1].table \in Tables /\ cb[t].ops[1].key \in Keys
<1>1. Goes(t) BY OperationGoes
<1>2. /\ cb[t].ops # <<>> /\ calls' = calls BY <1>1 DEF Goes
<1>3. CbOK(t) BY DEF CbInv
<1>4. PICK ops \in Seq(Op) : ops = cb[t].ops BY <1>3 DEF CbOK
<1>5. 1 \in DOMAIN ops /\ Head(ops) = ops[1] /\ ops[1] \in Op
  <2>1. 1 \in DOMAIN ops /\ Head(ops) = ops[1] BY <1>2, <1>4, TailProgram
  <2> QED BY <2>1
<1>6. ops[1].op \in {"mark", "look"} => ops[1].table \in Tables /\ ops[1].key \in Keys
  <2>1. CASE ops[1] \in {Name, MapCommand, CallStart, CallEnd, QuitUnstarted}
    BY <2>1 DEF Name, MapCommand, CallStart, CallEnd, QuitUnstarted
  <2>2. CASE \E k \in Kinds : ops[1] = Add(k) BY <2>2 DEF Add
  <2>3. CASE \E b \in Tables, k \in Keys : ops[1] = Mark(b, k) BY <2>3 DEF Mark
  <2>4. CASE \E b \in Tables, k \in Keys : ops[1] = Look(b, k) BY <2>4 DEF Look
  <2> QED BY <1>5, <2>1, <2>2, <2>3, <2>4 DEF Op
<1>7. /\ cb[t].call \in 1..Len(calls) /\ cb[t].phase \in {"start", "end"}
      /\ cb[t].phase = "start" => ~Has(cb[t].ops, "quit")
  BY <1>2, <1>3 DEF CbOK, StartRest
<1> QED BY <1>1, <1>2, <1>4, <1>5, <1>6, <1>7

\* A start takes no other call's place in the tables.
LEMMA KeptMark ==
  ASSUME Stays, NEW t \in Threads, registerStart(t), NEW c \in 1..Len(calls)
  PROVE  Kept(c)
<1>1. PICK b, key, ids, first : Registers(t, b, key, ids, first) BY MarkEffect
<1>2. PICK n : n = [table |-> b, key |-> key, ids |-> [ids EXCEPT ![1] = first]] OBVIOUS
<1>3. n.table = b /\ n.key = key BY <1>2
<1>4. starts' = {s \in starts : s.table # b \/ s.key # key} \cup {n} BY <1>1, <1>2 DEF Registers
<1>5. \A m : KeyOf(c, m)' = KeyOf(c, m) BY CallStays
<1>6. ASSUME NEW d, NEW m, Registered(c, d, m) PROVE Registered(c, d, m)'
  <2>1. PICK s \in starts : s.table = d /\ s.key = KeyOf(c, m) BY <1>6 DEF Registered
  <2>2. \E s2 \in starts' : s2.table = d /\ s2.key = KeyOf(c, m)
    <3>1. CASE s.table = b /\ s.key = key BY <1>3, <1>4, <2>1, <3>1
    <3>2. CASE ~(s.table = b /\ s.key = key) BY <1>4, <2>1, <3>2
    <3> QED BY <3>1, <3>2
  <2> QED BY <1>5, <2>2 DEF Registered
<1> QED BY <1>6 DEF Kept

\* An end takes only the start of its own call.
LEMMA LookKeeps ==
  ASSUME CbInv, OwnInv, Stays, NEW t \in Threads, lookupStart(t),
         NEW c \in 1..Len(calls), NEW b \in Tables, NEW k \in Keys, Marks(c, b, k), Registered(c, b, k),
         c # cb[t].call \/ k # cb[t].ops[1].key
  PROVE  Registered(c, b, k)'
<1>0. Operation(t) BY DEF Operation
<1>1. PICK d \in 1..Len(calls) : d = cb[t].call BY <1>0, OpFacts
<1>2. PICK ops \in Seq(Op) : ops = cb[t].ops /\ ops # <<>> /\ 1 \in DOMAIN ops /\ Head(ops) = ops[1]
  BY <1>0, OpFacts
<1>3. ops[1].op = "look" /\ starts' = starts \ Looked(t) BY <1>2, LookHands
<1>4. PICK b0 \in Tables, k0 \in Keys : b0 = ops[1].table /\ k0 = ops[1].key BY <1>0, <1>2, <1>3, OpFacts
<1>5. Legal(calls[d].api, b0, k0)
  <2>1. HasLook(ops, b0, k0) /\ Has(ops, "look") BY <1>2, <1>3, <1>4 DEF HasLook, Has
  <2>2. cb[t].phase = "end"
    <3>1. cb[t].phase = "start" => ~Has(ops, "look")
      BY <1>2 DEF OwnInv, StartCb, StartMarks
    <3> QED BY <1>0, <2>1, <3>1, OpFacts
  <2>3. EndLooks(calls[d].api, ops) BY <1>1, <1>2, <2>2 DEF OwnInv, EndCb
  <2> QED BY <2>1, <2>3 DEF EndLooks
<1>6. PICK s \in starts : s.table = b /\ s.key = KeyOf(c, k) BY DEF Registered
<1>7. s \notin Looked(t)
  <2> SUFFICES ASSUME s \in Looked(t) PROVE FALSE OBVIOUS
  <2>1. b = b0 /\ KeyOf(c, k) = KeyOf(d, k0) BY <1>1, <1>2, <1>4, <1>6 DEF Looked
  <2>2. Legal(calls[c].api, b, k) BY MarksLegal
  <2>3. c = d /\ k = k0 BY <1>5, <2>1, <2>2, KeysDiffer DEF OwnInv
  <2> QED BY <1>1, <1>2, <1>4, <2>3
<1>8. s \in starts' BY <1>3, <1>6, <1>7
<1>9. KeyOf(c, k)' = KeyOf(c, k) BY CallStays
<1> QED BY <1>6, <1>8, <1>9 DEF Registered

\* A call of a callback keeps what the other calls have registered, and in a start
\* what its own has.
LEMMA KeptOp ==
  ASSUME CbInv, OwnInv, Stays, NEW t \in Threads, Operation(t), NEW c \in 1..Len(calls),
         c # cb[t].call \/ cb[t].phase = "start"
  PROVE  Kept(c)
<1>1. CASE registerStart(t) BY <1>1, KeptMark
<1>2. CASE lookupStart(t)
  <2>1. c # cb[t].call
    <3>1. cb[t].phase = "start" => ~Has(cb[t].ops, "look")
      <4>1. cb[t].ops # <<>> BY OpFacts
      <4> QED BY <4>1 DEF OwnInv, StartCb, StartMarks
    <3>2. Head(cb[t].ops).op = "look" BY <1>2, LookHands
    <3>3. Has(cb[t].ops, "look") BY <3>2, OpFacts DEF Has
    <3> QED BY <3>1, <3>3
  <2> QED BY <1>2, <2>1, LookKeeps DEF Kept
<1>3. CASE starts' = starts BY <1>3, KeptSame
<1> QED BY <1>1, <1>2, <1>3, StartsSame


\* The events in hand after a call of a start callback.
LEMMA HeldGoes ==
  ASSUME CbInv, NameInv, OwnInv, Stays, NEW t \in Threads, Operation(t), cb[t].phase = "start",
         cb'[t].ops # <<>>
  PROVE  HeldOK(t)'
<1>1. PICK c \in 1..Len(calls) : c = cb[t].call BY OpFacts
<1>2. PICK ops \in Seq(Op) : ops = cb[t].ops /\ ops # <<>> /\ 1 \in DOMAIN ops /\ Head(ops) = ops[1]
  BY OpFacts
<1>3. PICK held, api : held = cb[t].held /\ api = calls[c].api OBVIOUS
<1>4. /\ StartMarks(api, ops) /\ HeldOK(t) BY <1>1, <1>2, <1>3 DEF OwnInv, StartCb
<1>5. /\ IsSeq(held)
      /\ \A n \in DOMAIN held :
           held[n] \in DOMAIN events /\ events[held[n]].call = c /\ events[held[n]].phase = "start"
      /\ \A j \in DOMAIN ops : PairAt(ops, j) => Len(held) = (IF j >= 3 THEN 0 ELSE 3 - j) /\ api = "sync"
  BY <1>1, <1>2, <1>3, <1>4 DEF HeldOK
<1>6. PICK r : r = Tail(ops) OBVIOUS
<1>7. /\ cb'[t].ops = r /\ cb'[t].call = c /\ cb'[t].phase = "start" /\ calls' = calls
  BY <1>1, <1>2, <1>6, OpFacts, GoesRest DEF Goes
<1>8. /\ r \in Seq(Op) /\ \A j \in DOMAIN r : r[j] = ops[j + 1] /\ j + 1 \in DOMAIN ops
  BY <1>2, <1>6, TailProgram
<1>9. \A j \in DOMAIN r : j \in Nat /\ j >= 1 BY <1>8
<1>10. 1 \in DOMAIN r BY <1>7, <1>8
<1>11. r[1].op = "mark" => ops[1].op = "add" /\ ops[1].kind = KindAt(api, r[1].key)
  <2>1. r[1] = ops[2] /\ 2 \in DOMAIN ops BY <1>8, <1>10
  <2>2. ops[2].op = "mark" => ops[2 - 1].op = "add" /\ ops[2 - 1].kind = KindAt(api, ops[2].key)
    BY <1>4, <2>1 DEF StartMarks, MarksFollow
  <2> QED BY <2>1, <2>2
<1>12. ASSUME NEW j \in DOMAIN r, PairAt(r, j)
       PROVE  /\ api = "sync" /\ Len(held) = (IF j + 1 >= 3 THEN 0 ELSE 3 - (j + 1))
              /\ ops[1].op = IF j = 3 THEN "name" ELSE "add"
              /\ j \in 1..3
  <2>1. PICK m \in DOMAIN ops : m = j + 1 BY <1>8
  <2>2. PairAt(ops, m) BY <1>8, <1>12, <2>1 DEF PairAt
  <2>3. m <= 4 /\ \A n \in 1..(m - 1) : ops[n].op = IF m = 4 /\ n = 1 THEN "name" ELSE "add"
    BY <1>4, <2>2 DEF StartMarks, PairShape
  <2>4. 1 \in 1..(m - 1) /\ (m = 4 <=> j = 3) /\ j \in 1..3 BY <1>9, <2>1, <2>3
  <2> QED BY <1>5, <2>1, <2>2, <2>3, <2>4
<1>13. \A i \in DOMAIN events : i \in DOMAIN events' /\ events'[i] = events[i] BY DEF Stays, Grown
<1>14. CASE addEvent(t)
  <2>1. PICK e : events' = Append(events, e) /\ e.call = c /\ e.kind = ops[1].kind /\ e.phase = "start"
    BY <1>1, <1>2, <1>14, EventEffect
  <2>2. PICK n : n = Len(events) + 1 OBVIOUS
  <2>3. n \in DOMAIN events' /\ events'[n] = e
    <3>1. IsSeq(events) BY DEF NameInv
    <3>2. /\ Len(events) \in Nat /\ DOMAIN Append(events, e) = 1..(Len(events) + 1)
          /\ Append(events, e)[Len(events) + 1] = e
      BY <3>1, AppendForm
    <3> QED BY <2>1, <2>2, <3>2
  <2>4. cb'[t].held = Append(held, n) BY <1>3, <1>14, <2>2, AddHands
  <2>5. PICK h : h = Append(held, n) OBVIOUS
  <2>6. /\ IsSeq(h) /\ Len(held) \in Nat /\ Len(h) = Len(held) + 1
        /\ (\A i \in DOMAIN h : i \in DOMAIN held \/ i = Len(held) + 1)
        /\ (\A i \in DOMAIN held : h[i] = held[i]) /\ h[Len(held) + 1] = n
    BY <1>5, <2>5, AppendForm
  <2>7. h # <<>> BY <2>6
  <2>8. ASSUME NEW m \in DOMAIN h
        PROVE  h[m] \in DOMAIN events' /\ events'[h[m]].call = c /\ events'[h[m]].phase = "start"
    BY <1>5, <1>13, <2>1, <2>3, <2>6
  <2>9. r[1].op = "mark" => events'[h[Len(h)]].kind = KindAt(api, r[1].key)
    BY <1>11, <2>1, <2>3, <2>6
  <2>10. ASSUME NEW j \in DOMAIN r, PairAt(r, j)
         PROVE  Len(h) = (IF j >= 3 THEN 0 ELSE 3 - j) /\ api = "sync"
    <3>1. ops[1].op = "add" BY <1>2, <1>14, EventEffect
    <3>2. j = 1 \/ j = 2 BY <1>12, <2>10, <3>1
    <3> QED BY <1>12, <2>6, <2>10, <3>2
  <2> QED BY <1>3, <1>7, <2>4, <2>5, <2>6, <2>7, <2>8, <2>9, <2>10 DEF HeldOK
<1>15. CASE ~addEvent(t)
  <2>1. cb'[t].held = held /\ ops[1].op # "add"
    <3>1. CASE lookupStart(t) BY <1>2, <1>3, <3>1, LookHands
    <3>2. CASE ~lookupStart(t) BY <1>2, <1>3, <1>15, <3>2, PlainHands
    <3> QED BY <3>1, <3>2
  <2>2. r[1].op # "mark" BY <1>11, <2>1
  <2>3. \A m \in DOMAIN held :
          held[m] \in DOMAIN events' /\ events'[held[m]].call = c /\ events'[held[m]].phase = "start"
    BY <1>5, <1>13
  <2>4. ASSUME NEW j \in DOMAIN r, PairAt(r, j)
        PROVE  Len(held) = (IF j >= 3 THEN 0 ELSE 3 - j) /\ api = "sync"
    <3>1. j = 3 BY <1>12, <2>1, <2>4
    <3> QED BY <1>12, <2>4, <3>1
  <2> QED BY <1>3, <1>5, <1>7, <2>1, <2>2, <2>3, <2>4 DEF HeldOK
<1> QED BY <1>14, <1>15

\* A call of a start callback: what it is to register it has registered or will.
LEMMA StartGoes ==
  ASSUME CbInv, NameInv, OwnInv, Stays, NEW t \in Threads, Operation(t), cb[t].phase = "start",
         NEW c \in 1..Len(calls), c = cb[t].call
  PROVE  /\ StartCb(t)' /\ EndCb(t)'
         /\ \A b \in Tables, k \in Keys : Marks(c, b, k) =>
              HasMark(Tail(cb[t].ops), b, k) \/ Registered(c, b, k)'
<1>2. PICK ops \in Seq(Op) : ops = cb[t].ops /\ ops # <<>> /\ 1 \in DOMAIN ops /\ Head(ops) = ops[1]
  BY OpFacts
<1>3. PICK api : api = calls[c].api OBVIOUS
<1>4. /\ StartOf(c) # NoCallback /\ StartMarks(api, ops)
      /\ \A b \in Tables, k \in Keys :
           /\ HasMark(ops, b, k) => Marks(c, b, k)
           /\ Marks(c, b, k) => HasMark(ops, b, k) \/ Registered(c, b, k)
  BY <1>2, <1>3 DEF OwnInv, StartCb
<1>5. Kept(c) BY KeptOp
<1>6. PICK r : r = Tail(ops) OBVIOUS
<1>7. /\ StartMarks(api, r)
      /\ \A b, k : /\ HasMark(r, b, k) => HasMark(ops, b, k)
                   /\ HasMark(ops, b, k) =>
                        HasMark(r, b, k) \/ (ops[1].op = "mark" /\ ops[1].table = b /\ ops[1].key = k)
  BY <1>2, <1>4, <1>6, MarksTail
<1>8. ASSUME NEW b \in Tables, NEW k \in Keys, ops[1].op = "mark", ops[1].table = b, ops[1].key = k
      PROVE  Registered(c, b, k)'
  <2>1. registerStart(t)
    BY <1>2, <1>8 DEF Operation, addString, addEvent, lookupStart, quitUnstarted, addOpenCLMapping,
       logFunctionCallStart, logFunctionCallEnd, Next1
  <2>2. PICK d, key, ids, first : Registers(t, d, key, ids, first) BY <2>1, MarkEffect
  <2>3. d = b /\ key = KeyOf(c, k) BY <1>2, <1>8, <2>2 DEF Registers
  <2>4. PICK n : n = [table |-> d, key |-> key, ids |-> [ids EXCEPT ![1] = first]] OBVIOUS
  <2>5. n \in starts' /\ n.table = b /\ n.key = KeyOf(c, k) BY <2>2, <2>3, <2>4 DEF Registers
  <2>6. KeyOf(c, k)' = KeyOf(c, k) BY CallStays
  <2> QED BY <2>5, <2>6 DEF Registered
<1>9. ASSUME NEW b \in Tables, NEW k \in Keys, Marks(c, b, k)
      PROVE  HasMark(r, b, k) \/ Registered(c, b, k)'
  BY <1>4, <1>5, <1>7, <1>8, <1>9 DEF Kept
<1>10. ASSUME cb'[t].ops # <<>> PROVE StartCb(t)' /\ EndCb(t)'
  <2>1. /\ cb'[t].ops = r /\ cb'[t].call = c /\ cb'[t].phase = "start" /\ calls' = calls
    BY <1>2, <1>6, <1>10, OpFacts, GoesRest DEF Goes
  <2>2. HeldOK(t)' BY <1>10, HeldGoes
  <2>3. StartOf(c)' = StartOf(c) /\ \A b, k : Marks(c, b, k)' <=> Marks(c, b, k) BY CallStays
  <2>4. \A b \in Tables, k \in Keys :
          /\ HasMark(r, b, k) => Marks(c, b, k)'
          /\ Marks(c, b, k)' => HasMark(r, b, k) \/ Registered(c, b, k)'
    BY <1>4, <1>7, <1>9, <2>3
  <2>5. calls'[c].api = api BY <1>3, <2>1
  <2> QED BY <1>4, <1>7, <2>1, <2>2, <2>3, <2>4, <2>5 DEF StartCb, EndCb
<1>11. cb'[t].ops = <<>> => StartCb(t)' /\ EndCb(t)' BY DEF StartCb, EndCb
<1> QED BY <1>2, <1>6, <1>9, <1>10, <1>11


\* The starts in hand after a call of an end callback.
LEMMA TakeGoes ==
  ASSUME CbInv, OwnInv, Stays, NEW t \in Threads, Operation(t), cb[t].phase = "end",
         NEW c \in 1..Len(calls), c = cb[t].call, StartOf(c) # NoCallback,
         cb'[t].ops # <<>>, NEW j \in DOMAIN cb'[t].ops
  PROVE  TakeOK(t, j)'
<1>1. PICK ops \in Seq(Op) : ops = cb[t].ops /\ ops # <<>> /\ 1 \in DOMAIN ops /\ Head(ops) = ops[1]
  BY OpFacts
<1>2. PICK found, api : found = cb[t].found /\ api = calls[c].api OBVIOUS
<1>3. /\ EndLooks(api, ops) /\ IsSeq(found)
      /\ \A b \in Tables, k \in Keys : HasLook(ops, b, k) => Marks(c, b, k) /\ Registered(c, b, k)
      /\ \A m \in DOMAIN ops : TakeOK(t, m)
  BY <1>1, <1>2 DEF OwnInv, EndCb
<1>4. PICK r : r = Tail(ops) OBVIOUS
<1>5. /\ cb'[t].ops = r /\ cb'[t].call = c /\ cb'[t].phase = "end" /\ calls' = calls
  BY <1>1, <1>4, OpFacts, GoesRest DEF Goes
<1>6. /\ r \in Seq(Op) /\ \A m \in DOMAIN r : r[m] = ops[m + 1] /\ m + 1 \in DOMAIN ops
  BY <1>1, <1>4, TailProgram
<1>7. PICK n \in DOMAIN ops : n = j + 1 /\ r[j] = ops[n] BY <1>5, <1>6
<1>8. j \in Nat /\ j >= 1 /\ n \in Nat /\ n > 1 /\ 1..j \subseteq DOMAIN r
  <2>1. DOMAIN r = 1..Len(r) /\ Len(r) \in Nat /\ j \in DOMAIN r BY <1>5, <1>6
  <2> QED BY <1>7, <2>1
<1>9. \A m \in 1..(j - 1) : r[m] = ops[m + 1] /\ m + 1 \in (1 + 1)..(n - 1) /\ m + 1 \in DOMAIN ops
  <2> SUFFICES ASSUME NEW m \in 1..(j - 1)
               PROVE  r[m] = ops[m + 1] /\ m + 1 \in (1 + 1)..(n - 1) /\ m + 1 \in DOMAIN ops
    OBVIOUS
  <2>1. m \in DOMAIN r /\ m \in Nat /\ m + 1 \in (1 + 1)..(n - 1) BY <1>7, <1>8
  <2> QED BY <1>6, <2>1
<1>10. \A m \in (1 + 1)..(n - 1) : m - 1 \in 1..(j - 1) /\ r[m - 1] = ops[m]
  <2> SUFFICES ASSUME NEW m \in (1 + 1)..(n - 1) PROVE m - 1 \in 1..(j - 1) /\ r[m - 1] = ops[m]
    OBVIOUS
  <2>1. m - 1 \in 1..(j - 1) /\ (m - 1) + 1 = m BY <1>7, <1>8
  <2> QED BY <1>9, <2>1
<1> SUFFICES ASSUME r[j].op = "add", NoLookBetween(r, 0, j)
             PROVE  \E x : /\ Turn(r, j) <= Len(cb'[t].found) /\ x = cb'[t].found[Turn(r, j)]
                           /\ Good(c, r[j].kind, x)'
  BY <1>5 DEF TakeOK
<1>11. NoLookBetween(ops, 1, n)
  <2> SUFFICES ASSUME NEW m \in (1 + 1)..(n - 1) PROVE ops[m].op # "look" BY DEF NoLookBetween
  <2>1. m - 1 \in (0 + 1)..(j - 1) /\ r[m - 1] = ops[m] BY <1>10
  <2> QED BY <2>1 DEF NoLookBetween
<1>12. ops[n].op = "add" BY <1>7
<1>13. ops[1].op # "look" => NoLookBetween(ops, 0, n)
  <2> SUFFICES ASSUME ops[1].op # "look", NEW m \in (0 + 1)..(n - 1) PROVE ops[m].op # "look"
    BY DEF NoLookBetween
  <2>1. m = 1 \/ m \in (1 + 1)..(n - 1) BY <1>8
  <2> QED BY <1>11, <2>1 DEF NoLookBetween
<1>14. ops[1].op # "look" => Turn(ops, n) <= Len(found) /\ Good(c, ops[n].kind, found[Turn(ops, n)])
  <2>1. TakeOK(t, n) BY <1>3
  <2> QED BY <1>1, <1>2, <1>12, <1>13, <2>1 DEF TakeOK
<1>15. Turn(r, j) = IF \E m \in (1 + 1)..(n - 1) : ops[m].op = "add" THEN 2 ELSE 1
  <2>1. (\E m \in 1..(j - 1) : r[m].op = "add") <=> \E m \in (1 + 1)..(n - 1) : ops[m].op = "add"
    BY <1>9, <1>10
  <2> QED BY <2>1 DEF Turn
<1>16. CASE addEvent(t)
  <2>1. ops[1].op = "add" BY <1>1, <1>16 DEF addEvent, Next1
  <2>2. Turn(ops, n) = 2
    <3>1. 1 \in 1..(n - 1) BY <1>8
    <3> QED BY <2>1, <3>1 DEF Turn
  <2>3. Turn(r, j) = 1
    <3> SUFFICES ASSUME NEW m \in (1 + 1)..(n - 1), ops[m].op = "add" PROVE FALSE BY <1>15
    <3>1. m \in DOMAIN ops /\ 1 < m /\ m < n
      <4>1. m - 1 \in 1..(j - 1) /\ (m - 1) + 1 = m BY <1>8, <1>10
      <4> QED BY <1>8, <1>9, <4>1
    <3> QED BY <1>1, <1>3, <1>12, <2>1, <3>1 DEF EndLooks, TwoAdds
  <2>4. 2 <= Len(found) /\ Good(c, ops[n].kind, found[2])
    <3>1. ops[1].op # "look" BY <2>1
    <3> QED BY <1>14, <2>2, <3>1
  <2>5. PICK S : found \in Seq(S) BY <1>3 DEF IsSeq
  <2>6. found # <<>> BY <2>4
  <2>7. Len(Tail(found)) = Len(found) - 1 /\ \A m \in 1..Len(Tail(found)) : Tail(found)[m] = found[m + 1]
    BY <2>5, <2>6, HeadTailProperties
  <2>8. 1 <= Len(Tail(found)) /\ Tail(found)[1] = found[2]
    <3>1. Len(found) \in Nat BY <2>5
    <3>2. Len(Tail(found)) \in Nat /\ 1 <= Len(Tail(found)) BY <2>4, <2>7, <3>1
    <3>3. 1 \in 1..Len(Tail(found)) /\ 1 + 1 = 2 BY <3>2
    <3> QED BY <2>7, <3>2, <3>3
  <2>9. cb'[t].found = Tail(found) BY <1>2, <1>16, <2>6, AddHands
  <2>10. PICK x, kind : x = found[2] /\ kind = ops[n].kind OBVIOUS
  <2>11. Good(c, kind, x)' BY <2>4, <2>10, GoodStays
  <2> QED BY <1>7, <2>3, <2>8, <2>9, <2>10, <2>11
<1>17. CASE lookupStart(t)
  <2>1. ops[1].op = "look" BY <1>1, <1>17, LookHands
  <2>2. PICK b \in Tables, k \in Keys : b = ops[1].table /\ k = ops[1].key BY <1>1, <2>1, OpFacts
  <2>3. HasLook(ops, b, k) BY <1>1, <2>1, <2>2 DEF HasLook
  <2>4. Marks(c, b, k) /\ Registered(c, b, k) /\ Legal(api, b, k) BY <1>3, <2>3 DEF EndLooks
  <2>5. Looked(t) = {s \in starts : s.table = b /\ s.key = KeyOf(c, k)} BY <1>1, <2>2 DEF Looked
  <2>6. Looked(t) # {} BY <2>4, <2>5 DEF Registered
  <2>7. PICK s \in Looked(t) : cb'[t].found = s.ids
    <3>1. cb'[t].found = (CHOOSE s \in Looked(t) : TRUE).ids BY <1>17, <2>6, LookHands
    <3>2. (CHOOSE s \in Looked(t) : TRUE) \in Looked(t) BY <2>6
    <3> QED BY <3>1, <3>2
  <2>8. Right(c, b, k, s.ids) /\ IsSeq(s.ids)
    <3>1. s \in starts /\ s.table = b /\ s.key = KeyOf(c, k) BY <2>5, <2>7
    <3>2. EntryRight(s) /\ CallsInv BY <3>1 DEF OwnInv
    <3>3. Legal(calls[c].api, b, k) BY <1>2, <2>4
    <3> QED BY <3>1, <3>2, <3>3, EntryOf
  <2>9. /\ ops[n].kind = KindAt(api, k)
        /\ b # "pair" => \A m \in (1 + 1)..(n - 1) : ops[m].op # "add"
    BY <1>1, <1>3, <1>8, <1>11, <1>12, <2>1, <2>2 DEF EndLooks, LooksRight
  <2>10. Turn(r, j) \in 1..Len(s.ids)
    <3>1. Len(s.ids) = IF b = "pair" THEN 2 ELSE 1 BY <2>8 DEF Right
    <3> QED BY <1>15, <2>9, <3>1
  <2>11. PICK m : m = Turn(r, j) OBVIOUS
  <2>12. m \in DOMAIN s.ids /\ m <= Len(s.ids)
    <3>1. DOMAIN s.ids = 1..Len(s.ids) /\ Len(s.ids) \in Nat BY <2>8 DEF IsSeq
    <3> QED BY <2>10, <2>11, <3>1
  <2>13. PICK x, kind : x = s.ids[m] /\ kind = r[j].kind OBVIOUS
  <2>14. Good(c, kind, x) BY <1>2, <1>7, <2>8, <2>9, <2>12, <2>13 DEF Right
  <2>15. Good(c, kind, x)' BY <2>14, GoodStays
  <2> QED BY <2>7, <2>11, <2>12, <2>13, <2>15
<1>18. CASE ~addEvent(t) /\ ~lookupStart(t)
  <2>1. cb'[t].found = found /\ ops[1].op \notin {"add", "look"} BY <1>1, <1>2, <1>18, PlainHands
  <2>2. Turn(ops, n) = Turn(r, j)
    <3>1. (\E m \in 1..(n - 1) : ops[m].op = "add") <=> \E m \in (1 + 1)..(n - 1) : ops[m].op = "add"
      <4>1. \A m \in 1..(n - 1) : m = 1 \/ m \in (1 + 1)..(n - 1) BY <1>8
      <4>2. \A m \in (1 + 1)..(n - 1) : m \in 1..(n - 1) BY <1>8
      <4> QED BY <2>1, <4>1, <4>2
    <3> QED BY <1>15, <3>1 DEF Turn
  <2>3. PICK x, kind : x = found[Turn(r, j)] /\ kind = r[j].kind OBVIOUS
  <2>4. Turn(r, j) <= Len(found) /\ Good(c, kind, x) BY <1>7, <1>14, <2>1, <2>2, <2>3
  <2>5. Good(c, kind, x)' BY <2>4, GoodStays
  <2> QED BY <2>1, <2>3, <2>4, <2>5
<1> QED BY <1>16, <1>17, <1>18


\* A call of an end callback: the starts that it has still to look up are there.
LEMMA EndGoes ==
  ASSUME CbInv, OwnInv, Stays, NEW t \in Threads, Operation(t), cb[t].phase = "end"
  PROVE  StartCb(t)' /\ EndCb(t)'
<1>0. CASE cb'[t].ops = <<>> BY <1>0 DEF StartCb, EndCb
<1> SUFFICES ASSUME cb'[t].ops # <<>> PROVE StartCb(t)' /\ EndCb(t)' BY <1>0
<1>1. PICK ops \in Seq(Op) : ops = cb[t].ops /\ ops # <<>> /\ 1 \in DOMAIN ops /\ Head(ops) = ops[1]
  BY OpFacts
<1>2. PICK c \in 1..Len(calls) : c = cb[t].call BY OpFacts
<1>3. PICK api : api = calls[c].api OBVIOUS
<1>4. /\ EndLooks(api, ops) /\ IsSeq(cb[t].found)
      /\ StartOf(c) # NoCallback =>
           \A b \in Tables, k \in Keys : HasLook(ops, b, k) => Marks(c, b, k) /\ Registered(c, b, k)
  BY <1>1, <1>2, <1>3 DEF OwnInv, EndCb
<1>5. PICK r : r = Tail(ops) OBVIOUS
<1>6. /\ cb'[t].ops = r /\ cb'[t].call = c /\ cb'[t].phase = "end" /\ calls' = calls
  BY <1>1, <1>2, <1>5, OpFacts, GoesRest DEF Goes
<1>7. EndLooks(api, r) /\ \A b, k : HasLook(r, b, k) => HasLook(ops, b, k)
  BY <1>1, <1>4, <1>5, MarksTail
<1>8. IsSeq(cb'[t].found)
  <2>1. CASE addEvent(t)
    <3>1. PICK f, S : f = cb[t].found /\ f \in Seq(S) BY <1>4 DEF IsSeq
    <3>2. f # <<>> => Tail(f) \in Seq(S) BY <3>1, HeadTailProperties
    <3>3. cb'[t].found = IF f = <<>> THEN f ELSE Tail(f) BY <2>1, <3>1, AddHands
    <3> QED BY <3>1, <3>2, <3>3 DEF IsSeq
  <2>2. CASE lookupStart(t)
    <3>1. cb'[t].found = IF Looked(t) = {} THEN <<0>> ELSE (CHOOSE s \in Looked(t) : TRUE).ids
      BY <2>2, LookHands
    <3>2. ASSUME Looked(t) # {} PROVE IsSeq((CHOOSE s \in Looked(t) : TRUE).ids)
      <4>1. (CHOOSE s \in Looked(t) : TRUE) \in starts BY <3>2 DEF Looked
      <4> QED BY <4>1 DEF OwnInv, EntryRight
    <3>3. IsSeq(<<0>>)
      <4>1. <<0>> \in Seq({0}) OBVIOUS
      <4> QED BY <4>1 DEF IsSeq
    <3> QED BY <3>1, <3>2, <3>3
  <2>3. CASE ~addEvent(t) /\ ~lookupStart(t) BY <1>4, <2>3, PlainHands
  <2> QED BY <2>1, <2>2, <2>3
<1>9. StartOf(c)' = StartOf(c) /\ \A b, k : Marks(c, b, k)' <=> Marks(c, b, k) BY CallStays
<1>10. ASSUME StartOf(c) # NoCallback, NEW b \in Tables, NEW k \in Keys, HasLook(r, b, k)
       PROVE  Marks(c, b, k)' /\ Registered(c, b, k)'
  <2>1. Marks(c, b, k) /\ Registered(c, b, k) BY <1>4, <1>7, <1>10
  <2>2. CASE lookupStart(t)
    <3>1. ops[1].op = "look" BY <1>1, <2>2, LookHands
    <3>2. k # ops[1].key
      <4>1. PICK j \in DOMAIN r : r[j].op = "look" /\ r[j].key = k BY <1>10 DEF HasLook
      <4>2. r[j] = ops[j + 1] /\ j + 1 \in DOMAIN ops /\ j \in Nat /\ j >= 1
        <5>1. r \in Seq(Op) /\ r[j] = ops[j + 1] /\ j + 1 \in DOMAIN ops BY <1>1, <1>5, TailProgram
        <5> QED BY <5>1
      <4>3. ops[j + 1].op = "look" /\ ops[j + 1].key = k /\ j + 1 # 1 BY <4>1, <4>2
      <4> QED BY <1>1, <1>4, <3>1, <4>2, <4>3 DEF EndLooks, LookOnce
    <3> QED BY <1>1, <1>9, <2>1, <2>2, <3>2, LookKeeps
  <2>3. CASE ~lookupStart(t)
    <3>1. Kept(c)
      <4>1. CASE registerStart(t) BY <4>1, KeptMark
      <4>2. CASE ~registerStart(t)
        <5>1. starts' = starts BY <2>3, <4>2, StartsSame
        <5> QED BY <5>1, KeptSame
      <4> QED BY <4>1, <4>2
    <3> QED BY <1>9, <2>1, <3>1 DEF Kept
  <2> QED BY <2>2, <2>3
<1>11. StartOf(c) # NoCallback => \A j \in DOMAIN cb'[t].ops : TakeOK(t, j)' BY <1>2, TakeGoes
<1>12. calls'[c].api = api BY <1>3, <1>6
<1> QED BY <1>6, <1>7, <1>8, <1>9, <1>10, <1>11, <1>12 DEF StartCb, EndCb

\* What a callback registers is a start of its call.
LEMMA EntryMark ==
  ASSUME CbInv, NameInv, OwnInv, Stays, NEW t \in Threads, registerStart(t)
  PROVE  \A s \in starts' : EntryRight(s)'
<1>0. Operation(t) BY DEF Operation
<1>1. PICK ops \in Seq(Op) : ops = cb[t].ops /\ ops # <<>> /\ 1 \in DOMAIN ops /\ Head(ops) = ops[1]
  BY <1>0, OpFacts
<1>2. PICK c \in 1..Len(calls) : c = cb[t].call BY <1>0, OpFacts
<1>3. ops[1].op = "mark" BY <1>1, MarkEffect
<1>4. PICK b \in Tables, k \in Keys : b = ops[1].table /\ k = ops[1].key BY <1>0, <1>1, <1>3, OpFacts
<1>5. cb[t].phase = "start"
  <2>1. Has(ops, "mark") BY <1>1, <1>3 DEF Has
  <2>2. cb[t].phase = "end" => ~Has(ops, "mark") BY <1>1 DEF OwnInv, EndCb, EndLooks
  <2> QED BY <1>0, <2>1, <2>2, OpFacts
<1>6. PICK held, api : held = cb[t].held /\ api = calls[c].api OBVIOUS
<1>7. /\ HeldOK(t) /\ \A d \in Tables, m \in Keys : HasMark(ops, d, m) => Marks(c, d, m)
  BY <1>1, <1>2, <1>5 DEF OwnInv, StartCb
<1>8. /\ IsSeq(held) /\ held # <<>>
      /\ \A n \in DOMAIN held :
           held[n] \in DOMAIN events /\ events[held[n]].call = c /\ events[held[n]].phase = "start"
      /\ events[held[Len(held)]].kind = KindAt(api, k)
      /\ b = "pair" => Len(held) = 2 /\ api = "sync"
  <2>1. /\ IsSeq(held) /\ held # <<>>
        /\ \A n \in DOMAIN held :
             held[n] \in DOMAIN events /\ events[held[n]].call = c /\ events[held[n]].phase = "start"
        /\ events[held[Len(held)]].kind = KindAt(api, k)
    BY <1>1, <1>2, <1>3, <1>4, <1>6, <1>7 DEF HeldOK
  <2>2. b = "pair" => PairAt(ops, 1) BY <1>3, <1>4 DEF PairAt
  <2>3. \A j \in DOMAIN ops : PairAt(ops, j) => Len(held) = (IF j >= 3 THEN 0 ELSE 3 - j) /\ api = "sync"
    BY <1>1, <1>2, <1>6, <1>7 DEF HeldOK
  <2>4. PairAt(ops, 1) => Len(held) = 2 /\ api = "sync"
    <3>1. PICK j \in DOMAIN ops : j = 1 BY <1>1
    <3>2. (IF j >= 3 THEN 0 ELSE 3 - j) = 2 BY <3>1
    <3>3. PairAt(ops, j) => Len(held) = 2 /\ api = "sync" BY <2>3, <3>2
    <3> QED BY <3>1, <3>3
  <2> QED BY <2>1, <2>2, <2>4
<1>9. Marks(c, b, k) /\ Legal(api, b, k)
  <2>1. HasMark(ops, b, k) BY <1>1, <1>3, <1>4 DEF HasMark
  <2>2. Marks(c, b, k) BY <1>7, <2>1
  <2> QED BY <1>6, <2>2, MarksLegal
<1>10. PICK d, key, ids, first : Registers(t, d, key, ids, first) BY MarkEffect
<1>11. /\ d = b /\ key = KeyOf(c, k)
       /\ ids = IF b = "pair" THEN held ELSE <<Last(held)>>
       /\ first = ids[1] \/ (first = 0 /\ ids[1] \in freed)
       /\ dangling' = dangling \cup (ToSet(ids) \cap freed)
  BY <1>1, <1>2, <1>4, <1>6, <1>10 DEF Registers
<1>12. PICK kind : kind = KindAt(api, k) OBVIOUS
<1>13. \A n \in DOMAIN held : b = "pair" => events[held[n]].kind = kind
  <2> SUFFICES ASSUME NEW n \in DOMAIN held, b = "pair" PROVE events[held[n]].kind = kind OBVIOUS
  <2>1. EventOK(held[n]) BY <1>8 DEF NameInv
  <2>2. API[api].plugin = "native" BY <1>8, APIFields
  <2>3. PluginOf(c) = "native" BY <1>6, <2>2 DEF PluginOf
  <2>4. events[held[n]].kind \in Takes["native"] BY <1>8, <2>1, <2>3 DEF EventOK
  <2>5. events[held[n]].kind = "native" BY <2>4 DEF Takes, NativeEvents
  <2>6. k = "fn" BY <1>8, <1>9, APIFields DEF Legal
  <2> QED BY <1>8, <1>12, <2>5, <2>6 DEF KindAt, MainKind
<1>14. /\ IsSeq(ids) /\ Len(ids) = (IF b = "pair" THEN 2 ELSE 1) /\ 1 \in DOMAIN ids
       /\ \A n \in DOMAIN ids : ids[n] \in StartsOf(c, kind)
  <2>1. PICK S : held \in Seq(S) BY <1>8 DEF IsSeq
  <2>2. /\ Len(held) \in DOMAIN held /\ DOMAIN held = 1..Len(held) /\ Last(held) = held[Len(held)]
    BY <1>8, <2>1 DEF Last
  <2>3. CASE b = "pair"
    <3>1. ids = held BY <1>11, <2>3
    <3>2. \A n \in DOMAIN held : held[n] \in StartsOf(c, kind) BY <1>8, <1>13, <2>3 DEF StartsOf
    <3> QED BY <1>8, <2>2, <2>3, <3>1, <3>2
  <2>4. CASE b # "pair"
    <3>1. PICK x : x = Last(held) OBVIOUS
    <3>2. x \in StartsOf(c, kind) BY <1>8, <1>12, <2>2, <3>1 DEF StartsOf
    <3>3. ids = <<x>> BY <1>11, <2>4, <3>1
    <3>4. <<x>> \in Seq({x}) /\ Len(<<x>>) = 1 /\ DOMAIN <<x>> = {1} /\ <<x>>[1] = x OBVIOUS
    <3> QED BY <2>4, <3>2, <3>3, <3>4 DEF IsSeq
  <2> QED BY <2>3, <2>4
<1>15. \A n \in DOMAIN ids : Good(c, kind, ids[n])'
  <2>1. \A n \in DOMAIN ids : Good(c, kind, ids[n]) BY <1>14 DEF Good
  <2> QED BY <2>1, GoodStays
<1>16. Good(c, kind, first)'
  <2>1. CASE first = ids[1] BY <1>14, <1>15, <2>1
  <2>2. CASE first = 0 /\ ids[1] \in freed
    <3>1. PICK x : x = ids[1] OBVIOUS
    <3>2. x \in dangling' BY <1>11, <1>14, <2>2, <3>1 DEF ToSet
    <3>3. x \in StartsOf(c, kind)'
      <4>1. x \in StartsOf(c, kind) BY <1>14, <3>1
      <4>2. x \in DOMAIN events' /\ events'[x] = events[x] BY <4>1 DEF StartsOf, Stays, Grown
      <4> QED BY <4>1, <4>2 DEF StartsOf
    <3> QED BY <2>2, <3>2, <3>3 DEF Good
  <2> QED BY <1>11, <2>1, <2>2
<1>17. PICK new : new = [ids EXCEPT ![1] = first] OBVIOUS
<1>18. /\ IsSeq(new) /\ Len(new) = Len(ids) /\ \A n \in DOMAIN new : Good(c, kind, new[n])'
  <2>1. PICK S : ids \in Seq(S) BY <1>14 DEF IsSeq
  <2>2. PICK T : T = S \cup {first} OBVIOUS
  <2>3. DOMAIN new = DOMAIN ids /\ \A n \in DOMAIN ids : new[n] = IF n = 1 THEN first ELSE ids[n]
    BY <1>17
  <2>4. DOMAIN ids = 1..Len(ids) /\ Len(ids) \in Nat /\ \A n \in DOMAIN ids : ids[n] \in S BY <2>1
  <2>5. new = [n \in 1..Len(ids) |-> new[n]] BY <1>17, <2>4
  <2>6. new \in Seq(T) /\ Len(new) = Len(ids)
    <3>1. \A n \in 1..Len(ids) : new[n] \in T BY <2>2, <2>3, <2>4
    <3> QED BY <2>4, <2>5, <3>1
  <2> QED BY <1>15, <1>16, <2>3, <2>6 DEF IsSeq
<1>19. /\ c \in 1..Len(calls') /\ calls'[c] = calls[c] /\ Marks(c, b, k)' /\ KeyOf(c, k)' = KeyOf(c, k)
  BY <1>9, CallStays
<1>20. Right(c, b, k, new)'
  <2>1. KindAt(calls'[c].api, k) = kind BY <1>6, <1>12, <1>19
  <2> QED BY <1>14, <1>18, <2>1 DEF Right
<1>21. PICK n : n = [table |-> b, key |-> key, ids |-> new] OBVIOUS
<1>22. EntryRight(n)'
  <2>1. n.table = b /\ n.key = key /\ n.ids = new BY <1>21
  <2>2. n.key = KeyOf(c, k)' BY <1>11, <1>19, <2>1
  <2> QED BY <1>18, <1>19, <1>20, <2>1, <2>2 DEF EntryRight
<1>23. starts' = {s \in starts : s.table # b \/ s.key # key} \cup {n}
  BY <1>10, <1>11, <1>17, <1>21 DEF Registers
<1>24. \A s \in starts : EntryRight(s)' BY EntryStays DEF OwnInv
<1> QED BY <1>22, <1>23, <1>24

\* The tables of starts stay right.
LEMMA EntriesStep ==
  ASSUME CbInv, NameInv, OwnInv, Stays, [Next]_vars
  PROVE  \A s \in starts' : EntryRight(s)'
<1>1. \A s \in starts : EntryRight(s)' BY EntryStays DEF OwnInv
<1>2. ASSUME NEW t \in Threads, Operation(t) PROVE \A s \in starts' : EntryRight(s)'
  <2>1. CASE registerStart(t) BY <2>1, EntryMark
  <2>2. CASE lookupStart(t) BY <1>1, <2>2, LookHands
  <2>3. CASE starts' = starts BY <1>1, <2>3
  <2> QED BY <1>2, <2>1, <2>2, <2>3, StartsSame
<1>3. (\E t \in Threads : Operation(t)) \/ starts' = starts BY StepKinds, StartsSame
<1> QED BY <1>1, <1>2, <1>3


\* A new event has taken a start of its call.
LEMMA PairedAdd ==
  ASSUME CbInv, NameInv, OwnInv, Stays, NEW t \in Threads, addEvent(t)
  PROVE  \A i \in DOMAIN events' : PairedOK(i)'
<1>0. Operation(t) BY DEF Operation
<1>1. PICK ops \in Seq(Op) : ops = cb[t].ops /\ ops # <<>> /\ 1 \in DOMAIN ops /\ Head(ops) = ops[1]
  BY <1>0, OpFacts
<1>2. PICK c \in 1..Len(calls) : c = cb[t].call BY <1>0, OpFacts
<1>3. PICK found : found = cb[t].found OBVIOUS
<1>4. PICK e : /\ events' = Append(events, e) /\ e.call = c /\ e.kind = ops[1].kind
               /\ e.phase = cb[t].phase /\ e.start = IF found = <<>> THEN 0 ELSE Head(found)
  <2> DEFINE e == [kind |-> Head(cb[t].ops).kind, call |-> cb[t].call, phase |-> cb[t].phase,
                   start |-> IF cb[t].found = <<>> THEN 0 ELSE Head(cb[t].found)]
  <2>1. events' = Append(events, e) BY DEF addEvent
  <2>2. /\ e.kind = ops[1].kind /\ e.call = c /\ e.phase = cb[t].phase
        /\ e.start = IF found = <<>> THEN 0 ELSE Head(found)
    BY <1>1, <1>2, <1>3
  <2> HIDE DEF e
  <2> QED BY <2>1, <2>2
<1>5. ops[1].op = "add" BY <1>1 DEF addEvent, Next1
<1>6. PICK n : n = Len(events) + 1 OBVIOUS
<1>7. (\A i \in DOMAIN events' : i \in DOMAIN events \/ i = n) /\ events'[n] = e
  BY <1>4, <1>6, AppendForm DEF NameInv
<1>8. StartOf(c)' = StartOf(c) BY CallStays
<1>9. cb[t].phase = "start" => StartOf(c) # NoCallback BY <1>1, <1>2 DEF OwnInv, StartCb
<1>10. ASSUME cb[t].phase = "end", StartOf(c) # NoCallback PROVE Good(c, e.kind, e.start)'
  <2>1. TakeOK(t, 1) /\ IsSeq(found) BY <1>1, <1>2, <1>3, <1>10 DEF OwnInv, EndCb
  <2>2. NoLookBetween(ops, 0, 1) /\ Turn(ops, 1) = 1 BY DEF NoLookBetween, Turn
  <2>3. 1 <= Len(found) /\ Good(c, ops[1].kind, found[1])
    BY <1>1, <1>2, <1>3, <1>5, <2>1, <2>2 DEF TakeOK
  <2>4. found # <<>> /\ Head(found) = found[1] BY <2>1, <2>3 DEF IsSeq
  <2>5. PICK kind, x : kind = e.kind /\ x = e.start OBVIOUS
  <2>6. Good(c, kind, x) BY <1>4, <2>3, <2>4, <2>5
  <2>7. Good(c, kind, x)' BY <2>6, GoodStays
  <2> QED BY <2>5, <2>7
<1>11. PairedOK(n)' BY <1>4, <1>7, <1>8, <1>9, <1>10 DEF PairedOK
<1>12. \A i \in DOMAIN events : PairedOK(i)' BY PairedStays DEF OwnInv
<1> QED BY <1>7, <1>11, <1>12

\* A call of a callback keeps the pairing.
LEMMA OwnOperation ==
  ASSUME CbInv, NameInv, OwnInv, Stays, [Next]_vars, NEW t \in Threads, Operation(t)
  PROVE  OwnInv'
<1>1. PICK c \in 1..Len(calls) : c = cb[t].call BY OpFacts
<1>2. /\ cb[t].ops # <<>> /\ calls' = calls /\ cb[t].phase \in {"start", "end"}
      /\ \A u \in Threads : u # t => cb'[u] = cb[u]
  BY OpFacts DEF Goes
<1>3. \A u \in Threads : u # t /\ cb[u].ops # <<>> => cb[u].call # c
  BY <1>1, <1>2 DEF OwnInv, BusyInv
<1>4. ASSUME NEW u \in Threads PROVE StartCb(u)' /\ EndCb(u)'
  <2>1. CASE u = t BY <1>1, <1>2, <2>1, StartGoes, EndGoes
  <2>2. CASE u # t
    <3>1. cb[u].ops # <<>> => cb[u].call \in 1..Len(calls) BY DEF CbInv, CbOK
    <3>2. cb[u].ops # <<>> => Kept(cb[u].call)
      <4> SUFFICES ASSUME cb[u].ops # <<>> PROVE Kept(cb[u].call) OBVIOUS
      <4>1. PICK d \in 1..Len(calls) : d = cb[u].call BY <3>1
      <4>2. d # cb[t].call BY <1>1, <1>3, <2>2, <4>1
      <4>3. Kept(d) BY <4>2, KeptOp
      <4> QED BY <4>1, <4>3
    <3>3. StartCb(u) /\ EndCb(u) /\ cb'[u] = cb[u] BY <1>2, <2>2 DEF OwnInv
    <3> QED BY <3>2, <3>3, OwnOther
  <2> QED BY <2>1, <2>2
<1>5. \/ open' = open
      \/ open' = open \cup {c} /\ cb'[t].ops = <<>> /\ cb[t].phase = "start"
  BY <1>1, OpFacts DEF Goes
<1>6. BusyInv'
  <2>1. cb'[t].ops # <<>> => cb'[t].call = c /\ open' = open BY <1>1, OpFacts DEF Goes
  <2>2. ASSUME NEW u \in Threads, cb'[u].ops # <<>> PROVE cb'[u].call \notin open'
    BY <1>1, <1>2, <1>3, <1>5, <2>1, <2>2 DEF OwnInv, BusyInv
  <2>3. ASSUME NEW u \in Threads, NEW w \in Threads, cb'[u].ops # <<>>, cb'[w].ops # <<>>,
               cb'[u].call = cb'[w].call
        PROVE  u = w
    BY <1>1, <1>2, <1>3, <2>1, <2>3 DEF OwnInv, BusyInv
  <2> QED BY <2>2, <2>3 DEF BusyInv
<1>7. OpenInv'
  <2> SUFFICES ASSUME NEW d \in open', NEW b \in Tables, NEW k \in Keys, Marks(d, b, k)'
               PROVE  Registered(d, b, k)'
    BY DEF OpenInv
  <2>1. CASE d \in open
    <3>1. d \in 1..Len(calls) BY <2>1 DEF CbInv
    <3>2. Marks(d, b, k) /\ Registered(d, b, k) BY <2>1, <3>1, CallStays DEF OwnInv, OpenInv
    <3>3. d # cb[t].call BY <1>1, <1>2, <2>1 DEF OwnInv, BusyInv
    <3>4. Kept(d) BY <3>1, <3>3, KeptOp
    <3> QED BY <3>2, <3>4 DEF Kept
  <2>2. CASE d \notin open
    <3>1. d = c /\ cb'[t].ops = <<>> /\ cb[t].phase = "start" BY <1>5, <2>2
    <3>2. Marks(c, b, k) BY <3>1, CallStays
    <3>3. HasMark(Tail(cb[t].ops), b, k) \/ Registered(c, b, k)' BY <1>1, <3>1, <3>2, StartGoes
    <3>4. Tail(cb[t].ops) = <<>> BY <3>1, OpFacts DEF Goes
    <3>5. ~HasMark(Tail(cb[t].ops), b, k) BY <3>4 DEF HasMark
    <3> QED BY <3>1, <3>3, <3>5
  <2> QED BY <2>1, <2>2
<1>8. CallsInv' BY <1>2 DEF OwnInv, CallsInv
<1>9. \A s \in starts' : EntryRight(s)' BY EntriesStep
<1>10. \A i \in DOMAIN events' : PairedOK(i)'
  <2>1. CASE addEvent(t) BY <2>1, PairedAdd
  <2>2. CASE events' = events BY <2>2, PairedStays DEF OwnInv
  <2> QED BY <2>1, <2>2, OperationFrame
<1> QED BY <1>4, <1>6, <1>7, <1>8, <1>9, <1>10 DEF OwnInv

\* A callback that begins has nothing in hand.
LEMMA OwnBegins ==
  ASSUME CbInv, NEW t \in Threads, NEW c \in 1..Len(calls'), calls'[c].api \in APIs,
         NEW ops, NEW phase, cb'[t] = Callback(c, ops, phase),
         \/ phase = "start" /\ ops = StartOf(c)' /\ ops # NoCallback
         \/ /\ phase = "end" /\ ops = API[calls'[c].api].end
            /\ StartOf(c)' # NoCallback => \A b \in Tables, k \in Keys : Marks(c, b, k)' => Registered(c, b, k)'
  PROVE  StartCb(t)' /\ EndCb(t)'
<1>1. /\ cb'[t].ops = ops /\ cb'[t].call = c /\ cb'[t].phase = phase
      /\ cb'[t].held = <<>> /\ cb'[t].found = <<>>
  BY CallbackForm
<1>2. IsSeq(<<>>)
  <2>1. <<>> \in Seq({}) OBVIOUS
  <2> QED BY <2>1 DEF IsSeq
<1>3. PICK api : api = calls'[c].api /\ StartOf(c)' = API[api].start BY DEF StartOf
<1>4. CASE phase = "start"
  <2>1. ops = API[api].start /\ ops # NoCallback BY <1>3, <1>4
  <2>2. /\ StartMarks(api, ops)
        /\ \A j \in DOMAIN ops : ~(j = 1 /\ ops[j].op = "mark") /\ (PairAt(ops, j) => j = 4 /\ api = "sync")
    BY <1>3, <2>1, Marking DEF MarkingOK
  <2>3. HeldOK(t)'
    <3>1. 1 \in DOMAIN ops
      <4>1. ops \in Seq(Op) BY <1>3, <2>1, WholeProgram
      <4> QED BY <2>1, <4>1 DEF NoCallback
    <3>2. ops[1].op # "mark" BY <2>2, <3>1
    <3>3. \A j \in DOMAIN ops : PairAt(ops, j) => Len(<<>>) = (IF j >= 3 THEN 0 ELSE 3 - j) /\ api = "sync"
      BY <2>2
    <3> QED BY <1>1, <1>2, <1>3, <3>2, <3>3 DEF HeldOK
  <2>4. \A b, k : Marks(c, b, k)' <=> HasMark(ops, b, k) BY <1>3, <2>1 DEF Marks, StartOf
  <2> QED BY <1>1, <1>3, <1>4, <2>1, <2>2, <2>3, <2>4 DEF StartCb, EndCb
<1>5. CASE phase = "end"
  <2>1. ops = API[api].end BY <1>3, <1>5
  <2>2. /\ EndLooks(api, ops) /\ LookFirst(ops)
        /\ API[api].start # NoCallback =>
             \A b \in Tables, k \in Keys : HasLook(ops, b, k) => HasMark(API[api].start, b, k)
    BY <1>3, <2>1, Marking DEF MarkingOK
  <2>3. ASSUME NEW j \in DOMAIN ops PROVE TakeOK(t, j)'
    <3> SUFFICES ASSUME ops[j].op = "add", NoLookBetween(ops, 0, j) PROVE FALSE BY <1>1 DEF TakeOK
    <3>1. PICK i \in 1..(j - 1) : ops[i].op = "look" BY <2>2 DEF LookFirst
    <3> QED BY <3>1 DEF NoLookBetween
  <2>4. \A b, k : Marks(c, b, k)' <=> HasMark(API[api].start, b, k) BY <1>3 DEF Marks, StartOf
  <2>5. StartOf(c)' # NoCallback =>
          \A b \in Tables, k \in Keys : HasLook(ops, b, k) => Marks(c, b, k)' /\ Registered(c, b, k)'
    BY <1>3, <1>5, <2>2, <2>4
  <2> QED BY <1>1, <1>2, <1>3, <1>5, <2>2, <2>3, <2>5 DEF StartCb, EndCb
<1> QED BY <1>4, <1>5


\* Begin keeps the pairing: its call has numbers of its own.
LEMMA OwnBegin ==
  ASSUME CbInv, NameInv, OwnInv, Stays, [Next]_vars, NEW t \in Threads, NEW api \in use.apis,
         NEW ev \in use.traced \cup {0}, Begin(t, api, ev)
  PROVE  OwnInv'
<1>1. PICK r \in CallRec, phase \in {"start", "end"} :
        /\ calls' = Append(calls, r)
        /\ r.api = api /\ r.fn = 2 * (Len(calls) + 1) - 1 /\ r.ev = ev
        /\ api \in APIs /\ (API[api].command <=> ev # 0)
        /\ \A i \in DOMAIN calls : calls[i].ev # ev \/ ev = 0
        /\ phase = IF API[api].start = NoCallback THEN "end" ELSE "start"
        /\ Len(calls) + 1 <= MaxCalls /\ \A u \in Threads : u # t => cb'[u] = cb[u]
        /\ cb'[t] = Callback(Len(calls) + 1, IF phase = "end" THEN API[api].end ELSE API[api].start, phase)
        /\ open' = open
  BY BeginEffect
<1>2. starts' = starts BY StartsSame
<1>3. events' = events BY DEF Begin, databaseVars
<1>4. PICK c \in Nat : c = Len(calls) + 1 BY DEF CbInv
<1>5. /\ Len(calls') = c /\ calls'[c] = r /\ c \in 1..Len(calls') /\ calls \in Seq(CallRec)
      /\ Len(calls) \in Nat /\ DOMAIN calls = 1..Len(calls)
      /\ \A d \in 1..Len(calls') : d = c \/ (d \in 1..Len(calls) /\ calls'[d] = calls[d])
  <2>1. calls \in Seq(CallRec) BY DEF CbInv
  <2>2. /\ Len(calls) \in Nat /\ Len(calls') = Len(calls) + 1
        /\ (\A i \in 1..Len(calls) : calls'[i] = calls[i]) /\ calls'[Len(calls) + 1] = r
    BY <1>1, <2>1, CallsAppend
  <2> QED BY <1>4, <2>1, <2>2
<1>6. c \notin 1..Len(calls) BY <1>4, <1>5
<1>7. CallsInv'
  <2>1. Len(calls') <= MaxCalls BY <1>1, <1>4, <1>5
  <2>2. ASSUME NEW d \in 1..Len(calls')
        PROVE  calls'[d].fn = 2 * d - 1 /\ (API[calls'[d].api].command <=> calls'[d].ev # 0)
    <3>1. CASE d = c BY <1>1, <1>4, <1>5, <3>1
    <3>2. CASE d \in 1..Len(calls) /\ calls'[d] = calls[d] BY <3>2 DEF OwnInv, CallsInv
    <3> QED BY <1>5, <3>1, <3>2
  <2>3. ASSUME NEW d \in 1..Len(calls'), NEW e \in 1..Len(calls'), calls'[d].ev = calls'[e].ev
        PROVE  d = e \/ calls'[d].ev = 0
    <3>1. CASE d = c /\ e = c BY <3>1
    <3>2. CASE d = c /\ e # c BY <1>1, <1>5, <2>3, <3>2
    <3>3. CASE d # c /\ e = c BY <1>1, <1>5, <2>3, <3>3
    <3>4. CASE d # c /\ e # c BY <1>5, <2>3, <3>4 DEF OwnInv, CallsInv
    <3> QED BY <3>1, <3>2, <3>3, <3>4
  <2> QED BY <2>1, <2>2, <2>3 DEF CallsInv
<1>8. cb'[t].call = c BY <1>1, <1>4, CallbackForm
<1>9. \A u \in Threads : cb[u].ops # <<>> => cb[u].call \in 1..Len(calls) BY DEF CbInv, CbOK
<1>10. BusyInv'
  <2>1. ASSUME NEW u \in Threads, cb'[u].ops # <<>> PROVE cb'[u].call \notin open'
    <3>1. CASE u = t BY <1>1, <1>6, <1>8, <3>1 DEF CbInv
    <3>2. CASE u # t BY <1>1, <2>1, <3>2 DEF OwnInv, BusyInv
    <3> QED BY <3>1, <3>2
  <2>2. ASSUME NEW u \in Threads, NEW w \in Threads, cb'[u].ops # <<>>, cb'[w].ops # <<>>,
               cb'[u].call = cb'[w].call
        PROVE  u = w
    <3>1. CASE u # t /\ w # t BY <1>1, <2>2, <3>1 DEF OwnInv, BusyInv
    <3>2. CASE u = t /\ w # t BY <1>1, <1>6, <1>8, <1>9, <2>2, <3>2
    <3>3. CASE u # t /\ w = t BY <1>1, <1>6, <1>8, <1>9, <2>2, <3>3
    <3> QED BY <3>1, <3>2, <3>3
  <2> QED BY <2>1, <2>2 DEF BusyInv
<1>11. ASSUME NEW d \in 1..Len(calls) PROVE Kept(d) BY <1>2, KeptSame
<1>12. OpenInv'
  <2> SUFFICES ASSUME NEW d \in open, NEW b \in Tables, NEW k \in Keys, Marks(d, b, k)'
               PROVE  Registered(d, b, k)'
    BY <1>1 DEF OpenInv
  <2>1. d \in 1..Len(calls) BY DEF CbInv
  <2>2. Marks(d, b, k) BY <2>1, CallStays
  <2>3. Registered(d, b, k) BY <2>2 DEF OwnInv, OpenInv
  <2> QED BY <1>11, <2>1, <2>2, <2>3 DEF Kept
<1>13. ASSUME NEW u \in Threads PROVE StartCb(u)' /\ EndCb(u)'
  <2>1. CASE u = t
    <3>1. PICK ops : ops = IF phase = "end" THEN API[api].end ELSE API[api].start OBVIOUS
    <3>2. cb'[t] = Callback(c, ops, phase) BY <1>1, <1>4, <3>1
    <3>3. StartOf(c)' = API[api].start /\ calls'[c].api = api BY <1>1, <1>5 DEF StartOf
    <3>4. \/ phase = "start" /\ ops = StartOf(c)' /\ ops # NoCallback
          \/ phase = "end" /\ ops = API[calls'[c].api].end /\ StartOf(c)' = NoCallback
      BY <1>1, <3>1, <3>3
    <3> QED BY <1>1, <1>5, <2>1, <3>2, <3>3, <3>4, OwnBegins
  <2>2. CASE u # t
    <3>1. cb[u].ops # <<>> => Kept(cb[u].call) BY <1>9, <1>11
    <3>2. StartCb(u) /\ EndCb(u) /\ cb'[u] = cb[u] BY <1>1, <2>2 DEF OwnInv
    <3> QED BY <3>1, <3>2, OwnOther
  <2> QED BY <2>1, <2>2
<1>14. \A s \in starts' : EntryRight(s)' BY EntriesStep
<1>15. \A i \in DOMAIN events' : PairedOK(i)' BY <1>3, PairedStays DEF OwnInv
<1> QED BY <1>7, <1>10, <1>12, <1>13, <1>14, <1>15 DEF OwnInv

\* End keeps the pairing: the starts of an open call are registered.
LEMMA OwnEnd ==
  ASSUME CbInv, NameInv, OwnInv, Stays, [Next]_vars, NEW t \in Threads, NEW c \in open, End(t, c)
  PROVE  OwnInv'
<1>1. /\ calls' = calls /\ open' = open \ {c} /\ events' = events
      /\ cb' = [cb EXCEPT ![t] = Callback(c, API[calls[c].api].end, "end")]
      /\ cb = [u \in Threads |-> cb[u]]
  BY DEF End, databaseVars, CbInv
<1>2. cb'[t] = Callback(c, API[calls[c].api].end, "end") /\ \A u \in Threads : u # t => cb'[u] = cb[u]
  BY <1>1
<1>3. starts' = starts BY StartsSame
<1>4. c \in 1..Len(calls) /\ c \in 1..Len(calls') BY <1>1 DEF CbInv
<1>5. CallsInv' BY <1>1 DEF OwnInv, CallsInv
<1>6. cb'[t].call = c BY <1>2, CallbackForm
<1>7. \A u \in Threads : cb[u].ops # <<>> => cb[u].call \in 1..Len(calls) BY DEF CbInv, CbOK
<1>8. BusyInv'
  <2>1. ASSUME NEW u \in Threads, cb'[u].ops # <<>> PROVE cb'[u].call \notin open'
    BY <1>1, <1>2, <1>6, <2>1 DEF OwnInv, BusyInv
  <2>2. ASSUME NEW u \in Threads, NEW w \in Threads, cb'[u].ops # <<>>, cb'[w].ops # <<>>,
               cb'[u].call = cb'[w].call
        PROVE  u = w
    BY <1>2, <1>6, <2>2 DEF OwnInv, BusyInv
  <2> QED BY <2>1, <2>2 DEF BusyInv
<1>9. ASSUME NEW d \in 1..Len(calls) PROVE Kept(d) BY <1>3, KeptSame
<1>10. ASSUME NEW d \in open, NEW b \in Tables, NEW k \in Keys, Marks(d, b, k)'
       PROVE  Registered(d, b, k)'
  <2>1. d \in 1..Len(calls) BY DEF CbInv
  <2>2. Marks(d, b, k) BY <1>10, <2>1, CallStays
  <2>3. Registered(d, b, k) BY <2>2 DEF OwnInv, OpenInv
  <2> QED BY <1>9, <2>1, <2>2, <2>3 DEF Kept
<1>11. OpenInv' BY <1>1, <1>10 DEF OpenInv
<1>12. ASSUME NEW u \in Threads PROVE StartCb(u)' /\ EndCb(u)'
  <2>1. CASE u = t
    <3>1. PICK ops : ops = API[calls[c].api].end OBVIOUS
    <3>2. cb'[t] = Callback(c, ops, "end") /\ ops = API[calls'[c].api].end BY <1>1, <1>2, <3>1
    <3>3. calls'[c].api \in APIs BY <1>1, <1>4, MarkingOf
    <3>4. \A b \in Tables, k \in Keys : Marks(c, b, k)' => Registered(c, b, k)' BY <1>10
    <3> QED BY <1>4, <2>1, <3>2, <3>3, <3>4, OwnBegins
  <2>2. CASE u # t
    <3>1. cb[u].ops # <<>> => Kept(cb[u].call) BY <1>7, <1>9
    <3>2. StartCb(u) /\ EndCb(u) /\ cb'[u] = cb[u] BY <1>2, <2>2 DEF OwnInv
    <3> QED BY <3>1, <3>2, OwnOther
  <2> QED BY <2>1, <2>2
<1>13. \A s \in starts' : EntryRight(s)' BY EntriesStep
<1>14. \A i \in DOMAIN events' : PairedOK(i)' BY <1>1, PairedStays DEF OwnInv
<1> QED BY <1>5, <1>8, <1>11, <1>12, <1>13, <1>14 DEF OwnInv

\* Every step keeps the pairing.
LEMMA OwnStep ==
  ASSUME CbInv, NameInv, OwnInv, [Next]_vars
  PROVE  OwnInv'
<1>0. Stays BY GrownStep, DanglingGrows DEF Stays
<1>1. CASE OtherStep
  <2>1. UNCHANGED <<calls, open, cb, events, starts>> BY <1>1, OtherFrame, StartsSame
  <2>2. ASSUME NEW d \in 1..Len(calls) PROVE Kept(d) BY <1>0, <2>1, KeptSame
  <2>3. ASSUME NEW u \in Threads PROVE StartCb(u)' /\ EndCb(u)'
    <3>1. cb[u].ops # <<>> => cb[u].call \in 1..Len(calls) BY DEF CbInv, CbOK
    <3>2. StartCb(u) /\ EndCb(u) /\ cb'[u] = cb[u] BY <2>1 DEF OwnInv
    <3> QED BY <1>0, <2>2, <3>1, <3>2, OwnOther
  <2>4. OpenInv'
    <3> SUFFICES ASSUME NEW d \in open, NEW b \in Tables, NEW k \in Keys, Marks(d, b, k)'
                 PROVE  Registered(d, b, k)'
      BY <2>1 DEF OpenInv
    <3>1. d \in 1..Len(calls) BY DEF CbInv
    <3>2. Marks(d, b, k) BY <1>0, <3>1, CallStays
    <3>3. Registered(d, b, k) BY <3>2 DEF OwnInv, OpenInv
    <3> QED BY <2>2, <3>1, <3>2, <3>3 DEF Kept
  <2>5. CallsInv' /\ BusyInv' BY <2>1 DEF OwnInv, CallsInv, BusyInv
  <2>6. \A s \in starts' : EntryRight(s)' BY <1>0, EntriesStep
  <2>7. \A i \in DOMAIN events' : PairedOK(i)' BY <1>0, <2>1, PairedStays DEF OwnInv
  <2> QED BY <2>3, <2>4, <2>5, <2>6, <2>7 DEF OwnInv
<1> QED BY <1>0, <1>1, StepKinds, OwnBegin, OwnEnd, OwnOperation

\* In the beginning there is nothing to pair.
LEMMA OwnInit ==
  ASSUME Init
  PROVE  OwnInv
<1>1. /\ calls = <<>> /\ open = {} /\ cb = [t \in Threads |-> Idle] /\ starts = {} /\ events = <<>>
  BY DEF Init
<1>2. \A t \in Threads : cb[t].ops = <<>> BY <1>1 DEF Idle
<1>3. CallsInv
  <2>1. Len(calls) = 0 /\ 0 <= MaxCalls BY <1>1, HostAssumption
  <2> QED BY <2>1 DEF CallsInv
<1>4. BusyInv /\ OpenInv BY <1>1, <1>2 DEF BusyInv, OpenInv
<1>5. \A t \in Threads : StartCb(t) /\ EndCb(t) BY <1>2 DEF StartCb, EndCb
<1>6. DOMAIN events = {} BY <1>1
<1> QED BY <1>1, <1>3, <1>4, <1>5, <1>6 DEF OwnInv

\* An end event carries the id of a start event of its own call, for any number of
\* threads and calls: functions, their buffers and commands have numbers of their own
\* in the tables of starts (LOP_EVENT_MASK), a callback registers what it has just
\* added, and an open call stays registered until its own end looks it up.  Only a
\* start that a writer deleted before it was registered may be lost.
THEOREM EndsFindTheirStart == Spec => []OwnStart
<1>1. Init => CbInv /\ StatsInv /\ NameInv /\ LoadInv /\ OwnInv BY HostInit, OwnInit DEF HostIInv
<1>2. CbInv /\ NameInv /\ LoadInv /\ OwnInv /\ [Next]_vars => OwnInv' BY OwnStep
<1>3. HostIInv => CbInv /\ NameInv /\ LoadInv BY DEF HostIInv
<1>4. HostIInv /\ OwnInv => OwnStart
  <2> SUFFICES ASSUME HostIInv, OwnInv, NEW i \in DOMAIN events, events[i].phase = "end",
                      IdOfStart(events[i]) # {}
               PROVE  events[i].start \in IdOfStart(events[i])
                        \cup (IF IdOfStart(events[i]) \cap dangling # {} THEN {0} ELSE {})
    BY DEF OwnStart
  <2>1. PICK c, kind : c = events[i].call /\ kind = events[i].kind OBVIOUS
  <2>2. IdOfStart(events[i]) = StartsOf(c, kind) BY <2>1 DEF IdOfStart, StartsOf
  <2>3. PICK j \in StartsOf(c, kind) : TRUE BY <2>2
  <2>4. StartOf(c) # NoCallback
    <3>1. j \in DOMAIN events /\ events[j].call = c /\ events[j].phase = "start" BY <2>3 DEF StartsOf
    <3> QED BY <3>1 DEF OwnInv, PairedOK
  <2>5. Good(c, kind, events[i].start) BY <2>1, <2>4 DEF OwnInv, PairedOK
  <2> QED BY <2>2, <2>5 DEF Good
<1> QED BY <1>1, <1>2, <1>3, <1>4, HostInvariance, PTL DEF Spec

-----------------------------------------------------------------------------
(* Arrows: what the callbacks map                                          *)

\* an event is added before a command is mapped to it
AddsBeforeMap(ops) == \A j \in DOMAIN ops : ops[j].op = "map" => \E i \in 1..(j - 1) : ops[i].op = "add"

MapsOK(a) == ~Has(API[a].start, "map") /\ AddsBeforeMap(API[a].end)

\* The start callbacks map nothing, the end callbacks the event they have added.
LEMMA Mapping == \A a \in APIs : MapsOK(a)
<1>n. /\ Name.op = "name" /\ MapCommand.op = "map" /\ CallStart.op = "callStart"
      /\ CallEnd.op = "callEnd" /\ QuitUnstarted.op = "quit"
      /\ (\A k : Add(k).op = "add") /\ \A b, k : Mark(b, k).op = "mark" /\ Look(b, k).op = "look"
  BY DEF Name, MapCommand, CallStart, CallEnd, QuitUnstarted, Add, Mark, Look
<1>1. MapsOK("clCall")
  <2>1. PICK s : s = <<Name, Add("clAPI"), Mark("event", "fn")>> OBVIOUS
  <2>2. PICK e : e = <<Look("event", "fn"), Name, Add("clAPI")>> OBVIOUS
  <2>3. API["clCall"].start = s /\ API["clCall"].end = e BY <2>1, <2>2, APIPrograms
  <2>4. ~Has(s, "map") BY <1>n, <2>1 DEF Has
  <2>5. AddsBeforeMap(e) BY <1>n, <2>2 DEF AddsBeforeMap
  <2> QED BY <2>3, <2>4, <2>5 DEF MapsOK
<1>2. MapsOK("clRead")
  <2>1. PICK s : s = <<Name, Add("clTransfer"), Mark("uid", "ev")>> OBVIOUS
  <2>2. PICK e : e = <<Look("uid", "ev"), Name, Add("clTransfer"), MapCommand>> OBVIOUS
  <2>3. API["clRead"].start = s /\ API["clRead"].end = e BY <2>1, <2>2, APIPrograms
  <2>4. ~Has(s, "map") BY <1>n, <2>1 DEF Has
  <2>5. AddsBeforeMap(e) BY <1>n, <2>2 DEF AddsBeforeMap
  <2> QED BY <2>3, <2>4, <2>5 DEF MapsOK
<1>3. MapsOK("clWrite")
  <2>1. PICK s : s = <<Name, Add("clTransfer"), Mark("uid", "ev")>> OBVIOUS
  <2>2. PICK e : e = <<Look("uid", "ev"), QuitUnstarted, Name, Add("clTransfer"), MapCommand>> OBVIOUS
  <2>3. API["clWrite"].start = s /\ API["clWrite"].end = e BY <2>1, <2>2, APIPrograms
  <2>4. ~Has(s, "map") BY <1>n, <2>1 DEF Has
  <2>5. AddsBeforeMap(e) BY <1>n, <2>2 DEF AddsBeforeMap
  <2> QED BY <2>3, <2>4, <2>5 DEF MapsOK
<1>4. MapsOK("migrated")
  <2>1. PICK s : s = <<>> OBVIOUS
  <2>2. PICK e : e = <<Look("uid", "ev"), QuitUnstarted, Name, Add("clTransfer"), MapCommand>> OBVIOUS
  <2>3. API["migrated"].start = s /\ API["migrated"].end = e BY <2>1, <2>2, APIPrograms
  <2>4. ~Has(s, "map") BY <1>n, <2>1 DEF Has
  <2>5. AddsBeforeMap(e) BY <1>n, <2>2 DEF AddsBeforeMap
  <2> QED BY <2>3, <2>4, <2>5 DEF MapsOK
<1>5. MapsOK("clCopy")
  <2>1. PICK s : s = <<Name, Add("clCopy"), Mark("uid", "ev")>> OBVIOUS
  <2>2. PICK e : e = <<Look("uid", "ev"), Name, Add("clCopy"), MapCommand>> OBVIOUS
  <2>3. API["clCopy"].start = s /\ API["clCopy"].end = e BY <2>1, <2>2, APIPrograms
  <2>4. ~Has(s, "map") BY <1>n, <2>1 DEF Has
  <2>5. AddsBeforeMap(e) BY <1>n, <2>2 DEF AddsBeforeMap
  <2> QED BY <2>3, <2>4, <2>5 DEF MapsOK
<1>6. MapsOK("clKernel")
  <2>1. PICK s : s = <<Name, Add("clEnqueue"), Mark("uid", "ev")>> OBVIOUS
  <2>2. PICK e : e = <<Look("uid", "ev"), Name, Add("clEnqueue"), MapCommand>> OBVIOUS
  <2>3. API["clKernel"].start = s /\ API["clKernel"].end = e BY <2>1, <2>2, APIPrograms
  <2>4. ~Has(s, "map") BY <1>n, <2>1 DEF Has
  <2>5. AddsBeforeMap(e) BY <1>n, <2>2 DEF AddsBeforeMap
  <2> QED BY <2>3, <2>4, <2>5 DEF MapsOK
<1>7. MapsOK("lopCall")
  <2>1. PICK s : s = <<Name, Add("lopAPI"), Mark("event", "fn")>> OBVIOUS
  <2>2. PICK e : e = <<Look("event", "fn"), Name, Add("lopAPI")>> OBVIOUS
  <2>3. API["lopCall"].start = s /\ API["lopCall"].end = e BY <2>1, <2>2, APIPrograms
  <2>4. ~Has(s, "map") BY <1>n, <2>1 DEF Has
  <2>5. AddsBeforeMap(e) BY <1>n, <2>2 DEF AddsBeforeMap
  <2> QED BY <2>3, <2>4, <2>5 DEF MapsOK
<1>8. MapsOK("lopRead")
  <2>1. PICK s : s = <<Add("lop"), Mark("event", "lop")>> OBVIOUS
  <2>2. PICK e : e = <<Look("event", "lop"), Add("lop")>> OBVIOUS
  <2>3. API["lopRead"].start = s /\ API["lopRead"].end = e BY <2>1, <2>2, APIPrograms
  <2>4. ~Has(s, "map") BY <1>n, <2>1 DEF Has
  <2>5. AddsBeforeMap(e) BY <1>n, <2>2 DEF AddsBeforeMap
  <2> QED BY <2>3, <2>4, <2>5 DEF MapsOK
<1>9. MapsOK("lopWrite")
  <2>1. PICK s : s = <<Add("lop"), Mark("event", "lop")>> OBVIOUS
  <2>2. PICK e : e = <<Look("event", "lop"), Add("lop")>> OBVIOUS
  <2>3. API["lopWrite"].start = s /\ API["lopWrite"].end = e BY <2>1, <2>2, APIPrograms
  <2>4. ~Has(s, "map") BY <1>n, <2>1 DEF Has
  <2>5. AddsBeforeMap(e) BY <1>n, <2>2 DEF AddsBeforeMap
  <2> QED BY <2>3, <2>4, <2>5 DEF MapsOK
<1>10. MapsOK("lopKernel")
  <2>1. PICK s : s = <<Add("lop"), Mark("event", "lop")>> OBVIOUS
  <2>2. PICK e : e = <<Look("event", "lop"), Add("lop")>> OBVIOUS
  <2>3. API["lopKernel"].start = s /\ API["lopKernel"].end = e BY <2>1, <2>2, APIPrograms
  <2>4. ~Has(s, "map") BY <1>n, <2>1 DEF Has
  <2>5. AddsBeforeMap(e) BY <1>n, <2>2 DEF AddsBeforeMap
  <2> QED BY <2>3, <2>4, <2>5 DEF MapsOK
<1>11. MapsOK("halCall")
  <2>1. PICK s : s = <<CallStart, Name, Add("halAPI"), Mark("event", "fn")>> OBVIOUS
  <2>2. PICK e : e = <<CallEnd, Look("event", "fn"), Name, Add("halAPI")>> OBVIOUS
  <2>3. API["halCall"].start = s /\ API["halCall"].end = e BY <2>1, <2>2, APIPrograms
  <2>4. ~Has(s, "map") BY <1>n, <2>1 DEF Has
  <2>5. AddsBeforeMap(e) BY <1>n, <2>2 DEF AddsBeforeMap
  <2> QED BY <2>3, <2>4, <2>5 DEF MapsOK
<1>12. MapsOK("halWrite")
  <2>1. PICK s : s = <<CallStart, Name, Add("halAPI"), Mark("event", "fn"), Add("halTransfer"), Mark("event", "buffer")>> OBVIOUS
  <2>2. PICK e : e = <<CallEnd, Look("event", "fn"), Name, Add("halAPI"), Look("event", "buffer"), Add("halTransfer")>> OBVIOUS
  <2>3. API["halWrite"].start = s /\ API["halWrite"].end = e BY <2>1, <2>2, APIPrograms
  <2>4. ~Has(s, "map") BY <1>n, <2>1 DEF Has
  <2>5. AddsBeforeMap(e) BY <1>n, <2>2 DEF AddsBeforeMap
  <2> QED BY <2>3, <2>4, <2>5 DEF MapsOK
<1>13. MapsOK("halRead")
  <2>1. PICK s : s = <<CallStart, Name, Add("halAPI"), Mark("event", "fn"), Add("halTransfer"), Mark("event", "buffer")>> OBVIOUS
  <2>2. PICK e : e = <<CallEnd, Look("event", "fn"), Name, Add("halAPI"), Look("event", "buffer"), Add("halTransfer")>> OBVIOUS
  <2>3. API["halRead"].start = s /\ API["halRead"].end = e BY <2>1, <2>2, APIPrograms
  <2>4. ~Has(s, "map") BY <1>n, <2>1 DEF Has
  <2>5. AddsBeforeMap(e) BY <1>n, <2>2 DEF AddsBeforeMap
  <2> QED BY <2>3, <2>4, <2>5 DEF MapsOK
<1>14. MapsOK("native")
  <2>1. PICK s : s = <<Name, Add("native"), Mark("event", "fn"), CallStart>> OBVIOUS
  <2>2. PICK e : e = <<CallEnd, Look("event", "fn"), Name, Add("native")>> OBVIOUS
  <2>3. API["native"].start = s /\ API["native"].end = e BY <2>1, <2>2, APIPrograms
  <2>4. ~Has(s, "map") BY <1>n, <2>1 DEF Has
  <2>5. AddsBeforeMap(e) BY <1>n, <2>2 DEF AddsBeforeMap
  <2> QED BY <2>3, <2>4, <2>5 DEF MapsOK
<1>15. MapsOK("sync")
  <2>1. PICK s : s = <<Name, Add("native"), Add("native"), Mark("pair", "fn"), CallStart>> OBVIOUS
  <2>2. PICK e : e = <<CallEnd, Look("pair", "fn"), Name, Add("native"), Add("native")>> OBVIOUS
  <2>3. API["sync"].start = s /\ API["sync"].end = e BY <2>1, <2>2, APIPrograms
  <2>4. ~Has(s, "map") BY <1>n, <2>1 DEF Has
  <2>5. AddsBeforeMap(e) BY <1>n, <2>2 DEF AddsBeforeMap
  <2> QED BY <2>3, <2>4, <2>5 DEF MapsOK
<1>16. MapsOK("userRange")
  <2>1. PICK s : s = <<Name, Add("user"), Mark("event", "fn")>> OBVIOUS
  <2>2. PICK e : e = <<Look("event", "fn"), Add("user")>> OBVIOUS
  <2>3. API["userRange"].start = s /\ API["userRange"].end = e BY <2>1, <2>2, APIPrograms
  <2>4. ~Has(s, "map") BY <1>n, <2>1 DEF Has
  <2>5. AddsBeforeMap(e) BY <1>n, <2>2 DEF AddsBeforeMap
  <2> QED BY <2>3, <2>4, <2>5 DEF MapsOK
<1>17. MapsOK("userMark")
  <2>1. PICK s : s = <<Name, Add("user")>> OBVIOUS
  <2>2. PICK e : e = <<>> OBVIOUS
  <2>3. API["userMark"].start = s /\ API["userMark"].end = e BY <2>1, <2>2, APIPrograms
  <2>4. ~Has(s, "map") BY <1>n, <2>1 DEF Has
  <2>5. AddsBeforeMap(e) BY <1>n, <2>2 DEF AddsBeforeMap
  <2> QED BY <2>3, <2>4, <2>5 DEF MapsOK
<1>18. MapsOK("userTime")
  <2>1. PICK s : s = <<Name, Add("user")>> OBVIOUS
  <2>2. PICK e : e = <<>> OBVIOUS
  <2>3. API["userTime"].start = s /\ API["userTime"].end = e BY <2>1, <2>2, APIPrograms
  <2>4. ~Has(s, "map") BY <1>n, <2>1 DEF Has
  <2>5. AddsBeforeMap(e) BY <1>n, <2>2 DEF AddsBeforeMap
  <2> QED BY <2>3, <2>4, <2>5 DEF MapsOK
<1> QED BY <1>1, <1>2, <1>3, <1>4, <1>5, <1>6, <1>7, <1>8, <1>9, <1>10, <1>11, <1>12, <1>13, <1>14, <1>15, <1>16, <1>17, <1>18, APINames

\* event i is one of this phase of call c
EventOf(i, c, phase) == i \in DOMAIN events /\ events[i].call = c /\ events[i].phase = phase

\* what the callback of thread t has in hand: its own events, one of them before it maps
\* a command, and no start if the call never started
HandOK(t) ==
  cb[t].ops # <<>> =>
    /\ IsSeq(cb[t].held) /\ IsSeq(cb[t].found)
    /\ \A n \in DOMAIN cb[t].held : EventOf(cb[t].held[n], cb[t].call, cb[t].phase)
    /\ \A j \in DOMAIN cb[t].ops : cb[t].ops[j].op = "map" =>
         /\ cb[t].phase = "end"
         /\ cb[t].held # <<>> \/ \E i \in 1..(j - 1) : cb[t].ops[i].op = "add"
    /\ StartOf(cb[t].call) = NoCallback => \A n \in DOMAIN cb[t].found : cb[t].found[n] = 0

\* an end event of a call that never started names no start
NoStart(i) == events[i].phase = "end" /\ StartOf(events[i].call) = NoCallback => events[i].start = 0

HandInv ==
  /\ \A t \in Threads : HandOK(t)
  /\ \A i \in DOMAIN events : NoStart(i)
  /\ \A c \in 1..Len(calls) : calls[c].ev \in Commands \cup {0}

\* The empty sequence and sequences of one element.
LEMMA ShortSeqs == IsSeq(<<>>) /\ DOMAIN <<>> = {} /\ \A x : IsSeq(<<x>>) /\ \A n \in DOMAIN <<x>> : <<x>>[n] = x
<1>1. IsSeq(<<>>)
  <2>1. <<>> \in Seq({}) OBVIOUS
  <2> QED BY <2>1 DEF IsSeq
<1>2. DOMAIN <<>> = {} OBVIOUS
<1>3. ASSUME NEW x PROVE IsSeq(<<x>>) /\ \A n \in DOMAIN <<x>> : <<x>>[n] = x
  <2>1. <<x>> \in Seq({x}) OBVIOUS
  <2>3. \E R : <<x>> \in Seq(R) BY <2>1, Zenon
  <2>4. IsSeq(<<x>>) BY <2>3, Zenon DEF IsSeq
  <2>5. \A n \in DOMAIN <<x>> : <<x>>[n] = x OBVIOUS
  <2> QED BY <2>4, <2>5
<1> QED BY <1>1, <1>2, <1>3, Zenon

\* The rest of a sequence has its elements.
LEMMA TailForm ==
  ASSUME NEW s, IsSeq(s), s # <<>>
  PROVE  /\ IsSeq(Tail(s)) /\ 1 \in DOMAIN s /\ Head(s) = s[1]
         /\ \A n \in DOMAIN Tail(s) : n + 1 \in DOMAIN s /\ Tail(s)[n] = s[n + 1]
<1>1. PICK S : s \in Seq(S) BY DEF IsSeq
<1>2. /\ Tail(s) \in Seq(S) /\ Len(Tail(s)) = Len(s) - 1 /\ Head(s) = s[1]
      /\ Len(s) \in Nat /\ Len(s) >= 1
      /\ \A i \in 1..Len(Tail(s)) : Tail(s)[i] = s[i + 1]
  BY <1>1, HeadTailProperties
<1>3. PICK r \in Seq(S) : r = Tail(s) BY <1>2
<1>4. DOMAIN s = 1..Len(s) /\ DOMAIN r = 1..(Len(s) - 1) BY <1>1, <1>2, <1>3
<1>5. \A n \in DOMAIN r : n + 1 \in DOMAIN s /\ r[n] = s[n + 1] BY <1>2, <1>3, <1>4
<1>6. 1 \in DOMAIN s BY <1>2, <1>4
<1> QED BY <1>2, <1>3, <1>5, <1>6 DEF IsSeq

\* A callback that does not go on keeps what it has in hand.
LEMMA HandSame ==
  ASSUME CbInv, Stays, NEW u \in Threads, HandOK(u), cb'[u] = cb[u]
  PROVE  HandOK(u)'
<1> SUFFICES ASSUME cb[u].ops # <<>> PROVE HandOK(u)' BY DEF HandOK
<1>1. PICK c \in 1..Len(calls) : c = cb[u].call BY DEF CbInv, CbOK
<1>2. StartOf(c)' = StartOf(c) BY CallStays
<1>3. \A i, ph : EventOf(i, c, ph) => EventOf(i, c, ph)' BY DEF EventOf, Stays, Grown
<1>4. PICK r : r = cb[u] /\ cb'[u] = r OBVIOUS
<1>5. r.call = c BY <1>1, <1>4
<1>6. /\ IsSeq(r.held) /\ IsSeq(r.found)
      /\ \A n \in DOMAIN r.held : EventOf(r.held[n], c, r.phase)
      /\ \A j \in DOMAIN r.ops : r.ops[j].op = "map" =>
           r.phase = "end" /\ (r.held # <<>> \/ \E i \in 1..(j - 1) : r.ops[i].op = "add")
      /\ StartOf(c) = NoCallback => \A n \in DOMAIN r.found : r.found[n] = 0
  BY <1>1, <1>4 DEF HandOK
<1>7. \A n \in DOMAIN r.held : EventOf(r.held[n], c, r.phase)' BY <1>3, <1>6
<1>8. StartOf(c)' = NoCallback => \A n \in DOMAIN r.found : r.found[n] = 0 BY <1>2, <1>6
<1> QED BY <1>4, <1>5, <1>6, <1>7, <1>8 DEF HandOK

\* A callback that begins has nothing in hand.
LEMMA HandBegins ==
  ASSUME NEW t \in Threads, NEW c, NEW a \in APIs, NEW phase, NEW ops, cb'[t] = Callback(c, ops, phase),
         \/ phase = "start" /\ ops = API[a].start
         \/ phase = "end" /\ ops = API[a].end
  PROVE  HandOK(t)'
<1>1. /\ cb'[t].ops = ops /\ cb'[t].call = c /\ cb'[t].phase = phase
      /\ cb'[t].held = <<>> /\ cb'[t].found = <<>>
  BY CallbackForm
<1>2. ~Has(API[a].start, "map") /\ AddsBeforeMap(API[a].end) BY Mapping DEF MapsOK
<1>3. \A j \in DOMAIN ops : ops[j].op = "map" => phase = "end" /\ \E i \in 1..(j - 1) : ops[i].op = "add"
  BY <1>2 DEF Has, AddsBeforeMap
<1> QED BY <1>1, <1>3, ShortSeqs DEF HandOK

\* A call that never started looks up nothing.
LEMMA NothingLooked ==
  ASSUME CbInv, OwnInv, NEW t \in Threads, lookupStart(t), StartOf(cb[t].call) = NoCallback
  PROVE  Looked(t) = {}
<1>0. Operation(t) BY DEF Operation
<1>1. PICK d \in 1..Len(calls) : d = cb[t].call BY <1>0, OpFacts
<1>2. PICK ops \in Seq(Op) : ops = cb[t].ops /\ ops # <<>> /\ 1 \in DOMAIN ops /\ Head(ops) = ops[1]
  BY <1>0, OpFacts
<1>3. ops[1].op = "look" BY <1>2, LookHands
<1>4. PICK b \in Tables, k \in Keys : b = ops[1].table /\ k = ops[1].key BY <1>0, <1>2, <1>3, OpFacts
<1>5. cb[t].phase = "end" BY <1>0, <1>2, OpFacts DEF OwnInv, StartCb
<1>6. Legal(calls[d].api, b, k)
  <2>1. HasLook(ops, b, k) BY <1>2, <1>3, <1>4 DEF HasLook
  <2>2. EndLooks(calls[d].api, ops) BY <1>1, <1>2, <1>5 DEF OwnInv, EndCb
  <2> QED BY <2>1, <2>2 DEF EndLooks
<1>7. SUFFICES ASSUME NEW s \in Looked(t) PROVE FALSE OBVIOUS
<1>8. s \in starts /\ s.table = b /\ s.key = KeyOf(d, k) BY <1>1, <1>2, <1>4, <1>7 DEF Looked
<1>9. Marks(d, b, k)
  <2>1. CallsInv /\ EntryRight(s) BY <1>8 DEF OwnInv
  <2> QED BY <1>6, <1>8, <2>1, EntryOf
<1> QED BY <1>1, <1>9 DEF Marks, HasMark, NoCallback

\* What the thread has in hand after a call of its callback.
LEMMA HandGoes ==
  ASSUME CbInv, NameInv, OwnInv, Stays, NEW t \in Threads, Operation(t), HandOK(t)
  PROVE  HandOK(t)'
<1> SUFFICES ASSUME cb'[t].ops # <<>> PROVE HandOK(t)' BY DEF HandOK
<1>1. PICK c \in 1..Len(calls) : c = cb[t].call BY OpFacts
<1>2. PICK ops \in Seq(Op) : ops = cb[t].ops /\ ops # <<>> /\ Head(ops) = ops[1] BY OpFacts
<1>3. Goes(t) /\ calls' = calls BY OpFacts
<1>4. cb'[t].ops = Tail(ops) /\ cb'[t].call = c /\ cb'[t].phase = cb[t].phase
  BY <1>1, <1>2, <1>3, GoesRest DEF Goes
<1>5. PICK ph : ph = cb[t].phase OBVIOUS
<1>6. PICK held, found : held = cb[t].held /\ found = cb[t].found OBVIOUS
<1>7. /\ IsSeq(held) /\ IsSeq(found)
      /\ \A n \in DOMAIN held : EventOf(held[n], c, ph)
      /\ \A j \in DOMAIN ops : ops[j].op = "map" =>
           ph = "end" /\ (held # <<>> \/ \E i \in 1..(j - 1) : ops[i].op = "add")
      /\ StartOf(c) = NoCallback => \A n \in DOMAIN found : found[n] = 0
  BY <1>1, <1>2, <1>5, <1>6 DEF HandOK
<1>8. \A i : EventOf(i, c, ph) => EventOf(i, c, ph)' BY DEF EventOf, Stays, Grown
<1>9. StartOf(c)' = StartOf(c) BY CallStays
<1>10. PICK rest \in Seq(Op) : rest = Tail(ops) BY <1>2, TailProgram
<1>11. /\ \A i \in DOMAIN rest : rest[i] = ops[i + 1] /\ i + 1 \in DOMAIN ops /\ i \in Nat
       /\ \A j \in DOMAIN ops : j = 1 \/ (j - 1 \in DOMAIN rest /\ rest[j - 1] = ops[j])
  <2>1. \A i \in DOMAIN rest : i \in Nat BY <1>10
  <2> QED BY <1>2, <1>10, <2>1, TailProgram
<1>12. ASSUME NEW h, IsSeq(h), \A n \in DOMAIN h : EventOf(h[n], c, ph)',
              NEW f, IsSeq(f), StartOf(c) = NoCallback => \A n \in DOMAIN f : f[n] = 0,
              cb'[t].held = h, cb'[t].found = f, h # <<>> \/ (h = held /\ ops[1].op # "add")
       PROVE  HandOK(t)'
  <2>1. ASSUME NEW j \in DOMAIN rest, rest[j].op = "map"
        PROVE  ph = "end" /\ (h # <<>> \/ \E i \in 1..(j - 1) : rest[i].op = "add")
    <3>1. j + 1 \in DOMAIN ops /\ ops[j + 1].op = "map" /\ j \in Nat BY <1>11, <2>1
    <3>2. ph = "end" /\ (held # <<>> \/ \E i \in 1..((j + 1) - 1) : ops[i].op = "add") BY <1>7, <3>1
    <3>3. CASE h = <<>>
      <4>1. held = <<>> /\ ops[1].op # "add" BY <1>12, <3>3
      <4>2. PICK i \in 1..((j + 1) - 1) : ops[i].op = "add" BY <3>2, <4>1
      <4>3. i # 1 /\ i \in Nat /\ i <= j BY <3>1, <4>1, <4>2
      <4>4. DOMAIN ops = 1..Len(ops) /\ Len(ops) \in Nat BY <1>2
      <4>5. i \in DOMAIN ops BY <3>1, <4>3, <4>4
      <4>6. i - 1 \in 1..(j - 1) /\ rest[i - 1].op = "add" BY <1>11, <3>1, <4>2, <4>3, <4>5
      <4> QED BY <3>2, <4>6
    <3> QED BY <3>2, <3>3
  <2> QED BY <1>4, <1>5, <1>9, <1>10, <1>12, <2>1 DEF HandOK
<1>13. CASE addEvent(t)
  <2>1. PICK m : m = Len(events) + 1 OBVIOUS
  <2>2. PICK e : events' = Append(events, e) /\ e.call = c /\ e.phase = ph
    BY <1>1, <1>5, <1>13, EventEffect
  <2>3. m \in DOMAIN events' /\ events'[m] = e BY <2>1, <2>2, AppendForm DEF NameInv
  <2>4. EventOf(m, c, ph)' BY <2>2, <2>3 DEF EventOf
  <2>5. PICK h : h = Append(held, m) OBVIOUS
  <2>6. PICK f : f = IF found = <<>> THEN found ELSE Tail(found) OBVIOUS
  <2>7. cb'[t].held = h /\ cb'[t].found = f BY <1>6, <1>13, <2>1, <2>5, <2>6, AddHands
  <2>8. /\ IsSeq(h) /\ h # <<>>
        /\ \A n \in DOMAIN h : (n \in DOMAIN held /\ h[n] = held[n]) \/ h[n] = m
    <3>1. /\ IsSeq(h) /\ Len(held) \in Nat /\ Len(h) = Len(held) + 1
          /\ \A n \in DOMAIN h : n \in DOMAIN held \/ n = Len(held) + 1
          /\ \A n \in DOMAIN held : h[n] = held[n]
          /\ h[Len(held) + 1] = m
      BY <1>7, <2>5, AppendForm
    <3>2. Len(h) # 0 BY <3>1
    <3> QED BY <3>1, <3>2
  <2>9. \A n \in DOMAIN h : EventOf(h[n], c, ph)' BY <1>7, <1>8, <2>4, <2>8
  <2>10. IsSeq(f) /\ (StartOf(c) = NoCallback => \A n \in DOMAIN f : f[n] = 0)
    <3>1. CASE found = <<>> BY <1>7, <2>6, <3>1
    <3>2. CASE found # <<>> BY <1>7, <2>6, <3>2, TailForm
    <3> QED BY <3>1, <3>2
  <2> QED BY <1>12, <2>7, <2>8, <2>9, <2>10
<1>14. CASE lookupStart(t)
  <2>1. PICK f : f = IF Looked(t) = {} THEN <<0>> ELSE (CHOOSE s \in Looked(t) : TRUE).ids OBVIOUS
  <2>2. cb'[t].held = held /\ cb'[t].found = f /\ ops[1].op # "add"
    BY <1>2, <1>6, <1>14, <2>1, LookHands
  <2>3. IsSeq(f)
    <3>1. CASE Looked(t) = {} BY <2>1, <3>1, ShortSeqs
    <3>2. CASE Looked(t) # {}
      <4>1. PICK s : s = CHOOSE r \in Looked(t) : TRUE OBVIOUS
      <4>2. s \in starts BY <3>2, <4>1 DEF Looked
      <4> QED BY <2>1, <3>2, <4>1, <4>2 DEF OwnInv, EntryRight
    <3> QED BY <3>1, <3>2
  <2>4. StartOf(c) = NoCallback => \A n \in DOMAIN f : f[n] = 0
    <3> SUFFICES ASSUME StartOf(c) = NoCallback PROVE \A n \in DOMAIN f : f[n] = 0 OBVIOUS
    <3>1. Looked(t) = {} BY <1>1, <1>14, NothingLooked
    <3> QED BY <2>1, <3>1, ShortSeqs
  <2>5. \A n \in DOMAIN held : EventOf(held[n], c, ph)' BY <1>7, <1>8
  <2> QED BY <1>7, <1>12, <2>2, <2>3, <2>4, <2>5
<1>15. CASE ~addEvent(t) /\ ~lookupStart(t)
  <2>1. cb'[t].held = held /\ cb'[t].found = found /\ ops[1].op # "add"
    BY <1>2, <1>6, <1>15, PlainHands
  <2>2. \A n \in DOMAIN held : EventOf(held[n], c, ph)' BY <1>7, <1>8
  <2> QED BY <1>7, <1>12, <2>1, <2>2
<1> QED BY <1>13, <1>14, <1>15

\* A new end event of a call that never started names no start.
LEMMA NoStartAdd ==
  ASSUME CbInv, NameInv, Stays, HandInv, NEW t \in Threads, addEvent(t)
  PROVE  \A i \in DOMAIN events' : NoStart(i)'
<1>0. Operation(t) BY DEF Operation
<1>1. PICK c \in 1..Len(calls) : c = cb[t].call BY <1>0, OpFacts
<1>2. cb[t].ops # <<>> BY <1>0, OpFacts
<1>3. PICK found : found = cb[t].found OBVIOUS
<1>4. PICK e : /\ events' = Append(events, e) /\ e.call = c
               /\ e.start = IF found = <<>> THEN 0 ELSE Head(found)
  <2> DEFINE e == [kind |-> Head(cb[t].ops).kind, call |-> cb[t].call, phase |-> cb[t].phase,
                   start |-> IF cb[t].found = <<>> THEN 0 ELSE Head(cb[t].found)]
  <2>1. events' = Append(events, e) BY DEF addEvent
  <2>2. e.call = c /\ e.start = IF found = <<>> THEN 0 ELSE Head(found) BY <1>1, <1>3
  <2> HIDE DEF e
  <2> QED BY <2>1, <2>2
<1>5. PICK n : n = Len(events) + 1 OBVIOUS
<1>6. (\A i \in DOMAIN events' : i \in DOMAIN events \/ i = n) /\ events'[n] = e
  BY <1>4, <1>5, AppendForm DEF NameInv
<1>7. StartOf(c)' = StartOf(c) BY CallStays
<1>8. StartOf(c) = NoCallback => e.start = 0
  <2> SUFFICES ASSUME StartOf(c) = NoCallback PROVE e.start = 0 OBVIOUS
  <2>1. IsSeq(found) /\ \A m \in DOMAIN found : found[m] = 0 BY <1>1, <1>2, <1>3 DEF HandInv, HandOK
  <2>2. CASE found = <<>> BY <1>4, <2>2
  <2>3. CASE found # <<>> BY <1>4, <2>1, <2>3, TailForm
  <2> QED BY <2>2, <2>3
<1>9. NoStart(n)' BY <1>4, <1>6, <1>7, <1>8 DEF NoStart
<1>10. ASSUME NEW i \in DOMAIN events PROVE NoStart(i)'
  <2>1. NoStart(i) /\ events'[i] = events[i] BY DEF HandInv, Stays, Grown
  <2>2. events[i].call \in 1..Len(calls) BY DEF NameInv, EventOK
  <2>3. StartOf(events[i].call)' = StartOf(events[i].call)
    <3>1. PICK d \in 1..Len(calls) : d = events[i].call BY <2>2
    <3>2. StartOf(d)' = StartOf(d) BY CallStays
    <3> QED BY <2>1, <3>1, <3>2 DEF StartOf
  <2> QED BY <2>1, <2>3 DEF NoStart
<1> QED BY <1>6, <1>9, <1>10

\* Old events stay as they are.
LEMMA NoStartStays ==
  ASSUME CbInv, NameInv, Stays, HandInv, events' = events
  PROVE  \A i \in DOMAIN events' : NoStart(i)'
<1> SUFFICES ASSUME NEW i \in DOMAIN events PROVE NoStart(i)' OBVIOUS
<1>1. NoStart(i) BY DEF HandInv
<1>2. PICK d \in 1..Len(calls) : d = events[i].call BY DEF NameInv, EventOK
<1>3. StartOf(d)' = StartOf(d) BY CallStays
<1>4. events'[i] = events[i] OBVIOUS
<1> QED BY <1>1, <1>2, <1>3, <1>4 DEF NoStart

\* What the callbacks have in hand, kept by every step.
LEMMA HandStep ==
  ASSUME CbInv, NameInv, OwnInv, HandInv, [Next]_vars
  PROVE  HandInv'
<1>0. Stays BY GrownStep, DanglingGrows DEF Stays
<1>1. \A t \in Threads : HandOK(t) BY DEF HandInv
<1>2. \A c \in 1..Len(calls) : calls[c].ev \in Commands \cup {0} BY DEF HandInv
<1>3. ASSUME NEW t \in Threads, NEW api \in use.apis, NEW ev \in use.traced \cup {0}, Begin(t, api, ev)
      PROVE  HandInv'
  <2>1. PICK r \in CallRec, phase \in {"start", "end"} :
          /\ calls' = Append(calls, r) /\ r.ev = ev /\ api \in APIs
          /\ phase = IF API[api].start = NoCallback THEN "end" ELSE "start"
          /\ \A u \in Threads : u # t => cb'[u] = cb[u]
          /\ cb'[t] = Callback(Len(calls) + 1, IF phase = "end" THEN API[api].end ELSE API[api].start, phase)
    BY <1>3, BeginEffect
  <2>2. PICK c, ops : c = Len(calls) + 1 /\ ops = IF phase = "end" THEN API[api].end ELSE API[api].start
    OBVIOUS
  <2>3. cb'[t] = Callback(c, ops, phase) BY <2>1, <2>2
  <2>4. (phase = "start" /\ ops = API[api].start) \/ (phase = "end" /\ ops = API[api].end) BY <2>1, <2>2
  <2>5. HandOK(t)' BY <2>1, <2>3, <2>4, HandBegins
  <2>6. \A u \in Threads : HandOK(u)' BY <1>0, <1>1, <2>1, <2>5, HandSame
  <2>7. events' = events BY <1>3 DEF Begin, databaseVars
  <2>8. use \in Uses /\ use.traced \subseteq Commands BY HostAssumption DEF CbInv
  <2>9. \A d \in 1..Len(calls') : calls'[d].ev \in Commands \cup {0}
    <3>1. /\ Len(calls') = Len(calls) + 1 /\ Len(calls) \in Nat
          /\ (\A i \in 1..Len(calls) : calls'[i] = calls[i]) /\ calls'[Len(calls) + 1] = r
      BY <2>1, CallsAppend DEF CbInv
    <3>2. ASSUME NEW d \in 1..Len(calls') PROVE d \in 1..Len(calls) \/ d = Len(calls) + 1 BY <3>1
    <3> QED BY <1>2, <2>1, <2>8, <3>1, <3>2
  <2> QED BY <1>0, <2>6, <2>7, <2>9, NoStartStays DEF HandInv
<1>4. ASSUME NEW t \in Threads, NEW c \in open, End(t, c) PROVE HandInv'
  <2>1. /\ calls' = calls /\ events' = events
        /\ cb' = [cb EXCEPT ![t] = Callback(c, API[calls[c].api].end, "end")]
        /\ cb = [u \in Threads |-> cb[u]]
    BY <1>4 DEF End, databaseVars, CbInv
  <2>2. PICK ops : ops = API[calls[c].api].end OBVIOUS
  <2>3. cb'[t] = Callback(c, ops, "end") /\ \A u \in Threads : u # t => cb'[u] = cb[u] BY <2>1, <2>2
  <2>4. c \in 1..Len(calls) BY DEF CbInv
  <2>5. PICK a \in APIs : a = calls[c].api BY <2>4, MarkingOf
  <2>6. ops = API[a].end BY <2>2, <2>5
  <2>7. HandOK(t)' BY <2>3, <2>6, HandBegins
  <2>8. \A u \in Threads : HandOK(u)' BY <1>0, <1>1, <2>3, <2>7, HandSame
  <2> QED BY <1>0, <1>2, <2>1, <2>8, NoStartStays DEF HandInv
<1>5. ASSUME NEW t \in Threads, Operation(t) PROVE HandInv'
  <2>1. calls' = calls /\ \A u \in Threads : u # t => cb'[u] = cb[u] BY <1>5, OpFacts DEF Goes
  <2>2. HandOK(t)' BY <1>0, <1>1, <1>5, HandGoes
  <2>3. \A u \in Threads : HandOK(u)' BY <1>0, <1>1, <2>1, <2>2, HandSame
  <2>4. \A i \in DOMAIN events' : NoStart(i)'
    <3>1. CASE addEvent(t) BY <1>0, <3>1, NoStartAdd
    <3>2. CASE events' = events BY <1>0, <3>2, NoStartStays
    <3> QED BY <1>5, <3>1, <3>2, OperationFrame
  <2> QED BY <1>2, <2>1, <2>3, <2>4 DEF HandInv
<1>6. CASE OtherStep
  <2>1. calls' = calls /\ cb' = cb /\ events' = events BY <1>6, OtherFrame
  <2>2. \A u \in Threads : HandOK(u)' BY <1>0, <1>1, <2>1, HandSame
  <2> QED BY <1>0, <1>2, <2>1, <2>2, NoStartStays DEF HandInv
<1> QED BY <1>3, <1>4, <1>5, <1>6, StepKinds

\* In the beginning nothing is in hand.
LEMMA HandInit ==
  ASSUME Init
  PROVE  HandInv
<1>1. calls = <<>> /\ cb = [t \in Threads |-> Idle] /\ events = <<>> BY DEF Init
<1>2. \A t \in Threads : cb[t].ops = <<>> BY <1>1 DEF Idle
<1>3. DOMAIN events = {} /\ Len(calls) = 0 BY <1>1
<1> QED BY <1>2, <1>3 DEF HandInv, HandOK

-----------------------------------------------------------------------------
(* Arrows: the chains of dependencies                                      *)

\* Induction over the naturals, for sets.
LEMMA Induct ==
  ASSUME NEW S, 0 \in S, \A n \in Nat : n \in S => n + 1 \in S
  PROVE  \A n \in Nat : n \in S
<1> SUFFICES ASSUME NEW n \in Nat, n \notin S PROVE FALSE OBVIOUS
<1>1. IsWellFoundedOn(OpToRel(<, Nat), Nat) BY NatLessThanWellFounded
<1>2. PICK m \in Nat \ S : \A y \in Nat \ S : ~(<<y, m>> \in OpToRel(<, Nat)) BY <1>1, WFMin
<1>3. m # 0 /\ m - 1 \in Nat /\ m - 1 < m
  <2>1. m \in Nat /\ m # 0 OBVIOUS
  <2> QED BY <2>1
<1>4. m - 1 \notin S
  <2>1. (m - 1) + 1 = m BY <1>3
  <2> QED BY <1>2, <1>3, <2>1
<1>5. <<m - 1, m>> \in Nat \X Nat BY <1>3
<1>6. <<m - 1, m>> \in OpToRel(<, Nat) BY <1>3, <1>5 DEF OpToRel
<1> QED BY <1>2, <1>3, <1>4, <1>6

\* f flattens the sequence q up to n
Flattens(f, q, n) == f = [i \in 1..n |-> IF i = 1 THEN q[i] ELSE f[i - 1] \o q[i]]

\* There is such a flattening.
LEMMA FlattensExists ==
  ASSUME NEW q, NEW N \in Nat
  PROVE  \E f : Flattens(f, q, N)
<1> DEFINE Flat == {n \in Nat : \E f : Flattens(f, q, n)}
<1>1. 0 \in Flat
  <2>1. Flattens([i \in 1..0 |-> 0], q, 0) BY DEF Flattens
  <2> QED BY <2>1
<1>2. ASSUME NEW n \in Nat, n \in Flat PROVE n + 1 \in Flat
  <2>1. PICK f : Flattens(f, q, n) BY <1>2
  <2>2. PICK e : e = IF n = 0 THEN q[n + 1] ELSE f[n] \o q[n + 1] OBVIOUS
  <2>3. PICK h : h = [i \in 1..(n + 1) |-> IF i = n + 1 THEN e ELSE f[i]] OBVIOUS
  <2>4. ASSUME NEW i \in 1..(n + 1)
        PROVE  h[i] = IF i = 1 THEN q[i] ELSE h[i - 1] \o q[i]
    <3>1. CASE i = n + 1 BY <2>2, <2>3, <3>1
    <3>2. CASE i # n + 1
      <4>1. i \in 1..n BY <3>2
      <4>2. f[i] = IF i = 1 THEN q[i] ELSE f[i - 1] \o q[i] BY <2>1, <4>1 DEF Flattens
      <4>3. h[i] = f[i] BY <2>3, <3>2
      <4>4. CASE i = 1 BY <4>2, <4>3, <4>4
      <4>5. CASE i # 1
        <5>1. h[i - 1] = f[i - 1] BY <2>3, <4>1, <4>5
        <5> QED BY <4>2, <4>3, <4>5, <5>1
      <4> QED BY <4>4, <4>5
    <3> QED BY <3>1, <3>2
  <2>5. Flattens(h, q, n + 1) BY <2>3, <2>4 DEF Flattens
  <2> QED BY <2>5
<1>3. \A n \in Nat : n \in Flat
  <2> HIDE DEF Flat
  <2> QED BY <1>1, <1>2, Induct
<1> QED BY <1>3


\* What sequences over S flatten to is a sequence over S.
LEMMA FlattenOver ==
  ASSUME NEW S, NEW q \in Seq(Seq(S))
  PROVE  FlattenSeq(q) \in Seq(S)
<1>1. PICK n \in Nat : n = Len(q) /\ DOMAIN q = 1..n OBVIOUS
<1>2. CASE n = 0
  <2>1. q = <<>> BY <1>1, <1>2
  <2>2. q \in Seq(S) BY <2>1
  <2>3. FlattenSeq(q) = q BY <1>1, <1>2, Zenon DEF FlattenSeq
  <2> QED BY <2>2, <2>3
<1>3. CASE n # 0
  <2>1. PICK f : f = CHOOSE h : Flattens(h, q, Len(q)) OBVIOUS
  <2>2. \E h : Flattens(h, q, Len(q)) BY <1>1, FlattensExists
  <2>3. Flattens(f, q, Len(q)) BY <2>1, <2>2
  <2>4. FlattenSeq(q) = f[Len(q)] BY <1>1, <1>3, <2>1, Zenon DEF FlattenSeq, Flattens
  <2>5. \A i \in 1..n : f[i] = IF i = 1 THEN q[i] ELSE f[i - 1] \o q[i] BY <1>1, <2>3 DEF Flattens
  <2> DEFINE Over == {i \in Nat : i \in 1..n => f[i] \in Seq(S)}
  <2>6. 0 \in Over OBVIOUS
  <2>7. ASSUME NEW i \in Nat, i \in Over PROVE i + 1 \in Over
    <3> SUFFICES ASSUME i + 1 \in 1..n PROVE f[i + 1] \in Seq(S) OBVIOUS
    <3>1. q[i + 1] \in Seq(S) BY <1>1
    <3>2. CASE i = 0
      <4>1. f[i + 1] = q[i + 1] BY <2>5, <3>2
      <4> QED BY <3>1, <4>1
    <3>3. CASE i # 0
      <4>1. i \in 1..n /\ i + 1 # 1 /\ (i + 1) - 1 = i BY <1>1, <3>3
      <4>2. f[i] \in Seq(S) BY <2>7, <4>1
      <4>3. f[i + 1] = f[i] \o q[i + 1] BY <2>5, <4>1
      <4>4. PICK s \in Seq(S), u \in Seq(S) : s = f[i] /\ u = q[i + 1] BY <3>1, <4>2
      <4>5. s \o u \in Seq(S) BY ConcatProperties
      <4> QED BY <4>3, <4>4, <4>5
    <3> QED BY <3>2, <3>3
  <2>8. \A i \in Nat : i \in Over
    <3> HIDE DEF Over
    <3> QED BY <2>6, <2>7, Induct
  <2>9. n \in 1..n /\ n \in Nat BY <1>3
  <2> QED BY <1>1, <2>4, <2>8, <2>9
<1> QED BY <1>2, <1>3

\* A sequence is one over any set that has its elements.
LEMMA SeqOver ==
  ASSUME NEW S, NEW s \in Seq(S), NEW R, \A y \in ToSet(s) : y \in R
  PROVE  s \in Seq(R)
<1>1. PICK n \in Nat : n = Len(s) /\ DOMAIN s = 1..n /\ s = [i \in 1..n |-> s[i]] OBVIOUS
<1>2. \A i \in 1..n : s[i] \in R BY <1>1 DEF ToSet
<1>3. s \in [1..n -> R] BY <1>1, <1>2
<1> QED BY <1>3

\* The elements of a sequence that is put before another.
LEMMA ConcatOver ==
  ASSUME NEW S, NEW s \in Seq(S), NEW u \in Seq(S)
  PROVE  s \o u \in Seq(S) /\ ToSet(s) \subseteq ToSet(s \o u)
<1>1. /\ s \o u \in Seq(S) /\ Len(s \o u) = Len(s) + Len(u)
      /\ \A i \in 1..(Len(s) + Len(u)) : (s \o u)[i] = IF i <= Len(s) THEN s[i] ELSE u[i - Len(s)]
  BY ConcatProperties
<1>2. PICK w \in Seq(S) : w = s \o u BY <1>1
<1>3. /\ DOMAIN s = 1..Len(s) /\ DOMAIN w = 1..(Len(s) + Len(u)) /\ Len(s) \in Nat /\ Len(u) \in Nat
  BY <1>1, <1>2
<1>4. \A i \in DOMAIN s : i \in DOMAIN w /\ w[i] = s[i] BY <1>1, <1>2, <1>3
<1> QED BY <1>1, <1>2, <1>4 DEF ToSet

\* What a sequence contains.
LEMMA ContainsSet ==
  ASSUME NEW S, NEW s \in Seq(S)
  PROVE  ToSet(s) \subseteq S /\ \A y : Contains(s, y) <=> y \in ToSet(s)
<1>1. DOMAIN s = 1..Len(s) /\ \A i \in DOMAIN s : s[i] \in S OBVIOUS
<1> QED BY <1>1 DEF ToSet, Contains

\* event i is one of this phase of the command x
CommandEvent(i, phase, x) ==
  i \in DOMAIN events /\ events[i].phase = phase /\ calls[events[i].call].ev = x

\* a command is mapped to its own end and start event
MapOK(x) ==
  /\ openclEventMap[x][1] # 0 => CommandEvent(openclEventMap[x][1], "end", x)
  /\ openclEventMap[x][2] # 0 => CommandEvent(openclEventMap[x][2], "start", x)

MapInv ==
  /\ openclEventMap = [x \in Commands |-> openclEventMap[x]] /\ \A x \in Commands : MapOK(x)
  /\ dependencies \in [Commands -> Seq(Commands)]

\* Which steps change what the commands are mapped to and what they wait for.
LEMMA MapFrame ==
  ASSUME [Next]_vars
  PROVE  /\ (\E t \in Threads : addOpenCLMapping(t)) \/ openclEventMap' = openclEventMap
         /\ (\E w \in use.waits : add_dependency(w[1], w[2])) \/ dependencies' = dependencies
<1>1. ASSUME NEW t \in Threads, NEW api, NEW ev, Begin(t, api, ev)
      PROVE  openclEventMap' = openclEventMap /\ dependencies' = dependencies
  BY <1>1 DEF Begin, databaseVars
<1>2. ASSUME NEW t \in Threads, NEW c, End(t, c)
      PROVE  openclEventMap' = openclEventMap /\ dependencies' = dependencies
  BY <1>2 DEF End, databaseVars
<1>3. ASSUME NEW t \in Threads, Operation(t)
      PROVE  (addOpenCLMapping(t) \/ openclEventMap' = openclEventMap) /\ dependencies' = dependencies
  <2>0. ASSUME NEW rest, NEW me, Advance(t, rest, me) PROVE dependencies' = dependencies
    BY <2>0 DEF Advance
  <2>1. CASE addString(t) BY <2>0, <2>1 DEF addString
  <2>2. CASE addEvent(t) BY <2>0, <2>2 DEF addEvent
  <2>3. CASE registerStart(t) BY <2>0, <2>3 DEF registerStart
  <2>4. CASE lookupStart(t) BY <2>0, <2>4 DEF lookupStart
  <2>5. CASE quitUnstarted(t) BY <2>0, <2>5 DEF quitUnstarted, databaseVars
  <2>6. CASE addOpenCLMapping(t) BY <2>0, <2>6 DEF addOpenCLMapping
  <2>7. CASE logFunctionCallStart(t) BY <2>0, <2>7 DEF logFunctionCallStart
  <2>8. CASE logFunctionCallEnd(t) BY <2>0, <2>8 DEF logFunctionCallEnd
  <2> QED BY <1>3, <2>1, <2>2, <2>3, <2>4, <2>5, <2>6, <2>7, <2>8 DEF Operation
<1>4. ASSUME WriterStep PROVE openclEventMap' = openclEventMap /\ dependencies' = dependencies
  <2>1. ASSUME NEW p \in Plugins, BeginPass(p) PROVE UNCHANGED callbackVars BY <2>1 DEF BeginPass
  <2>2. ASSUME NEW p \in Plugins, writeTables(p) PROVE UNCHANGED callbackVars BY <2>2 DEF writeTables
  <2>3. ASSUME NEW p \in Plugins, moveEvents(p) PROVE UNCHANGED callbackVars BY <2>3 DEF moveEvents
  <2>4. ASSUME NEW p \in Plugins, dumpEvents(p) PROVE UNCHANGED callbackVars BY <2>4 DEF dumpEvents
  <2>5. ASSUME NEW p \in Plugins, ClosePass(p) PROVE UNCHANGED callbackVars BY <2>5 DEF ClosePass
  <2>6. ASSUME NEW p \in Plugins, DestroyPlugin(p) PROVE UNCHANGED callbackVars BY <2>6 DEF DestroyPlugin
  <2>7. CASE collapseDependencyChains BY <2>7 DEF collapseDependencyChains, callbackVars
  <2>8. CASE writeDependencies BY <2>8 DEF writeDependencies, callbackVars
  <2> QED BY <1>4, <2>1, <2>2, <2>3, <2>4, <2>5, <2>6, <2>7, <2>8 DEF WriterStep, callbackVars
<1>5. CASE Gone \/ UNCHANGED vars BY <1>5 DEF Gone, vars
<1>6. ASSUME NEW w \in use.waits, add_dependency(w[1], w[2]) PROVE openclEventMap' = openclEventMap
  BY <1>6 DEF add_dependency, databaseVars
<1> QED BY <1>1, <1>2, <1>3, <1>4, <1>5, <1>6, StepKinds DEF OtherStep

\* An event of a command stays one.
LEMMA CommandEventStays ==
  ASSUME NameInv, Stays, NEW i, NEW phase, NEW x, CommandEvent(i, phase, x)
  PROVE  CommandEvent(i, phase, x)'
<1>1. i \in DOMAIN events' /\ events'[i] = events[i] BY DEF CommandEvent, Stays, Grown
<1>2. events[i].call \in 1..Len(calls) BY DEF CommandEvent, NameInv, EventOK
<1>3. calls'[events[i].call] = calls[events[i].call] BY <1>2 DEF Stays, Grown
<1> QED BY <1>1, <1>3 DEF CommandEvent

\* A command is mapped to the event its end callback has added, and to the start that
\* this event names.
LEMMA MapAdd ==
  ASSUME CbInv, NameInv, OwnInv, HandInv, Stays, MapInv, NEW t \in Threads, addOpenCLMapping(t)
  PROVE  openclEventMap' = [x \in Commands |-> openclEventMap'[x]] /\ \A x \in Commands : MapOK(x)'
<1>0. Operation(t) BY DEF Operation
<1>1. PICK c \in 1..Len(calls) : c = cb[t].call BY <1>0, OpFacts
<1>2. cb[t].ops # <<>> /\ 1 \in DOMAIN cb[t].ops /\ Head(cb[t].ops) = cb[t].ops[1] BY <1>0, OpFacts
<1>3. cb[t].ops[1].op = "map" BY <1>2 DEF addOpenCLMapping, Next1
<1>4. PICK held : held = cb[t].held OBVIOUS
<1>5. /\ IsSeq(held) /\ held # <<>> /\ cb[t].phase = "end"
      /\ \A n \in DOMAIN held : EventOf(held[n], c, "end")
  <2>1. HandOK(t) BY DEF HandInv
  <2>2. 1..(1 - 1) = {} OBVIOUS
  <2> QED BY <1>1, <1>2, <1>3, <1>4, <2>1, <2>2 DEF HandOK
<1>6. PICK id : id = Last(held) OBVIOUS
<1>7. EventOf(id, c, "end")
  <2>1. PICK S : held \in Seq(S) BY <1>5 DEF IsSeq
  <2>2. Len(held) \in DOMAIN held BY <1>5, <2>1
  <2> QED BY <1>5, <1>6, <2>2 DEF Last
<1>8. PICK ev : ev = calls[c].ev OBVIOUS
<1>9. PICK end, start : /\ openclEventMap' = [openclEventMap EXCEPT ![ev] = <<end, start>>]
                        /\ end \in {id, 0} /\ start = events[id].start
  <2>1. PICK end \in getEventId(id) :
          openclEventMap' = [openclEventMap EXCEPT ![ev] = <<end, events[id].start>>]
    BY <1>1, <1>4, <1>6, <1>8 DEF addOpenCLMapping
  <2>2. end \in {id, 0} BY <2>1 DEF getEventId
  <2> QED BY <2>1, <2>2
<1>10. CommandEvent(id, "end", ev) BY <1>1, <1>7, <1>8 DEF EventOf, CommandEvent
<1>11. start # 0 => CommandEvent(start, "start", ev)
  <2> SUFFICES ASSUME start # 0 PROVE CommandEvent(start, "start", ev) OBVIOUS
  <2>1. id \in DOMAIN events /\ events[id].call = c /\ events[id].phase = "end" BY <1>7 DEF EventOf
  <2>2. StartOf(c) # NoCallback BY <1>9, <2>1 DEF HandInv, NoStart
  <2>3. Good(c, events[id].kind, start) BY <1>9, <2>1, <2>2 DEF OwnInv, PairedOK
  <2>4. start \in StartsOf(c, events[id].kind) BY <2>3 DEF Good
  <2> QED BY <1>8, <2>4 DEF StartsOf, CommandEvent
<1>12. CommandEvent(id, "end", ev)' /\ (start # 0 => CommandEvent(start, "start", ev)')
  BY <1>10, <1>11, CommandEventStays
<1>13. PICK m : m = openclEventMap /\ m = [x \in Commands |-> m[x]] BY DEF MapInv
<1>14. PICK pair : pair = <<end, start>> /\ pair[1] = end /\ pair[2] = start
  <2>1. <<end, start>>[1] = end /\ <<end, start>>[2] = start OBVIOUS
  <2> QED BY <2>1, Zenon
<1>15. openclEventMap' = [x \in Commands |-> IF x = ev THEN pair ELSE m[x]] BY <1>9, <1>13, <1>14
<1>16. ASSUME NEW x \in Commands PROVE MapOK(x)'
  <2>1. CASE x = ev
    <3>1. openclEventMap'[x] = pair BY <1>15, <2>1
    <3> QED BY <1>9, <1>12, <1>14, <2>1, <3>1 DEF MapOK
  <2>2. CASE x # ev
    <3>1. openclEventMap'[x] = openclEventMap[x] BY <1>13, <1>15, <2>2
    <3>2. MapOK(x) BY DEF MapInv
    <3> QED BY <3>1, <3>2, CommandEventStays DEF MapOK
  <2> QED BY <2>1, <2>2
<1> QED BY <1>15, <1>16

\* What the commands wait for and are mapped to: more while calls run, and no more once
\* a plugin is destroyed.
Settles ==
  /\ \A x \in Commands : ToSet(dependencies[x]) \subseteq ToSet(dependencies'[x])
  /\ stopping # {} => dependencies' = dependencies /\ openclEventMap' = openclEventMap
  /\ stopping \subseteq stopping'

\* A new dependency is put after the ones the command has.
LEMMA DependencyAdd ==
  ASSUME CbInv, MapInv, NEW w \in use.waits, add_dependency(w[1], w[2])
  PROVE  /\ dependencies' \in [Commands -> Seq(Commands)] /\ stopping = {}
         /\ \A x \in Commands : ToSet(dependencies[x]) \subseteq ToSet(dependencies'[x])
<1>1. w[1] \in Commands /\ w[2] \in Commands
  <2>1. use \in Uses BY DEF CbInv
  <2>2. w \in Commands \X Commands BY <2>1, HostAssumption
  <2> QED BY <2>2
<1>2. PICK y \in Commands, z \in Commands : y = w[1] /\ z = w[2] BY <1>1
<1>3. dependencies' = [dependencies EXCEPT ![y] = Append(dependencies[y], z)] /\ stopping = {}
  BY <1>2 DEF add_dependency
<1>4. dependencies \in [Commands -> Seq(Commands)] BY DEF MapInv
<1>5. ASSUME NEW x \in Commands
      PROVE  dependencies'[x] \in Seq(Commands) /\ ToSet(dependencies[x]) \subseteq ToSet(dependencies'[x])
  <2>1. CASE x # y BY <1>3, <1>4, <2>1
  <2>2. CASE x = y
    <3>1. PICK s \in Seq(Commands) : s = dependencies[y] BY <1>4
    <3>2. dependencies'[x] = Append(s, z) BY <1>3, <1>4, <2>2, <3>1
    <3>3. /\ Append(s, z) \in Seq(Commands)
          /\ \A i \in DOMAIN s : i \in DOMAIN Append(s, z) /\ Append(s, z)[i] = s[i]
      <4>1. IsSeq(s) BY DEF IsSeq
      <4>2. DOMAIN s \subseteq DOMAIN Append(s, z) /\ \A i \in DOMAIN s : Append(s, z)[i] = s[i]
        BY <4>1, AppendForm
      <4>3. Append(s, z) \in Seq(Commands) BY AppendProperties
      <4> QED BY <4>2, <4>3
    <3> QED BY <2>2, <3>1, <3>2, <3>3 DEF ToSet
  <2> QED BY <2>1, <2>2
<1>6. dependencies' = [x \in Commands |-> dependencies'[x]] BY <1>3, <1>4
<1> QED BY <1>3, <1>5, <1>6

\* The maps settle with every step.
LEMMA SettlesStep ==
  ASSUME CbInv, LoadInv, WriterInv, MapInv, [Next]_vars
  PROVE  Settles /\ dependencies' \in [Commands -> Seq(Commands)]
<1>1. \A x \in Commands : ToSet(dependencies[x]) \subseteq ToSet(dependencies'[x])
  BY MapFrame, DependencyAdd
<1>2. dependencies' \in [Commands -> Seq(Commands)]
  <2>1. CASE dependencies' = dependencies BY <2>1 DEF MapInv
  <2> QED BY <2>1, MapFrame, DependencyAdd
<1>3. stopping # {} => dependencies' = dependencies BY MapFrame, DependencyAdd
<1>4. stopping # {} => openclEventMap' = openclEventMap
  <2>1. ASSUME NEW t \in Threads, addOpenCLMapping(t) PROVE stopping = {}
    <3>1. CallbackStep BY <2>1 DEF CallbackStep, Operation
    <3> QED BY <3>1, CallbackFrame
  <2> QED BY <2>1, MapFrame
<1>5. stopping \subseteq stopping'
  <2>1. CASE CallbackStep BY <2>1, CallbackFrame
  <2>2. CASE WriterStep
    <3>1. ASSUME NEW p \in Plugins, BeginPass(p) PROVE stopping' = stopping BY <3>1 DEF BeginPass
    <3>2. ASSUME NEW p \in Plugins, writeTables(p) PROVE stopping' = stopping BY <3>2 DEF writeTables
    <3>3. ASSUME NEW p \in Plugins, moveEvents(p) PROVE stopping' = stopping BY <3>3 DEF moveEvents
    <3>4. ASSUME NEW p \in Plugins, dumpEvents(p) PROVE stopping' = stopping BY <3>4 DEF dumpEvents
    <3>5. ASSUME NEW p \in Plugins, ClosePass(p) PROVE stopping' = stopping BY <3>5 DEF ClosePass
    <3>6. ASSUME NEW p \in Plugins, DestroyPlugin(p) PROVE stopping \subseteq stopping'
      BY <3>6 DEF DestroyPlugin
    <3>7. CASE collapseDependencyChains BY <3>7 DEF collapseDependencyChains
    <3>8. CASE writeDependencies BY <3>8 DEF writeDependencies
    <3> QED BY <2>2, <3>1, <3>2, <3>3, <3>4, <3>5, <3>6, <3>7, <3>8 DEF WriterStep
  <2>3. ASSUME NEW w \in use.waits, add_dependency(w[1], w[2]) PROVE stopping' = stopping
    BY <2>3 DEF add_dependency, writerVars
  <2>4. CASE Gone \/ UNCHANGED vars BY <2>4 DEF Gone, vars
  <2> QED BY <2>1, <2>2, <2>3, <2>4, StepKinds DEF OtherStep, CallbackStep
<1> QED BY <1>1, <1>2, <1>3, <1>4, <1>5 DEF Settles

\* Every step keeps the commands mapped to their own events.
LEMMA MapStep ==
  ASSUME CbInv, NameInv, LoadInv, WriterInv, OwnInv, HandInv, MapInv, [Next]_vars
  PROVE  MapInv'
<1>0. Stays BY GrownStep, DanglingGrows DEF Stays
<1>1. CASE \E t \in Threads : addOpenCLMapping(t)
  BY <1>0, <1>1, MapAdd, SettlesStep DEF MapInv
<1>2. CASE openclEventMap' = openclEventMap
  <2>1. \A x \in Commands : MapOK(x)' BY <1>0, <1>2, CommandEventStays DEF MapInv, MapOK
  <2> QED BY <1>2, <2>1, SettlesStep DEF MapInv
<1> QED BY <1>1, <1>2, MapFrame

\* In the beginning no command is mapped.
LEMMA MapInit ==
  ASSUME Init
  PROVE  MapInv
<1>1. openclEventMap = [c \in Commands |-> <<0, 0>>] /\ dependencies = [c \in Commands |-> <<>>]
  BY DEF Init
<1>2. \A x \in Commands : openclEventMap[x][1] = 0 /\ openclEventMap[x][2] = 0 BY <1>1
<1>3. <<>> \in Seq(Commands) OBVIOUS
<1>4. dependencies \in [Commands -> Seq(Commands)] BY <1>1, <1>3
<1> QED BY <1>1, <1>2, <1>4 DEF MapInv, MapOK

\* A command that waits for another keeps waiting for it.
LEMMA WaitsStays ==
  ASSUME MapInv, Settles, dependencies' \in [Commands -> Seq(Commands)],
         NEW x \in Commands, NEW y, Waits(x, y)
  PROVE  Waits(x, y)'
<1>1. ASSUME NEW z \in Commands PROVE Contains(dependencies[z], y) => Contains(dependencies'[z], y)
  <2>1. dependencies[z] \in Seq(Commands) /\ dependencies'[z] \in Seq(Commands) BY DEF MapInv
  <2>2. \A v : Contains(dependencies[z], v) <=> v \in ToSet(dependencies[z]) BY <2>1, ContainsSet
  <2>3. \A v : Contains(dependencies'[z], v) <=> v \in ToSet(dependencies'[z]) BY <2>1, ContainsSet
  <2> QED BY <2>2, <2>3 DEF Settles
<1>2. CASE Contains(dependencies[x], y) BY <1>1, <1>2 DEF Waits
<1>3. CASE \E z \in ToSet(dependencies[x]) : Contains(dependencies[z], y)
  <2>1. PICK z \in ToSet(dependencies[x]) : Contains(dependencies[z], y) BY <1>3
  <2>2. dependencies[x] \in Seq(Commands) BY DEF MapInv
  <2>3. z \in Commands BY <2>1, <2>2, ContainsSet
  <2>4. z \in ToSet(dependencies'[x]) BY <2>1 DEF Settles
  <2> QED BY <1>1, <2>1, <2>3, <2>4 DEF Waits
<1> QED BY <1>2, <1>3 DEF Waits

\* the chains of command x: commands it waits for, and all it waits for directly
ChainOK(x, chain) ==
  /\ chain \in Seq(Commands) /\ (\A y \in ToSet(chain) : Waits(x, y))
  /\ ToSet(dependencies[x]) \subseteq ToSet(chain)

\* Collapsing adds what an unmapped command waits for, and takes nothing away.
LEMMA CollapsedOK ==
  ASSUME MapInv, NEW x \in Commands, NEW seen
  PROVE  ChainOK(x, Collapsed(x, seen))
<1>1. PICK old \in Seq(Commands) : old = dependencies[x] BY DEF MapInv
<1>2. \A y \in ToSet(old) : y \in Commands /\ Waits(x, y)
  <2>1. ToSet(old) \subseteq Commands /\ \A y : Contains(old, y) <=> y \in ToSet(old)
    BY ContainsSet
  <2> QED BY <1>1, <2>1 DEF Waits
<1>3. CASE ~Mapped(x)
  <2>1. Collapsed(x, seen) = old BY <1>1, <1>3 DEF Collapsed
  <2> QED BY <1>1, <1>2, <2>1 DEF ChainOK
<1>4. CASE Mapped(x)
  <2>1. PICK W : W = {y \in Commands : Waits(x, y)} OBVIOUS
  <2>2. old \in Seq(W) BY <1>2, <2>1, SeqOver
  <2> DEFINE chain(i) == IF i \in seen /\ ~Mapped(old[i]) THEN dependencies[old[i]] ELSE <<>>
  <2>3. ASSUME NEW i \in DOMAIN old PROVE chain(i) \in Seq(W)
    <3>1. CASE i \in seen /\ ~Mapped(old[i])
      <4>1. old[i] \in Commands /\ old[i] \in ToSet(old) BY DEF ToSet
      <4>2. PICK z \in Commands : z = old[i] BY <4>1
      <4>3. PICK s \in Seq(Commands) : s = dependencies[z] BY DEF MapInv
      <4>4. \A y \in ToSet(s) : y \in Commands /\ Contains(dependencies[z], y) BY <4>3, ContainsSet
      <4>5. \A y \in ToSet(s) : y \in W BY <1>1, <2>1, <4>1, <4>2, <4>4 DEF Waits
      <4>6. s \in Seq(W) BY <4>5, SeqOver
      <4> QED BY <3>1, <4>2, <4>3, <4>6
    <3>2. CASE ~(i \in seen /\ ~Mapped(old[i]))
      <4>1. chain(i) = <<>> BY <3>2
      <4>2. <<>> \in Seq(W) OBVIOUS
      <4> QED BY <4>1, <4>2, Zenon
    <3> QED BY <3>1, <3>2
  <2>4. PICK q : q = [i \in DOMAIN old |-> chain(i)] OBVIOUS
  <2>5. Collapsed(x, seen) = old \o FlattenSeq(q) BY <1>1, <1>4, <2>4, Zenon DEF Collapsed
  <2> HIDE DEF chain
  <2>6. q \in Seq(Seq(W))
    <3>1. DOMAIN old = 1..Len(old) /\ Len(old) \in Nat OBVIOUS
    <3>2. q \in [1..Len(old) -> Seq(W)] BY <2>3, <2>4, <3>1
    <3> QED BY <3>1, <3>2
  <2>7. PICK r \in Seq(W) : r = FlattenSeq(q) BY <2>6, FlattenOver
  <2>8. old \o r \in Seq(W) /\ ToSet(old) \subseteq ToSet(old \o r) BY <2>2, ConcatOver
  <2>9. PICK s \in Seq(W) : s = old \o r BY <2>8
  <2>10. ToSet(s) \subseteq W BY ContainsSet
  <2>11. (\A y \in ToSet(s) : y \in Commands) /\ \A y \in ToSet(s) : Waits(x, y) BY <2>1, <2>10
  <2>12. s \in Seq(Commands) BY <2>11, SeqOver
  <2>13. Collapsed(x, seen) = s BY <2>5, <2>7, <2>9
  <2>14. ToSet(old) \subseteq ToSet(s) BY <2>8, <2>9
  <2> QED BY <1>1, <2>11, <2>12, <2>13, <2>14 DEF ChainOK
<1> QED BY <1>3, <1>4

\* The writer collapses the chains.
LEMMA ChainsEffect ==
  ASSUME WriterInv, collapseDependencyChains
  PROVE  /\ pass'["opencl"].at = "arrows" /\ files' = files /\ stopping' = stopping
         /\ pass'["opencl"].file.final = pass["opencl"].file.final
         /\ \E seen : pass'["opencl"].chains = [x \in Commands |-> Collapsed(x, seen[x])]
<1>0. "opencl" \in Plugins BY DEF Plugins
<1>1. pass = [q \in Plugins |-> pass[q]] /\ PassForm(pass["opencl"]) BY <1>0 DEF WriterInv, PassOK
<1>2. PICK seen : pass' = [pass EXCEPT !["opencl"].chains = [x \in Commands |-> Collapsed(x, seen[x])],
                                       !["opencl"].at = "arrows"]
  BY DEF collapseDependencyChains
<1>3. PICK chains : chains = [x \in Commands |-> Collapsed(x, seen[x])] OBVIOUS
<1>4. pass' = [pass EXCEPT !["opencl"].chains = chains, !["opencl"].at = "arrows"] BY <1>2, <1>3
<1>5. PICK r : r = pass["opencl"] OBVIOUS
<1>6. r \in [at : {r.at}, held : {r.held}, file : {r.file}, chains : {r.chains}]
  BY <1>1, <1>5 DEF PassForm
<1> DEFINE s == [r EXCEPT !.chains = chains, !.at = "arrows"]
<1>7. s.at = "arrows" /\ s.chains = chains /\ s.file = r.file BY <1>6
<1>8. pass'["opencl"] = s BY <1>0, <1>1, <1>4, <1>5
<1> HIDE DEF s
<1>9. files' = files /\ stopping' = stopping BY DEF collapseDependencyChains
<1> QED BY <1>3, <1>5, <1>7, <1>8, <1>9

\* The writer writes the arrows.
LEMMA WriteEffect ==
  ASSUME WriterInv, writeDependencies
  PROVE  /\ pass["opencl"].at = "arrows" /\ pass'["opencl"].at = "close"
         /\ files' = files /\ stopping' = stopping
         /\ pass'["opencl"].file.final = pass["opencl"].file.final
         /\ pass'["opencl"].file.arrows =
              UNION {UNION {Arrow(openclEventMap[x], openclEventMap[pass["opencl"].chains[x][i]]) :
                              i \in DOMAIN pass["opencl"].chains[x]} : x \in Commands}
<1>0. "opencl" \in Plugins BY DEF Plugins
<1>1. pass = [q \in Plugins |-> pass[q]] /\ PassForm(pass["opencl"]) BY <1>0 DEF WriterInv, PassOK
<1>2. PICK arrows : arrows =
        UNION {UNION {Arrow(openclEventMap[x], openclEventMap[pass["opencl"].chains[x][i]]) :
                        i \in DOMAIN pass["opencl"].chains[x]} : x \in Commands}
  OBVIOUS
<1>3. pass' = [pass EXCEPT !["opencl"].at = "close", !["opencl"].file.arrows = arrows]
  BY <1>2 DEF writeDependencies
<1>4. PICK r, f : r = pass["opencl"] /\ f = r.file OBVIOUS
<1>5. f \in [names : {f.names}, before : {f.before}, lines : {f.lines}, arrows : {f.arrows}, final : {f.final}]
  BY <1>1, <1>4 DEF PassForm, FileForm
<1>6. r \in [at : {r.at}, held : {r.held}, file : {f}, chains : {r.chains}] BY <1>1, <1>4 DEF PassForm
<1> DEFINE g == [f EXCEPT !.arrows = arrows]
<1>7. g.arrows = arrows /\ g.final = f.final BY <1>5
<1> DEFINE s == [r EXCEPT !.at = "close", !.file = g]
<1>8. s.at = "close" /\ s.file = g BY <1>6
<1>9. pass'["opencl"] = s BY <1>0, <1>1, <1>3, <1>4
<1> HIDE DEF g, s
<1>10. files' = files /\ stopping' = stopping /\ pass["opencl"].at = "arrows" BY DEF writeDependencies
<1> QED BY <1>2, <1>4, <1>7, <1>8, <1>9, <1>10

\* Which steps change what the arrows are about.
LEMMA ArrowFrame ==
  ASSUME CbInv, WriterInv, [Next]_vars
  PROVE  \/ pass'["opencl"] = pass["opencl"] /\ files'["opencl"] = files["opencl"]
         \/ pass'["opencl"].at \notin {"arrows", "close"} /\ files'["opencl"] = files["opencl"]
         \/ collapseDependencyChains \/ writeDependencies \/ ClosePass("opencl")
<1>0. "opencl" \in Plugins BY DEF Plugins
<1>1. CASE CallbackStep BY <1>1, CallbackFrame
<1>2. ASSUME NEW w \in use.waits, add_dependency(w[1], w[2]) PROVE UNCHANGED <<pass, files>>
  BY <1>2 DEF add_dependency, writerVars
<1>3. CASE Gone \/ UNCHANGED vars BY <1>3 DEF Gone, vars
<1>4. ASSUME NEW p \in Plugins, BeginPass(p)
      PROVE  files' = files /\ (pass'["opencl"] = pass["opencl"] \/ pass'["opencl"].at = "tables")
  BY <1>0, <1>4, BeginPassEffect DEF OnlyPass
<1>5. ASSUME NEW p \in Plugins, writeTables(p)
      PROVE  files' = files /\ (pass'["opencl"] = pass["opencl"] \/ pass'["opencl"].at = "events")
  <2>1. files' = files BY <1>5 DEF writeTables
  <2> QED BY <1>0, <1>5, <2>1, TablesEffect DEF OnlyPass
<1>6. ASSUME NEW p \in Plugins, moveEvents(p)
      PROVE  files' = files /\ (pass'["opencl"] = pass["opencl"] \/ pass'["opencl"].at = "dump")
  BY <1>0, <1>6, MoveEffect DEF OnlyPass
<1>7. ASSUME NEW p \in Plugins, dumpEvents(p)
      PROVE  files' = files /\ (pass'["opencl"] = pass["opencl"] \/ pass'["opencl"].at = "chains")
  <2>1. files' = files /\ OnlyPass(p) BY <1>7, DumpEffect
  <2>2. CASE p # "opencl" BY <1>0, <2>1, <2>2 DEF OnlyPass
  <2>3. CASE p = "opencl"
    <3>1. pass = [q \in Plugins |-> pass[q]] /\ PassForm(pass["opencl"]) BY <1>0 DEF WriterInv, PassOK
    <3>2. PICK held : pass' = [pass EXCEPT !["opencl"].file.lines = held, !["opencl"].held = {},
                                           !["opencl"].at = "chains"]
      BY <1>7, <2>3 DEF dumpEvents
    <3>3. PICK r : r = pass["opencl"] OBVIOUS
    <3>4. r \in [at : {r.at}, held : {r.held}, file : {r.file}, chains : {r.chains}]
      BY <3>1, <3>3 DEF PassForm
    <3>5. pass'["opencl"] = [r EXCEPT !.file.lines = held, !.held = {}, !.at = "chains"]
      BY <1>0, <3>1, <3>2, <3>3
    <3>6. pass'["opencl"].at = "chains" BY <3>4, <3>5
    <3> QED BY <2>1, <3>6
  <2> QED BY <2>2, <2>3
<1>8. ASSUME NEW p \in Plugins, ClosePass(p), p # "opencl"
      PROVE  pass'["opencl"] = pass["opencl"] /\ files'["opencl"] = files["opencl"]
  BY <1>0, <1>8, CloseEffect DEF OnlyPass
<1>9. ASSUME NEW p \in Plugins, DestroyPlugin(p) PROVE UNCHANGED <<pass, files>> BY <1>9 DEF DestroyPlugin
<1>10. CASE WriterStep BY <1>4, <1>5, <1>6, <1>7, <1>8, <1>9, <1>10 DEF WriterStep
<1> QED BY <1>1, <1>2, <1>3, <1>10, StepKinds DEF OtherStep, CallbackStep

\* an arrow leads from the end of a command to the start of one that waited for it
ArrowOK(a) ==
  \E x, y \in Commands : CommandEvent(a[1], "end", y) /\ CommandEvent(a[2], "start", x) /\ Waits(x, y)

\* the arrows of a file, which the last file has all
FileArrows(f) ==
  /\ \A a \in f.arrows : ArrowOK(a)
  /\ f.final =>
       /\ stopping # {}
       /\ \A x \in Commands : \A y \in ToSet(dependencies[x]) :
            Arrow(openclEventMap[x], openclEventMap[y]) \subseteq f.arrows

\* The chains were collapsed before the arrows are written.  They may lack a command that
\* was added since, unless the plugin is being destroyed.
ChainsKept ==
  pass["opencl"].at = "arrows" =>
    \A x \in Commands :
      /\ pass["opencl"].chains[x] \in Seq(Commands)
      /\ \A y \in ToSet(pass["opencl"].chains[x]) : Waits(x, y)
      /\ pass["opencl"].file.final => ToSet(dependencies[x]) \subseteq ToSet(pass["opencl"].chains[x])

\* the files that have their arrows
WithArrows ==
  {files["opencl"][k] : k \in DOMAIN files["opencl"]}
    \cup (IF pass["opencl"].at = "close" THEN {pass["opencl"].file} ELSE {})

ArrowInv == ChainsKept /\ \A f \in WithArrows : FileArrows(f)

\* The arrows of a file stay right, and complete in the last one.
LEMMA FileArrowsStay ==
  ASSUME NameInv, Stays, MapInv, Settles, dependencies' \in [Commands -> Seq(Commands)],
         NEW f, FileArrows(f)
  PROVE  FileArrows(f)'
<1>1. ASSUME NEW a \in f.arrows PROVE ArrowOK(a)'
  <2>1. PICK x \in Commands, y \in Commands :
          CommandEvent(a[1], "end", y) /\ CommandEvent(a[2], "start", x) /\ Waits(x, y)
    BY <1>1 DEF FileArrows, ArrowOK
  <2>2. CommandEvent(a[1], "end", y)' /\ CommandEvent(a[2], "start", x)' BY <2>1, CommandEventStays
  <2>3. Waits(x, y)' BY <2>1, WaitsStays
  <2> QED BY <2>2, <2>3 DEF ArrowOK
<1>2. ASSUME f.final
      PROVE  /\ stopping' # {}
             /\ \A x \in Commands : \A y \in ToSet(dependencies'[x]) :
                  Arrow(openclEventMap'[x], openclEventMap'[y]) \subseteq f.arrows
  <2>1. dependencies' = dependencies /\ openclEventMap' = openclEventMap /\ stopping' # {}
    BY <1>2 DEF FileArrows, Settles
  <2> QED BY <1>2, <2>1 DEF FileArrows
<1> QED BY <1>1, <1>2 DEF FileArrows, Commands

\* The arrows that are written are right: the commands are mapped to their own events.
LEMMA ArrowsWritten ==
  ASSUME CbInv, NameInv, LoadInv, WriterInv, MapInv, Stays, ArrowInv, [Next]_vars, writeDependencies
  PROVE  \A f : f = pass'["opencl"].file => FileArrows(f)'
<1>0. "opencl" \in Plugins BY DEF Plugins
<1>1. PICK chains : chains = pass["opencl"].chains OBVIOUS
<1>2. SUFFICES ASSUME NEW f, f = pass'["opencl"].file PROVE FileArrows(f)' OBVIOUS
<1>3. /\ pass["opencl"].at = "arrows" /\ stopping' = stopping
      /\ f.final = pass["opencl"].file.final
      /\ f.arrows = UNION {UNION {Arrow(openclEventMap[x], openclEventMap[chains[x][i]]) :
                                    i \in DOMAIN chains[x]} : x \in Commands}
  BY <1>1, <1>2, WriteEffect
<1>4. \A x \in Commands :
        /\ chains[x] \in Seq(Commands) /\ (\A y \in ToSet(chains[x]) : Waits(x, y))
        /\ f.final => ToSet(dependencies[x]) \subseteq ToSet(chains[x])
  BY <1>1, <1>3 DEF ArrowInv, ChainsKept
<1>5. ASSUME NEW a \in f.arrows PROVE ArrowOK(a)
  <2>0. PICK x \in Commands : \E i \in DOMAIN chains[x] :
          a \in Arrow(openclEventMap[x], openclEventMap[chains[x][i]])
    BY <1>3, <1>5
  <2>1. PICK i \in DOMAIN chains[x] : a \in Arrow(openclEventMap[x], openclEventMap[chains[x][i]])
    BY <2>0
  <2>2. PICK y \in Commands : y = chains[x][i] BY <1>4, <2>1
  <2>3. Waits(x, y) BY <1>4, <2>1, <2>2 DEF ToSet
  <2>4. PICK s, e : s = openclEventMap[x][2] /\ e = openclEventMap[y][1] OBVIOUS
  <2>5. a = <<e, s>> /\ s # 0 /\ e # 0 BY <2>1, <2>2, <2>4 DEF Arrow
  <2>6. a[1] = e /\ a[2] = s BY <2>5
  <2>7. CommandEvent(e, "end", y) /\ CommandEvent(s, "start", x) BY <2>4, <2>5 DEF MapInv, MapOK
  <2> QED BY <2>3, <2>6, <2>7 DEF ArrowOK
<1>6. ASSUME f.final, NEW x \in Commands, NEW y \in ToSet(dependencies[x])
      PROVE  Arrow(openclEventMap[x], openclEventMap[y]) \subseteq f.arrows
  <2>1. y \in ToSet(chains[x]) BY <1>4, <1>6
  <2>2. PICK i \in DOMAIN chains[x] : y = chains[x][i] BY <2>1 DEF ToSet
  <2> QED BY <1>3, <2>2
<1>7. f.final => stopping # {}
  <2>1. PassOK("opencl") BY <1>0 DEF WriterInv
  <2> QED BY <1>3, <2>1 DEF PassOK
<1>8. FileArrows(f) BY <1>5, <1>6, <1>7 DEF FileArrows
<1> QED BY <1>8, FileArrowsStay, SettlesStep

\* Every step keeps the arrows of all files right.
LEMMA ArrowStep ==
  ASSUME CbInv, NameInv, LoadInv, WriterInv, MapInv, ArrowInv, [Next]_vars
  PROVE  ArrowInv'
<1>0. Stays BY GrownStep, DanglingGrows DEF Stays
<1>p. "opencl" \in Plugins BY DEF Plugins
<1>1. Settles /\ dependencies' \in [Commands -> Seq(Commands)] BY SettlesStep
<1>2. \A f : FileArrows(f) => FileArrows(f)' BY <1>0, <1>1, FileArrowsStay
<1>3. ASSUME ChainsKept', \A f \in WithArrows' : f \in WithArrows \/ FileArrows(f)' PROVE ArrowInv'
  BY <1>2, <1>3 DEF ArrowInv
<1>4. CASE pass'["opencl"] = pass["opencl"] /\ files'["opencl"] = files["opencl"]
  <2>1. WithArrows' = WithArrows BY <1>4 DEF WithArrows
  <2>2. ChainsKept'
    <3> SUFFICES ASSUME pass["opencl"].at = "arrows", NEW x \in Commands
                 PROVE  /\ pass["opencl"].chains[x] \in Seq(Commands)
                        /\ \A y \in ToSet(pass["opencl"].chains[x]) : Waits(x, y)'
                        /\ pass["opencl"].file.final => ToSet(dependencies'[x]) \subseteq ToSet(pass["opencl"].chains[x])
      BY <1>4 DEF ChainsKept, Commands
    <3>1. PICK chain : chain = pass["opencl"].chains[x] OBVIOUS
    <3>2. /\ chain \in Seq(Commands) /\ (\A y \in ToSet(chain) : Waits(x, y))
          /\ pass["opencl"].file.final => ToSet(dependencies[x]) \subseteq ToSet(chain)
      BY <3>1 DEF ArrowInv, ChainsKept
    <3>3. pass["opencl"].file.final => stopping # {}
      <4>1. PassOK("opencl") BY <1>p DEF WriterInv
      <4> QED BY <4>1 DEF PassOK
    <3>4. pass["opencl"].file.final => dependencies' = dependencies BY <1>1, <3>3 DEF Settles
    <3>5. \A y \in ToSet(chain) : Waits(x, y)' BY <1>1, <3>2, WaitsStays
    <3> QED BY <3>1, <3>2, <3>4, <3>5
  <2> QED BY <1>3, <2>1, <2>2
<1>5. CASE pass'["opencl"].at \notin {"arrows", "close"} /\ files'["opencl"] = files["opencl"]
  <2>1. WithArrows' \subseteq WithArrows BY <1>5 DEF WithArrows
  <2>2. ChainsKept' BY <1>5 DEF ChainsKept
  <2> QED BY <1>3, <2>1, <2>2
<1>6. CASE collapseDependencyChains
  <2>1. PICK seen : pass'["opencl"].chains = [x \in Commands |-> Collapsed(x, seen[x])]
    BY <1>6, ChainsEffect
  <2>2. pass'["opencl"].at = "arrows" /\ files' = files BY <1>6, ChainsEffect
  <2>3. dependencies' = dependencies BY <1>6 DEF collapseDependencyChains, callbackVars
  <2>4. ASSUME NEW x \in Commands
        PROVE  /\ pass'["opencl"].chains[x] \in Seq(Commands)
               /\ \A y \in ToSet(pass'["opencl"].chains[x]) : Waits(x, y)'
               /\ ToSet(dependencies'[x]) \subseteq ToSet(pass'["opencl"].chains[x])
    <3>1. PICK chain : chain = Collapsed(x, seen[x]) /\ chain = pass'["opencl"].chains[x] BY <2>1
    <3>2. ChainOK(x, chain) BY <3>1, CollapsedOK
    <3>3. \A y \in ToSet(chain) : Waits(x, y)' BY <1>1, <3>2, WaitsStays DEF ChainOK
    <3> QED BY <2>3, <3>1, <3>2, <3>3 DEF ChainOK
  <2>5. ChainsKept' BY <2>4 DEF ChainsKept, Commands
  <2>6. WithArrows' \subseteq WithArrows BY <2>2 DEF WithArrows
  <2> QED BY <1>3, <2>5, <2>6
<1>7. CASE writeDependencies
  <2>1. \A f : f = pass'["opencl"].file => FileArrows(f)' BY <1>0, <1>7, ArrowsWritten
  <2>2. pass'["opencl"].at = "close" /\ files' = files BY <1>7, WriteEffect
  <2>3. \A f \in WithArrows' : f \in WithArrows \/ f = pass'["opencl"].file BY <2>2 DEF WithArrows
  <2>4. ChainsKept' BY <2>2 DEF ChainsKept
  <2> QED BY <1>3, <2>1, <2>3, <2>4
<1>8. CASE ClosePass("opencl")
  <2>1. PICK g, old : g = pass["opencl"].file /\ old = files["opencl"] OBVIOUS
  <2>2. files'["opencl"] = Append(old, g) /\ pass["opencl"].at = "close" /\ pass'["opencl"] = Waiting
    BY <1>p, <1>8, <2>1, CloseEffect
  <2>3. IsSeq(old) BY <1>p, <2>1 DEF WriterInv, FilesOK
  <2>4. \A k \in DOMAIN Append(old, g) : (k \in DOMAIN old /\ Append(old, g)[k] = old[k]) \/ Append(old, g)[k] = g
    BY <2>3, AppendForm
  <2>5. pass'["opencl"].at = "wait" BY <2>2, WaitingForm
  <2>6. WithArrows' \subseteq WithArrows BY <2>1, <2>2, <2>4, <2>5 DEF WithArrows
  <2>7. ChainsKept' BY <2>5 DEF ChainsKept
  <2> QED BY <1>3, <2>6, <2>7
<1> QED BY <1>4, <1>5, <1>6, <1>7, <1>8, ArrowFrame

\* In the beginning there are no files.
LEMMA ArrowInit ==
  ASSUME Init
  PROVE  ArrowInv
<1>0. "opencl" \in Plugins BY DEF Plugins
<1>1. pass = [p \in Plugins |-> Waiting] /\ files = [p \in Plugins |-> <<>>] BY DEF Init
<1>2. pass["opencl"].at = "wait" /\ files["opencl"] = <<>> BY <1>0, <1>1, WaitingForm
<1>3. DOMAIN <<>> = {} OBVIOUS
<1> QED BY <1>2, <1>3 DEF ArrowInv, ChainsKept, WithArrows

\* An arrow of a file leads from the end of a command to the start of one that waited
\* for it, directly or over a command that was not traced, for any number of commands,
\* dependencies and threads, although callbacks add mappings and dependencies while the
\* file is written: what addOpenCLMapping maps a command to are events of that command,
\* dependencies are only added, and the chains that collapseDependencyChains pushes,
\* wherever its loop stops, lead to commands the first one waits for.  No callback runs
\* once a plugin is destroyed, so that the last file has all direct arrows.
THEOREM ArrowsLeadRight == Spec => []ArrowsRight
<1>2. HostIInv => CbInv /\ NameInv /\ LoadInv /\ WriterInv BY DEF HostIInv
<1>3. HostIInv /\ OwnInv /\ HandInv /\ MapInv /\ ArrowInv /\ [Next]_vars
        => OwnInv' /\ HandInv' /\ MapInv' /\ ArrowInv'
  BY <1>2, OwnStep, HandStep, MapStep, ArrowStep
<1>4. ASSUME HostIInv, ArrowInv PROVE ArrowsRight
  <2> SUFFICES ASSUME NEW k \in DOMAIN files["opencl"], NEW f, f = files["opencl"][k]
               PROVE  /\ \A a \in f.arrows :
                           /\ events[a[1]].phase = "end" /\ events[a[2]].phase = "start"
                           /\ Waits(calls[events[a[2]].call].ev, calls[events[a[1]].call].ev)
                      /\ f.final =>
                           \A x \in Commands : \A y \in ToSet(dependencies[x]) :
                             Arrow(openclEventMap[x], openclEventMap[y]) \subseteq f.arrows
    BY DEF ArrowsRight
  <2>1. FileArrows(f) BY <1>4 DEF ArrowInv, WithArrows
  <2>2. ASSUME NEW a \in f.arrows
        PROVE  /\ events[a[1]].phase = "end" /\ events[a[2]].phase = "start"
               /\ Waits(calls[events[a[2]].call].ev, calls[events[a[1]].call].ev)
    BY <2>1, <2>2 DEF FileArrows, ArrowOK, CommandEvent
  <2> QED BY <2>1, <2>2 DEF FileArrows
<1>5. Init => OwnInv /\ HandInv /\ MapInv /\ ArrowInv BY OwnInit, HandInit, MapInit, ArrowInit
<1> QED BY <1>3, <1>4, <1>5, HostInvariance, PTL DEF Spec
=============================================================================
