---------------------------- MODULE TraceStream ----------------------------
(***************************************************************************)
(* What an offloader promises of its trace streams, whatever buffers,      *)
(* cursors and threads it uses.  The hardware writes words; the offloader  *)
(* delivers them to the logger in order, each once, and only words that    *)
(* were written.  A flush is a promise: it notes how much had been written *)
(* (less a remainder shorter than Slack, a trace packet that is not        *)
(* complete), and it is answered only when so much is delivered.           *)
(***************************************************************************)
EXTENDS Integers

CONSTANTS Stream, Slack

VARIABLES
  written,    \* words the hardware has written
  delivered,  \* words given to the logger: all before this number
  owed        \* words a flush that was asked for must see delivered, or -1

vars == <<written, delivered, owed>>

Init ==
  /\ written = [s \in Stream |-> 0] /\ delivered = [s \in Stream |-> 0]
  /\ owed = [s \in Stream |-> -1]

Same(s) == written'[s] = written[s] /\ delivered'[s] = delivered[s] /\ owed'[s] = owed[s]

Write(s) ==
  /\ written'[s] > written[s]
  /\ delivered'[s] = delivered[s] /\ owed'[s] = owed[s]

Deliver(s) ==
  /\ delivered'[s] > delivered[s] /\ delivered'[s] <= written[s]
  /\ written'[s] = written[s] /\ owed'[s] = owed[s]

Ask(s) ==
  /\ owed[s] = -1
  /\ owed'[s] \in 0..written[s] /\ written[s] < owed'[s] + Slack
  /\ written'[s] = written[s] /\ delivered'[s] = delivered[s]

Answer(s) ==
  /\ owed[s] # -1 /\ owed[s] <= delivered[s]
  /\ owed'[s] = -1
  /\ written'[s] = written[s] /\ delivered'[s] = delivered[s]

\* a new stream in the place of the old one
Restart(s) == owed[s] = -1 /\ written'[s] = 0 /\ delivered'[s] = 0 /\ owed'[s] = -1

Next == \A s \in Stream : Same(s) \/ Write(s) \/ Deliver(s) \/ Ask(s) \/ Answer(s) \/ Restart(s)

Spec == Init /\ [][Next]_vars
=============================================================================
