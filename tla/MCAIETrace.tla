----------------------------- MODULE MCAIETrace -----------------------------
(* Instances of AIETracePlugin and AIETraceClient for TLC. *)
EXTENDS AIETraceClient

OneAndOne == [PLIO |-> 1, GMIO |-> 1]
TwoAndTwo == [PLIO |-> 2, GMIO |-> 2]
EightGMIO == [PLIO |-> 4, GMIO |-> 8]
=============================================================================
