--------------------------- MODULE MCTraceWriting ---------------------------
(***************************************************************************)
(* TraceWriting for TLC: the constants are set by the configurations.      *)
(***************************************************************************)
EXTENDS TraceWriting
=============================================================================
