------------------------- MODULE MCPLTraceOffload -------------------------
(* Instances of PLTraceOffload for TLC. *)
EXTENDS PLTraceOffloadInv

OneBuffer == <<2>>
TwoBuffers == <<2, 4>>
=============================================================================
