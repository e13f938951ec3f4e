--------------------------- MODULE MCSeparateParts ---------------------------
(***************************************************************************)
(* Eight parts of the program that share no state: the plugins XRT calls   *)
(* when hardware contexts and runs come and go, the hang detection of AIE  *)
(* status, the static information database, the PL trace logger, the       *)
(* configuration of AIE trace and the counters of AIE profile.  One of     *)
(* them is picked at the start instead of taking the product of their      *)
(* states.                                                                 *)
(***************************************************************************)
EXTENDS MLTimeline, AIEDtrace, AIEHalt, AIEHangDetect, StaticInfo, PLTraceLogger, AIETraceTiles,
        AIEProfileCounters

VARIABLE part

MCGraphTiles == << <<"a1", "a2">>, <<"b1">> >>
MCKernelOf == [r \in Runs |-> "k"]

\* the port of slot 1 and the stream of slot 0 belong to unit 0
OnePort == [m \in {0, 1} |-> 0]

\* two xclbins of each kind, one of the complete ones without a memory topology
MCTypeOf ==
  [x \in Binaries |-> CASE x \in {"p1", "p2"} -> "PL_ONLY" [] x \in {"a1", "a2"} -> "AIE_ONLY"
                        [] x \in {"x1", "x2"} -> "AIE_PL" [] x = "e1" -> "ELF"]
MCPlioOf == [x \in Binaries |-> CASE x \in {"p1", "p2"} -> 1 [] x = "x1" -> 2 [] OTHER -> 0]
MCOrders ==
  {<<"offload", "profile">>, <<"profile", "trace">>, <<"trace">>, <<"status", "trace">>,
   <<"offload", "trace", "profile">>}

\* tiles of each type, with each metric set, in lists that mix them; the last is of
\* a partition that starts at column 1
Metric(c, r, s, a) == [loc |-> <<c, r>>, set |-> s, active |-> a]
MCTileLists ==
  {<<Metric(0, 0, "input_ports", FALSE), Metric(1, 0, "input_ports", FALSE)>>,
   <<Metric(0, 1, "input_channels", FALSE), Metric(0, 2, "functions", TRUE)>>,
   <<Metric(0, 2, "functions", TRUE), Metric(1, 2, "all_dma", FALSE)>>,
   <<Metric(0, 2, "all_dma", TRUE), Metric(1, 0, "input_ports", FALSE)>>,
   <<Metric(0, 2, "execution", TRUE), Metric(1, 2, "functions", FALSE), Metric(1, 1, "input_channels", FALSE)>>,
   <<Metric(0, 2, "unavailable", TRUE), Metric(1, 2, "functions", TRUE)>>,
   <<Metric(0, 1, "functions", TRUE), Metric(1, 2, "functions", TRUE)>>,
   <<Metric(1, 2, "functions", TRUE), Metric(2, 0, "input_ports", FALSE)>>}
OtherOptions ==
  [shim |-> "edge", gen |-> 1, start |-> "none", layer |-> FALSE, multi |-> FALSE, broadcast |-> FALSE, short |-> <<>>, left |-> 0,
   shift |-> 0, tiles |-> <<Metric(0, 1, "functions", TRUE), Metric(1, 2, "functions", TRUE)>>]

\* AIE profile: pairs of ports on one and on two tiles, in a row, with a port of equal
\* stream or the same port in both; byte counts with and without a threshold and on
\* one tile; inactive tiles and metric sets without their module
PTile(c, r, s, m, sub) == [col |-> c, row |-> r, streams |-> s, master |-> m, sub |-> sub, active |-> TRUE]
PMetric(t, s, mo) == [tile |-> t, set |-> s, module |-> mo, bytes |-> 0, channels |-> <<0, 3>>]
Count(t, b) == [PMetric(t, "start_to_bytes_transferred", "interface_tile") EXCEPT !.bytes = b]
PPair(a, b, t) == [src |-> a, dest |-> b, tranx |-> t]
In(c, s) == PTile(c, 0, <<s>>, 0, "PLIO")
Out(c, s) == PTile(c, 0, <<s>>, 1, "PLIO")
Gmio(c) == PTile(c, 0, <<3>>, 0, "GMIO")
Core(c) == PTile(c, 2, <<>>, 0, "PLIO")
IdleCore(c) == [Core(c) EXCEPT !.active = FALSE]
PSetting(pairs, cores, shims, mems) ==
  [pairs |-> pairs, cores |-> cores, shims |-> shims, memTiles |-> mems, hasCores |-> cores # <<>>,
   style |-> "register", shift |-> 0, short |-> <<>>, left |-> 0, iter |-> FALSE, taken |-> {}]
Cores == <<PMetric(Core(0), "aie_trace", "aie"), PMetric(Core(0), "conflicts", "aie_memory")>>
Mem == <<PMetric(PTile(0, 1, <<>>, 0, "PLIO"), "input_throughputs", "memory_tile")>>
MCProfileSettings ==
  {PSetting(<<PPair(In(0, 1), Out(1, 2), 0)>>, <<>>, <<>>, <<>>),
   PSetting(<<PPair(In(0, 1), Out(1, 2), 0)>>, Cores, <<Count(In(2, 1), 1)>>, <<>>),
   PSetting(<<PPair(In(0, 1), Out(0, 2), 1)>>, <<>>,
            <<PMetric(PTile(1, 0, <<1, 5>>, 0, "PLIO"), "packets", "interface_tile")>>, Mem),
   PSetting(<<PPair(In(0, 1), Out(1, 2), 0), PPair(In(1, 1), Out(2, 2), 0)>>,
            <<PMetric(Core(1), "s2mm_throughputs", "aie")>>, <<>>, <<>>),
   PSetting(<<PPair(In(0, 1), Out(1, 1), 0), PPair(In(1, 1), Out(2, 2), 0)>>, Cores, <<>>, <<>>),
   PSetting(<<PPair(In(1, 1), Out(0, 1), 0), PPair(In(1, 1), Out(2, 2), 0)>>, <<>>, <<>>, Mem),
   PSetting(<<>>, <<PMetric(IdleCore(0), "aie_trace", "aie"), PMetric(IdleCore(1), "s2mm_throughputs", "aie")>>,
            <<Count(In(0, 1), 1), Count(In(1, 1), 0), PMetric(Gmio(1), "output_throughputs", "interface_tile")>>, <<>>),
   PSetting(<<>>, <<PMetric(IdleCore(1), "conflicts", "aie_memory")>>, <<Count(In(0, 1), 1), Count(Gmio(0), 1)>>,
            <<PMetric(Core(0), "input_throughputs", "memory_tile")>>)}
OneSetting == CHOOSE s \in ProfileSettings : TRUE

Init ==
  /\ part \in {"ml_timeline", "aie_dtrace", "aie_halt", "aie_status", "static_info", "pl_logger", "aie_trace",
              "aie_profile"}
  /\ MLInit /\ HaltInit /\ HangInit /\ LogInit
  /\ DtraceInit /\ (part # "aie_dtrace" => ~multi)
  /\ SiInit /\ (part # "static_info" => enabled = <<"trace">>)
  /\ (part # "aie_trace" => ttOpt = OtherOptions) /\ TtInit
  /\ (part # "aie_profile" => pcOpt = OneSetting) /\ PcInit

Next ==
  /\ UNCHANGED part
  /\ \/ part = "ml_timeline" /\ MLNext /\ UNCHANGED <<dtVars, haltVars, hangVars, siVars, logVars, ttVars, pcVars>>
     \/ part = "aie_dtrace" /\ DtraceNext /\ UNCHANGED <<mlVars, haltVars, hangVars, siVars, logVars, ttVars, pcVars>>
     \/ part = "aie_halt" /\ HaltNext /\ UNCHANGED <<mlVars, dtVars, hangVars, siVars, logVars, ttVars, pcVars>>
     \/ part = "aie_status" /\ HangNext /\ UNCHANGED <<mlVars, dtVars, haltVars, siVars, logVars, ttVars, pcVars>>
     \/ part = "static_info" /\ SiNext /\ UNCHANGED <<mlVars, dtVars, haltVars, hangVars, logVars, ttVars, pcVars>>
     \/ part = "pl_logger" /\ LogNext /\ UNCHANGED <<mlVars, dtVars, haltVars, hangVars, siVars, ttVars, pcVars>>
     \/ part = "aie_trace" /\ TtNext /\ UNCHANGED <<mlVars, dtVars, haltVars, hangVars, siVars, logVars, pcVars>>
     \/ part = "aie_profile" /\ PcNext /\ UNCHANGED <<mlVars, dtVars, haltVars, hangVars, siVars, logVars, ttVars>>

Spec == Init /\ [][Next]_<<part, mlVars, dtVars, haltVars, hangVars, siVars, logVars, ttVars, pcVars>>
=============================================================================
