---------------------------- MODULE MCHostTrace -----------------------------
EXTENDS HostTrace

Use(plugins, apis, traced, waits) ==
  [plugins |-> plugins, apis |-> apis, traced |-> traced, waits |-> waits]

MCUses ==
  {Use({"opencl"}, {"clCopy"}, {1, 3}, {<<3, 2>>, <<2, 1>>}),
   Use({"opencl"}, {"clKernel"}, {1, 2}, {<<2, 1>>}),
   Use({"opencl"}, {"clWrite", "migrated"}, {1, 2}, {}),
   Use({"opencl"}, {"clCall", "clRead"}, {1, 2}, {}),
   Use({"opencl", "hal"}, {"clRead", "halWrite"}, {1}, {}),
   Use({"lop"}, {"lopCall", "lopRead"}, {1, 3}, {}),
   Use({"lop"}, {"lopWrite", "lopKernel"}, {1, 2}, {}),
   Use({"hal", "user"}, {"halCall", "halRead", "userRange", "userMark", "userTime"}, {}, {}),
   Use({"native"}, {"native", "sync"}, {}, {})}

MCOpenCLCalls == {Use({"opencl"}, {"clCall"}, {}, {})}

Symmetry == Permutations(Threads)
=============================================================================
