SPECIFICATION Spec
CONSTANTS
  Keys = {1, 2}
  Plugins = {"pl_deadlock", "aie_status", "aie_profile", "power"}
  Contexts = {1, 2, 3}
  DeviceOf <- MCDeviceOf
  Detectors = {1, 2}
  SampleThreshold = 1
  MaxSamples = 3
  MaxWriters = 3
INVARIANTS ThreadsOutlived DeadlocksInFile SamplesWritten
PROPERTY EndReturns
CHECK_DEADLOCK FALSE
