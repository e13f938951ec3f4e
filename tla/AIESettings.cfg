SPECIFICATION MCSpec
CONSTANTS
  Gen = 5
  RowOffset = 3
  Graphs <- MCGraphs
  Kernels <- MCKernels
  Buffers <- MCBuffers
  Ios <- MCIos
  UcColumns = {}
  Within <- MCWithin
  OutSets = {}
  InSets = {}
  BothSets = {"input_ports", "ports_details", "s2mm", "packets", "ddr_bandwidth", "read_bandwidth", "write_bandwidth",
    "peak_read_bandwidth", "peak_write_bandwidth", "detailed_ddr_read_bandwidth", "detailed_ddr_write_bandwidth"}
  UcSets = {"uc_core"}
  Supported <- MCSupported
  Default <- MCDefault
  GmioSets = {"ports_details"}
  GraphSettings <- MCGraphSettings
  TileSettings <- MCTileSettings
  MaxSettings = 2
  MaxColumn = 3
  JunkAt <- MCJunkAt
  None = None
  DtraceInputs <- MCDtraceInputs
INVARIANTS   ScriptsRight
