SPECIFICATION PartsSpec
CONSTANTS
  IntMax = 127
  MaxDepth = 3
  Values <- MCValues
  PrintFlags <- MCPrintFlags
  Docs <- MCCutDocs
  AgainDocs <- MCAgain
  PieceSizes = {1, 2}
  TextOf <- json_object_to_json_string_ext
  ParseOf <- json_tokener_parse_verbose
  Says <- Meaning
  FileValues <- MCFileValues
  FileFlags <- MCPrintFlags
  Transfers = {1, 2, 3}
  HashEntries = 2
  ArraySize = 1
  HashOf <- MCHash
  EntryNames = {"a", "b", "c"}
  TableValues = {0, 1}
  TypeOf <- MCTypeOf
  Pointers = {0, 1, 2, 3}
  MemberNames = {"a", "b"}
  MaxRefs = 1
  MaxLen = 2
  PrintbufSize = 4
  PieceLengths = {1, 3}
  MaxText = 8
  LightStates <- MCLightStates
  PanelMax = 4095
  InputDirs <- MCInputDirs
  TouchNames <- MCTouchNames
  MaxEvents = 2
  Widths = {1}
  Heights = {1}
  Threads = {t1}
  Seeds = {7, 9}
  real = real
  virtual = virtual
  Null = Null
  Names <- MCNames
  NameLen <- MCLengths
  Ifaces <- MCIfaces
  Configs = {1}
  Uplinks = {1}
  Errnos = {16}
  MaxIndex = 2
  Faults = {"init", "memory", "send", "recv", "drop"}
  MaxCalls = 1
  MaxOpens = 1
  Words <- MCWords
  MaxArgs = 3
  CliErrnos = {12, 95}
INVARIANT FedFreely
CHECK_DEADLOCK FALSE
