CONSTANTS
  Kind <- MCKind
  FirstLines <- MCFirst
  NewLine <- MCNew
  LineNames <- MCLineNames
  Setups <- MCSetups
  Typable <- MCTypable
  MaxVal = 1
  DevCols = 1
  MinPeriod = 2
  DefaultPeriod = 2
  DefaultTime = 1
  Sec = 3
  SnapCmds = 2
  WorkTimes = {2, 3}
  IpGroups = 2
  PollDelays = {0, 1}
SPECIFICATION FairSpec
INVARIANTS TypeOK ColumnsMeanNames HeapSound NoNeedlessWait IpListSound
PROPERTIES DifferencesTrue RunsEnd
CHECK_DEADLOCK FALSE
