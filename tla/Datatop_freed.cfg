CONSTANTS
  Kind <- MCKind
  FirstLines <- MCFirst
  NewLine <- MCNew
  LineNames <- MCLineNames
  Setups <- MCLogging
  Typable <- MCTypable
  MaxVal = 1
  DevCols = 1
  MinPeriod = 2
  DefaultPeriod = 2
  DefaultTime = 1
  Sec = 3
  SnapCmds = 2
  WorkTimes = {1, 2}
  IpGroups = 2
  PollDelays = {0}
SPECIFICATION Spec
INVARIANT FreedNoLongerNeeded
CHECK_DEADLOCK FALSE
