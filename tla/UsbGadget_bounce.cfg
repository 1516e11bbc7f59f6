SPECIFICATION ThreadSpec
CONSTANTS
  Requests <- OneFfs
  Calls = {"setCurrentUsbFunctions"}
  Faults = {}
  LiveDaemons = {"adb"}
  VendorConfigs = {}
  BuildIsUser = TRUE
  BootIsUsbRadio = FALSE
  PersistVendorFunctions <- NoVendor
  RestartNoticed = FALSE
  InotifyQueueMax = 2
  ReadMax = 2
  Burst = 1
PROPERTIES
  PullsUpAgain
