SPECIFICATION SettingsSpec
CONSTANTS
  Requests <- AllShapes
  Calls = {"setCurrentUsbFunctions", "reset"}
  Faults = {"configfs", "remove", "link", "udc", "fds", "crash"}
  LiveDaemons = {"mtp", "adb"}
  VendorConfigs = {}
  BuildIsUser = FALSE
  BootIsUsbRadio = FALSE
  PersistVendorFunctions <- NoVendor
  RestartNoticed = FALSE
  InotifyQueueMax = 2
  ReadMax = 2
  Burst = 1
INVARIANTS
  TypeOK
  DisconnectWaitIsDown
  MonitorResourcesAlive
  AnsweredExactlyOnce
  SuccessMeansPulledUp
  HostSeesRequestOnRestart
PROPERTIES
  EndpointListStable
  ImplementsSession
  RequestReturns
  WakeUpNotLost
  PullsUpAgainOnRestart
