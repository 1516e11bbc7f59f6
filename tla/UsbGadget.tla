------------------------------ MODULE UsbGadget ------------------------------
(***************************************************************************)
(* The USB gadget HAL (usb/UsbGadget.cpp): the binder thread that serves   *)
(* setCurrentUsbFunctions and reset, the monitorFfs thread it starts and   *)
(* joins, and the two things they talk to: the kernel's configfs gadget    *)
(* (UDC attribute, function links, FunctionFS) and the FunctionFS daemons  *)
(* (adbd, the MTP server) that may die and restart at any time.            *)
(*                                                                         *)
(* usb/service.cpp configures ONE binder thread, so HAL calls never        *)
(* overlap each other; they overlap the monitor, the daemons and a crash.  *)
(*                                                                         *)
(* What is abstracted: the sleeps are just places where others may step;   *)
(* the endpoints ep1..epN of one FunctionFS instance appear and disappear  *)
(* together; an inotify event carries nothing, for the code never looks    *)
(* into it; a failed file operation is a nondeterministic outcome, enabled *)
(* per kind by the constant Faults.                                        *)
(*                                                                         *)
(* A definition Bug_X is X with a plausible slip in it. Nothing uses it;   *)
(* put in the place of X it makes one of the properties fail, which shows  *)
(* that the property depends on that part of the code.                     *)
(***************************************************************************)
EXTENDS UsbFunctions, Naturals

CONSTANTS
  Requests,          \* the function sets that clients ask for
  Calls,             \* which HAL calls clients make
  Faults,            \* which kinds of operation may fail, besides a HAL crash
  LiveDaemons,       \* the FunctionFS instances whose daemon is active
  VendorConfigs,     \* values others may give to vendor.usb.config meanwhile
  BuildIsUser,       \* ro.build.type is "user"
  BootIsUsbRadio,    \* ro.bootmode is "usbradio"
  PersistVendorFunctions, \* persist.vendor.usb.usbradio.config
  RestartNoticed,    \* a dead daemon reopens only after the monitor caught up
  InotifyQueueMax,   \* bound: length of the inotify queue, then it overflows
  ReadMax,           \* events one read() of BUFFER_SIZE bytes returns at most
  Burst              \* bound: events one daemon step produces at most

FaultKinds == {"configfs", "remove", "link", "udc", "fds", "crash"}

ASSUME UsbConstants ==
  /\ Requests \subseteq SUBSET GadgetFunction
  /\ Calls \subseteq {"setCurrentUsbFunctions", "reset"}
  /\ Faults \subseteq FaultKinds
  /\ LiveDaemons \subseteq Ffs
  /\ VendorConfigs \subseteq Seq(VendorToken)
  /\ PersistVendorFunctions \in Seq(VendorToken)
  /\ BuildIsUser \in BOOLEAN /\ BootIsUsbRadio \in BOOLEAN /\ RestartNoticed \in BOOLEAN
  /\ InotifyQueueMax \in Nat \ {0} /\ ReadMax \in Nat \ {0} /\ Burst \in Nat \ {0}

VARIABLES
  \* the binder thread
  pc,                \* where it is
  hasCallback,       \* the request came with a callback
  todo,              \* what setupFunctions has left to link
  cbs,               \* statuses delivered for the latest request
  \* members of UsbGadget shared by the two threads
  mCurrentUsbFunctions, mCurrentUsbFunctionsApplied, gadgetPullup,
  mMonitorCreated,
  mEndpointList,     \* FunctionFS instances whose endpoints are monitored
  mLock,             \* "free" or "binder" (the monitor's sections are atomic)
  cvWaiting,         \* the binder thread sleeps in mCv
  \* the monitor thread
  mpc, writeUdc,
  ready,             \* descriptors of the last epoll_wait not handled yet
  batch,             \* events of the last read() not processed yet
  k,                 \* index into mEndpointList
  \* the kernel and the daemons
  udc,               \* the gadget is bound to the controller
  links,             \* functions linked into configs/b.1
  vidpid,            \* <<idVendor, idProduct>>
  ffs,               \* per FunctionFS instance: what its daemon has done
  watches, inotifyQ, \* the inotify descriptor
  eventFd,           \* counter of the eventfd
  vendorConfig,      \* property vendor.usb.config
  \* history
  pulled             \* links at the last pull-up since the last pull-down

binderVars  == <<pc, hasCallback, todo, cbs>>
memberVars  == <<mCurrentUsbFunctions, mCurrentUsbFunctionsApplied, gadgetPullup,
                 mMonitorCreated, mEndpointList, mLock, cvWaiting>>
monitorVars == <<mpc, writeUdc, ready, batch, k>>
gadgetVars  == <<udc, links, vidpid, pulled>>
inotifyVars == <<watches, inotifyQ>>
vars == <<binderVars, memberVars, monitorVars, gadgetVars, inotifyVars, ffs, eventFd,
          vendorConfig>>

Least(m, n) == IF m < n THEN m ELSE n

RangeOf(s) == { s[i] : i \in DOMAIN s }

Status == {"SUCCESS", "ERROR", "CONFIGURATION_NOT_SUPPORTED"}

BinderPC == {"idle", "tearDown", "unlink", "join", "pulledDown", "validated", "setup",
             "cvWait", "callback"}

MonitorPC == {"none", "check", "write", "lock", "dispatch", "done"}

-----------------------------------------------------------------------------
(***************************************************************************)
(* The kernel, as the HAL uses it.                                         *)
(***************************************************************************)

\* Writing the controller's name to UDC succeeds only on an unbound gadget
\* whose configuration has functions, all of them with descriptors written.
BindOk == /\ ~udc
          /\ links # {}
          /\ \A f \in links \cap Ffs : ffs[f] = "ready"

WriteUdc == /\ BindOk
            /\ udc' = TRUE
            /\ pulled' = links
            /\ UNCHANGED <<links, vidpid>>

WriteUdcFails == /\ ~BindOk \/ "udc" \in Faults
                 /\ UNCHANGED gadgetVars

\* Events in the directory of FunctionFS instance f reach a watching inotify
\* descriptor; a full queue drops them (IN_Q_OVERFLOW is already queued).
NewEvents(f) ==
  /\ IF f \in watches
     THEN \E n \in 1..Burst : inotifyQ' = Least(inotifyQ + n, InotifyQueueMax)
     ELSE UNCHANGED inotifyQ
  /\ UNCHANGED watches

\* Closing the last descriptor of an inotify instance drops watches and queue.
CloseInotify == watches' = {} /\ inotifyQ' = 0

-----------------------------------------------------------------------------
(***************************************************************************)
(* The daemons. The instances are mounted with no_disconnect=1: when the   *)
(* daemon dies its endpoint files go but the gadget stays bound; opening   *)
(* ep0 again resets the instance, and that unbinds a gadget using it.      *)
(***************************************************************************)
MonitorCaughtUp == \/ mpc = "none"
                   \/ mpc = "dispatch" /\ ready = {} /\ inotifyQ = 0

DaemonOpen(f) ==
  /\ \/ ffs[f] = "closed"
     \/ ffs[f] = "dead" /\ (RestartNoticed => MonitorCaughtUp)
  /\ ffs' = [ffs EXCEPT ![f] = "open"]
  /\ udc' = (udc /\ ~(ffs[f] = "dead" /\ f \in links))
  /\ NewEvents(f)
  /\ UNCHANGED <<binderVars, memberVars, monitorVars, links, vidpid, pulled, eventFd,
                 vendorConfig>>

\* The daemon writes its descriptors: the endpoint files appear.
DaemonReady(f) ==
  /\ ffs[f] = "open"
  /\ ffs' = [ffs EXCEPT ![f] = "ready"]
  /\ NewEvents(f)
  /\ UNCHANGED <<binderVars, memberVars, monitorVars, gadgetVars, eventFd, vendorConfig>>

DaemonDie(f) ==
  /\ ffs[f] \in {"open", "ready"}
  /\ ffs' = [ffs EXCEPT ![f] = "dead"]
  /\ NewEvents(f)
  /\ UNCHANGED <<binderVars, memberVars, monitorVars, gadgetVars, eventFd, vendorConfig>>

\* Traffic on the endpoints: IN_ALL_EVENTS reports reads and writes too.
DaemonIo(f) ==
  /\ ffs[f] = "ready" /\ f \in watches
  /\ NewEvents(f)
  /\ UNCHANGED <<binderVars, memberVars, monitorVars, gadgetVars, ffs, eventFd, vendorConfig>>

\* Somebody else sets vendor.usb.config.
SetVendorConfig ==
  /\ \E v \in VendorConfigs : vendorConfig' = v
  /\ UNCHANGED <<binderVars, memberVars, monitorVars, gadgetVars, inotifyVars, ffs, eventFd>>

-----------------------------------------------------------------------------
(***************************************************************************)
(* The monitor thread, monitorFfs().  The check before its loop does what  *)
(* the processing of one event does, with writeUdc initially true; so the  *)
(* thread starts with a batch of one event.                                *)
(***************************************************************************)
Bug_NextEvent == /\ batch' = batch - 1
                 /\ k' = 1
                 /\ mpc' = IF batch = 0 THEN "dispatch" ELSE "check"

NextEvent == /\ batch' = batch - 1
             /\ k' = 1
             /\ mpc' = IF batch = 1 THEN "dispatch" ELSE "check"

\* An endpoint is missing: the gadget has to be pulled up when it is back.
Bug_Rearm == UNCHANGED writeUdc

Rearm == writeUdc' = TRUE

EndpointsPresent(i) == ffs[mEndpointList[i]] = "ready"

\* One step of the loop over mEndpointList, and what its result leads to.
MonitorCheck ==
  /\ mpc = "check"
  /\ \/ /\ ~EndpointsPresent(k)
        /\ Rearm
        /\ NextEvent
     \/ /\ EndpointsPresent(k) /\ k < Len(mEndpointList)
        /\ k' = k + 1
        /\ UNCHANGED <<mpc, writeUdc, batch>>
     \/ /\ EndpointsPresent(k) /\ k = Len(mEndpointList) /\ ~writeUdc
        /\ NextEvent
        /\ UNCHANGED writeUdc
     \/ /\ EndpointsPresent(k) /\ k = Len(mEndpointList) /\ writeUdc
        /\ mpc' = "write"
        /\ UNCHANGED <<writeUdc, batch, k>>
  /\ UNCHANGED <<binderVars, memberVars, ready, gadgetVars, inotifyVars, ffs, eventFd,
                 vendorConfig>>

MonitorWriteUdc ==
  /\ mpc = "write"
  /\ \/ WriteUdc /\ mpc' = "lock" /\ UNCHANGED <<batch, k>>
     \/ WriteUdcFails /\ NextEvent
  /\ UNCHANGED <<binderVars, memberVars, writeUdc, ready, inotifyVars, ffs, eventFd,
                 vendorConfig>>

\* mCv.notify_all(): a thread waiting now is woken, a later one is not.
Bug_NotifyAll == UNCHANGED cvWaiting

NotifyAll == cvWaiting' = FALSE

\* The critical section: publish the pull-up and wake the binder thread.
MonitorPublish ==
  /\ mpc = "lock" /\ mLock = "free"
  /\ mCurrentUsbFunctionsApplied' = TRUE
  /\ gadgetPullup' = TRUE
  /\ writeUdc' = FALSE
  /\ NotifyAll
  /\ NextEvent
  /\ UNCHANGED <<binderVars, mCurrentUsbFunctions, mMonitorCreated, mEndpointList,
                 mLock, ready, gadgetVars, inotifyVars, ffs, eventFd, vendorConfig>>

\* epoll_wait returns every descriptor that is readable.
MonitorEpoll ==
  /\ mpc = "dispatch" /\ ready = {}
  /\ inotifyQ > 0 \/ eventFd > 0
  /\ ready' = { d \in {"inotify", "event"} :
                  \/ d = "inotify" /\ inotifyQ > 0
                  \/ d = "event" /\ eventFd > 0 }
  /\ UNCHANGED <<binderVars, memberVars, mpc, writeUdc, batch, k, gadgetVars, inotifyVars,
                 ffs, eventFd, vendorConfig>>

MonitorReadInotify ==
  /\ mpc = "dispatch" /\ "inotify" \in ready
  /\ ready' = ready \ {"inotify"}
  /\ batch' = Least(inotifyQ, ReadMax)
  /\ inotifyQ' = inotifyQ - Least(inotifyQ, ReadMax)
  /\ k' = 1
  /\ mpc' = "check"
  /\ UNCHANGED <<binderVars, memberVars, writeUdc, gadgetVars, watches, ffs, eventFd,
                 vendorConfig>>

\* Reading the eventfd clears it; only the value 100 stops the thread.
MonitorReadEvent ==
  /\ mpc = "dispatch" /\ "event" \in ready
  /\ eventFd' = 0
  /\ mpc' = IF eventFd = 100 THEN "done" ELSE "dispatch"
  /\ ready' = IF eventFd = 100 THEN {} ELSE ready \ {"event"}
  /\ UNCHANGED <<binderVars, memberVars, writeUdc, batch, k, gadgetVars, inotifyVars, ffs,
                 vendorConfig>>

Monitor == \/ MonitorCheck \/ MonitorWriteUdc \/ MonitorPublish
           \/ MonitorEpoll \/ MonitorReadInotify \/ MonitorReadEvent

-----------------------------------------------------------------------------
(***************************************************************************)
(* The binder thread: setCurrentUsbFunctions and what it calls.            *)
(***************************************************************************)

\* Return from setCurrentUsbFunctions, at its label error or elsewhere, after
\* delivering status s to the client if it gave a callback.
Answer(s) == /\ cbs' = IF hasCallback THEN Append(cbs, s) ELSE cbs
             /\ pc' = "idle"

SetCurrentUsbFunctions(functions, callback) ==
  /\ pc = "idle" /\ "setCurrentUsbFunctions" \in Calls
  /\ mCurrentUsbFunctions' = functions
  /\ mCurrentUsbFunctionsApplied' = FALSE
  /\ hasCallback' = callback
  /\ cbs' = <<>>
  /\ pc' = "tearDown"
  /\ UNCHANGED <<todo, gadgetPullup, mMonitorCreated, mEndpointList, mLock, cvWaiting,
                 monitorVars, gadgetVars, inotifyVars, ffs, eventFd, vendorConfig>>

\* Pull down (failure ignored), then reset the device attributes.
TearDownAttributes ==
  /\ pc = "tearDown"
  /\ udc' = FALSE
  /\ \/ pc' = "unlink" /\ UNCHANGED cbs
     \/ "configfs" \in Faults /\ Answer("ERROR")
  /\ UNCHANGED <<hasCallback, todo, memberVars, monitorVars, links, vidpid, pulled,
                 inotifyVars, ffs, eventFd, vendorConfig>>

\* unlinkFunctions: one directory entry per step, in any order. Removing a
\* function from a gadget that is bound makes the kernel unbind it.
UnlinkFunction ==
  /\ pc = "unlink"
  /\ \/ /\ \E f \in links : links' = links \ {f}
        /\ udc' = FALSE
        /\ UNCHANGED <<pc, cbs>>
     \/ /\ links # {} /\ "remove" \in Faults
        /\ Answer("ERROR")
        /\ UNCHANGED <<links, udc>>
  /\ UNCHANGED <<hasCallback, todo, memberVars, monitorVars, vidpid, pulled, inotifyVars, ffs,
                 eventFd, vendorConfig>>

\* The value that tells the monitor to stop.
Bug_StopFlag == 1

StopFlag == 100

Bug_SignalMonitor ==
  /\ pc = "unlink" /\ links = {} /\ mMonitorCreated
  /\ eventFd' = eventFd + StopFlag
  /\ pc' = "join"
  /\ mEndpointList' = <<>>
  /\ UNCHANGED <<hasCallback, todo, cbs, mCurrentUsbFunctions, mCurrentUsbFunctionsApplied,
                 gadgetPullup, mMonitorCreated, mLock, cvWaiting, monitorVars, gadgetVars,
                 inotifyVars, ffs, vendorConfig>>

SignalMonitor ==
  /\ pc = "unlink" /\ links = {} /\ mMonitorCreated
  /\ eventFd' = eventFd + StopFlag
  /\ pc' = "join"
  /\ UNCHANGED <<hasCallback, todo, cbs, memberVars, monitorVars, gadgetVars, inotifyVars, ffs,
                 vendorConfig>>

Bug_JoinMonitor == pc = "join" /\ UNCHANGED mpc

JoinMonitor == pc = "join" /\ mpc = "done" /\ mpc' = "none"

\* The rest of tearDownGadget: once the thread has ended, or if there is none,
\* the descriptors are closed and the endpoint list is cleared.
TearDownDone ==
  /\ \/ JoinMonitor
     \/ pc = "unlink" /\ links = {} /\ ~mMonitorCreated /\ UNCHANGED mpc
  /\ mMonitorCreated' = FALSE
  /\ CloseInotify
  /\ eventFd' = 0
  /\ mEndpointList' = <<>>
  /\ pulled' = {}
  /\ pc' = "pulledDown"
  /\ UNCHANGED <<hasCallback, todo, cbs, mCurrentUsbFunctions, mCurrentUsbFunctionsApplied,
                 gadgetPullup, mLock, cvWaiting, writeUdc, ready, batch, k, udc, links, vidpid,
                 ffs, vendorConfig>>

\* getVendorFunctions: its result, and vendor.usb.config after the call.
VendorFunctions ==
  IF BuildIsUser THEN <<"user">>
  ELSE IF vendorConfig # <<>> \/ ~BootIsUsbRadio THEN vendorConfig
  ELSE IF PersistVendorFunctions # <<>> THEN PersistVendorFunctions ELSE <<"diag">>

GetVendorFunctions ==
  vendorConfig' = IF BuildIsUser THEN vendorConfig ELSE VendorFunctions

\* The disconnect wait is over. Nothing more to do for NONE.
AnswerNone ==
  /\ pc = "pulledDown" /\ mCurrentUsbFunctions = {}
  /\ Answer("SUCCESS")
  /\ UNCHANGED <<hasCallback, todo, memberVars, monitorVars, gadgetVars, inotifyVars, ffs,
                 eventFd, vendorConfig>>

Bug_SetVidPid(id) == vidpid' = <<id[1], vidpid[2]>>

SetVidPid(id) == vidpid' = id

ValidateAndSetVidPid ==
  /\ pc = "pulledDown" /\ mCurrentUsbFunctions # {}
  /\ GetVendorFunctions
  /\ \/ /\ ~Supported(mCurrentUsbFunctions, VendorFunctions)
        /\ Answer("CONFIGURATION_NOT_SUPPORTED")
        /\ UNCHANGED vidpid
     \/ \E id \in VidPids(mCurrentUsbFunctions, VendorFunctions) :
          \/ SetVidPid(id) /\ pc' = "validated" /\ UNCHANGED cbs
          \/ /\ "configfs" \in Faults /\ Answer("ERROR")
             /\ vidpid' \in {vidpid, <<id[1], vidpid[2]>>}
  /\ UNCHANGED <<hasCallback, todo, memberVars, monitorVars, udc, links, pulled, inotifyVars,
                 ffs, eventFd>>

-----------------------------------------------------------------------------
(***************************************************************************)
(* setupFunctions, with mLock held from its first line on.                 *)
(***************************************************************************)

\* An early return: unlocks mLock and closes the local inotify descriptor,
\* but leaves what was linked and listed so far.
Bug_SetupFails == /\ UNCHANGED cbs
                  /\ pc' = "idle"
                  /\ mLock' = "free"
                  /\ todo' = <<>>
                  /\ CloseInotify
                  /\ UNCHANGED <<links, mEndpointList>>

SetupFails == /\ Answer("ERROR")
              /\ mLock' = "free"
              /\ todo' = <<>>
              /\ CloseInotify
              /\ UNCHANGED <<links, mEndpointList>>

\* The vendor property is read once, before the first link here, after RNDIS
\* in the code: no link before that depends on it.
BeginSetup ==
  /\ pc = "validated" /\ mLock = "free"
  /\ \/ /\ pc' = "setup" /\ mLock' = "binder"
        /\ GetVendorFunctions
        /\ todo' = LinkOrder(mCurrentUsbFunctions, VendorFunctions)
        /\ UNCHANGED cbs
     \/ "fds" \in Faults /\ Answer("ERROR") /\ UNCHANGED <<mLock, todo, vendorConfig>>
  /\ UNCHANGED <<hasCallback, mCurrentUsbFunctions, mCurrentUsbFunctionsApplied, gadgetPullup,
                 mMonitorCreated, mEndpointList, cvWaiting, monitorVars, gadgetVars,
                 inotifyVars, ffs, eventFd>>

\* inotify_add_watch for the directory of a FunctionFS function.
Bug_Watch(f) == watches' = watches \cup ({f} \cap {"mtp", "ptp"})

Watch(f) == watches' = watches \cup ({f} \cap Ffs)

\* The next function: for a FunctionFS one the watch comes before the link.
LinkFunction ==
  /\ pc = "setup" /\ todo # <<>>
  /\ LET f == Head(todo) IN
       \/ /\ f \in LinkName \ links
          /\ links' = links \cup {f}
          /\ Watch(f)
          /\ mEndpointList' = IF f \in Ffs THEN Append(mEndpointList, f) ELSE mEndpointList
          /\ todo' = Tail(todo)
          /\ UNCHANGED <<pc, cbs, mLock, inotifyQ>>
       \/ /\ f \notin LinkName
          /\ todo' = Tail(todo)
          /\ UNCHANGED <<pc, cbs, mLock, inotifyVars, links, mEndpointList>>
       \/ f \in LinkName /\ (f \in links \/ "link" \in Faults) /\ SetupFails
  /\ UNCHANGED <<hasCallback, mCurrentUsbFunctions, mCurrentUsbFunctionsApplied, gadgetPullup,
                 mMonitorCreated, cvWaiting, monitorVars, udc, vidpid, pulled, ffs, eventFd,
                 vendorConfig>>

FfsEnabled == mCurrentUsbFunctions \cap Ffs # {}

\* No FunctionFS function: pull up right away; the local inotify descriptor
\* is closed on return.
PullUpNow ==
  /\ pc = "setup" /\ todo = <<>> /\ ~FfsEnabled
  /\ \/ /\ WriteUdc
        /\ mCurrentUsbFunctionsApplied' = TRUE
        /\ Answer("SUCCESS")
        /\ mLock' = "free"
        /\ CloseInotify
        /\ UNCHANGED <<todo, mEndpointList>>
     \/ WriteUdcFails /\ SetupFails /\ UNCHANGED mCurrentUsbFunctionsApplied
  /\ UNCHANGED <<hasCallback, mCurrentUsbFunctions, gadgetPullup, mMonitorCreated, cvWaiting,
                 monitorVars, ffs, eventFd, vendorConfig>>

\* The monitor thread begins in the initial check of monitorFfs.
Bug_StartThread ==
  /\ UNCHANGED gadgetPullup
  /\ mMonitorCreated' = TRUE
  /\ mpc' = "check" /\ writeUdc' = TRUE /\ ready' = {} /\ batch' = 1 /\ k' = 1

StartThread ==
  /\ gadgetPullup' = FALSE
  /\ mMonitorCreated' = TRUE
  /\ mpc' = "check" /\ writeUdc' = TRUE /\ ready' = {} /\ batch' = 1 /\ k' = 1

\* Create the descriptors and the thread; wait for the pull-up only if there
\* is a callback to tell.
StartMonitor ==
  /\ pc = "setup" /\ todo = <<>> /\ FfsEnabled
  /\ \/ /\ StartThread
        /\ mLock' = "free"
        /\ cvWaiting' = hasCallback
        /\ pc' = IF hasCallback THEN "cvWait" ELSE "idle"
        /\ UNCHANGED <<todo, cbs, links, mEndpointList, inotifyVars>>
     \/ /\ "fds" \in Faults /\ SetupFails
        /\ UNCHANGED <<gadgetPullup, mMonitorCreated, cvWaiting, monitorVars>>
  /\ UNCHANGED <<hasCallback, mCurrentUsbFunctions, mCurrentUsbFunctionsApplied, udc, vidpid,
                 pulled, ffs, eventFd, vendorConfig>>

\* wait_for returns holding mLock: notified with its predicate true (a
\* spurious wake-up just waits again), or because the time is over.
WakeUp == /\ pc = "cvWait" /\ mLock = "free"
          /\ pc' = "callback" /\ mLock' = "binder" /\ cvWaiting' = FALSE
          /\ UNCHANGED <<hasCallback, todo, cbs, mCurrentUsbFunctions,
                         mCurrentUsbFunctionsApplied, gadgetPullup, mMonitorCreated,
                         mEndpointList, monitorVars, gadgetVars, inotifyVars, ffs, eventFd,
                         vendorConfig>>

CvNotified == ~cvWaiting /\ gadgetPullup /\ WakeUp

CvTimeout == WakeUp

Callback ==
  /\ pc = "callback"
  /\ Answer(IF gadgetPullup THEN "SUCCESS" ELSE "ERROR")
  /\ mLock' = "free"
  /\ UNCHANGED <<hasCallback, todo, mCurrentUsbFunctions, mCurrentUsbFunctionsApplied,
                 gadgetPullup, mMonitorCreated, mEndpointList, cvWaiting, monitorVars,
                 gadgetVars, inotifyVars, ffs, eventFd, vendorConfig>>

-----------------------------------------------------------------------------
\* reset() only pulls down; on an unbound gadget the write fails.
Reset ==
  /\ pc = "idle" /\ "reset" \in Calls /\ udc
  /\ udc' = FALSE
  /\ UNCHANGED <<binderVars, memberVars, monitorVars, links, vidpid, pulled, inotifyVars, ffs,
                 eventFd, vendorConfig>>

\* The constructor leaves mCurrentUsbFunctions uninitialized.
Init ==
  /\ pc = "idle" /\ hasCallback = FALSE /\ todo = <<>> /\ cbs = <<>>
  /\ mCurrentUsbFunctions \in Requests
  /\ mCurrentUsbFunctionsApplied = FALSE /\ gadgetPullup = FALSE /\ mMonitorCreated = FALSE
  /\ mEndpointList = <<>> /\ mLock = "free" /\ cvWaiting = FALSE
  /\ mpc = "none" /\ writeUdc = TRUE /\ ready = {} /\ batch = 0 /\ k = 1
  /\ watches = {} /\ inotifyQ = 0 /\ eventFd = 0
  /\ udc = FALSE /\ links = {} /\ vidpid = <<"none", "none">> /\ pulled = {}
  /\ ffs = [f \in Ffs |-> "closed"]
  /\ vendorConfig = <<>>

\* The process dies and init starts it again: a fresh object, while the kernel
\* keeps the gadget as it is.
Crash ==
  /\ "crash" \in Faults
  /\ pc' = "idle" /\ hasCallback' = FALSE /\ todo' = <<>> /\ cbs' = <<>>
  /\ mCurrentUsbFunctions' \in Requests
  /\ mCurrentUsbFunctionsApplied' = FALSE /\ gadgetPullup' = FALSE /\ mMonitorCreated' = FALSE
  /\ mEndpointList' = <<>> /\ mLock' = "free" /\ cvWaiting' = FALSE
  /\ mpc' = "none" /\ writeUdc' = TRUE /\ ready' = {} /\ batch' = 0 /\ k' = 1
  /\ CloseInotify /\ eventFd' = 0
  /\ UNCHANGED <<gadgetVars, ffs, vendorConfig>>

-----------------------------------------------------------------------------
Binder == \/ TearDownAttributes \/ UnlinkFunction \/ SignalMonitor \/ TearDownDone
          \/ AnswerNone \/ ValidateAndSetVidPid \/ BeginSetup \/ LinkFunction
          \/ PullUpNow \/ StartMonitor \/ CvNotified \/ Callback

Daemons == \E f \in LiveDaemons : DaemonOpen(f) \/ DaemonReady(f) \/ DaemonDie(f) \/ DaemonIo(f)

Clients == \/ \E fs \in Requests, cb \in BOOLEAN : SetCurrentUsbFunctions(fs, cb)
           \/ Reset

Next == Clients \/ Binder \/ CvTimeout \/ Monitor \/ Daemons \/ SetVendorConfig \/ Crash

Spec == Init /\ [][Next]_vars

\* Both threads are scheduled. Clients, daemons, property writers, crashes and
\* the timer owe nothing.
ThreadSpec == Spec /\ WF_vars(Binder) /\ WF_vars(Monitor)

\* The timer of wait_for fires.
TimerFires == WF_vars(CvTimeout)

-----------------------------------------------------------------------------
(***************************************************************************)
(* Properties.                                                             *)
(***************************************************************************)

BinderTypes ==
  /\ pc \in BinderPC /\ hasCallback \in BOOLEAN
  /\ todo \in Seq(GadgetFunction \cup VendorToken) /\ cbs \in Seq(Status)

MemberTypes ==
  /\ mCurrentUsbFunctions \in SUBSET GadgetFunction
  /\ mCurrentUsbFunctionsApplied \in BOOLEAN /\ gadgetPullup \in BOOLEAN
  /\ mMonitorCreated \in BOOLEAN /\ mEndpointList \in Seq(Ffs)
  /\ mLock \in {"free", "binder"} /\ cvWaiting \in BOOLEAN

MonitorTypes ==
  /\ mpc \in MonitorPC /\ writeUdc \in BOOLEAN /\ ready \subseteq {"inotify", "event"}
  /\ batch \in Nat /\ k \in Nat \ {0}

KernelTypes ==
  /\ udc \in BOOLEAN /\ links \subseteq LinkName /\ pulled \subseteq LinkName
  /\ ffs \in [Ffs -> {"closed", "open", "ready", "dead"}]
  /\ watches \subseteq Ffs /\ inotifyQ \in 0..InotifyQueueMax /\ eventFd \in Nat
  /\ vendorConfig \in Seq(VendorToken)

\* Every variable keeps its type, and the inotify queue its bound: monitorFfs
\* never counts a batch of events below zero or indexes before the list.
TypeOK == BinderTypes /\ MemberTypes /\ MonitorTypes /\ KernelTypes

\* "Leave the gadget pulled down to give time for the host to sense disconnect"
\* (setCurrentUsbFunctions): although the old monitor may pull the gadget up
\* again after tearDownGadget pulled it down, during the disconnect wait and
\* until the new functions are linked the gadget is unbound, no old function is
\* linked and no monitor is left that could pull it up.
DisconnectWaitIsDown ==
  pc \in {"pulledDown", "validated"} => ~udc /\ links = {} /\ mpc = "none"

\* monitorFfs reads mEpollFd, mInotifyFd, mEventFd and mEndpointList without a
\* lock: while it runs these are open and filled, every listed directory is
\* watched, and mMonitorCreated makes the next tearDownGadget join it, whatever
\* failed in between.
MonitorResourcesAlive ==
  /\ mMonitorCreated <=> mpc # "none"
  /\ mpc # "none" => /\ mEndpointList # <<>>
                     /\ watches = RangeOf(mEndpointList)
                     /\ k \in DOMAIN mEndpointList

\* Nobody touches mEndpointList while monitorFfs may be iterating over it.
EndpointListStable ==
  [][mpc # "none" /\ mpc' # "none" => mEndpointList' = mEndpointList]_vars

\* A request with a callback is answered exactly once, and not before its end,
\* on every path through setCurrentUsbFunctions and setupFunctions.
AnsweredExactlyOnce ==
  Len(cbs) = IF pc = "idle" /\ hasCallback THEN 1 ELSE 0

\* SUCCESS for a request other than NONE means that since the pull-down of this
\* very request the gadget was bound with every requested function linked, and
\* getCurrentUsbFunctions reports FUNCTIONS_APPLIED; a pull-up by the monitor
\* of the previous request never counts.
SuccessMeansPulledUp ==
  cbs = <<"SUCCESS">> /\ mCurrentUsbFunctions # {}
    => mCurrentUsbFunctions \subseteq pulled /\ mCurrentUsbFunctionsApplied

\* Outside tearDownGadget the host is only ever shown the configuration that was
\* requested last: all its functions, no other but the vendor's, under the
\* identity validateAndSetVidPid has for it. (Without failures.)
HostSeesRequest ==
  udc /\ pc \notin {"tearDown", "unlink"}
    => /\ links = RangeOf(LinkOrder(mCurrentUsbFunctions, VendorFunctions)) \cap LinkName
       /\ vidpid \in VidPids(mCurrentUsbFunctions, VendorFunctions)

\* Every call of setCurrentUsbFunctions returns: tearDownGadget's join ends, and
\* neither mLock nor mCv blocks the binder thread for ever.
RequestReturns == TimerFires => (pc # "idle" ~> pc = "idle")

\* A pull-up published while the binder thread waits in mCv ends the wait even
\* if the timer never fires: the notification is not lost.
WakeUpNotLost == (pc = "cvWait" /\ gadgetPullup) ~> pc # "cvWait"

\* "Monitors the ffs paths to pull up the gadget when descriptors are written.
\* Also takes of the pulling up the gadget again if the userspace process dies
\* and restarts" (setupFunctions): once all endpoints are there for good and the
\* monitor keeps running, the gadget ends up bound.
PullsUpAgain ==
  <>[](pc = "idle" /\ mpc # "none" /\ \A f \in RangeOf(mEndpointList) : ffs[f] = "ready")
    => <>[]udc

-----------------------------------------------------------------------------
(***************************************************************************)
(* The HAL implements UsbSession.                                          *)
(***************************************************************************)
Phase == CASE pc = "idle"                             -> "idle"
           [] pc \in {"tearDown", "unlink", "join"}   -> "closing"
           [] pc \in {"pulledDown", "validated"}      -> "quiet"
           [] pc \in {"setup", "cvWait", "callback"}  -> "opening"

Session == INSTANCE UsbSession WITH
             phase <- Phase, request <- mCurrentUsbFunctions, attached <- udc,
             seen <- (pulled # {}), answer <- IF cbs = <<>> THEN "none" ELSE cbs[1]

\* Every step of the binder thread, the monitor, a client or a daemon is a step
\* of the session the framework and the host see, or no step of it. In
\* particular nothing attaches the device in the quiet period, and SUCCESS
\* comes after an attach that belongs to the request.
ImplementsSession == Session!Spec
=============================================================================
