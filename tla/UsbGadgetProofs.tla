--------------------------- MODULE UsbGadgetProofs ---------------------------
(***************************************************************************)
(* Proofs about UsbGadget, for every set of requests, every combination of *)
(* faults and every size of the inotify queue.                             *)
(***************************************************************************)
EXTENDS UsbGadget, TLAPS

-----------------------------------------------------------------------------
(***************************************************************************)
(* The inductive invariant, in named parts.                                *)
(***************************************************************************)

\* mLock is held in setupFunctions up to the wait, and during the callback.
LockInv == mLock = "binder" <=> pc \in {"setup", "callback"}

\* Between the join in tearDownGadget and the start of the next monitor.
NoMonitorInv ==
  /\ pc \in {"pulledDown", "validated", "setup"} => mpc = "none"
  /\ pc \in {"join", "cvWait", "callback"} => mpc # "none"

\* A bound gadget has functions; when tearDownGadget has removed them all no
\* write to UDC can succeed.
BoundInv ==
  /\ udc => links # {}
  /\ pc \in {"join", "pulledDown", "validated"} => links = {}
  /\ pc = "setup" => ~udc

\* The local inotify descriptor watches what the endpoint list names.
WatchInv ==
  /\ pc \in {"pulledDown", "validated"} => mEndpointList = <<>> /\ watches = {}
  /\ pc = "setup" => watches = RangeOf(mEndpointList)

\* The monitor always has an event to account for where it processes one, has
\* taken that from the descriptor, and a readable inotify descriptor stays
\* readable until it is read.
EventInv ==
  /\ mpc \in {"check", "write", "lock"} => batch > 0 /\ "inotify" \notin ready
  /\ mpc = "dispatch" /\ "inotify" \in ready => inotifyQ > 0

\* Where the callback has not been called yet.
AnswerInv ==
  /\ pc # "idle" \/ ~hasCallback => cbs = <<>>
  /\ pc = "idle" /\ hasCallback => Len(cbs) = 1
  /\ pc \in {"cvWait", "callback"} => hasCallback

\* What setupFunctions has linked and has left to link covers the request.
LinkInv ==
  /\ pc \in {"validated", "setup"} => /\ mCurrentUsbFunctions # {}
                                      /\ ~({"mtp", "ptp"} \subseteq mCurrentUsbFunctions)
  /\ pc = "setup" => /\ mCurrentUsbFunctions \subseteq links \cup RangeOf(todo)
                     /\ links \cap Ffs \subseteq RangeOf(mEndpointList)
  /\ pc \in {"cvWait", "callback"} => /\ mCurrentUsbFunctions # {}
                                      /\ mCurrentUsbFunctions \subseteq links

\* What is known of the latest pull-up before and after it is published.
PullUpInv ==
  /\ pc \in {"cvWait", "callback"} /\ mpc = "lock" => mCurrentUsbFunctions \subseteq pulled
  /\ pc \in {"cvWait", "callback"} /\ gadgetPullup
       => mCurrentUsbFunctions \subseteq pulled /\ mCurrentUsbFunctionsApplied
  /\ cbs = <<"SUCCESS">> /\ mCurrentUsbFunctions # {} => mCurrentUsbFunctions \subseteq links

IInv == /\ TypeOK /\ LockInv /\ NoMonitorInv /\ BoundInv /\ WatchInv /\ EventInv /\ AnswerInv
        /\ LinkInv /\ PullUpInv /\ MonitorResourcesAlive /\ SuccessMeansPulledUp
-----------------------------------------------------------------------------
USE DEF binderVars, memberVars, monitorVars, gadgetVars, inotifyVars

(***************************************************************************)
(* Facts about the operators.                                              *)
(***************************************************************************)

\* Returning from setCurrentUsbFunctions delivers the one answer, if any.
LEMMA AnswerDelivers ==
  ASSUME BinderTypes, AnswerInv, pc # "idle", NEW s \in Status, Answer(s), UNCHANGED hasCallback
  PROVE  /\ pc' = "idle"
         /\ cbs' = IF hasCallback THEN <<s>> ELSE <<>>
         /\ cbs' \in Seq(Status)
         /\ AnswerInv'
         /\ s # "SUCCESS" => cbs' # <<"SUCCESS">>
<1>1. cbs = <<>> /\ hasCallback \in BOOLEAN
  BY DEF AnswerInv, BinderTypes
<1>2. Append(<<>>, s) = <<s>>
  OBVIOUS
<1>3. cbs' = (IF hasCallback THEN <<s>> ELSE <<>>) /\ pc' = "idle"
  BY <1>1, <1>2 DEF Answer
<1>4. s # "SUCCESS" => <<s>> # <<"SUCCESS">> /\ <<>> # <<"SUCCESS">>
  OBVIOUS
<1>5. Len(<<s>>) = 1 /\ <<s>> \in Seq(Status) /\ <<>> \in Seq(Status)
  OBVIOUS
<1>6. AnswerInv'
  BY <1>1, <1>3, <1>5 DEF AnswerInv
<1>7. QED
  BY <1>1, <1>3, <1>4, <1>5, <1>6

\* getVendorFunctions returns a vendor list and leaves one in the property.
LEMMA VendorTypes ==
  ASSUME KernelTypes, UsbConstants
  PROVE  /\ VendorFunctions \in Seq(VendorToken)
         /\ GetVendorFunctions => vendorConfig' \in Seq(VendorToken)
<1>1. <<"user">> \in Seq(VendorToken) /\ <<"diag">> \in Seq(VendorToken)
  BY DEF VendorToken, VendorFunction
<1>2. VendorFunctions \in Seq(VendorToken)
  BY <1>1 DEF VendorFunctions, KernelTypes, UsbConstants
<1>3. QED
  BY <1>2 DEF GetVendorFunctions, KernelTypes

\* No row of the identity tables combines MTP with PTP, or is NONE.
LEMMA SupportedRequests ==
  ASSUME NEW fs, NEW vendor, Supported(fs, vendor)
  PROVE  fs # {} /\ ~({"mtp", "ptp"} \subseteq fs)
<1>1. \/ \E q \in GoogleIds : q[1] = fs
      \/ \E q \in QualcommIds : q[1] = fs
  BY DEF Supported, VidPids
<1>2. ASSUME NEW q \in GoogleIds PROVE q[1] # {} /\ ~({"mtp", "ptp"} \subseteq q[1])
  BY DEF GoogleIds
<1>3. ASSUME NEW q \in QualcommIds PROVE q[1] # {} /\ ~({"mtp", "ptp"} \subseteq q[1])
  BY DEF QualcommIds
<1>4. QED
  BY <1>1, <1>2, <1>3

\* The elements of a concatenation.
LEMMA RangeOfConcat ==
  ASSUME NEW S, NEW a \in Seq(S), NEW b \in Seq(S)
  PROVE  a \o b \in Seq(S) /\ RangeOf(a \o b) = RangeOf(a) \cup RangeOf(b)
<1>1. /\ a \o b \in Seq(S) /\ Len(a \o b) = Len(a) + Len(b)
      /\ \A i \in 1..(Len(a) + Len(b)) :
           (a \o b)[i] = IF i <= Len(a) THEN a[i] ELSE b[i - Len(a)]
  OBVIOUS
<1>2. ASSUME NEW x \in RangeOf(a \o b) PROVE x \in RangeOf(a) \cup RangeOf(b)
  BY <1>1 DEF RangeOf
<1>3. ASSUME NEW x \in RangeOf(a) PROVE x \in RangeOf(a \o b)
  BY <1>1 DEF RangeOf
<1>4. ASSUME NEW x \in RangeOf(b) PROVE x \in RangeOf(a \o b)
  <2>1. PICK j \in 1..Len(b) : x = b[j]
    BY DEF RangeOf
  <2>2. Len(a) + j \in 1..(Len(a) + Len(b)) /\ (a \o b)[Len(a) + j] = x
    BY <1>1, <2>1
  <2>3. QED
    BY <1>1, <2>2 DEF RangeOf
<1>5. QED
  BY <1>1, <1>2, <1>3, <1>4

\* setupFunctions walks through every requested function, PTP only without MTP.
LEMMA LinkOrderCovers ==
  ASSUME NEW fs \in SUBSET GadgetFunction, NEW vendor \in Seq(VendorToken)
  PROVE  /\ LinkOrder(fs, vendor) \in Seq(GadgetFunction \cup VendorToken)
         /\ ~({"mtp", "ptp"} \subseteq fs) => fs \subseteq RangeOf(LinkOrder(fs, vendor))
<1> DEFINE T == GadgetFunction \cup VendorToken
           gs == fs \ (IF "mtp" \in fs THEN {"ptp"} ELSE {})
           s1 == OneOf(fs, "mtp")
           s2 == s1 \o OneOf(gs, "ptp")
           s3 == s2 \o OneOf(fs, "midi")
           s4 == s3 \o OneOf(fs, "accessory")
           s5 == s4 \o OneOf(fs, "audio_source")
           s6 == s5 \o OneOf(fs, "rndis")
           s7 == s6 \o vendor
           s8 == s7 \o OneOf(fs, "adb")
<1>1. ASSUME NEW hs \in SUBSET GadgetFunction, NEW f
      PROVE  OneOf(hs, f) \in Seq(T) /\ RangeOf(OneOf(hs, f)) = hs \cap {f}
  <2>1. CASE f \in hs
    <3>1. OneOf(hs, f) = <<f>> /\ f \in T
      BY <2>1 DEF OneOf
    <3>2. RangeOf(<<f>>) = {f} /\ <<f>> \in Seq(T)
      BY <3>1 DEF RangeOf
    <3>3. QED
      BY <2>1, <3>1, <3>2
  <2>2. CASE f \notin hs
    BY <2>2 DEF OneOf, RangeOf
  <2>3. QED
    BY <2>1, <2>2
<1>2. \A s \in Seq(T) : \A hs \in SUBSET GadgetFunction : \A f :
        /\ s \o OneOf(hs, f) \in Seq(T)
        /\ RangeOf(s \o OneOf(hs, f)) = RangeOf(s) \cup (hs \cap {f})
  <2> TAKE s \in Seq(T)
  <2> TAKE hs \in SUBSET GadgetFunction
  <2> TAKE f
  <2>1. OneOf(hs, f) \in Seq(T) /\ RangeOf(OneOf(hs, f)) = hs \cap {f}
    BY <1>1
  <2> DEFINE b == OneOf(hs, f)
  <2> HIDE DEF T, b
  <2>2. s \o b \in Seq(T) /\ RangeOf(s \o b) = RangeOf(s) \cup RangeOf(b)
    BY <2>1, RangeOfConcat DEF b
  <2>3. QED
    BY <2>1, <2>2 DEF b
<1>3. vendor \in Seq(T) /\ gs \in SUBSET GadgetFunction
  OBVIOUS
<1> HIDE DEF T, gs
<1>4. s1 \in Seq(T) /\ RangeOf(s1) = fs \cap {"mtp"}
  BY <1>1
<1> HIDE DEF s1
<1>5. s2 \in Seq(T) /\ RangeOf(s2) = RangeOf(s1) \cup (gs \cap {"ptp"})
  BY <1>2, <1>3, <1>4
<1> HIDE DEF s2
<1>6. s3 \in Seq(T) /\ RangeOf(s3) = RangeOf(s2) \cup (fs \cap {"midi"})
  BY <1>2, <1>5
<1> HIDE DEF s3
<1>7. s4 \in Seq(T) /\ RangeOf(s4) = RangeOf(s3) \cup (fs \cap {"accessory"})
  BY <1>2, <1>6
<1> HIDE DEF s4
<1>8. s5 \in Seq(T) /\ RangeOf(s5) = RangeOf(s4) \cup (fs \cap {"audio_source"})
  BY <1>2, <1>7
<1> HIDE DEF s5
<1>9. s6 \in Seq(T) /\ RangeOf(s6) = RangeOf(s5) \cup (fs \cap {"rndis"})
  BY <1>2, <1>8
<1> HIDE DEF s6
<1>10. s7 \in Seq(T) /\ RangeOf(s7) = RangeOf(s6) \cup RangeOf(vendor)
  BY <1>3, <1>9, RangeOfConcat
<1> HIDE DEF s7
<1>11. s8 \in Seq(T) /\ RangeOf(s8) = RangeOf(s7) \cup (fs \cap {"adb"})
  BY <1>2, <1>10
<1> HIDE DEF s8
<1>12. ~({"mtp", "ptp"} \subseteq fs) => fs \subseteq RangeOf(s8)
  BY <1>4, <1>5, <1>6, <1>7, <1>8, <1>9, <1>10, <1>11 DEF GadgetFunction, gs
<1>13. LinkOrder(fs, vendor) = s8
  BY DEF LinkOrder, gs, s1, s2, s3, s4, s5, s6, s7, s8
<1>14. QED
  BY <1>11, <1>12, <1>13 DEF T
-----------------------------------------------------------------------------
(***************************************************************************)
(* Every step preserves the invariant: first the environment, then the     *)
(* monitor, then the binder thread.                                        *)
(***************************************************************************)

\* Daemons, reset() and writers of the vendor property only move the daemons,
\* add events, pull the gadget down and set the property.
EnvironmentStep ==
  /\ UNCHANGED <<binderVars, memberVars, monitorVars, links, vidpid, pulled, watches, eventFd>>
  /\ udc' \in BOOLEAN /\ (udc' => udc)
  /\ inotifyQ' \in inotifyQ..InotifyQueueMax
  /\ (ffs \in [Ffs -> {"closed", "open", "ready", "dead"}])'
  /\ vendorConfig' \in Seq(VendorToken)

\* Daemon steps, reset() and property writers are such steps.
LEMMA EnvironmentActions ==
  ASSUME UsbConstants, TypeOK, Daemons \/ Reset \/ SetVendorConfig
  PROVE  EnvironmentStep
<1> USE DEF EnvironmentStep, TypeOK, KernelTypes
<1>1. ASSUME NEW f, NewEvents(f)
      PROVE  watches' = watches /\ inotifyQ' \in inotifyQ..InotifyQueueMax
  BY <1>1 DEF NewEvents, Least, UsbConstants
<1>2. ASSUME NEW f \in LiveDaemons, DaemonOpen(f) PROVE EnvironmentStep
  BY <1>1, <1>2 DEF DaemonOpen, UsbConstants
<1>3. ASSUME NEW f \in LiveDaemons, DaemonReady(f) PROVE EnvironmentStep
  BY <1>1, <1>3 DEF DaemonReady, UsbConstants
<1>4. ASSUME NEW f \in LiveDaemons, DaemonDie(f) PROVE EnvironmentStep
  BY <1>1, <1>4 DEF DaemonDie, UsbConstants
<1>5. ASSUME NEW f \in LiveDaemons, DaemonIo(f) PROVE EnvironmentStep
  BY <1>1, <1>5 DEF DaemonIo, UsbConstants
<1>6. CASE Reset
  <2>1. udc' = FALSE /\ UNCHANGED <<inotifyQ, ffs, vendorConfig>>
    BY <1>6 DEF Reset
  <2>2. inotifyQ \in inotifyQ..InotifyQueueMax
    BY DEF UsbConstants
  <2>3. UNCHANGED <<binderVars, memberVars, monitorVars, links, vidpid, pulled, watches, eventFd>>
    BY <1>6 DEF Reset
  <2>4. QED
    BY <2>1, <2>2, <2>3
<1>7. CASE SetVendorConfig
  BY <1>7 DEF SetVendorConfig, UsbConstants
<1>8. QED
  BY <1>2, <1>3, <1>4, <1>5, <1>6, <1>7 DEF Daemons

\* ... and no such step disturbs the invariant: a daemon can only take the gadget
\* down and give the monitor work.
LEMMA EnvironmentKeepsInv ==
  ASSUME UsbConstants, IInv, EnvironmentStep
  PROVE  IInv'
<1> USE DEF IInv, TypeOK, EnvironmentStep
<1>1. BinderTypes' /\ MemberTypes' /\ MonitorTypes'
  BY DEF BinderTypes, MemberTypes, MonitorTypes
<1>2. KernelTypes' /\ EventInv'
  BY DEF KernelTypes, EventInv
<1>3. LockInv' /\ NoMonitorInv' /\ AnswerInv' /\ LinkInv'
  BY DEF LockInv, NoMonitorInv, AnswerInv, LinkInv, RangeOf
<1>4. BoundInv' /\ WatchInv'
  BY DEF BoundInv, WatchInv, RangeOf
<1>5. PullUpInv' /\ MonitorResourcesAlive' /\ SuccessMeansPulledUp'
  BY DEF PullUpInv, MonitorResourcesAlive, SuccessMeansPulledUp, RangeOf
<1>6. QED
  BY <1>1, <1>2, <1>3, <1>4, <1>5

-----------------------------------------------------------------------------
\* Going on to the next event: the batch stays a natural number and, if it is
\* not used up, positive.
LEMMA NextEventCounts ==
  ASSUME MonitorTypes, EventInv, mpc \in {"check", "write", "lock"}, NextEvent
  PROVE  /\ batch' \in Nat /\ k' = 1 /\ mpc' \in {"check", "dispatch"}
         /\ mpc' = "check" => batch' > 0
BY DEF MonitorTypes, EventInv, NextEvent

\* Checking endpoints moves only the monitor's own index and its decision.
LEMMA MonitorCheckKeepsInv ==
  ASSUME UsbConstants, IInv, MonitorCheck
  PROVE  IInv'
<1>1. /\ batch' \in Nat /\ k' \in DOMAIN mEndpointList /\ k' \in Nat \ {0}
      /\ writeUdc' \in BOOLEAN /\ mpc' \in {"check", "write", "dispatch"}
      /\ mpc' \in {"check", "write"} => batch' > 0
  <2>1. k \in DOMAIN mEndpointList /\ mEndpointList # <<>> /\ mEndpointList \in Seq(Ffs)
    BY DEF IInv, TypeOK, MonitorCheck, MonitorResourcesAlive, MemberTypes
  <2>2. /\ k \in Nat \ {0} /\ Len(mEndpointList) \in Nat \ {0}
        /\ DOMAIN mEndpointList = 1..Len(mEndpointList)
    BY <2>1
  <2>3. MonitorTypes /\ EventInv /\ mpc = "check"
    BY DEF IInv, TypeOK, MonitorCheck
  <2>4. CASE NextEvent /\ writeUdc' \in BOOLEAN
    BY <2>2, <2>3, <2>4, NextEventCounts
  <2>5. CASE k < Len(mEndpointList) /\ k' = k + 1 /\ UNCHANGED <<mpc, writeUdc, batch>>
    BY <2>2, <2>3, <2>5 DEF EventInv, MonitorTypes
  <2>6. CASE mpc' = "write" /\ UNCHANGED <<writeUdc, batch, k>>
    BY <2>1, <2>2, <2>3, <2>6 DEF EventInv, MonitorTypes
  <2>7. writeUdc \in BOOLEAN
    BY <2>3 DEF MonitorTypes
  <2>8. QED
    BY <2>4, <2>5, <2>6, <2>7 DEF MonitorCheck, Rearm
<1> USE DEF IInv, TypeOK, MonitorCheck
<1>2. TypeOK'
  <2>1. BinderTypes' /\ MemberTypes'
    BY DEF BinderTypes, MemberTypes
  <2>2. MonitorTypes' /\ KernelTypes'
    BY <1>1 DEF MonitorTypes, KernelTypes, MonitorPC
  <2>3. QED
    BY <2>1, <2>2
<1>3. LockInv' /\ NoMonitorInv' /\ BoundInv' /\ WatchInv' /\ AnswerInv' /\ LinkInv'
  BY <1>1 DEF LockInv, NoMonitorInv, BoundInv, WatchInv, AnswerInv, LinkInv, RangeOf
<1>4. EventInv' /\ PullUpInv' /\ MonitorResourcesAlive' /\ SuccessMeansPulledUp'
  BY <1>1 DEF EventInv, PullUpInv, MonitorResourcesAlive, SuccessMeansPulledUp, RangeOf
<1>5. QED
  BY <1>2, <1>3, <1>4

\* The monitor can bind the gadget while it is being taken down, but not once
\* all functions are unlinked; and in the wait it binds what was requested.
LEMMA MonitorWriteUdcKeepsInv ==
  ASSUME UsbConstants, IInv, MonitorWriteUdc
  PROVE  IInv'
<1> USE DEF IInv, TypeOK, MonitorWriteUdc
<1>1. /\ batch' \in Nat /\ k' \in DOMAIN mEndpointList /\ k' \in Nat \ {0}
      /\ mpc' \in {"check", "lock", "dispatch"} /\ links' = links
      /\ mpc' \in {"check", "lock"} => batch' > 0
      /\ \/ udc' = udc /\ pulled' = pulled /\ mpc' # "lock"
         \/ udc' = TRUE /\ pulled' = links /\ links # {}
  <2>1. /\ k \in DOMAIN mEndpointList /\ mEndpointList # <<>> /\ mEndpointList \in Seq(Ffs)
        /\ 1 \in DOMAIN mEndpointList /\ k \in Nat \ {0}
    BY DEF MonitorResourcesAlive, MemberTypes
  <2>2. CASE WriteUdc /\ mpc' = "lock" /\ UNCHANGED <<batch, k>>
    BY <2>1, <2>2 DEF WriteUdc, BindOk, EventInv, MonitorTypes
  <2>3. CASE WriteUdcFails /\ NextEvent
    BY <2>1, <2>3, NextEventCounts DEF WriteUdcFails
  <2>4. QED
    BY <2>2, <2>3
<1>2. TypeOK'
  <2>1. BinderTypes' /\ MemberTypes'
    BY DEF BinderTypes, MemberTypes
  <2>2. MonitorTypes' /\ KernelTypes'
    BY <1>1 DEF MonitorTypes, KernelTypes, MonitorPC
  <2>3. QED
    BY <2>1, <2>2
<1>3. LockInv' /\ NoMonitorInv' /\ BoundInv' /\ WatchInv' /\ AnswerInv' /\ LinkInv' /\ EventInv'
  BY <1>1 DEF LockInv, NoMonitorInv, BoundInv, WatchInv, AnswerInv, LinkInv, EventInv, RangeOf
<1>4. PullUpInv' /\ SuccessMeansPulledUp'
  BY <1>1 DEF PullUpInv, LinkInv, SuccessMeansPulledUp
<1>5. MonitorResourcesAlive'
  BY <1>1 DEF MonitorResourcesAlive, RangeOf
<1>6. QED
  BY <1>2, <1>3, <1>4, <1>5

\* Publishing the pull-up to a waiting binder thread publishes one that shows
\* every requested function.
LEMMA MonitorPublishKeepsInv ==
  ASSUME UsbConstants, IInv, MonitorPublish
  PROVE  IInv'
<1> USE DEF IInv, TypeOK, MonitorPublish, NotifyAll
<1>1. /\ batch' \in Nat /\ k' \in DOMAIN mEndpointList /\ k' \in Nat \ {0}
      /\ mpc' \in {"check", "dispatch"}
      /\ mpc' = "check" => batch' > 0
  <2>1. mEndpointList # <<>> /\ mEndpointList \in Seq(Ffs) /\ 1 \in DOMAIN mEndpointList
    BY DEF MonitorResourcesAlive, MemberTypes
  <2>2. QED
    BY <2>1, NextEventCounts
<1>2. TypeOK'
  <2>1. BinderTypes' /\ MemberTypes'
    BY DEF BinderTypes, MemberTypes
  <2>2. MonitorTypes' /\ KernelTypes'
    BY <1>1 DEF MonitorTypes, KernelTypes, MonitorPC
  <2>3. QED
    BY <2>1, <2>2
<1>3. LockInv' /\ NoMonitorInv' /\ BoundInv' /\ WatchInv' /\ AnswerInv' /\ LinkInv' /\ EventInv'
  BY <1>1 DEF LockInv, NoMonitorInv, BoundInv, WatchInv, AnswerInv, LinkInv, EventInv, RangeOf
<1>4. PullUpInv' /\ MonitorResourcesAlive' /\ SuccessMeansPulledUp'
  BY <1>1 DEF PullUpInv, MonitorResourcesAlive, SuccessMeansPulledUp, RangeOf
<1>5. QED
  BY <1>2, <1>3, <1>4

\* Waiting and reading descriptors: a batch that is read is not empty, and fits
\* what was queued.
LEMMA MonitorWaitKeepsInv ==
  ASSUME UsbConstants, IInv, MonitorEpoll \/ MonitorReadInotify \/ MonitorReadEvent
  PROVE  IInv'
<1> USE DEF IInv, TypeOK
<1>1. /\ UNCHANGED <<binderVars, memberVars, writeUdc, gadgetVars, watches, ffs, vendorConfig>>
      /\ batch' \in Nat /\ k' \in {k, 1} /\ mpc = "dispatch" /\ mpc' \in MonitorPC \ {"none", "lock"}
      /\ ready' \subseteq {"inotify", "event"}
      /\ inotifyQ' \in 0..InotifyQueueMax /\ eventFd' \in Nat
      /\ EventInv'
  <2>1. CASE MonitorEpoll
    BY <2>1 DEF MonitorEpoll, MonitorTypes, KernelTypes, EventInv, MonitorPC
  <2>2. CASE MonitorReadInotify
    BY <2>2 DEF MonitorReadInotify, Least, MonitorTypes, KernelTypes, EventInv, MonitorPC,
                UsbConstants
  <2>3. CASE MonitorReadEvent
    BY <2>3 DEF MonitorReadEvent, MonitorTypes, KernelTypes, EventInv, MonitorPC
  <2>4. QED
    BY <2>1, <2>2, <2>3
<1>2. mEndpointList # <<>> /\ mEndpointList \in Seq(Ffs) /\ 1 \in DOMAIN mEndpointList
  BY <1>1 DEF MonitorResourcesAlive, MemberTypes
<1>3. TypeOK'
  BY <1>1 DEF BinderTypes, MemberTypes, MonitorTypes, KernelTypes
<1>4. LockInv' /\ NoMonitorInv' /\ BoundInv' /\ WatchInv' /\ AnswerInv' /\ LinkInv'
  BY <1>1 DEF LockInv, NoMonitorInv, BoundInv, WatchInv, AnswerInv, LinkInv, RangeOf
<1>5. PullUpInv' /\ MonitorResourcesAlive' /\ SuccessMeansPulledUp'
  BY <1>1, <1>2 DEF PullUpInv, MonitorResourcesAlive, SuccessMeansPulledUp, RangeOf
<1>6. QED
  BY <1>1, <1>3, <1>4, <1>5


-----------------------------------------------------------------------------
\* The empty sequence, as a value of any sequence type.
LEMMA EmptySeq == \A S : <<>> \in Seq(S) /\ RangeOf(<<>>) = {}
BY DEF RangeOf

\* A return with a failure: one answer that is not SUCCESS, or none to give.
FailedAnswer ==
  pc' = "idle" /\ cbs' \in Seq(Status) /\ cbs' # <<"SUCCESS">> /\ AnswerInv'

\* The error paths of setCurrentUsbFunctions and setupFunctions are such returns.
LEMMA FailureAnswers ==
  ASSUME IInv, pc # "idle", NEW s \in {"ERROR", "CONFIGURATION_NOT_SUPPORTED"}, Answer(s),
         UNCHANGED hasCallback
  PROVE  FailedAnswer
BY AnswerDelivers DEF IInv, TypeOK, FailedAnswer, Status

\* Accepting a request only records it: the monitor of the previous one runs on.
LEMMA SetCurrentUsbFunctionsKeepsInv ==
  ASSUME UsbConstants, IInv, NEW functions \in Requests, NEW callback \in BOOLEAN,
         SetCurrentUsbFunctions(functions, callback)
  PROVE  IInv'
<1> USE DEF IInv, TypeOK, SetCurrentUsbFunctions
<1>1. BinderTypes' /\ MemberTypes'
  BY EmptySeq DEF BinderTypes, MemberTypes, BinderPC, UsbConstants
<1>2. MonitorTypes' /\ KernelTypes' /\ EventInv'
  BY DEF MonitorTypes, KernelTypes, EventInv
<1>3. LockInv' /\ NoMonitorInv' /\ BoundInv' /\ WatchInv' /\ AnswerInv' /\ LinkInv'
  BY DEF LockInv, NoMonitorInv, BoundInv, WatchInv, AnswerInv, LinkInv, RangeOf
<1>4. PullUpInv' /\ MonitorResourcesAlive' /\ SuccessMeansPulledUp'
  BY DEF PullUpInv, MonitorResourcesAlive, SuccessMeansPulledUp, RangeOf
<1>5. QED
  BY <1>1, <1>2, <1>3, <1>4

\* Pulling down, and giving up on the device attributes, leaves the old monitor
\* and what it uses alone.
LEMMA TearDownAttributesKeepsInv ==
  ASSUME UsbConstants, IInv, TearDownAttributes
  PROVE  IInv'
<1> USE DEF IInv, TypeOK, TearDownAttributes
<1>1. (pc' = "unlink" /\ cbs' = cbs) \/ FailedAnswer
  BY FailureAnswers
<1>2. BinderTypes' /\ MemberTypes'
  BY <1>1 DEF BinderTypes, MemberTypes, BinderPC, FailedAnswer
<1>3. MonitorTypes' /\ KernelTypes' /\ EventInv'
  BY DEF MonitorTypes, KernelTypes, EventInv
<1>4. LockInv' /\ NoMonitorInv' /\ BoundInv' /\ WatchInv' /\ LinkInv'
  BY <1>1 DEF LockInv, NoMonitorInv, BoundInv, WatchInv, LinkInv, FailedAnswer
<1>5. AnswerInv'
  BY <1>1 DEF AnswerInv, FailedAnswer
<1>6. PullUpInv' /\ MonitorResourcesAlive' /\ SuccessMeansPulledUp'
  BY <1>1 DEF PullUpInv, MonitorResourcesAlive, SuccessMeansPulledUp, AnswerInv, RangeOf,
              FailedAnswer
<1>7. QED
  BY <1>2, <1>3, <1>4, <1>5, <1>6

\* Unlinking one function, or failing to, leaves the old monitor alone too; the
\* gadget stays bound only if nothing was unlinked.
LEMMA UnlinkFunctionKeepsInv ==
  ASSUME UsbConstants, IInv, UnlinkFunction
  PROVE  IInv'
<1> USE DEF IInv, TypeOK, UnlinkFunction
<1>1. /\ (pc' = pc /\ cbs' = cbs) \/ FailedAnswer
      /\ cbs' # <<"SUCCESS">>
  <2>1. cbs = <<>> /\ <<>> # <<"SUCCESS">>
    BY DEF AnswerInv
  <2>2. QED
    BY <2>1, FailureAnswers DEF FailedAnswer
<1>2. links' \subseteq links /\ udc' \in BOOLEAN /\ (udc' => udc /\ links' = links)
  <2>1. udc \in BOOLEAN
    BY DEF KernelTypes
  <2>2. CASE \E f \in links : links' = links \ {f} /\ udc' = FALSE
    BY <2>2
  <2>3. CASE links' = links /\ udc' = udc
    BY <2>1, <2>3
  <2>4. QED
    BY <2>2, <2>3
<1>3. BinderTypes' /\ MemberTypes'
  BY <1>1 DEF BinderTypes, MemberTypes, BinderPC, FailedAnswer
<1>4. MonitorTypes' /\ KernelTypes' /\ EventInv'
  BY <1>2 DEF MonitorTypes, KernelTypes, EventInv
<1>5. LockInv' /\ NoMonitorInv' /\ BoundInv' /\ WatchInv' /\ LinkInv'
  BY <1>1, <1>2 DEF LockInv, NoMonitorInv, BoundInv, WatchInv, LinkInv, FailedAnswer
<1>6. AnswerInv'
  BY <1>1 DEF AnswerInv, FailedAnswer
<1>7. PullUpInv' /\ MonitorResourcesAlive' /\ SuccessMeansPulledUp'
  BY <1>1 DEF PullUpInv, MonitorResourcesAlive, SuccessMeansPulledUp, RangeOf, FailedAnswer
<1>8. QED
  BY <1>3, <1>4, <1>5, <1>6, <1>7

\* The join is entered only with a monitor to join.
LEMMA SignalMonitorKeepsInv ==
  ASSUME UsbConstants, IInv, SignalMonitor
  PROVE  IInv'
<1> USE DEF IInv, TypeOK, SignalMonitor, StopFlag
<1>1. BinderTypes' /\ MemberTypes'
  BY DEF BinderTypes, MemberTypes, BinderPC
<1>2. MonitorTypes' /\ KernelTypes' /\ EventInv'
  BY DEF MonitorTypes, KernelTypes, EventInv
<1>3. LockInv' /\ NoMonitorInv' /\ BoundInv' /\ WatchInv' /\ AnswerInv' /\ LinkInv'
  BY DEF LockInv, NoMonitorInv, BoundInv, WatchInv, AnswerInv, LinkInv, MonitorResourcesAlive
<1>4. PullUpInv' /\ MonitorResourcesAlive' /\ SuccessMeansPulledUp'
  BY DEF PullUpInv, MonitorResourcesAlive, SuccessMeansPulledUp, RangeOf
<1>5. QED
  BY <1>1, <1>2, <1>3, <1>4

\* After the join, or without a monitor, nothing is linked and nobody is left
\* who could bind the gadget.
LEMMA TearDownDoneKeepsInv ==
  ASSUME UsbConstants, IInv, TearDownDone
  PROVE  IInv'
<1>1. /\ mpc' = "none"
      /\ pc \in {"join", "unlink"} /\ links = {} /\ ~udc /\ cbs = <<>>
  BY DEF TearDownDone, JoinMonitor, IInv, BoundInv, AnswerInv, MonitorResourcesAlive
<1> USE DEF IInv, TypeOK, TearDownDone, CloseInotify
<1>2. BinderTypes' /\ MemberTypes'
  BY EmptySeq DEF BinderTypes, MemberTypes, BinderPC
<1>3. MonitorTypes' /\ KernelTypes' /\ EventInv'
  BY <1>1 DEF MonitorTypes, KernelTypes, EventInv, MonitorPC, UsbConstants
<1>4. LockInv' /\ NoMonitorInv' /\ BoundInv' /\ WatchInv' /\ AnswerInv' /\ LinkInv'
  BY <1>1 DEF LockInv, NoMonitorInv, BoundInv, WatchInv, AnswerInv, LinkInv
<1>5. PullUpInv' /\ MonitorResourcesAlive' /\ SuccessMeansPulledUp'
  BY <1>1 DEF PullUpInv, MonitorResourcesAlive, SuccessMeansPulledUp
<1>6. QED
  BY <1>2, <1>3, <1>4, <1>5

\* SUCCESS for NONE claims nothing about a pull-up.
LEMMA AnswerNoneKeepsInv ==
  ASSUME UsbConstants, IInv, AnswerNone
  PROVE  IInv'
<1> USE DEF IInv, TypeOK, AnswerNone
<1>1. pc' = "idle" /\ cbs' \in Seq(Status) /\ AnswerInv'
  BY AnswerDelivers DEF Status
<1>2. BinderTypes' /\ MemberTypes'
  BY <1>1 DEF BinderTypes, MemberTypes, BinderPC
<1>3. MonitorTypes' /\ KernelTypes' /\ EventInv'
  BY DEF MonitorTypes, KernelTypes, EventInv
<1>4. LockInv' /\ NoMonitorInv' /\ BoundInv' /\ WatchInv' /\ LinkInv'
  BY <1>1 DEF LockInv, NoMonitorInv, BoundInv, WatchInv, LinkInv
<1>5. PullUpInv' /\ MonitorResourcesAlive' /\ SuccessMeansPulledUp'
  BY <1>1 DEF PullUpInv, MonitorResourcesAlive, SuccessMeansPulledUp, RangeOf
<1>6. QED
  BY <1>1, <1>2, <1>3, <1>4, <1>5

\* Only a supported request is let through to setupFunctions.
LEMMA ValidateAndSetVidPidKeepsInv ==
  ASSUME UsbConstants, IInv, ValidateAndSetVidPid
  PROVE  IInv'
<1>1. \/ /\ pc' = "validated" /\ cbs' = cbs
         /\ Supported(mCurrentUsbFunctions, VendorFunctions)
      \/ FailedAnswer
  <2>1. pc = "pulledDown" /\ hasCallback' = hasCallback
    BY DEF ValidateAndSetVidPid
  <2>2. CASE Answer("CONFIGURATION_NOT_SUPPORTED") \/ Answer("ERROR")
    BY <2>1, <2>2, FailureAnswers
  <2>3. CASE /\ \E id \in VidPids(mCurrentUsbFunctions, VendorFunctions) : pc' = "validated"
             /\ cbs' = cbs
    BY <2>3 DEF Supported
  <2>4. QED
    BY <2>2, <2>3 DEF ValidateAndSetVidPid
<1>2. /\ pc' = "validated" /\ cbs' = cbs
      /\ mCurrentUsbFunctions # {} /\ ~({"mtp", "ptp"} \subseteq mCurrentUsbFunctions)
      \/ FailedAnswer
  BY <1>1, SupportedRequests
<1>3. vendorConfig' \in Seq(VendorToken)
  BY VendorTypes DEF ValidateAndSetVidPid, IInv, TypeOK
<1>4. /\ pc = "pulledDown"
      /\ UNCHANGED <<hasCallback, todo, memberVars, monitorVars, udc, links, pulled, inotifyVars,
                     ffs, eventFd>>
  BY DEF ValidateAndSetVidPid
<1> USE DEF IInv, TypeOK
<1>5. BinderTypes' /\ MemberTypes'
  BY <1>2, <1>4 DEF BinderTypes, MemberTypes, BinderPC, FailedAnswer
<1>6. MonitorTypes' /\ KernelTypes' /\ EventInv'
  BY <1>3, <1>4 DEF MonitorTypes, KernelTypes, EventInv
<1>7. LockInv' /\ NoMonitorInv' /\ BoundInv' /\ WatchInv' /\ LinkInv'
  BY <1>2, <1>4 DEF LockInv, NoMonitorInv, BoundInv, WatchInv, LinkInv, FailedAnswer
<1>8. AnswerInv'
  BY <1>2, <1>4 DEF AnswerInv, FailedAnswer
<1>9. PullUpInv' /\ MonitorResourcesAlive' /\ SuccessMeansPulledUp'
  BY <1>2, <1>4 DEF PullUpInv, MonitorResourcesAlive, SuccessMeansPulledUp, AnswerInv, RangeOf,
                    FailedAnswer
<1>10. QED
  BY <1>5, <1>6, <1>7, <1>8, <1>9

\* setupFunctions starts with everything requested on its list.
LEMMA BeginSetupKeepsInv ==
  ASSUME UsbConstants, IInv, BeginSetup
  PROVE  IInv'
<1>1. /\ pc = "validated" /\ mLock = "free"
      /\ UNCHANGED <<hasCallback, mCurrentUsbFunctions, mCurrentUsbFunctionsApplied, gadgetPullup,
                     mMonitorCreated, mEndpointList, cvWaiting, monitorVars, gadgetVars,
                     inotifyVars, ffs, eventFd>>
  BY DEF BeginSetup
<1>2. mCurrentUsbFunctions \subseteq GadgetFunction
      /\ ~({"mtp", "ptp"} \subseteq mCurrentUsbFunctions)
  BY <1>1 DEF IInv, TypeOK, MemberTypes, LinkInv
<1>3. vendorConfig \in Seq(VendorToken) /\ todo \in Seq(GadgetFunction \cup VendorToken)
  BY DEF IInv, TypeOK, KernelTypes, BinderTypes
<1>4. \/ /\ pc' = "setup" /\ mLock' = "binder" /\ cbs' = cbs
         /\ mCurrentUsbFunctions \subseteq RangeOf(todo')
         /\ todo' \in Seq(GadgetFunction \cup VendorToken)
         /\ vendorConfig' \in Seq(VendorToken)
      \/ FailedAnswer /\ UNCHANGED <<mLock, todo, vendorConfig>>
  <2>1. KernelTypes
    BY DEF IInv, TypeOK
  <2>2. CASE /\ pc' = "setup" /\ mLock' = "binder" /\ GetVendorFunctions /\ cbs' = cbs
             /\ todo' = LinkOrder(mCurrentUsbFunctions, VendorFunctions)
    BY <1>2, <2>1, <2>2, VendorTypes, LinkOrderCovers
  <2>3. CASE Answer("ERROR") /\ UNCHANGED <<mLock, todo, vendorConfig>>
    BY <1>1, <2>3, FailureAnswers
  <2>4. QED
    BY <2>2, <2>3 DEF BeginSetup
<1> USE DEF IInv, TypeOK
<1>5. BinderTypes' /\ MemberTypes'
  BY <1>1, <1>3, <1>4 DEF BinderTypes, MemberTypes, BinderPC, FailedAnswer
<1>6. MonitorTypes' /\ KernelTypes' /\ EventInv'
  BY <1>1, <1>3, <1>4 DEF MonitorTypes, KernelTypes, EventInv
<1>7. LockInv' /\ NoMonitorInv' /\ BoundInv'
  BY <1>1, <1>4 DEF LockInv, NoMonitorInv, BoundInv, FailedAnswer
<1>8. WatchInv'
  BY <1>1, <1>4, EmptySeq DEF WatchInv, FailedAnswer
<1>9. LinkInv'
  BY <1>1, <1>4 DEF LinkInv, BoundInv, FailedAnswer
<1>10. AnswerInv'
  BY <1>1, <1>4 DEF AnswerInv, FailedAnswer
<1>11. PullUpInv' /\ MonitorResourcesAlive' /\ SuccessMeansPulledUp'
  BY <1>1, <1>4 DEF PullUpInv, MonitorResourcesAlive, SuccessMeansPulledUp, AnswerInv, RangeOf,
                    FailedAnswer
<1>12. QED
  BY <1>5, <1>6, <1>7, <1>8, <1>9, <1>10, <1>11

\* Early returns of setupFunctions leave no monitor behind, so the links and
\* the endpoint list they leave are harmless.
LEMMA SetupFailsKeepsInv ==
  ASSUME UsbConstants, IInv, pc = "setup", SetupFails,
         UNCHANGED <<hasCallback, mCurrentUsbFunctions, mCurrentUsbFunctionsApplied, gadgetPullup,
                     mMonitorCreated, cvWaiting, monitorVars, udc, vidpid, pulled, ffs, eventFd,
                     vendorConfig>>
  PROVE  IInv'
<1>1. FailedAnswer
  BY FailureAnswers DEF SetupFails
<1>2. mpc = "none"
  BY DEF IInv, NoMonitorInv
<1>3. /\ mLock' = "free" /\ todo' = <<>> /\ watches' = {} /\ inotifyQ' = 0
      /\ UNCHANGED <<links, mEndpointList>>
  BY DEF SetupFails, CloseInotify
<1> USE DEF IInv, TypeOK
<1>4. BinderTypes' /\ MemberTypes'
  BY <1>1, <1>3, EmptySeq DEF BinderTypes, MemberTypes, BinderPC, FailedAnswer
<1>5. MonitorTypes' /\ KernelTypes' /\ EventInv'
  BY <1>2, <1>3 DEF MonitorTypes, KernelTypes, EventInv, UsbConstants
<1>6. LockInv' /\ NoMonitorInv' /\ BoundInv' /\ WatchInv' /\ LinkInv' /\ AnswerInv'
  BY <1>1, <1>3 DEF LockInv, NoMonitorInv, BoundInv, WatchInv, LinkInv, FailedAnswer
<1>7. PullUpInv' /\ MonitorResourcesAlive' /\ SuccessMeansPulledUp'
  BY <1>1, <1>2, <1>3 DEF PullUpInv, MonitorResourcesAlive, SuccessMeansPulledUp, FailedAnswer
<1>8. QED
  BY <1>4, <1>5, <1>6, <1>7

\* Appending to the endpoint list, and going on to the rest of the to-do list.
LEMMA RangeOfAppend ==
  ASSUME NEW S, NEW s \in Seq(S), NEW x \in S
  PROVE  Append(s, x) \in Seq(S) /\ RangeOf(Append(s, x)) = RangeOf(s) \cup {x}
<1>1. /\ Append(s, x) \in Seq(S) /\ DOMAIN Append(s, x) = 1..(Len(s) + 1)
      /\ \A i \in 1..Len(s) : Append(s, x)[i] = s[i]
      /\ Append(s, x)[Len(s) + 1] = x /\ Len(s) \in Nat /\ DOMAIN s = 1..Len(s)
  OBVIOUS
<1>2. QED
  BY <1>1 DEF RangeOf

\* A sequence's elements are its head and those of its tail.
LEMMA RangeOfHeadTail ==
  ASSUME NEW S, NEW s \in Seq(S), s # <<>>
  PROVE  Head(s) \in S /\ Tail(s) \in Seq(S) /\ RangeOf(s) = {Head(s)} \cup RangeOf(Tail(s))
<1>1. /\ Head(s) = s[1] /\ Tail(s) \in Seq(S) /\ Len(s) \in Nat /\ Len(s) > 0
      /\ DOMAIN s = 1..Len(s) /\ DOMAIN Tail(s) = 1..(Len(s) - 1)
      /\ \A i \in 1..(Len(s) - 1) : Tail(s)[i] = s[i + 1]
      /\ \A i \in 1..Len(s) : s[i] \in S
  OBVIOUS
<1>2. ASSUME NEW x \in RangeOf(s) PROVE x \in {Head(s)} \cup RangeOf(Tail(s))
  <2>1. PICK i \in 1..Len(s) : x = s[i]
    BY <1>1 DEF RangeOf
  <2>2. CASE i = 1
    BY <1>1, <2>1, <2>2
  <2>3. CASE i # 1
    <3>1. i - 1 \in 1..(Len(s) - 1) /\ Tail(s)[i - 1] = x
      BY <1>1, <2>1, <2>3
    <3>2. QED
      BY <1>1, <3>1 DEF RangeOf
  <2>4. QED
    BY <2>2, <2>3
<1>3. ASSUME NEW x \in RangeOf(Tail(s)) PROVE x \in RangeOf(s)
  <2>1. PICK i \in 1..(Len(s) - 1) : x = Tail(s)[i]
    BY <1>1 DEF RangeOf
  <2>2. i + 1 \in 1..Len(s) /\ s[i + 1] = x
    BY <1>1, <2>1
  <2>3. QED
    BY <1>1, <2>2 DEF RangeOf
<1>4. Head(s) \in RangeOf(s) /\ Head(s) \in S
  BY <1>1 DEF RangeOf
<1>5. QED
  BY <1>1, <1>2, <1>3, <1>4

\* A FunctionFS function is watched and listed in the step that links it, so the
\* watches and the list agree; what is linked moves from todo to links.
LEMMA LinkFunctionKeepsInv ==
  ASSUME UsbConstants, IInv, LinkFunction
  PROVE  IInv'
<1> DEFINE f == Head(todo)
<1>1. /\ pc = "setup" /\ todo # <<>>
      /\ UNCHANGED <<hasCallback, mCurrentUsbFunctions, mCurrentUsbFunctionsApplied, gadgetPullup,
                     mMonitorCreated, cvWaiting, monitorVars, udc, vidpid, pulled, ffs, eventFd,
                     vendorConfig>>
  BY DEF LinkFunction
<1>2. /\ f \in GadgetFunction \cup VendorToken
      /\ Tail(todo) \in Seq(GadgetFunction \cup VendorToken)
      /\ RangeOf(todo) = {f} \cup RangeOf(Tail(todo))
  BY <1>1, RangeOfHeadTail DEF IInv, TypeOK, BinderTypes
<1>3. mpc = "none" /\ mEndpointList \in Seq(Ffs) /\ watches = RangeOf(mEndpointList) /\ cbs = <<>>
  BY <1>1 DEF IInv, TypeOK, NoMonitorInv, MemberTypes, WatchInv, AnswerInv
<1> HIDE DEF f
<1>4. CASE f \in LinkName /\ SetupFails
  BY <1>1, <1>4, SetupFailsKeepsInv
<1>5. CASE /\ \/ /\ f \in LinkName
                 /\ links' = links \cup {f} /\ watches' = watches \cup ({f} \cap Ffs)
                 /\ mEndpointList' = IF f \in Ffs THEN Append(mEndpointList, f)
                                                  ELSE mEndpointList
              \/ f \notin LinkName /\ UNCHANGED <<links, watches, mEndpointList>>
           /\ todo' = Tail(todo) /\ UNCHANGED <<pc, cbs, mLock, inotifyQ>>
  <2>1. /\ mEndpointList' \in Seq(Ffs) /\ RangeOf(mEndpointList') = watches'
        /\ watches' \subseteq RangeOf(mEndpointList) \cup {f} /\ watches' \subseteq Ffs
        /\ watches \subseteq watches' /\ (f \in LinkName \cap Ffs => f \in watches')
    <3>1. CASE f \in LinkName \cap Ffs
      <4>1. mEndpointList' = Append(mEndpointList, f) /\ watches' = watches \cup {f}
        BY <1>5, <3>1
      <4>2. /\ Append(mEndpointList, f) \in Seq(Ffs)
            /\ RangeOf(Append(mEndpointList, f)) = RangeOf(mEndpointList) \cup {f}
        BY <1>3, <3>1, RangeOfAppend
      <4>3. watches \subseteq Ffs
        BY DEF IInv, TypeOK, KernelTypes
      <4>4. QED
        BY <1>3, <3>1, <4>1, <4>2, <4>3
    <3>2. CASE f \notin LinkName \cap Ffs
      BY <1>3, <1>5, <3>2 DEF IInv, TypeOK, KernelTypes
    <3>3. QED
      BY <3>1, <3>2
  <2>2. /\ links \subseteq links' /\ links' \subseteq links \cup {f} /\ links' \subseteq LinkName
        /\ f \in GadgetFunction => f \in links'
    BY <1>5 DEF IInv, TypeOK, KernelTypes, LinkName
  <2> USE DEF IInv, TypeOK
  <2>3. BinderTypes' /\ MemberTypes'
    BY <1>1, <1>2, <1>5, <2>1 DEF BinderTypes, MemberTypes
  <2>4. MonitorTypes' /\ KernelTypes' /\ EventInv'
    BY <1>1, <1>5, <2>1, <2>2 DEF MonitorTypes, KernelTypes, EventInv
  <2>5. LockInv' /\ NoMonitorInv' /\ BoundInv' /\ WatchInv' /\ AnswerInv'
    BY <1>1, <1>5, <2>1, <2>2 DEF LockInv, NoMonitorInv, BoundInv, WatchInv, AnswerInv
  <2>6. LinkInv'
    <3>1. mCurrentUsbFunctions \subseteq links \cup RangeOf(todo)
          /\ mCurrentUsbFunctions \subseteq GadgetFunction
          /\ mCurrentUsbFunctions # {} /\ ~({"mtp", "ptp"} \subseteq mCurrentUsbFunctions)
          /\ links \cap Ffs \subseteq RangeOf(mEndpointList)
      BY <1>1 DEF LinkInv, MemberTypes
    <3>2. mCurrentUsbFunctions \subseteq links' \cup RangeOf(Tail(todo))
      BY <1>2, <2>2, <3>1
    <3>3. links' \cap Ffs \subseteq RangeOf(mEndpointList')
      BY <1>3, <1>5, <2>1, <2>2, <3>1
    <3>4. QED
      BY <1>1, <1>5, <3>1, <3>2, <3>3 DEF LinkInv
  <2>7. PullUpInv' /\ MonitorResourcesAlive' /\ SuccessMeansPulledUp'
    BY <1>1, <1>3, <1>5 DEF PullUpInv, MonitorResourcesAlive, SuccessMeansPulledUp
  <2>8. QED
    BY <2>3, <2>4, <2>5, <2>6, <2>7
<1>6. QED
  BY <1>4, <1>5 DEF LinkFunction, Watch, f

\* A pull-up without a monitor shows every requested function, for nothing is
\* left to link.
LEMMA PullUpNowKeepsInv ==
  ASSUME UsbConstants, IInv, PullUpNow
  PROVE  IInv'
<1>1. /\ pc = "setup" /\ todo = <<>>
      /\ UNCHANGED <<hasCallback, mCurrentUsbFunctions, gadgetPullup, mMonitorCreated, cvWaiting,
                     monitorVars, ffs, eventFd, vendorConfig>>
  BY DEF PullUpNow
<1>2. mpc = "none" /\ mCurrentUsbFunctions \subseteq links
  BY <1>1, EmptySeq DEF IInv, NoMonitorInv, LinkInv
<1>3. CASE WriteUdcFails /\ SetupFails /\ UNCHANGED mCurrentUsbFunctionsApplied
  BY <1>1, <1>3, SetupFailsKeepsInv DEF WriteUdcFails
<1>4. CASE /\ WriteUdc /\ mCurrentUsbFunctionsApplied' = TRUE /\ Answer("SUCCESS")
           /\ mLock' = "free" /\ CloseInotify /\ UNCHANGED <<todo, mEndpointList>>
  <2>1. pc' = "idle" /\ cbs' \in Seq(Status) /\ AnswerInv'
    BY <1>1, <1>4, AnswerDelivers DEF IInv, TypeOK, Status
  <2>2. /\ links # {} /\ udc' = TRUE /\ pulled' = links /\ links' = links
        /\ watches' = {} /\ inotifyQ' = 0
    BY <1>4 DEF WriteUdc, BindOk, CloseInotify
  <2> USE DEF IInv, TypeOK
  <2>3. BinderTypes' /\ MemberTypes'
    BY <1>1, <1>4, <2>1 DEF BinderTypes, MemberTypes, BinderPC
  <2>4. MonitorTypes' /\ KernelTypes' /\ EventInv'
    BY <1>1, <1>2, <2>2 DEF MonitorTypes, KernelTypes, EventInv, UsbConstants
  <2>5. LockInv' /\ NoMonitorInv' /\ BoundInv' /\ WatchInv' /\ LinkInv'
    BY <1>1, <1>4, <2>1, <2>2 DEF LockInv, NoMonitorInv, BoundInv, WatchInv, LinkInv
  <2>6. PullUpInv' /\ MonitorResourcesAlive' /\ SuccessMeansPulledUp'
    BY <1>1, <1>2, <1>4, <2>1, <2>2
    DEF PullUpInv, MonitorResourcesAlive, SuccessMeansPulledUp
  <2>7. QED
    BY <2>1, <2>3, <2>4, <2>5, <2>6
<1>5. QED
  BY <1>3, <1>4 DEF PullUpNow

\* The monitor starts with a filled endpoint list, all of it watched, and with
\* gadgetPullup cleared.
LEMMA StartMonitorKeepsInv ==
  ASSUME UsbConstants, IInv, StartMonitor
  PROVE  IInv'
<1>1. /\ pc = "setup" /\ todo = <<>> /\ FfsEnabled
      /\ UNCHANGED <<hasCallback, mCurrentUsbFunctions, mCurrentUsbFunctionsApplied, udc, vidpid,
                     pulled, ffs, eventFd, vendorConfig>>
  BY DEF StartMonitor
<1>2. /\ mCurrentUsbFunctions \subseteq links /\ watches = RangeOf(mEndpointList) /\ ~udc
      /\ links \cap Ffs \subseteq RangeOf(mEndpointList) /\ cbs = <<>>
      /\ mEndpointList \in Seq(Ffs)
  BY <1>1, EmptySeq DEF IInv, TypeOK, LinkInv, WatchInv, AnswerInv, MemberTypes, BoundInv
<1>3. mEndpointList # <<>>
  <2>1. PICK f \in Ffs : f \in RangeOf(mEndpointList)
    BY <1>1, <1>2 DEF FfsEnabled
  <2>2. QED
    BY <2>1, EmptySeq
<1>4. CASE "fds" \in Faults /\ SetupFails
           /\ UNCHANGED <<gadgetPullup, mMonitorCreated, cvWaiting, monitorVars>>
  BY <1>1, <1>4, SetupFailsKeepsInv
<1>5. CASE /\ gadgetPullup' = FALSE /\ mMonitorCreated' = TRUE
           /\ mpc' = "check" /\ writeUdc' = TRUE /\ ready' = {} /\ batch' = 1 /\ k' = 1
           /\ mLock' = "free" /\ cvWaiting' = hasCallback
           /\ pc' = (IF hasCallback THEN "cvWait" ELSE "idle")
           /\ UNCHANGED <<todo, cbs, links, mEndpointList, inotifyVars>>
  <2>1. 1 \in DOMAIN mEndpointList
    BY <1>2, <1>3
  <2>2. hasCallback \in BOOLEAN
    BY DEF IInv, TypeOK, BinderTypes
  <2> USE DEF IInv, TypeOK
  <2>3. BinderTypes' /\ MemberTypes'
    BY <1>1, <1>5, <2>2 DEF BinderTypes, MemberTypes, BinderPC
  <2>4. MonitorTypes' /\ KernelTypes' /\ EventInv'
    BY <1>1, <1>5 DEF MonitorTypes, KernelTypes, EventInv, MonitorPC
  <2>5. LockInv' /\ NoMonitorInv' /\ BoundInv' /\ WatchInv' /\ LinkInv'
    BY <1>1, <1>2, <1>5 DEF LockInv, NoMonitorInv, BoundInv, WatchInv, LinkInv
  <2>6. AnswerInv'
    BY <1>1, <1>2, <1>5, <2>2 DEF AnswerInv
  <2>7. PullUpInv' /\ SuccessMeansPulledUp'
    BY <1>1, <1>2, <1>5 DEF PullUpInv, SuccessMeansPulledUp
  <2>8. MonitorResourcesAlive'
    BY <1>2, <1>3, <1>5, <2>1 DEF MonitorResourcesAlive, RangeOf
  <2>9. QED
    BY <2>3, <2>4, <2>5, <2>6, <2>7, <2>8
<1>6. QED
  BY <1>4, <1>5 DEF StartMonitor, StartThread

\* The end of the wait, notified or not, changes nothing but who holds mLock.
LEMMA WakeUpKeepsInv ==
  ASSUME UsbConstants, IInv, WakeUp
  PROVE  IInv'
<1> USE DEF IInv, TypeOK, WakeUp
<1>1. BinderTypes' /\ MemberTypes'
  BY DEF BinderTypes, MemberTypes, BinderPC
<1>2. MonitorTypes' /\ KernelTypes' /\ EventInv'
  BY DEF MonitorTypes, KernelTypes, EventInv
<1>3. LockInv' /\ NoMonitorInv' /\ BoundInv' /\ WatchInv' /\ AnswerInv' /\ LinkInv'
  BY DEF LockInv, NoMonitorInv, BoundInv, WatchInv, AnswerInv, LinkInv
<1>4. PullUpInv' /\ MonitorResourcesAlive' /\ SuccessMeansPulledUp'
  BY DEF PullUpInv, MonitorResourcesAlive, SuccessMeansPulledUp, RangeOf
<1>5. QED
  BY <1>1, <1>2, <1>3, <1>4

\* SUCCESS is told only for a pull-up the monitor of this request published.
LEMMA CallbackKeepsInv ==
  ASSUME UsbConstants, IInv, Callback
  PROVE  IInv'
<1> DEFINE s == IF gadgetPullup THEN "SUCCESS" ELSE "ERROR"
<1>1. /\ pc = "callback" /\ mLock' = "free" /\ Answer(s)
      /\ UNCHANGED <<hasCallback, todo, mCurrentUsbFunctions, mCurrentUsbFunctionsApplied,
                     gadgetPullup, mMonitorCreated, mEndpointList, cvWaiting, monitorVars,
                     gadgetVars, inotifyVars, ffs, eventFd, vendorConfig>>
  BY DEF Callback
<1>2. s \in Status /\ (s = "SUCCESS" => gadgetPullup)
  BY DEF Status
<1> HIDE DEF s
<1>3. /\ pc' = "idle" /\ cbs' \in Seq(Status) /\ AnswerInv'
      /\ cbs' = <<"SUCCESS">> => gadgetPullup
  BY <1>1, <1>2, AnswerDelivers DEF IInv, TypeOK
<1> USE DEF IInv, TypeOK
<1>4. BinderTypes' /\ MemberTypes'
  BY <1>1, <1>3 DEF BinderTypes, MemberTypes, BinderPC
<1>5. MonitorTypes' /\ KernelTypes' /\ EventInv'
  BY <1>1 DEF MonitorTypes, KernelTypes, EventInv
<1>6. LockInv' /\ NoMonitorInv' /\ BoundInv' /\ WatchInv' /\ LinkInv'
  BY <1>1, <1>3 DEF LockInv, NoMonitorInv, BoundInv, WatchInv, LinkInv
<1>7. PullUpInv' /\ SuccessMeansPulledUp'
  BY <1>1, <1>3 DEF PullUpInv, SuccessMeansPulledUp, LinkInv
<1>8. MonitorResourcesAlive'
  BY <1>1 DEF MonitorResourcesAlive, RangeOf
<1>9. QED
  BY <1>3, <1>4, <1>5, <1>6, <1>7, <1>8

\* A crash at any point leaves a state the next process can start from.
LEMMA CrashKeepsInv ==
  ASSUME UsbConstants, IInv, Crash
  PROVE  IInv'
<1> USE DEF IInv, TypeOK, Crash, CloseInotify
<1>1. BinderTypes' /\ MemberTypes'
  BY EmptySeq DEF BinderTypes, MemberTypes, BinderPC, UsbConstants
<1>2. MonitorTypes' /\ KernelTypes' /\ EventInv'
  BY DEF MonitorTypes, KernelTypes, EventInv, MonitorPC, UsbConstants
<1>3. LockInv' /\ NoMonitorInv' /\ BoundInv' /\ WatchInv' /\ AnswerInv' /\ LinkInv'
  BY DEF LockInv, NoMonitorInv, BoundInv, WatchInv, AnswerInv, LinkInv
<1>4. PullUpInv' /\ MonitorResourcesAlive' /\ SuccessMeansPulledUp'
  BY DEF PullUpInv, MonitorResourcesAlive, SuccessMeansPulledUp
<1>5. QED
  BY <1>1, <1>2, <1>3, <1>4

-----------------------------------------------------------------------------
(***************************************************************************)
(* The theorems.                                                           *)
(***************************************************************************)

\* The constructor establishes the invariant.
LEMMA InitInv ==
  ASSUME UsbConstants, Init
  PROVE  IInv
<1> USE DEF Init
<1>1. BinderTypes /\ MemberTypes
  BY EmptySeq DEF BinderTypes, MemberTypes, BinderPC, UsbConstants
<1>2. MonitorTypes /\ KernelTypes /\ EventInv
  <2>1. ffs \in [Ffs -> {"closed", "open", "ready", "dead"}]
    OBVIOUS
  <2>2. vendorConfig \in Seq(VendorToken)
    BY EmptySeq
  <2>3. inotifyQ \in 0..InotifyQueueMax
    BY DEF UsbConstants
  <2>4. KernelTypes
    BY <2>1, <2>2, <2>3 DEF KernelTypes
  <2>5. MonitorTypes /\ EventInv
    BY DEF MonitorTypes, EventInv, MonitorPC
  <2>6. QED
    BY <2>4, <2>5
<1>3. LockInv /\ NoMonitorInv /\ BoundInv /\ WatchInv /\ AnswerInv /\ LinkInv
  BY DEF LockInv, NoMonitorInv, BoundInv, WatchInv, AnswerInv, LinkInv
<1>4. PullUpInv /\ MonitorResourcesAlive /\ SuccessMeansPulledUp
  BY DEF PullUpInv, MonitorResourcesAlive, SuccessMeansPulledUp
<1>5. QED
  BY <1>1, <1>2, <1>3, <1>4 DEF IInv, TypeOK

\* Every step of every actor preserves it.
LEMMA NextKeepsInv ==
  ASSUME UsbConstants, IInv, [Next]_vars
  PROVE  IInv'
<1>1. CASE Clients
  BY <1>1, SetCurrentUsbFunctionsKeepsInv, EnvironmentActions, EnvironmentKeepsInv
  DEF Clients, IInv
<1>2. CASE Binder
  BY <1>2, TearDownAttributesKeepsInv, UnlinkFunctionKeepsInv, SignalMonitorKeepsInv,
     TearDownDoneKeepsInv, AnswerNoneKeepsInv, ValidateAndSetVidPidKeepsInv, BeginSetupKeepsInv,
     LinkFunctionKeepsInv, PullUpNowKeepsInv, StartMonitorKeepsInv, WakeUpKeepsInv,
     CallbackKeepsInv
  DEF Binder, CvNotified
<1>3. CASE CvTimeout
  BY <1>3, WakeUpKeepsInv DEF CvTimeout
<1>4. CASE Monitor
  BY <1>4, MonitorCheckKeepsInv, MonitorWriteUdcKeepsInv, MonitorPublishKeepsInv,
     MonitorWaitKeepsInv
  DEF Monitor
<1>5. CASE Daemons \/ SetVendorConfig
  BY <1>5, EnvironmentActions, EnvironmentKeepsInv DEF IInv
<1>6. CASE Crash
  BY <1>6, CrashKeepsInv
<1>7. CASE UNCHANGED vars
  <2>1. EnvironmentStep
    BY <1>7 DEF EnvironmentStep, vars, IInv, TypeOK, KernelTypes, UsbConstants
  <2>2. QED
    BY <2>1, EnvironmentKeepsInv
<1>8. QED
  BY <1>1, <1>2, <1>3, <1>4, <1>5, <1>6, <1>7 DEF Next

\* The invariant holds in every state of the HAL, whatever fails.
THEOREM Invariant == Spec => []IInv
<1>1. Init => IInv
  BY InitInv, UsbConstants
<1>2. IInv /\ [Next]_vars => IInv'
  BY NextKeepsInv, UsbConstants
<1>3. QED
  BY <1>1, <1>2, PTL DEF Spec

\* Type correctness, including that the event accounting of monitorFfs never
\* goes below zero.
THEOREM TypeCorrect == Spec => []TypeOK
<1>1. IInv => TypeOK
  BY DEF IInv
<1>2. QED
  BY <1>1, Invariant, PTL

\* During the disconnect wait the gadget is down and stays down, whatever the
\* old monitor did while tearDownGadget ran, and whatever failed before.
THEOREM QuietPeriod == Spec => []DisconnectWaitIsDown
<1>1. IInv => DisconnectWaitIsDown
  BY DEF IInv, TypeOK, KernelTypes, BoundInv, NoMonitorInv, DisconnectWaitIsDown
<1>2. QED
  BY <1>1, Invariant, PTL

\* The descriptors and the endpoint list monitorFfs uses without a lock are
\* there as long as it runs, also after failed calls.
THEOREM MonitorSafe == Spec => []MonitorResourcesAlive
<1>1. IInv => MonitorResourcesAlive
  BY DEF IInv
<1>2. QED
  BY <1>1, Invariant, PTL

\* A callback is called exactly once per request, on every path.
THEOREM OneAnswer == Spec => []AnsweredExactlyOnce
<1>1. IInv => AnsweredExactlyOnce
  BY DEF IInv, TypeOK, BinderTypes, AnswerInv, AnsweredExactlyOnce
<1>2. QED
  BY <1>1, Invariant, PTL

\* SUCCESS is never told for a pull-up that did not happen in this request.
THEOREM HonestSuccess == Spec => []SuccessMeansPulledUp
<1>1. IInv => SuccessMeansPulledUp
  BY DEF IInv
<1>2. QED
  BY <1>1, Invariant, PTL

\* mEndpointList does not change under a running monitorFfs.
THEOREM ListStable == Spec => EndpointListStable
<1>1. IInv /\ [Next]_vars => [mpc # "none" /\ mpc' # "none" => mEndpointList' = mEndpointList]_vars
  <2> SUFFICES ASSUME IInv, Next, mpc # "none", mpc' # "none"
               PROVE  mEndpointList' = mEndpointList
    OBVIOUS
  <2>1. CASE Clients \/ CvTimeout \/ Daemons \/ SetVendorConfig
    BY <2>1 DEF Clients, SetCurrentUsbFunctions, Reset, CvTimeout, WakeUp, Daemons, DaemonOpen,
                DaemonReady, DaemonDie, DaemonIo, SetVendorConfig
  <2>2. CASE Monitor
    BY <2>2 DEF Monitor, MonitorCheck, MonitorWriteUdc, MonitorPublish, MonitorEpoll,
                MonitorReadInotify, MonitorReadEvent
  <2>3. CASE Binder
    BY <2>3 DEF IInv, NoMonitorInv, Binder, TearDownAttributes, UnlinkFunction, SignalMonitor,
                TearDownDone, JoinMonitor, MonitorResourcesAlive, AnswerNone, ValidateAndSetVidPid,
                BeginSetup, LinkFunction, PullUpNow, StartMonitor, SetupFails, CvNotified, WakeUp, Callback
  <2>4. CASE Crash
    BY <2>4 DEF Crash
  <2>5. QED
    BY <2>1, <2>2, <2>3, <2>4 DEF Next
<1>2. QED
  BY <1>1, Invariant, PTL DEF Spec, EndpointListStable
-----------------------------------------------------------------------------
(***************************************************************************)
(* The HAL implements UsbSession: every step is a step of the session the  *)
(* framework and the host see, or no step of it.                           *)
(***************************************************************************)
SessionAnswer == IF cbs = <<>> THEN "none" ELSE cbs[1]

SessionStep == [Session!Next]_(Session!sessionVars)

\* The phase of the session in terms of where the binder thread is.
LEMMA PhaseOf ==
  ASSUME pc \in BinderPC, pc' \in BinderPC
  PROVE  /\ pc = "idle" <=> Phase = "idle"
         /\ pc \in {"tearDown", "unlink", "join"} => Phase = "closing"
         /\ pc \in {"pulledDown", "validated"} <=> Phase = "quiet"
         /\ pc \in {"setup", "cvWait", "callback"} => Phase = "opening"
         /\ pc' = "idle" => Phase' = "idle"
         /\ pc' \in {"tearDown", "unlink", "join"} => Phase' = "closing"
         /\ pc' \in {"pulledDown", "validated"} => Phase' = "quiet"
         /\ pc' \in {"setup", "cvWait", "callback"} => Phase' = "opening"
BY Zenon DEF Phase, BinderPC

\* Steps that change nothing the framework or the host sees.
LEMMA StutterSteps ==
  ASSUME Phase' = Phase, UNCHANGED <<mCurrentUsbFunctions, udc, pulled, cbs>>
  PROVE  SessionStep
BY DEF SessionStep, Session!sessionVars

\* Taking the gadget down without doing anything else.
LEMMA DetachSteps ==
  ASSUME Phase' = Phase, udc' = FALSE, UNCHANGED <<mCurrentUsbFunctions, pulled, cbs>>
  PROVE  SessionStep
BY DEF SessionStep, Session!Next, Session!Detach

\* A failed call, on whatever path: the framework gets a failure or has not
\* asked for an answer.
LEMMA FailSteps ==
  ASSUME IInv, pc # "idle", NEW s \in {"ERROR", "CONFIGURATION_NOT_SUPPORTED"}, Answer(s),
         udc' \in {udc, FALSE}, UNCHANGED <<hasCallback, mCurrentUsbFunctions, pulled>>
  PROVE  SessionStep
<1>1. pc' = "idle" /\ cbs' = IF hasCallback THEN <<s>> ELSE <<>>
  BY AnswerDelivers DEF IInv, TypeOK, Status
<1>2. SessionAnswer' \in {s, "none"}
  BY <1>1 DEF SessionAnswer
<1>3. Phase # "idle" /\ Phase' = "idle"
  BY <1>1, PhaseOf DEF IInv, TypeOK, BinderTypes, BinderPC
<1>4. Session!Fail
  BY <1>2, <1>3 DEF Session!Fail, Session!Failures, SessionAnswer
<1>5. QED
  BY <1>4 DEF SessionStep, Session!Next

\* A client's call begins a session; reset() only detaches the device.
LEMMA ClientSteps ==
  ASSUME IInv, Clients
  PROVE  SessionStep
<1>1. ASSUME NEW fs \in Requests, NEW cb \in BOOLEAN, SetCurrentUsbFunctions(fs, cb)
      PROVE  SessionStep
  <2>1. /\ pc = "idle" /\ pc' = "tearDown" /\ mCurrentUsbFunctions' = fs /\ cbs' = <<>>
        /\ UNCHANGED <<udc, pulled>>
    BY <1>1 DEF SetCurrentUsbFunctions
  <2>2. Phase = "idle" /\ Phase' = "closing"
    BY <2>1, PhaseOf DEF BinderPC
  <2>3. Session!Begin
    BY <2>1, <2>2 DEF Session!Begin
  <2>4. QED
    BY <2>3 DEF SessionStep, Session!Next
<1>2. CASE Reset
  <2>1. udc' = FALSE /\ UNCHANGED <<pc, mCurrentUsbFunctions, pulled, cbs>>
    BY <1>2 DEF Reset
  <2>2. Phase' = Phase
    BY <2>1 DEF Phase
  <2>3. QED
    BY <2>1, <2>2, DetachSteps
<1>3. QED
  BY <1>1, <1>2 DEF Clients

\* Daemons can take the gadget down, never up; the vendor property is not part
\* of the session.
LEMMA DaemonSteps ==
  ASSUME IInv, Daemons \/ SetVendorConfig
  PROVE  SessionStep
<1>1. /\ udc' = udc \/ udc' = FALSE
      /\ UNCHANGED <<pc, mCurrentUsbFunctions, pulled, cbs>>
  BY DEF Daemons, DaemonOpen, DaemonReady, DaemonDie, DaemonIo, SetVendorConfig,
         IInv, TypeOK, KernelTypes
<1>2. Phase' = Phase
  BY <1>1 DEF Phase
<1>3. QED
  BY <1>1, <1>2, DetachSteps, StutterSteps

\* The monitor attaches the device, and there is no monitor in the quiet period.
LEMMA MonitorSteps ==
  ASSUME IInv, Monitor
  PROVE  SessionStep
<1>1. UNCHANGED <<pc, mCurrentUsbFunctions, cbs>>
  BY DEF Monitor, MonitorCheck, MonitorWriteUdc, MonitorPublish, MonitorEpoll,
         MonitorReadInotify, MonitorReadEvent
<1>2. Phase' = Phase
  BY <1>1 DEF Phase
<1>3. CASE UNCHANGED <<udc, pulled>>
  BY <1>1, <1>2, <1>3, StutterSteps
<1>4. CASE mpc = "write" /\ WriteUdc
  <2>1. udc' = TRUE /\ pulled' # {}
    BY <1>4 DEF WriteUdc, BindOk
  <2>2. Phase # "quiet"
    BY <1>1, <1>4, PhaseOf DEF IInv, TypeOK, BinderTypes, NoMonitorInv
  <2>3. Session!Attach
    BY <1>1, <1>2, <2>1, <2>2 DEF Session!Attach
  <2>4. QED
    BY <2>3 DEF SessionStep, Session!Next
<1>5. QED
  BY <1>3, <1>4 DEF Monitor, MonitorCheck, MonitorWriteUdc, WriteUdcFails, MonitorPublish,
                    MonitorEpoll, MonitorReadInotify, MonitorReadEvent

\* tearDownGadget: the device goes, and the quiet period is reached only with
\* all functions unlinked, so detached.
LEMMA TearDownSteps ==
  ASSUME IInv, TearDownAttributes \/ UnlinkFunction \/ SignalMonitor \/ TearDownDone
  PROVE  SessionStep
<1> USE DEF IInv, TypeOK, BinderTypes
<1>1. CASE TearDownAttributes
  <2>1. /\ pc = "tearDown" /\ udc' = FALSE
        /\ UNCHANGED <<hasCallback, mCurrentUsbFunctions, pulled>>
        /\ (pc' = "unlink" /\ UNCHANGED cbs) \/ Answer("ERROR")
    BY <1>1 DEF TearDownAttributes
  <2>2. ASSUME pc' = "unlink" PROVE Phase' = Phase
    BY <2>1, <2>2, PhaseOf DEF BinderPC
  <2>3. QED
    BY <2>1, <2>2, DetachSteps, FailSteps
<1>2. CASE UnlinkFunction
  <2>1. /\ pc = "unlink" /\ UNCHANGED <<hasCallback, mCurrentUsbFunctions, pulled>>
        /\ \/ udc' = FALSE /\ UNCHANGED <<pc, cbs>>
           \/ UNCHANGED udc /\ Answer("ERROR")
    BY <1>2 DEF UnlinkFunction
  <2>2. ASSUME pc' = pc PROVE Phase' = Phase
    BY <2>2 DEF Phase
  <2>3. QED
    BY <2>1, <2>2, DetachSteps, FailSteps
<1>3. CASE SignalMonitor
  <2>1. /\ pc = "unlink" /\ pc' = "join"
        /\ UNCHANGED <<mCurrentUsbFunctions, udc, pulled, cbs>>
    BY <1>3 DEF SignalMonitor
  <2>2. Phase' = Phase
    BY <2>1, PhaseOf DEF BinderPC
  <2>3. QED
    BY <2>1, <2>2, StutterSteps
<1>4. CASE TearDownDone
  <2>1. /\ pc = "join" \/ (pc = "unlink" /\ links = {})
        /\ pc' = "pulledDown" /\ pulled' = {} /\ UNCHANGED <<mCurrentUsbFunctions, udc, cbs>>
    BY <1>4 DEF TearDownDone, JoinMonitor
  <2>2. udc = FALSE
    BY <2>1 DEF BoundInv, KernelTypes
  <2>3. Phase = "closing" /\ Phase' = "quiet"
    BY <2>1, PhaseOf DEF BinderPC
  <2>4. Session!Quiet
    BY <2>1, <2>2, <2>3 DEF Session!Quiet
  <2>5. QED
    BY <2>4 DEF SessionStep, Session!Next
<1>5. QED
  BY <1>1, <1>2, <1>3, <1>4

\* In the quiet period NONE is answered; everything else opens the new
\* configuration or gives up.
LEMMA QuietSteps ==
  ASSUME IInv, AnswerNone \/ ValidateAndSetVidPid \/ BeginSetup
  PROVE  SessionStep
<1> USE DEF IInv, TypeOK, BinderTypes
<1>1. CASE AnswerNone
  <2>1. /\ pc = "pulledDown" /\ mCurrentUsbFunctions = {} /\ Answer("SUCCESS")
        /\ UNCHANGED <<hasCallback, mCurrentUsbFunctions, udc, pulled>>
    BY <1>1 DEF AnswerNone
  <2>2. pc' = "idle" /\ cbs' = IF hasCallback THEN <<"SUCCESS">> ELSE <<>>
    BY <2>1, AnswerDelivers DEF Status
  <2>3. Phase = "quiet" /\ Phase' = "idle"
    BY <2>1, <2>2, PhaseOf DEF BinderPC
  <2>4. SessionAnswer' \in {"SUCCESS", "none"}
    BY <2>2 DEF SessionAnswer
  <2>5. Session!Succeed
    BY <2>1, <2>3, <2>4 DEF Session!Succeed, SessionAnswer
  <2>6. QED
    BY <2>5 DEF SessionStep, Session!Next
<1>2. CASE ValidateAndSetVidPid
  <2>1. /\ pc = "pulledDown" /\ UNCHANGED <<hasCallback, mCurrentUsbFunctions, udc, pulled>>
        /\ \/ Answer("CONFIGURATION_NOT_SUPPORTED")
           \/ Answer("ERROR")
           \/ pc' = "validated" /\ UNCHANGED cbs
    BY <1>2 DEF ValidateAndSetVidPid
  <2>2. ASSUME pc' = "validated" PROVE Phase' = Phase
    BY <2>1, <2>2, PhaseOf DEF BinderPC
  <2>3. QED
    BY <2>1, <2>2, StutterSteps, FailSteps
<1>3. CASE BeginSetup
  <2>1. /\ pc = "validated" /\ UNCHANGED <<hasCallback, mCurrentUsbFunctions, udc, pulled>>
        /\ \/ Answer("ERROR")
           \/ pc' = "setup" /\ UNCHANGED cbs
    BY <1>3 DEF BeginSetup
  <2>2. CASE pc' = "setup" /\ UNCHANGED cbs
    <3>1. Phase = "quiet" /\ Phase' = "opening"
      BY <2>1, <2>2, PhaseOf DEF BinderPC
    <3>2. Session!Open
      BY <2>1, <2>2, <3>1 DEF Session!Open
    <3>3. QED
      BY <3>2 DEF SessionStep, Session!Next
  <2>3. QED
    BY <2>1, <2>2, FailSteps
<1>4. QED
  BY <1>1, <1>2, <1>3

\* setupFunctions answers SUCCESS in the step that attaches the device, or after
\* the monitor of this request has attached it.
LEMMA OpeningSteps ==
  ASSUME IInv, LinkFunction \/ PullUpNow \/ StartMonitor \/ WakeUp \/ Callback
  PROVE  SessionStep
<1> USE DEF IInv, TypeOK, BinderTypes
<1>1. CASE LinkFunction
  <2>1. /\ pc = "setup" /\ UNCHANGED <<hasCallback, mCurrentUsbFunctions, udc, pulled>>
        /\ UNCHANGED <<pc, cbs>> \/ Answer("ERROR")
    BY <1>1 DEF LinkFunction, SetupFails
  <2>2. ASSUME pc' = pc PROVE Phase' = Phase
    BY <2>2 DEF Phase
  <2>3. QED
    BY <2>1, <2>2, StutterSteps, FailSteps
<1>2. CASE PullUpNow
  <2>1. /\ pc = "setup" /\ UNCHANGED <<hasCallback, mCurrentUsbFunctions>>
        /\ \/ WriteUdc /\ Answer("SUCCESS")
           \/ UNCHANGED <<udc, pulled>> /\ Answer("ERROR")
    BY <1>2 DEF PullUpNow, WriteUdcFails, SetupFails
  <2>2. CASE WriteUdc /\ Answer("SUCCESS")
    <3>1. udc' = TRUE /\ pulled' # {}
      BY <2>2 DEF WriteUdc, BindOk
    <3>2. pc' = "idle" /\ cbs' = IF hasCallback THEN <<"SUCCESS">> ELSE <<>>
      BY <2>1, <2>2, AnswerDelivers DEF Status
    <3>3. Phase = "opening" /\ Phase' = "idle"
      BY <2>1, <3>2, PhaseOf DEF BinderPC
    <3>4. SessionAnswer' \in {"SUCCESS", "none"}
      BY <3>2 DEF SessionAnswer
    <3>5. Session!Succeed
      BY <2>1, <3>1, <3>3, <3>4 DEF Session!Succeed, SessionAnswer
    <3>6. QED
      BY <3>5 DEF SessionStep, Session!Next
  <2>3. QED
    BY <2>1, <2>2, FailSteps
<1>3. CASE StartMonitor
  <2>1. /\ pc = "setup" /\ UNCHANGED <<hasCallback, mCurrentUsbFunctions, udc, pulled>>
        /\ \/ pc' = (IF hasCallback THEN "cvWait" ELSE "idle") /\ UNCHANGED cbs
           \/ Answer("ERROR")
    BY <1>3 DEF StartMonitor, SetupFails
  <2>2. CASE pc' = "cvWait" /\ UNCHANGED cbs
    <3>1. Phase' = Phase
      BY <2>1, <2>2, PhaseOf DEF BinderPC
    <3>2. QED
      BY <2>1, <2>2, <3>1, StutterSteps
  <2>3. CASE pc' = "idle" /\ UNCHANGED cbs
    <3>1. cbs = <<>>
      BY <2>1 DEF AnswerInv
    <3>2. Phase = "opening" /\ Phase' = "idle"
      BY <2>1, <2>3, PhaseOf DEF BinderPC
    <3>3. Session!Fail
      BY <2>1, <2>3, <3>1, <3>2 DEF Session!Fail
    <3>4. QED
      BY <3>3 DEF SessionStep, Session!Next
  <2>4. QED
    BY <2>1, <2>2, <2>3, FailSteps
<1>4. CASE WakeUp
  <2>1. /\ pc = "cvWait" /\ pc' = "callback"
        /\ UNCHANGED <<mCurrentUsbFunctions, udc, pulled, cbs>>
    BY <1>4 DEF WakeUp
  <2>2. Phase' = Phase
    BY <2>1, PhaseOf DEF BinderPC
  <2>3. QED
    BY <2>1, <2>2, StutterSteps
<1>5. CASE Callback
  <2>1. /\ pc = "callback" /\ UNCHANGED <<hasCallback, mCurrentUsbFunctions, udc, pulled>>
        /\ \/ gadgetPullup /\ Answer("SUCCESS")
           \/ Answer("ERROR")
    BY <1>5 DEF Callback
  <2>2. CASE gadgetPullup /\ Answer("SUCCESS")
    <3>1. pulled # {}
      BY <2>1, <2>2 DEF LinkInv, PullUpInv
    <3>2. pc' = "idle" /\ cbs' = IF hasCallback THEN <<"SUCCESS">> ELSE <<>>
      BY <2>1, <2>2, AnswerDelivers DEF Status
    <3>3. Phase = "opening" /\ Phase' = "idle"
      BY <2>1, <3>2, PhaseOf DEF BinderPC
    <3>4. SessionAnswer' \in {"SUCCESS", "none"}
      BY <3>2 DEF SessionAnswer
    <3>5. Session!Succeed
      BY <2>1, <3>1, <3>3, <3>4 DEF Session!Succeed, SessionAnswer
    <3>6. QED
      BY <3>5 DEF SessionStep, Session!Next
  <2>3. QED
    BY <2>1, <2>2, FailSteps
<1>6. QED
  BY <1>1, <1>2, <1>3, <1>4, <1>5

\* The HAL is an implementation of UsbSession: what the framework is told and
\* what the host sees are those of a session, whatever fails and whenever the
\* daemons, the monitor and the service come and go.
THEOREM SessionRefined == Spec => ImplementsSession
<1>1. Init => Session!Init
  BY DEF Init, Session!Init, Phase
<1>2. IInv /\ [Next]_vars => SessionStep
  <2> SUFFICES ASSUME IInv, [Next]_vars PROVE SessionStep
    OBVIOUS
  <2>1. CASE Crash
    <3>1. /\ pc' = "idle" /\ mCurrentUsbFunctions' \in Requests /\ cbs' = <<>>
          /\ UNCHANGED <<udc, pulled>>
      BY <2>1 DEF Crash
    <3>2. Phase' = "idle"
      BY <3>1, PhaseOf DEF BinderPC, IInv, TypeOK, BinderTypes
    <3>3. Session!Restart
      BY <3>1, <3>2 DEF Session!Restart
    <3>4. QED
      BY <3>3 DEF SessionStep, Session!Next
  <2>2. CASE UNCHANGED vars
    BY <2>2, StutterSteps DEF vars, Phase
  <2>3. QED
    BY <2>1, <2>2, ClientSteps, DaemonSteps, MonitorSteps, TearDownSteps, QuietSteps, OpeningSteps
    DEF Next, Binder, CvNotified, CvTimeout
<1>3. QED
  BY <1>1, <1>2, Invariant, PTL DEF Spec, ImplementsSession, Session!Spec, SessionStep
-----------------------------------------------------------------------------
(***************************************************************************)
(* What the host sees is what was requested. The service must not die and  *)
(* tearDownGadget must not give up half way, for both leave the gadget as  *)
(* it was for the next request; and nobody else writes the vendor property.*)
(* Failures of setupFunctions are allowed: nothing is bound by then.       *)
(***************************************************************************)
TearDownReliable == VendorConfigs = {} /\ Faults \cap {"configfs", "remove", "crash"} = {}

\* What setupFunctions links for the request.
ToShow == RangeOf(LinkOrder(mCurrentUsbFunctions, VendorFunctions)) \cap LinkName

Identified == vidpid \in VidPids(mCurrentUsbFunctions, VendorFunctions)

\* The identity is set before the first link; links and todo make up what is to
\* be shown, and a gadget that is bound, or may be bound by a monitor, shows it.
HostInv ==
  /\ pc \in {"validated", "setup", "cvWait", "callback"} => Identified
  /\ pc = "setup" => links \cup (RangeOf(todo) \cap LinkName) = ToShow
  /\ pc \in {"cvWait", "callback"} => links = ToShow
  /\ pc = "idle" /\ (udc \/ mpc # "none") => links = ToShow /\ Identified

\* Reading the vendor functions again yields the same, for what the first
\* reading stored is what the later ones return.
LEMMA VendorStable ==
  ASSUME GetVendorFunctions \/ UNCHANGED vendorConfig
  PROVE  VendorFunctions' = VendorFunctions
BY DEF GetVendorFunctions, VendorFunctions

\* A step that leaves the request, the links and the identity alone, and does
\* not get the gadget bound in a place where it was not to be.
LEMMA QuietStepKeepsHost ==
  ASSUME HostInv, VendorFunctions' = VendorFunctions,
         UNCHANGED <<pc, todo, mCurrentUsbFunctions, links, vidpid>>,
         (udc' \/ mpc' # "none") => (udc \/ mpc # "none")
  PROVE  HostInv'
<1>1. ToShow' = ToShow /\ (Identified <=> Identified')
  BY DEF ToShow, Identified
<1>2. QED
  BY <1>1 DEF HostInv

\* Clients, daemons and the monitor.
LEMMA OthersKeepHost ==
  ASSUME TearDownReliable, UsbConstants, IInv, HostInv,
         Clients \/ Daemons \/ SetVendorConfig \/ Monitor \/ WakeUp
  PROVE  HostInv'
<1>1. ASSUME NEW fs \in Requests, NEW cb \in BOOLEAN, SetCurrentUsbFunctions(fs, cb)
      PROVE  HostInv'
  <2>1. pc' = "tearDown"
    BY <1>1 DEF SetCurrentUsbFunctions
  <2>2. QED
    BY <2>1 DEF HostInv
<1>2. CASE Reset \/ Daemons
  <2>1. /\ UNCHANGED <<pc, todo, mCurrentUsbFunctions, links, vidpid, mpc, vendorConfig>>
        /\ udc' => udc
    BY <1>2 DEF Reset, Daemons, DaemonOpen, DaemonReady, DaemonDie, DaemonIo, IInv, TypeOK,
                KernelTypes
  <2>2. QED
    BY <2>1, VendorStable, QuietStepKeepsHost
<1>3. CASE SetVendorConfig
  BY <1>3 DEF SetVendorConfig, TearDownReliable
<1>4. CASE Monitor
  <2>1. /\ UNCHANGED <<pc, todo, mCurrentUsbFunctions, links, vidpid, vendorConfig>>
        /\ mpc # "none"
    BY <1>4 DEF Monitor, MonitorCheck, MonitorWriteUdc, WriteUdc, WriteUdcFails,
                MonitorPublish, MonitorEpoll, MonitorReadInotify, MonitorReadEvent
  <2>2. QED
    BY <2>1, VendorStable, QuietStepKeepsHost
<1>5. CASE WakeUp
  <2>1. /\ pc = "cvWait" /\ pc' = "callback"
        /\ UNCHANGED <<mCurrentUsbFunctions, links, vidpid, vendorConfig>>
    BY <1>5 DEF WakeUp
  <2>2. ToShow' = ToShow /\ (Identified <=> Identified')
    BY <2>1, VendorStable DEF ToShow, Identified
  <2>3. QED
    BY <2>1, <2>2 DEF HostInv
<1>6. QED
  BY <1>1, <1>2, <1>3, <1>4, <1>5 DEF Clients

\* The binder thread up to the quiet period: tearDownGadget does not return
\* early, and NONE leaves the gadget unbound.
LEMMA ClosingKeepsHost ==
  ASSUME TearDownReliable, UsbConstants, IInv, HostInv,
         \/ TearDownAttributes \/ UnlinkFunction \/ SignalMonitor \/ TearDownDone \/ AnswerNone
  PROVE  HostInv'
<1>1. \/ pc' \in {"unlink", "join", "pulledDown"}
      \/ pc' = "idle" /\ udc' = FALSE /\ mpc' = "none"
  <2>1. CASE TearDownAttributes \/ UnlinkFunction
    BY <2>1 DEF TearDownAttributes, UnlinkFunction, TearDownReliable
  <2>2. CASE SignalMonitor \/ TearDownDone
    BY <2>2 DEF SignalMonitor, TearDownDone
  <2>3. CASE AnswerNone
    BY <2>3 DEF AnswerNone, Answer, IInv, TypeOK, KernelTypes, BoundInv, NoMonitorInv
  <2>4. QED
    BY <2>1, <2>2, <2>3
<1>2. QED
  BY <1>1 DEF HostInv

\* An early return of the second half of the request leaves the gadget unbound
\* and without a monitor.
LEMMA EarlyReturnKeepsHost ==
  ASSUME IInv, pc \in {"pulledDown", "validated", "setup"}, pc' = "idle", UNCHANGED <<udc, mpc>>
  PROVE  HostInv'
<1>1. udc' = FALSE /\ mpc' = "none"
  BY DEF IInv, TypeOK, KernelTypes, BoundInv, NoMonitorInv
<1>2. QED
  BY <1>1 DEF HostInv

\* validateAndSetVidPid sets the one identity of the request; setupFunctions
\* then links in order what is to be shown.
LEMMA OpeningKeepsHost ==
  ASSUME TearDownReliable, UsbConstants, IInv, HostInv,
         ValidateAndSetVidPid \/ BeginSetup \/ LinkFunction
  PROVE  HostInv'
<1>1. CASE ValidateAndSetVidPid
  <2>1. /\ pc = "pulledDown" /\ GetVendorFunctions /\ UNCHANGED <<mCurrentUsbFunctions, udc, mpc>>
        /\ \/ pc' = "idle"
           \/ pc' = "validated" /\ vidpid' \in VidPids(mCurrentUsbFunctions, VendorFunctions)
    BY <1>1 DEF ValidateAndSetVidPid, Answer, SetVidPid
  <2>2. CASE pc' = "validated"
    <3>1. Identified'
      BY <2>1, <2>2, VendorStable DEF Identified
    <3>2. QED
      BY <2>2, <3>1 DEF HostInv
  <2>3. QED
    BY <2>1, <2>2, EarlyReturnKeepsHost
<1>2. CASE BeginSetup
  <2>1. /\ pc = "validated" /\ UNCHANGED <<mCurrentUsbFunctions, udc, mpc, links, vidpid>>
        /\ \/ pc' = "idle"
           \/ /\ pc' = "setup" /\ GetVendorFunctions
              /\ todo' = LinkOrder(mCurrentUsbFunctions, VendorFunctions)
    BY <1>2 DEF BeginSetup, Answer
  <2>2. CASE /\ pc' = "setup" /\ GetVendorFunctions
             /\ todo' = LinkOrder(mCurrentUsbFunctions, VendorFunctions)
    <3>1. links = {}
      BY <2>1 DEF IInv, BoundInv
    <3>2. ToShow' = RangeOf(todo') \cap LinkName /\ Identified'
      BY <2>1, <2>2, VendorStable DEF ToShow, Identified, HostInv
    <3>3. QED
      BY <2>1, <2>2, <3>1, <3>2 DEF HostInv, RangeOf
  <2>3. QED
    BY <2>1, <2>2, EarlyReturnKeepsHost
<1>3. CASE LinkFunction
  <2> DEFINE f == Head(todo)
  <2>1. /\ pc = "setup" /\ todo # <<>>
        /\ UNCHANGED <<mCurrentUsbFunctions, udc, mpc, vidpid, vendorConfig>>
        /\ \/ pc' = "idle"
           \/ /\ UNCHANGED pc /\ todo' = Tail(todo)
              /\ \/ f \in LinkName /\ links' = links \cup {f}
                 \/ f \notin LinkName /\ links' = links
    BY <1>3 DEF LinkFunction, SetupFails, Answer
  <2>2. RangeOf(todo) = {f} \cup RangeOf(Tail(todo))
    BY <2>1, RangeOfHeadTail DEF IInv, TypeOK, BinderTypes
  <2> HIDE DEF f
  <2>3. CASE UNCHANGED pc
    <3>1. ToShow' = ToShow /\ (Identified <=> Identified')
      BY <2>1, VendorStable DEF ToShow, Identified
    <3>2. todo' = Tail(todo) /\ RangeOf(todo') = RangeOf(Tail(todo))
      BY <2>1, <2>3 DEF RangeOf
    <3>3. links' \cup (RangeOf(todo') \cap LinkName) = links \cup (RangeOf(todo) \cap LinkName)
      BY <2>1, <2>2, <2>3, <3>2
    <3>4. QED
      BY <2>1, <2>3, <3>1, <3>3 DEF HostInv
  <2>4. QED
    BY <2>1, <2>3, EarlyReturnKeepsHost
<1>4. QED
  BY <1>1, <1>2, <1>3

\* With nothing left to link all that is to be shown is linked, and stays so in
\* the wait and after it.
LEMMA PullUpKeepsHost ==
  ASSUME TearDownReliable, UsbConstants, IInv, HostInv, PullUpNow \/ StartMonitor \/ Callback
  PROVE  HostInv'
<1>1. UNCHANGED <<mCurrentUsbFunctions, vidpid, vendorConfig, links>>
  BY DEF PullUpNow, StartMonitor, Callback, WriteUdc, WriteUdcFails, SetupFails
<1>2. ToShow' = ToShow /\ (Identified <=> Identified')
  BY <1>1, VendorStable DEF ToShow, Identified
<1>3. /\ pc \in {"setup", "callback"} /\ (pc = "setup" => todo = <<>>)
      /\ pc' \in {"idle", "cvWait"}
  BY DEF PullUpNow, StartMonitor, Callback, SetupFails, Answer
<1>4. RangeOf(<<>>) = {}
  BY EmptySeq
<1>5. links = ToShow /\ Identified
  BY <1>3, <1>4 DEF HostInv
<1>6. links' = ToShow' /\ Identified'
  BY <1>1, <1>2, <1>5
<1>7. QED
  BY <1>3, <1>6 DEF HostInv

\* While tearDownGadget is not at work, a bound gadget shows the host exactly
\* the requested functions and the vendor's, under the identity of the request.
THEOREM HostTold ==
  ASSUME TearDownReliable
  PROVE  Spec => []HostSeesRequest
<1>1. Init => HostInv
  BY DEF Init, HostInv
<1>2. IInv /\ HostInv /\ [Next]_vars => HostInv'
  <2> SUFFICES ASSUME IInv, HostInv, [Next]_vars PROVE HostInv'
    OBVIOUS
  <2>1. CASE UNCHANGED vars
    BY <2>1, VendorStable, QuietStepKeepsHost DEF vars
  <2>2. ~Crash
    BY TearDownReliable DEF Crash, TearDownReliable
  <2>3. QED
    BY <2>1, <2>2, TearDownReliable, UsbConstants, OthersKeepHost, ClosingKeepsHost,
       OpeningKeepsHost, PullUpKeepsHost
    DEF Next, Binder, CvNotified, CvTimeout
<1>3. IInv /\ HostInv => HostSeesRequest
  <2> SUFFICES ASSUME IInv, HostInv, udc, pc \notin {"tearDown", "unlink"}
               PROVE  links = ToShow /\ Identified
    BY DEF HostSeesRequest, ToShow, Identified
  <2>1. pc \in {"idle", "cvWait", "callback"}
    BY DEF IInv, TypeOK, BinderTypes, BinderPC, BoundInv
  <2>2. QED
    BY <2>1 DEF HostInv
<1>4. QED
  BY <1>1, <1>2, <1>3, Invariant, PTL DEF Spec
=============================================================================
