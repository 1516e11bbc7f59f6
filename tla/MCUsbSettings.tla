--------------------------- MODULE MCUsbSettings ---------------------------
(***************************************************************************)
(* UsbGadget in three settings, of which a behaviour takes one: failures   *)
(* of every kind with the daemons of two FunctionFS instances; the same    *)
(* failures with one daemon and somebody who sets the vendor property; and *)
(* no failures, with daemons that come back after the monitor has noticed  *)
(* that they died.                                                         *)
(***************************************************************************)
EXTENDS MCUsbGadget

VARIABLE setting

\* Each setting changes some of the constants that the .cfg gives.
Failures == INSTANCE UsbGadget WITH
    Requests <- { {}, {"mtp", "adb"}, {"midi"} }

VendorSet == INSTANCE UsbGadget WITH
    Requests <- { {}, {"adb"}, {"midi"} },
    LiveDaemons <- {"adb"}, VendorConfigs <- { <<"diag">> }

Restarts == INSTANCE UsbGadget WITH
    Requests <- { {"mtp", "adb"}, {"midi"} },
    Calls <- {"setCurrentUsbFunctions"}, Faults <- {},
    BootIsUsbRadio <- TRUE, RestartNoticed <- TRUE, Burst <- 2

SettingsInit ==
    /\ setting \in {"failures", "vendor", "restarts"}
    /\ IF setting = "restarts" THEN Restarts!Init ELSE Init

SettingsNext ==
    /\ \/ setting = "failures" /\ Failures!Next
       \/ setting = "vendor"   /\ VendorSet!Next
       \/ setting = "restarts" /\ Restarts!Next
    /\ UNCHANGED setting

\* In each setting both threads are scheduled, as in ThreadSpec.
SettingsSpec ==
    /\ SettingsInit
    /\ [][SettingsNext]_<<vars, setting>>
    /\ WF_vars(setting # "restarts" /\ Binder)
    /\ WF_vars(setting # "restarts" /\ Monitor)
    /\ WF_vars(setting = "restarts" /\ Restarts!Binder)
    /\ WF_vars(setting = "restarts" /\ Restarts!Monitor)

-----------------------------------------------------------------------------
\* Where nothing but the daemons fails, the host is only ever shown the
\* configuration requested last (HostSeesRequest).
HostSeesRequestOnRestart == setting = "restarts" => Restarts!HostSeesRequest

\* In that setting a daemon that died and came back finds the gadget pulled up
\* again (PullsUpAgain).
PullsUpAgainOnRestart == setting = "restarts" => Restarts!PullsUpAgain
=============================================================================
