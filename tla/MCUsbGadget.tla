---------------------------- MODULE MCUsbGadget ----------------------------
(***************************************************************************)
(* Instances of UsbGadget for TLC: the requests clients make, and the      *)
(* values of the vendor property. The bounds are in the .cfg files.        *)
(***************************************************************************)
EXTENDS UsbGadget

NoVendor == <<>>

\* NONE, one FunctionFS function, two of them, and a plain one that vendor
\* functions make unsupported.
AllShapes == { {}, {"adb"}, {"mtp", "adb"}, {"midi"} }

\* Enough for the races of the threads: NONE and a FunctionFS function.
OneFfs == { {}, {"adb"} }
=============================================================================
