---------------------------- MODULE UsbFunctions ----------------------------
(***************************************************************************)
(* The pure part of the USB gadget HAL: which functions a request may name *)
(* and under which vendor/product identity, and in which order they are    *)
(* linked into the configfs configuration.                                 *)
(*                                                                         *)
(* A request is the set of GadgetFunction bits of its mask ({} is NONE).   *)
(* The vendor function string of the properties is kept as the sequence    *)
(* strtok(",") yields, so "diag,serial_cdev" and "serial_cdev,diag" stay   *)
(* different, as they are for the == of validateAndSetVidPid.              *)
(***************************************************************************)
EXTENDS Sequences

GadgetFunction == {"mtp", "ptp", "midi", "accessory", "audio_source", "rndis", "adb"}

\* The tokens of the vendor function property that setupFunctions links.
VendorFunction == {"diag", "serial_cdev", "rmnet_gsi"}

LinkName == GadgetFunction \cup VendorFunction

\* A token of the vendor function property: a linkable one, the build type
\* "user", or anything else an integrator may have put there.
VendorToken == VendorFunction \cup {"user", "other"}

\* Functions served by a user-space daemon through FunctionFS.
Ffs == {"mtp", "ptp", "adb"}

-----------------------------------------------------------------------------
\* Identity without debug functions: <<request, idProduct>>, vendor 0x18d1.
GoogleIds ==
  { <<{"mtp"}, "0x4ee1">>,              <<{"adb", "mtp"}, "0x4ee2">>,
    <<{"rndis"}, "0x4ee3">>,            <<{"adb", "rndis"}, "0x4ee4">>,
    <<{"ptp"}, "0x4ee5">>,              <<{"adb", "ptp"}, "0x4ee6">>,
    <<{"adb"}, "0x4ee7">>,
    <<{"midi"}, "0x4ee8">>,             <<{"adb", "midi"}, "0x4ee9">>,
    <<{"accessory"}, "0x2d00">>,        <<{"adb", "accessory"}, "0x2d01">>,
    <<{"audio_source"}, "0x2d02">>,     <<{"adb", "audio_source"}, "0x2d03">>,
    <<{"accessory", "audio_source"}, "0x2d04">>,
    <<{"adb", "accessory", "audio_source"}, "0x2d05">> }

\* Identity with debug functions: <<request, vendor list, idProduct>>, 0x05C6.
QualcommIds ==
  { <<{"mtp"}, <<"diag">>, "0x901B">>,
    <<{"adb", "mtp"}, <<"diag">>, "0x903A">>,
    <<{"rndis"}, <<"diag">>, "0x902C">>,
    <<{"rndis"}, <<"serial_cdev", "diag">>, "0x90B5">>,
    <<{"adb", "rndis"}, <<"diag">>, "0x902D">>,
    <<{"adb", "rndis"}, <<"serial_cdev", "diag">>, "0x90B6">>,
    <<{"adb"}, <<"diag">>, "0x901D">>,
    <<{"adb"}, <<"diag", "serial_cdev", "rmnet_gsi">>, "0x9091">>,
    <<{"adb"}, <<"diag", "serial_cdev">>, "0x901F">> }

NoDebugFunctions(vendor) == vendor \in {<<>>, <<"user">>}

\* Accessory and audio source only log an unexpected vendor list.
IgnoresVendor(functions) == functions \cap {"accessory", "audio_source"} # {}

\* The <<idVendor, idProduct>> pairs validateAndSetVidPid may set: one for a
\* supported combination, none for an unsupported one.
VidPids(functions, vendor) ==
  { <<"0x05C6", r[3]>> : r \in { q \in QualcommIds : q[1] = functions /\ q[2] = vendor } }
  \cup
  { <<"0x18d1", r[2]>> : r \in { q \in GoogleIds :
        q[1] = functions /\ (NoDebugFunctions(vendor) \/ IgnoresVendor(functions)) } }

Supported(functions, vendor) == VidPids(functions, vendor) # {}

-----------------------------------------------------------------------------
OneOf(functions, f) == IF f \in functions THEN <<f>> ELSE <<>>

\* The tokens setupFunctions walks through, in its order; MTP hides PTP.
LinkOrder(functions, vendor) ==
  OneOf(functions, "mtp")
  \o OneOf(functions \ (IF "mtp" \in functions THEN {"ptp"} ELSE {}), "ptp")
  \o OneOf(functions, "midi")
  \o OneOf(functions, "accessory")
  \o OneOf(functions, "audio_source")
  \o OneOf(functions, "rndis")
  \o vendor
  \o OneOf(functions, "adb")
=============================================================================
