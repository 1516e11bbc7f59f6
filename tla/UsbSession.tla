----------------------------- MODULE UsbSession -----------------------------
(***************************************************************************)
(* What the USB gadget HAL promises, seen from outside: the framework      *)
(* makes one request at a time and gets one answer; the host sees the      *)
(* device attached or not. A request first reaches a quiet period in which *)
(* the host sees a disconnected device, whatever was attached before; then *)
(* the new configuration is opened, and it is answered with SUCCESS only   *)
(* after the host could see it (or at once, when there is nothing to show).*)
(***************************************************************************)
CONSTANT Requests

VARIABLES
  phase,     \* "idle", "closing", "quiet" or "opening"
  request,   \* the functions requested last
  attached,  \* the host sees the device
  seen,      \* ... has seen it since the last quiet period
  answer     \* what the framework was told; "none" before, or without callback

sessionVars == <<phase, request, attached, seen, answer>>

Failures == {"ERROR", "CONFIGURATION_NOT_SUPPORTED"}

Init == /\ phase = "idle" /\ request \in Requests /\ answer = "none"
        /\ attached = FALSE /\ seen = FALSE

Begin == /\ phase = "idle"
         /\ phase' = "closing" /\ request' \in Requests /\ answer' = "none"
         /\ UNCHANGED <<attached, seen>>

\* The device may go at any time, and come back at any time but the quiet one.
Detach == attached' = FALSE /\ UNCHANGED <<phase, request, seen, answer>>

Attach == /\ phase # "quiet"
          /\ attached' = TRUE /\ seen' = TRUE
          /\ UNCHANGED <<phase, request, answer>>

Quiet == /\ phase = "closing" /\ ~attached
         /\ phase' = "quiet" /\ seen' = FALSE
         /\ UNCHANGED <<request, attached, answer>>

Open == /\ phase = "quiet"
        /\ phase' = "opening"
        /\ UNCHANGED <<request, attached, seen, answer>>

\* Giving up on the way down may also leave the device detached.
Fail == /\ phase # "idle"
        /\ phase' = "idle" /\ answer' \in Failures \cup {"none"}
        /\ attached' \in {attached, FALSE}
        /\ UNCHANGED <<request, seen>>

\* NONE is done in the quiet period. Other requests are done once they have
\* been shown; attaching and answering may be one step.
Succeed == /\ \/ phase = "quiet" /\ request = {} /\ UNCHANGED <<attached, seen>>
              \/ phase = "opening" /\ seen /\ UNCHANGED <<attached, seen>>
              \/ phase = "opening" /\ attached' = TRUE /\ seen' = TRUE
           /\ phase' = "idle" /\ answer' \in {"SUCCESS", "none"}
           /\ UNCHANGED request

\* The service dies and is started again: what it was asked is forgotten and
\* never answered, while the host goes on seeing what it saw.
Restart == /\ phase' = "idle" /\ request' \in Requests /\ answer' = "none"
           /\ UNCHANGED <<attached, seen>>

Next == Begin \/ Detach \/ Attach \/ Quiet \/ Open \/ Fail \/ Succeed
        \/ Restart

Spec == Init /\ [][Next]_sessionVars
=============================================================================
