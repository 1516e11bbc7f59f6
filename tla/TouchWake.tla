----------------------------- MODULE TouchWake -----------------------------
(* Double tap to wake (power/power-mode.cpp): a mode is switched by writing   *)
(* an event to the touch screen, which has to be found among the devices of   *)
(* /dev/input by its name.  One action is one entry of the directory.         *)
EXTENDS Integers, Sequences, FiniteSets

CONSTANTS
  InputDirs,         \* directories, sequences of [chr, name, opens]
  MaxEvents,         \* bound on the events the calls write
  TouchNames         \* the driver names that open_ts_input knows

ASSUME TouchAssumption ==
  /\ InputDirs \subseteq Seq([chr : BOOLEAN, name : STRING, opens : BOOLEAN])
  /\ MaxEvents \in Nat

VARIABLES
  dtDir, dtPos,      \* the directory, and how far readdir is
  dtPc,              \* "idle", "scan", "found" or "none"
  dtFd,              \* fd: the entry it stands for, or -1
  dtOpen,            \* entries with an open descriptor
  dtEvents,          \* events written so far: [to, value]
  dtAnswer           \* what the last call returned, with the mode it was to set
touchVars == <<dtDir, dtPos, dtPc, dtFd, dtOpen, dtEvents, dtAnswer>>

kInputEventWakeupModeOff == 4
kInputEventWakeupModeOn == 5

TouchInit ==
  /\ dtDir \in InputDirs
  /\ dtPos = 0 /\ dtPc = "idle" /\ dtFd = -1 /\ dtOpen = {} /\ dtEvents = <<>>
  /\ dtAnswer = [enabled |-> FALSE, ret |-> FALSE]

\* opendir may fail.
setDeviceSpecificMode ==
  /\ dtPc = "idle" /\ Len(dtEvents) < MaxEvents
  /\ \E enabled \in BOOLEAN : dtAnswer' = [enabled |-> enabled, ret |-> FALSE]
  /\ dtPc' \in {"scan", "none"}
  /\ dtPos' = 0 /\ dtFd' = -1
  /\ UNCHANGED <<dtDir, dtOpen, dtEvents>>

\* Keeps the descriptor of an entry that is not the touch screen.
Bug_ReadEntry ==
  LET p == dtPos + 1
      e == dtDir[p]
      touch == e.opens /\ e.name \in TouchNames
  IN  /\ dtPc = "scan" /\ dtPos < Len(dtDir)
      /\ dtPos' = p
      /\ dtPc' = IF e.chr /\ touch THEN "found" ELSE dtPc
      /\ dtFd' = IF e.chr THEN (IF touch THEN p ELSE -1) ELSE dtFd
      /\ dtOpen' = IF e.chr /\ e.opens THEN dtOpen \cup {p} ELSE dtOpen
      /\ UNCHANGED <<dtDir, dtEvents, dtAnswer>>
\* A character device is opened and asked for its name (EVIOCGNAME, which fails
\* on an entry that did not open); a known name ends the search with the
\* descriptor open, every other descriptor is closed again.
ReadEntry ==
  LET p == dtPos + 1
      e == dtDir[p]
      touch == e.opens /\ e.name \in TouchNames
  IN  /\ dtPc = "scan" /\ dtPos < Len(dtDir)
      /\ dtPos' = p
      /\ dtPc' = IF e.chr /\ touch THEN "found" ELSE dtPc
      /\ dtFd' = IF e.chr THEN (IF touch THEN p ELSE -1) ELSE dtFd
      /\ dtOpen' = IF e.chr /\ touch THEN dtOpen \cup {p} ELSE dtOpen
      /\ UNCHANGED <<dtDir, dtEvents, dtAnswer>>
\* closedir, and back in setDeviceSpecificMode.
EndOfDir ==
  /\ dtPc = "scan" /\ dtPos = Len(dtDir)
  /\ dtPc' = "none"
  /\ UNCHANGED <<dtDir, dtPos, dtFd, dtOpen, dtEvents, dtAnswer>>

\* The result of the write is not looked at: it may reach nothing.
WriteEvent ==
  /\ dtPc = "found"
  /\ \/ dtEvents' = Append(dtEvents,
          [to |-> dtFd, value |-> IF dtAnswer.enabled THEN kInputEventWakeupModeOn
                                  ELSE kInputEventWakeupModeOff])
     \/ UNCHANGED dtEvents
  /\ dtOpen' = dtOpen \ {dtFd}
  /\ dtAnswer' = [dtAnswer EXCEPT !.ret = TRUE]
  /\ dtPc' = "idle"
  /\ UNCHANGED <<dtDir, dtPos, dtFd>>
NoTouchScreen ==
  /\ dtPc = "none" /\ dtPc' = "idle"
  /\ UNCHANGED <<dtDir, dtPos, dtFd, dtOpen, dtEvents, dtAnswer>>

TouchNext == setDeviceSpecificMode \/ ReadEntry \/ EndOfDir \/ WriteEvent \/ NoTouchScreen
TouchSpec == TouchInit /\ [][TouchNext]_touchVars
-----------------------------------------------------------------------------
\* Between calls no descriptor is left open, whatever the directory holds, and
\* events have gone to the first touch screen that can be opened, or nowhere.
OnlyTouchScreenUsed ==
  /\ dtPc = "idle" => dtOpen = {}
  /\ \A i \in DOMAIN dtEvents :
       LET e == dtDir[dtEvents[i].to]
       IN  /\ e.chr /\ e.opens /\ e.name \in TouchNames
           /\ \A p \in 1..dtEvents[i].to - 1 :
                ~(dtDir[p].chr /\ dtDir[p].opens /\ dtDir[p].name \in TouchNames)
=============================================================================
