------------------------------ MODULE RmnetCli ------------------------------
(***************************************************************************)
(* One run of rmnetcli: main and rmnet_api_call, from the words on the     *)
(* command line to the exit code.  The library's calls are their possible  *)
(* outcomes, as RmnetCodes lists them; RmnetData and RtRmnet check that    *)
(* they have no others.  Undefined behaviour (a null pointer given to      *)
(* strtoul, a handle released twice) ends in a crash or goes on.           *)
(***************************************************************************)
EXTENDS RmnetCodes, Sequences

CONSTANTS
    Words,       \* the first words tried on the command line
    MaxArgs,     \* bound: the arguments given after the command
    CliErrnos    \* errors of the system

ASSUME CliAssumption == MaxArgs \in Nat /\ CliErrnos \subseteq Nat

VARIABLES
    pc,          \* the next step, "exit" or "crash"
    api,         \* "rt" after -n, else "data"
    cmd, nargs,  \* the command word ("" if there is none) and its arguments
    cliHandle,   \* "none", "live", "freed"
    released,    \* how often the handle was closed and freed
    rc, err,     \* return_code and error_number
    out,         \* what was printed: a set of kinds of line
    code         \* the exit code

cliVars == <<pc, api, cmd, nargs, cliHandle, released, rc, err, out, code>>

RMNETCTL_CFG_SUCCESS_HELP_COMMAND         == 100
RMNETCTL_CFG_FAILURE_NO_COMMAND           == 101
RMNETCTL_CFG_FAILURE_EGRESS_DEV_NAME_NULL == 102

-----------------------------------------------------------------------------
\* A command: how many arguments rmnetcli checks for, how many it uses, and
\* whether one it uses unchecked is handed on as a name (the library refuses a
\* null one) or converted to a number.
Cmd(checked, used, unchecked) ==
    [checked |-> checked, used |-> used, unchecked |-> unchecked]
Exact(n)   == Cmd(n, n, "none")
Name(k, n) == Cmd(k, n, "name")

RtCommands ==
    [newlink |-> Exact(3), changelink |-> Exact(4), getlink |-> Exact(1),
     dellink |-> Exact(1), bridge |-> Exact(2), uplinkparam |-> Exact(5),
     flowactivate |-> Cmd(5, 6, "number"), flowdel |-> Exact(5),
     flowcontrol |-> Exact(6), systemup |-> Exact(6), systemdown |-> Exact(3),
     qmiscale |-> Exact(3), wdafreq |-> Exact(3)]

DataCommands ==
    [assocnetdev |-> Name(0, 1), unassocnetdev |-> Name(0, 1),
     getnetdevassoc |-> Name(0, 1), getledf |-> Name(0, 1), getlidf |-> Name(0, 1),
     newvndprefix |-> Exact(2), newvndname |-> Exact(2), newvnd |-> Exact(1),
     getvndname |-> Exact(1), freevnd |-> Exact(1), setlidf |-> Exact(3),
     delvnctcflow |-> Exact(3), getlepc |-> Name(1, 2), addvnctcflow |-> Exact(3),
     setledf |-> Name(3, 4), setlepc |-> Name(2, 4), unsetlepc |-> Name(1, 2)]

Commands == IF api = "rt" THEN RtCommands ELSE DataCommands

\* What print_rmnet_api_status prints: a system error too large for the
\* library's table, and an unknown return value, print nothing.
print_rmnet_api_status(r, e) ==
    CASE r = RMNETCTL_SUCCESS -> {"SUCCESS"}
      [] r = RMNETCTL_LIB_ERR ->
            {"LIBRARY"} \cup
            (IF e \in {RMNETCTL_CFG_SUCCESS_HELP_COMMAND, RMNETCTL_CFG_FAILURE_NO_COMMAND}
             THEN {"usage"} ELSE {})
      [] r = RMNETCTL_KERNEL_ERR ->
            IF e < RMNETCTL_API_ERR_ENUM_LENGTH THEN {"KERNEL"} ELSE {}
      [] r = RMNETCTL_INVALID_ARG -> {"INVALID_ARG"}
      [] OTHER -> {}

PrintStatus(r, e) == out' = out \cup print_rmnet_api_status(r, e)

\* rmnet_api_call returns c.
Exit(c) == pc' = "exit" /\ code' = c

\* rmnetctl_cleanup and rtrmnet_ctl_deinit, which do the same: close the socket
\* and free the handle.
Release ==
    /\ cliHandle' = IF cliHandle = "live" THEN "freed" ELSE cliHandle
    /\ released' = released + 1

-----------------------------------------------------------------------------
CliInit ==
    /\ pc = "start"
    /\ api \in {"data", "rt"}
    /\ cmd \in Words
    /\ nargs \in 0 .. MaxArgs
    /\ cliHandle = "none"
    /\ released = 0
    /\ rc = RMNETCTL_LIB_ERR
    /\ err = RMNETCTL_CFG_FAILURE_NO_COMMAND
    /\ out = {}
    /\ code = -1

\* No words at all, or "help".
NoWork ==
    /\ pc = "start" /\ api = "data" /\ cmd \in {"", "help"}
    /\ PrintStatus(RMNETCTL_LIB_ERR, IF cmd = "" THEN RMNETCTL_CFG_FAILURE_NO_COMMAND
                                           ELSE RMNETCTL_CFG_SUCCESS_HELP_COMMAND)
    /\ Exit(RMNETCTL_LIB_ERR)
    /\ UNCHANGED <<api, cmd, nargs, cliHandle, released, rc, err>>

\* rmnetctl_init or rtrmnet_ctl_init; both error variables are then set back.
OpenApi ==
    /\ pc = "start" /\ ~(api = "data" /\ cmd \in {"", "help"})
    /\ \E o \in InitOutcomes :
          IF o[1] = RMNETCTL_SUCCESS
          THEN /\ cliHandle' = "live"
               /\ pc' = "dispatch"
               /\ UNCHANGED <<out, code>>
          ELSE /\ PrintStatus(o[1], o[2])
               /\ Exit(RMNETCTL_LIB_ERR)
               /\ UNCHANGED cliHandle
    /\ UNCHANGED <<api, cmd, nargs, released, rc, err>>

\* -n and nothing after it.
NoCommand ==
    /\ pc = "dispatch" /\ cmd = ""
    /\ PrintStatus(RMNETCTL_LIB_ERR, RMNETCTL_CFG_FAILURE_NO_COMMAND)
    /\ Exit(RMNETCTL_LIB_ERR)
    /\ UNCHANGED <<api, cmd, nargs, cliHandle, released, rc, err>>

\* No branch of the chain of comparisons is taken.
UnknownCommand ==
    /\ pc = "dispatch" /\ cmd # "" /\ cmd \notin DOMAIN Commands
    /\ pc' = "end"
    /\ UNCHANGED <<api, cmd, nargs, cliHandle, released, rc, err, out, code>>

\* Mutant: _RMNETCLI_CHECKNULL returns without releasing the handle.
Bug_CheckNull ==
    /\ pc = "dispatch" /\ cmd \in DOMAIN Commands
    /\ nargs < Commands[cmd].checked
    /\ PrintStatus(RMNETCTL_INVALID_ARG, RMNETCTL_CFG_FAILURE_NO_COMMAND)
    /\ Exit(RMNETCTL_INVALID_ARG)
    /\ UNCHANGED <<api, cmd, nargs, cliHandle, released, rc, err>>

\* _RMNETCLI_CHECKNULL: an argument is missing.
CheckNull ==
    /\ pc = "dispatch" /\ cmd \in DOMAIN Commands
    /\ nargs < Commands[cmd].checked
    /\ PrintStatus(RMNETCTL_INVALID_ARG, RMNETCTL_CFG_FAILURE_NO_COMMAND)
    /\ Release
    /\ Exit(RMNETCTL_INVALID_ARG)
    /\ UNCHANGED <<api, cmd, nargs, rc, err>>

\* getlepc has no memory for its output buffer.
NoEgressName ==
    /\ pc = "dispatch" /\ api = "data" /\ cmd = "getlepc" /\ nargs >= 1
    /\ PrintStatus(RMNETCTL_LIB_ERR, RMNETCTL_CFG_FAILURE_EGRESS_DEV_NAME_NULL)
    /\ Release
    /\ Exit(RMNETCTL_LIB_ERR)
    /\ UNCHANGED <<api, cmd, nargs, rc, err>>

\* The arguments are converted and the library called.  Data a query returns
\* is printed at once.
ApiCall ==
    /\ pc = "dispatch" /\ cmd \in DOMAIN Commands
    /\ nargs >= Commands[cmd].checked
    /\ LET missing == nargs < Commands[cmd].used
           outcomes == IF api = "rt" THEN RtOutcomes(CliErrnos) ELSE DataOutcomes
       IN  \/ /\ ~missing
              /\ \E o \in outcomes :
                    /\ rc' = o[1]
                    /\ err' = IF o[2] = Untouched THEN err ELSE o[2]
              /\ pc' = "end"
           \/ /\ missing /\ Commands[cmd].unchecked = "name"
              /\ rc' = RMNETCTL_INVALID_ARG
              /\ pc' = "end"
              /\ UNCHANGED err
           \/ /\ missing /\ Commands[cmd].unchecked = "number"
              /\ pc' = "crash"
              /\ UNCHANGED <<rc, err>>
    /\ UNCHANGED <<api, cmd, nargs, cliHandle, released, out, code>>

\* The label end: report, then rmnetctl_cleanup ...
Report ==
    /\ pc = "end"
    /\ PrintStatus(rc, err)
    /\ Release
    /\ pc' = "deinit"
    /\ UNCHANGED <<api, cmd, nargs, rc, err, code>>

\* ... then rtrmnet_ctl_deinit, on the same pointer.
Deinit ==
    /\ pc = "deinit"
    /\ Release
    /\ \/ Exit(rc)
       \/ cliHandle = "freed" /\ pc' = "crash" /\ UNCHANGED code
    /\ UNCHANGED <<api, cmd, nargs, rc, err, out>>

CliNext == \/ NoWork \/ OpenApi \/ NoCommand \/ UnknownCommand \/ CheckNull
           \/ NoEgressName \/ ApiCall \/ Report \/ Deinit

CliSpec == CliInit /\ [][CliNext]_cliVars

-----------------------------------------------------------------------------
\* The status printed is the status returned: a run prints "SUCCESS" exactly if
\* it exits with RMNETCTL_SUCCESS, and the name of a failure only if it exits
\* with that failure.  Nothing is said of a run that prints no status: a system
\* error from 26 up, and a failed receive (whose return value is 4), print none,
\* where the comment on print_rmnet_api_status promises the error code.
StatusAgrees ==
    pc = "exit" =>
        /\ code = RMNETCTL_SUCCESS <=> "SUCCESS" \in out
        /\ "LIBRARY" \in out => code = RMNETCTL_LIB_ERR
        /\ "KERNEL" \in out => code = RMNETCTL_KERNEL_ERR
        /\ "INVALID_ARG" \in out => code = RMNETCTL_INVALID_ARG

\* A run that opened a handle for a command gives it back, on every path.
HandleReturned == pc = "exit" /\ cmd # "" => cliHandle # "live"

\* The handle is closed and freed once.
ReleasedOnce == released <= 1

\* A command given fewer arguments than it uses is refused with
\* RMNETCTL_INVALID_ARG or fails earlier.  flowactivate is the exception: its
\* sixth argument is not checked.
MissingArgumentRefused ==
    /\ cmd \in DOMAIN Commands \ {"flowactivate"} /\ nargs < Commands[cmd].used
    => /\ pc = "crash" => released = 2
       /\ pc = "exit" => code \in {RMNETCTL_INVALID_ARG, RMNETCTL_LIB_ERR}

\* Every run prints no other status than it returns, gives its handle back and
\* needs all its arguments: the three of them above.
RunsClean == StatusAgrees /\ HandleReturned /\ MissingArgumentRefused

=============================================================================
