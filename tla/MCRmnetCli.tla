----------------------------- MODULE MCRmnetCli -----------------------------
(***************************************************************************)
(* rmnetcli with every command it knows, no command and an unknown one.    *)
(* The system's errors are one below and one above the end of the          *)
(* library's table.                                                        *)
(***************************************************************************)
EXTENDS RmnetCli

AllWords == DOMAIN RtCommands \cup DOMAIN DataCommands \cup {"", "help", "unknown"}
NoNames   == {}
NoLengths == [n \in Names |-> 0]

=============================================================================
