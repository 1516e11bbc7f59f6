----------------------------- MODULE RmnetCodes -----------------------------
(***************************************************************************)
(* The vocabulary of librmnetctl: what a call of the library hands back,   *)
(* and the small checks every call is made of.                             *)
(*                                                                         *)
(* A call returns an int and stores an error code through a pointer; a     *)
(* get-type call also stores data.  Here that is one record.  Codes keep   *)
(* the numbers of librmnetctl.h because the library and its command line   *)
(* compare, add and print them.                                            *)
(*                                                                         *)
(* A name is an element of Names; of its text only the length matters, and *)
(* that is NameLen.  Null is the C null pointer (and, for data, "nothing   *)
(* there").                                                                *)
(***************************************************************************)
EXTENDS Integers

CONSTANTS
    Names,     \* the strings a caller can pass as a device name or a prefix
    NameLen,   \* NameLen[n]: the length of name n
    Null       \* the null pointer / no value

ASSUME NamesAssumption == NameLen \in [Names -> Nat] /\ Null \notin Names

-----------------------------------------------------------------------------
RMNETCTL_SUCCESS     == 0
RMNETCTL_LIB_ERR     == 1
RMNETCTL_KERNEL_ERR  == 2
RMNETCTL_INVALID_ARG == 3

RMNETCTL_API_FIRST_ERR             == 1
RMNETCTL_API_ERR_MESSAGE_SEND      == 3
RMNETCTL_API_ERR_MESSAGE_RECEIVE   == 4
RMNETCTL_INIT_ERR_PROCESS_ID       == 5
RMNETCTL_INIT_ERR_NETLINK_FD       == 6
RMNETCTL_INIT_ERR_BIND             == 7
RMNETCTL_API_ERR_HNDL_INVALID      == 9
RMNETCTL_API_ERR_REQUEST_NULL      == 10
RMNETCTL_API_ERR_RESPONSE_NULL     == 11
RMNETCTL_API_ERR_MESSAGE_TYPE      == 12
RMNETCTL_API_ERR_RETURN_TYPE       == 13
RMNETCTL_API_ERR_STRING_TRUNCATION == 14
RMNETCTL_KERNEL_FIRST_ERR          == 15
RMNETCTL_API_ERR_RTA_FAILURE       == 25
RMNETCTL_API_ERR_ENUM_LENGTH       == 26

RMNET_MAX_STR_LEN == 16

\* The caller's error_code variable when the call did not store to it.
Untouched == -1

\* What a call hands back: its return value, *error_code, and the data stored
\* through its output pointers (Null when it stores none).
Result(rc, err, out) == [rc |-> rc, err |-> err, out |-> out]

\* The four return values librmnetctl.h lists for every call of the library.
DocumentedCodes == {RMNETCTL_SUCCESS, RMNETCTL_LIB_ERR,
                    RMNETCTL_KERNEL_ERR, RMNETCTL_INVALID_ARG}

\* The outcomes <<return value, error code>> of the calls to the rmnet_data
\* driver: each failure has an entry in its part of rmnetctl_error_code_text.
DataOutcomes ==
    {<<RMNETCTL_SUCCESS, 0>>, <<RMNETCTL_INVALID_ARG, Untouched>>}
    \cup ({RMNETCTL_LIB_ERR} \X
            {RMNETCTL_API_ERR_MESSAGE_SEND, RMNETCTL_API_ERR_MESSAGE_RECEIVE,
             RMNETCTL_API_ERR_REQUEST_NULL, RMNETCTL_API_ERR_RESPONSE_NULL,
             RMNETCTL_API_ERR_MESSAGE_TYPE, RMNETCTL_API_ERR_STRING_TRUNCATION})
    \cup ({RMNETCTL_KERNEL_ERR} \X
            (RMNETCTL_KERNEL_FIRST_ERR + 1 .. RMNETCTL_KERNEL_FIRST_ERR + 9))

\* The outcomes of the calls to the rtnetlink driver, where an error of the
\* system is one of errnos.  Whoever fails to receive returns an error code for
\* a return value: 4, which librmnetctl.h does not list.
RtOutcomes(errnos) ==
    {<<RMNETCTL_SUCCESS, 0>>, <<RMNETCTL_SUCCESS, Untouched>>,
     <<RMNETCTL_INVALID_ARG, Untouched>>,
     <<RMNETCTL_LIB_ERR, RMNETCTL_API_ERR_MESSAGE_SEND>>,
     <<RMNETCTL_API_FIRST_ERR, RMNETCTL_API_ERR_RETURN_TYPE>>,
     <<RMNETCTL_KERNEL_ERR, RMNETCTL_API_ERR_RTA_FAILURE>>}
    \cup ({RMNETCTL_LIB_ERR, RMNETCTL_KERNEL_ERR, RMNETCTL_API_ERR_MESSAGE_RECEIVE}
            \X errnos)

\* The outcomes of opening a handle.
InitOutcomes ==
    {<<RMNETCTL_SUCCESS, Untouched>>}
    \cup ({RMNETCTL_LIB_ERR} \X
            {RMNETCTL_API_ERR_HNDL_INVALID, RMNETCTL_INIT_ERR_PROCESS_ID,
             RMNETCTL_INIT_ERR_NETLINK_FD, RMNETCTL_INIT_ERR_BIND})

-----------------------------------------------------------------------------
\* Mutant: a name of exactly RMNET_MAX_STR_LEN characters passes.
Bug_check_dev_name(n) ==
    n # Null /\ NameLen[n] <= RMNET_MAX_STR_LEN

\* The name is there and, with its terminator, fits RMNET_MAX_STR_LEN bytes.
_rmnetctl_check_dev_name(n) ==
    n # Null /\ NameLen[n] < RMNET_MAX_STR_LEN

\* strlcpy into a buffer of the given size: the copy is the name, or a
\* shortened one.
strlcpy(n, size) == [text |-> n, cut |-> NameLen[n] >= size]

\* Run on strlcpy's return value, which is the length of the source.
_rmnetctl_check_len(n) == NameLen[n] <= RMNET_MAX_STR_LEN

\* The kernel's return code, turned into the library's pair.  err0 is what
\* *error_code holds already.
_rmnetctl_set_codes(error_val, err0) ==
    IF error_val = 0
    THEN Result(RMNETCTL_SUCCESS, err0, Null)
    ELSE Result(RMNETCTL_KERNEL_ERR, error_val + RMNETCTL_KERNEL_FIRST_ERR, Null)

=============================================================================
