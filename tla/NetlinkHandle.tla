--------------------------- MODULE NetlinkHandle ---------------------------
(***************************************************************************)
(* A librmnetctl handle: the allocated structure, its netlink socket, the  *)
(* call in progress on it, and what the last call handed back.  The two    *)
(* drivers' interfaces (RmnetData and RtRmnet) are built on this module.   *)
(*                                                                         *)
(* Every call of the library is a send followed by a receive on the same   *)
(* blocking socket.  The kernel runs a request while the send is under way *)
(* and queues its answer on the socket before the send returns, so the     *)
(* model has two steps per call: the send (with the kernel's decision) and *)
(* the receive.  Between them, and between calls, the socket keeps what    *)
(* has not been read: outq.                                                *)
(*                                                                         *)
(* own and behind are history variables: the model needs them to say what  *)
(* a result ought to have been, no action tests them.                      *)
(***************************************************************************)
EXTENDS RmnetCodes, Sequences

CONSTANTS
    Faults,     \* the failures the environment may inject: a subset of
                \* {"init", "memory", "send", "recv", "drop"}
    MaxCalls,   \* bound: transactions started on one handle
    MaxOpens    \* bound: handles opened, one after the other

ASSUME FaultsAssumption ==
    /\ Faults \subseteq {"init", "memory", "send", "recv", "drop"}
    /\ MaxCalls \in Nat /\ MaxOpens \in Nat

VARIABLES
    hndl,            \* "null", "live", or "dangling" (freed, pointer kept)
    opens,           \* how many handles have been opened
    transaction_id,  \* hndl->transaction_id
    call,            \* the request whose answer is awaited, or NoCall
    outq,            \* answers queued on the socket and not yet received
    result,          \* what the last call handed back
    own,             \* the kernel's answer to that call's own request, or
                     \* NoAnswer if the request never reached the kernel
    behind           \* answers to earlier calls that were still queued when
                     \* that call sent its request

handle == <<hndl, opens, transaction_id, call, outq, result, own, behind>>

\* Neither is a message of any type.
NoCall   == [type |-> "none"]
NoAnswer == [type |-> "none"]

Waiting == call.type # "none"

HandleInit ==
    /\ hndl = "null"
    /\ opens = 0
    /\ transaction_id = 0
    /\ call = NoCall
    /\ outq = << >>
    /\ result = Result(RMNETCTL_SUCCESS, Untouched, Null)
    /\ own = NoAnswer
    /\ behind = 0

\* The caller is between calls and its pointer may be passed to the library.
Ready == ~Waiting /\ hndl # "dangling"

-----------------------------------------------------------------------------
\* The call under way (or just refused) ends without having sent anything.
Refuse(rc, err) ==
    /\ result' = Result(rc, err, Null)
    /\ own' = NoAnswer
    /\ behind' = 0
    /\ UNCHANGED <<hndl, opens, transaction_id, call, outq>>

\* As Refuse, but after the transaction number was used up.
RefuseNumbered(rc, err) ==
    /\ transaction_id' = transaction_id + 1
    /\ result' = Result(rc, err, Null)
    /\ own' = NoAnswer
    /\ behind' = 0
    /\ UNCHANGED <<hndl, opens, call, outq>>

\* The request goes out and the kernel answers it; the answer may be lost for
\* want of memory or queue space ("drop").
Send(req, answer) ==
    /\ call' = req
    /\ own' = answer
    /\ behind' = Len(outq)
    /\ \/ outq' = Append(outq, answer)
       \/ "drop" \in Faults /\ outq' = outq
    /\ UNCHANGED <<hndl, opens, result>>

\* The call in progress ends with r.
Finish(r) ==
    /\ result' = r
    /\ call' = NoCall
    /\ UNCHANGED <<hndl, opens, transaction_id, own, behind>>

-----------------------------------------------------------------------------
\* A new handle: memory, process id, socket, bind.  Each failure frees what
\* was taken and leaves the caller's pointer as it is.
OpenHandle ==
    /\ ~Waiting /\ hndl # "live" /\ opens < MaxOpens
    /\ own' = NoAnswer
    /\ behind' = 0
    /\ transaction_id' = 0
    /\ outq' = << >>
    /\ \/ /\ hndl' = "live"
          /\ opens' = opens + 1
          /\ result' = Result(RMNETCTL_SUCCESS, Untouched, Null)
       \/ /\ "init" \in Faults
          /\ hndl' = "null"
          /\ result' = Result(RMNETCTL_LIB_ERR, RMNETCTL_API_ERR_HNDL_INVALID, Null)
          /\ UNCHANGED opens
       \/ /\ "init" \in Faults
          /\ \E e \in {RMNETCTL_INIT_ERR_PROCESS_ID, RMNETCTL_INIT_ERR_NETLINK_FD,
                       RMNETCTL_INIT_ERR_BIND} :
                result' = Result(RMNETCTL_LIB_ERR, e, Null)
          /\ hndl' = "dangling"
          /\ UNCHANGED opens
    /\ UNCHANGED call

\* Mutant: the handle is freed and its socket left open.
Bug_CloseHandle ==
    /\ Ready
    /\ hndl' = "null"
    /\ transaction_id' = 0
    /\ UNCHANGED <<opens, outq, call, result, own, behind>>

\* The socket is closed, which discards its queue, and the handle freed.  The
\* caller forgets its pointer.
CloseHandle ==
    /\ Ready
    /\ hndl' = "null"
    /\ transaction_id' = 0
    /\ outq' = << >>
    /\ UNCHANGED <<opens, call, result, own, behind>>

-----------------------------------------------------------------------------
HandleTypeOK ==
    /\ hndl \in {"null", "live", "dangling"}
    /\ transaction_id \in Nat /\ opens \in Nat
    /\ behind \in Nat
    /\ hndl # "live" => ~Waiting /\ outq = << >>

=============================================================================
