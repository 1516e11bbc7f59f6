------------------------------ MODULE RtRmnet ------------------------------
(***************************************************************************)
(* librmnetctl's interface to the rtnetlink rmnet driver (rtrmnet_ctl_init *)
(* ... rtrmnet_set_wda_freq).  A call checks its arguments, looks up the   *)
(* interface index of the names it was given, sends a link request that    *)
(* carries the index, and reads an acknowledgement; rtrmnet_ctl_getvnd     *)
(* reads the link's description instead, in two receives.                  *)
(*                                                                         *)
(* The kernel's interfaces are external: a name maps to the interface that *)
(* bears it, with the index it was given when it appeared.  Indices are    *)
(* never used twice.  Other processes create and remove interfaces at any  *)
(* time, between a lookup and the request that uses its index too.         *)
(***************************************************************************)
EXTENDS NetlinkHandle, RtaMessage

CONSTANTS
    Ifaces,       \* the names an interface can have
    Configs,      \* mux id and data format of a virtual device
    Uplinks,      \* its uplink aggregation parameters
    Errnos,       \* errors the kernel may refuse a request with
    MaxIndex      \* bound: interfaces created in one behaviour

ASSUME RtAssumption ==
    /\ Ifaces \subseteq Names
    /\ \A n \in Ifaces : NameLen[n] < RMNET_MAX_STR_LEN
    /\ Errnos \subseteq 1 .. 4095
    /\ MaxIndex \in Nat
    /\ Null \notin [config : Configs, uplink : Uplinks \cup {Null}]

VARIABLES
    links,        \* links[n]: the interface named n, or NoLink
    created,      \* the index given last
    carried,      \* history: the types of request the kernel has carried out
                  \* for the present handle
    look,         \* the request whose indices were just looked up, or NoCall
    peeked        \* rtrmnet_ctl_getvnd knows the size of the next datagram

kernel == <<links, created, carried>>
rtVars == <<handle, kernel, look, peeked>>

ENODEV == 19

NoLink == [index |-> 0, config |-> Null, uplink |-> Null]
Index(n) == IF n \in Ifaces THEN links[n].index ELSE 0

RtInit ==
    /\ HandleInit
    /\ links = [n \in Ifaces |-> NoLink]
    /\ created = 0
    /\ carried = {}
    /\ look = NoCall
    /\ peeked = FALSE

Building == look.type # "none"

-----------------------------------------------------------------------------
\* Interface i still exists, under whatever name.
Exists(i) == \E n \in Ifaces : links[n].index = i

\* The virtual device named n exists.
IsVnd(n) == n \in Ifaces /\ links[n].config # Null

\* The kernel can carry the request out.  Devices are found by index, except
\* the virtual device of an RTM_NEWLINK request, which is found by name.
Doable(req) ==
    \/ /\ req.type = "newvnd"
       /\ Exists(req.devindex) /\ created < MaxIndex
       /\ req.vndname \in Ifaces /\ links[req.vndname] = NoLink
    \/ /\ req.type \in {"changevnd", "uplink", "flow"}
       /\ Exists(req.devindex) /\ IsVnd(req.vndname)
    \/ req.type \in {"delvnd", "getvnd"} /\ Exists(req.vndindex)
    \/ req.type = "bridgevnd" /\ Exists(req.devindex) /\ Exists(req.vndindex)

\* The links when the request has been carried out.
Done(req) ==
    CASE req.type = "newvnd" ->
            [links EXCEPT ![req.vndname] =
                [index |-> created + 1, config |-> req.val, uplink |-> Null]]
      [] req.type = "changevnd" -> [links EXCEPT ![req.vndname].config = req.val]
      [] req.type = "uplink"    -> [links EXCEPT ![req.vndname].uplink = req.val]
      [] req.type = "delvnd"    ->
            [n \in Ifaces |-> IF links[n].index = req.vndindex THEN NoLink ELSE links[n]]
      [] OTHER -> links

\* An acknowledgement, which quotes the request, and a link's description,
\* with the rmnet attributes of a virtual device or (config = Null) without.
Ack(req, errno) == [type |-> "NLMSG_ERROR", to |-> req.type, errno |-> errno]
LinkInfo(l) == [type |-> "RTM_NEWLINK", to |-> "getvnd", errno |-> 0, link |-> l]

\* The kernel's side of a send: carry out and answer, or refuse.
Handle(req) ==
    \/ /\ Doable(req)
       /\ links' = Done(req)
       /\ created' = IF req.type = "newvnd" THEN created + 1 ELSE created
       /\ carried' = carried \cup {req.type}
       /\ Send(req, IF req.type = "getvnd"
                    THEN LinkInfo(CHOOSE l \in {links[n] : n \in Ifaces} :
                                      l.index = req.vndindex)
                    ELSE Ack(req, 0))
    \/ /\ \E e \in Errnos : Send(req, Ack(req, e))
       /\ UNCHANGED kernel

-----------------------------------------------------------------------------
\* A call up to its lookups: the number is used up before them, and the first
\* name without an interface ends the call.
Call(bad, lookups, type, devname, vndname, val) ==
    /\ Ready /\ ~Building
    /\ transaction_id < MaxCalls
    /\ \/ /\ hndl = "null" \/ bad
          /\ Refuse(RMNETCTL_INVALID_ARG, Untouched)
          /\ UNCHANGED look
       \/ /\ hndl = "live" /\ ~bad /\ \E n \in lookups : Index(n) = 0
          /\ RefuseNumbered(RMNETCTL_KERNEL_ERR, ENODEV)
          /\ UNCHANGED look
       \/ /\ hndl = "live" /\ ~bad /\ \A n \in lookups : Index(n) # 0
          /\ look' = [seq |-> transaction_id, type |-> type, vndname |-> vndname,
                      devindex |-> Index(devname), vndindex |-> Index(vndname),
                      val |-> val]
          /\ transaction_id' = transaction_id + 1
          /\ own' = NoAnswer
          /\ behind' = 0
          /\ UNCHANGED <<hndl, opens, call, outq, result>>
    /\ UNCHANGED <<kernel, peeked>>

\* Mutant: a failed send is not noticed, and the call goes on to receive.
Bug_SendRequest ==
    /\ Building
    /\ look' = NoCall
    /\ UNCHANGED <<transaction_id, peeked>>
    /\ \/ Handle(look)
       \/ /\ "send" \in Faults
          /\ call' = look
          /\ UNCHANGED <<hndl, opens, outq, result, own, behind, kernel>>

\* The rest of a call up to its send.  The attributes always fit (see
\* MessageSound), so building the message cannot fail.
SendRequest ==
    /\ Building
    /\ look' = NoCall
    /\ \/ /\ Handle(look)
          /\ UNCHANGED transaction_id
       \/ /\ "send" \in Faults
          /\ Refuse(RMNETCTL_LIB_ERR, RMNETCTL_API_ERR_MESSAGE_SEND)
          /\ UNCHANGED kernel
    /\ UNCHANGED peeked

Good(n) == _rmnetctl_check_dev_name(n)

rtrmnet_ctl_init   == OpenHandle /\ carried' = {} /\ UNCHANGED <<links, created, look, peeked>>
rtrmnet_ctl_deinit == CloseHandle /\ ~Building /\ UNCHANGED <<kernel, look, peeked>>

rtrmnet_ctl_newvnd(dev, vnd, config) ==
    Call(~Good(dev) \/ ~Good(vnd), {dev}, "newvnd", dev, vnd, config)

rtrmnet_ctl_delvnd(vnd) ==
    Call(vnd = Null, {vnd}, "delvnd", Null, vnd, Null)

rtrmnet_ctl_changevnd(dev, vnd, config) ==
    Call(~Good(dev) \/ ~Good(vnd), {dev}, "changevnd", dev, vnd, config)

rtrmnet_ctl_getvnd(vnd) ==
    Call(~Good(vnd), {vnd}, "getvnd", Null, vnd, Null)

rtrmnet_ctl_bridgevnd(dev, vnd) ==
    Call(dev = Null \/ ~Good(vnd), {dev, vnd}, "bridgevnd", dev, vnd, Null)

rtrmnet_set_uplink_aggregation_params(dev, vnd, params) ==
    Call(~Good(dev) \/ ~Good(vnd), {dev}, "uplink", dev, vnd, params)

\* A call that sends a flow message (rmnet_fill_flow_msg).  The calls below
\* differ in what the message holds, which the driver alone looks at, and in
\* that a scale must not be zero.
FlowCall(dev, vnd, bad) ==
    Call(~Good(dev) \/ ~Good(vnd) \/ bad, {dev}, "flow", dev, vnd, Null)

rtrmnet_activate_flow(dev, vnd)        == FlowCall(dev, vnd, FALSE)
rtrmnet_delete_flow(dev, vnd)          == FlowCall(dev, vnd, FALSE)
rtrmnet_control_flow(dev, vnd)         == FlowCall(dev, vnd, FALSE)
rtrmnet_flow_state_up(dev, vnd)        == FlowCall(dev, vnd, FALSE)
rtrmnet_flow_state_down(dev, vnd)      == FlowCall(dev, vnd, FALSE)
rtrmnet_set_qmi_scale(dev, vnd, scale) == FlowCall(dev, vnd, scale = 0)
rtrmnet_set_wda_freq(dev, vnd)         == FlowCall(dev, vnd, FALSE)

-----------------------------------------------------------------------------
\* What rtrmnet_ctl_getvnd stores for the link described in an answer.
Described(answer) == [config |-> answer.link.config, uplink |-> answer.link.uplink]

EAGAIN == 11
ENOMEM == 12

\* Mutant: the type of the datagram is not looked at.
Bug_get_ack ==
    /\ Waiting /\ call.type # "getvnd"
    /\ outq # << >>
    /\ LET ack == Head(outq)
       IN  Finish(IF ack.errno = 0
                  THEN Result(RMNETCTL_SUCCESS, 0, Null)
                  ELSE Result(RMNETCTL_KERNEL_ERR, ack.errno, Null))
    /\ outq' = Tail(outq)
    /\ UNCHANGED <<kernel, look, peeked>>

\* Mutant: the kernel's error is handed on as it comes, negative.
Bug_get_ack_sign ==
    /\ Waiting /\ call.type # "getvnd"
    /\ outq # << >>
    /\ LET ack == Head(outq)
       IN  Finish(IF ack.type # "NLMSG_ERROR"
                  THEN Result(RMNETCTL_API_FIRST_ERR, RMNETCTL_API_ERR_RETURN_TYPE, Null)
                  ELSE Result(IF ack.errno = 0 THEN RMNETCTL_SUCCESS ELSE RMNETCTL_KERNEL_ERR,
                              -ack.errno, Null))
    /\ outq' = Tail(outq)
    /\ UNCHANGED <<kernel, look, peeked>>

\* An acknowledgement is awaited and a datagram is there: of type NLMSG_ERROR
\* it tells the outcome, of another type it is an error.
rmnet_get_ack ==
    /\ Waiting /\ call.type # "getvnd"
    /\ outq # << >>
    /\ LET ack == Head(outq)
       IN  Finish(IF ack.type # "NLMSG_ERROR"
                  THEN Result(RMNETCTL_API_FIRST_ERR, RMNETCTL_API_ERR_RETURN_TYPE, Null)
                  ELSE IF ack.errno = 0
                  THEN Result(RMNETCTL_SUCCESS, 0, Null)
                  ELSE Result(RMNETCTL_KERNEL_ERR, ack.errno, Null))
    /\ outq' = Tail(outq)
    /\ UNCHANGED <<kernel, look, peeked>>

\* rtrmnet_ctl_getvnd asks for the size of the datagram it will read ...
PeekLink ==
    /\ Waiting /\ call.type = "getvnd" /\ ~peeked
    /\ outq # << >>
    /\ peeked' = TRUE
    /\ UNCHANGED <<handle, kernel, look>>

\* ... allocates a buffer of that size, in vain: the datagram stays queued ...
NoBuffer ==
    /\ peeked
    /\ "memory" \in Faults
    /\ Finish(Result(RMNETCTL_LIB_ERR, ENOMEM, Null))
    /\ peeked' = FALSE
    /\ UNCHANGED <<outq, kernel, look>>

\* ... or reads it and looks for the rmnet attributes.  Its type is not looked
\* at; neither an acknowledgement nor the description of another kind of
\* interface has them.
ReadLink ==
    /\ peeked
    /\ LET answer == Head(outq)
       IN  Finish(IF answer.type = "RTM_NEWLINK" /\ answer.link.config # Null
                  THEN Result(RMNETCTL_SUCCESS, Untouched, Described(answer))
                  ELSE Result(RMNETCTL_KERNEL_ERR, RMNETCTL_API_ERR_RTA_FAILURE, Null))
    /\ outq' = Tail(outq)
    /\ peeked' = FALSE
    /\ UNCHANGED <<kernel, look>>

\* A receive fails, in rmnet_get_ack or in rtrmnet_ctl_getvnd: the return value
\* is an error code, the error code an errno, and what is queued stays queued.
ReceiveFails ==
    /\ Waiting
    /\ "recv" \in Faults
    /\ Finish(Result(RMNETCTL_API_ERR_MESSAGE_RECEIVE, EAGAIN, Null))
    /\ peeked' = FALSE
    /\ UNCHANGED <<outq, kernel, look>>

-----------------------------------------------------------------------------
\* Other processes: an interface appears or is removed.
Appear(n, config) ==
    /\ links[n] = NoLink
    /\ created < MaxIndex
    /\ links' = [links EXCEPT ![n] = [index |-> created + 1, config |-> config, uplink |-> Null]]
    /\ created' = created + 1
    /\ UNCHANGED <<handle, carried, look, peeked>>

Vanish(n) ==
    /\ links[n] # NoLink
    /\ links' = [links EXCEPT ![n] = NoLink]
    /\ UNCHANGED <<handle, created, carried, look, peeked>>

-----------------------------------------------------------------------------
Ptrs == Names \cup {Null}

Calls ==
    \/ \E dev \in Ptrs, vnd \in Ptrs :
          \/ \E c \in Configs : \/ rtrmnet_ctl_newvnd(dev, vnd, c)
                                \/ rtrmnet_ctl_changevnd(dev, vnd, c)
          \/ rtrmnet_ctl_bridgevnd(dev, vnd)
          \/ \E u \in Uplinks : rtrmnet_set_uplink_aggregation_params(dev, vnd, u)
          \/ rtrmnet_activate_flow(dev, vnd) \/ rtrmnet_delete_flow(dev, vnd)
          \/ rtrmnet_control_flow(dev, vnd)
          \/ rtrmnet_flow_state_up(dev, vnd) \/ rtrmnet_flow_state_down(dev, vnd)
          \/ \E scale \in {0, 1} : rtrmnet_set_qmi_scale(dev, vnd, scale)
          \/ rtrmnet_set_wda_freq(dev, vnd)
    \/ \E vnd \in Ptrs : rtrmnet_ctl_delvnd(vnd) \/ rtrmnet_ctl_getvnd(vnd)

RtNext ==
    \/ rtrmnet_ctl_init \/ rtrmnet_ctl_deinit
    \/ Calls
    \/ SendRequest
    \/ rmnet_get_ack
    \/ PeekLink \/ NoBuffer \/ ReadLink
    \/ ReceiveFails
    \/ \E n \in Ifaces : Vanish(n) \/ \E c \in Configs \cup {Null} : Appear(n, c)

RtSpec == RtInit /\ [][RtNext]_rtVars

-----------------------------------------------------------------------------
(***************************************************************************)
(* Properties.                                                             *)
(***************************************************************************)
\* The call `result` belongs to reached the kernel and has returned.
Returned == ~Waiting /\ own.type # "none"

\* That call gave up before it had read its answer.
GaveUp ==
    \/ result.rc = RMNETCTL_API_ERR_MESSAGE_RECEIVE
    \/ result.rc = RMNETCTL_LIB_ERR /\ result.err = ENOMEM

\* The type invariant: at most one call at a time, no unread answer without a
\* socket, one interface per index, and an error code that is unsigned.
RtTypeOK ==
    /\ HandleTypeOK
    /\ ~(Waiting /\ Building)
    /\ peeked => Waiting /\ outq # << >>
    /\ \A n \in Ifaces : links[n].index \in 0 .. created
    /\ \A m, n \in Ifaces : links[m].index = links[n].index /\ m # n => links[m] = NoLink
    /\ result.rc \in Int /\ result.err \in {Untouched} \cup Nat

\* The outcomes rmnetcli has to deal with: what RmnetCli assumes of the library.
\* librmnetctl.h lists four return values for these calls; the code of a failed
\* receive is a fifth.
KnownOutcome ==
    <<result.rc, result.err>> \in RtOutcomes(Errnos \cup {ENODEV, EAGAIN, ENOMEM})
                                      \cup InitOutcomes

\* A call that found no older answer queued reports its own request's fate:
\* the acknowledgement's error or success, or the description of the very
\* interface whose index it had looked up - interfaces that were removed or
\* replaced after the lookup included.
OwnAnswer ==
    Returned /\ behind = 0 /\ ~GaveUp =>
        \/ /\ result.rc = RMNETCTL_SUCCESS /\ own.errno = 0
           /\ own.to = "getvnd" => own.link.config # Null /\ result.out = Described(own)
        \/ /\ result.rc = RMNETCTL_KERNEL_ERR /\ own.to # "getvnd"
           /\ own.errno # 0 /\ result.err = own.errno
        \/ /\ result.rc = RMNETCTL_KERNEL_ERR /\ own.to = "getvnd"
           /\ own.errno # 0 \/ own.link.config = Null
           /\ result.err = RMNETCTL_API_ERR_RTA_FAILURE

\* However far the socket has fallen behind, the two kinds of answer are not
\* taken for each other: rtrmnet_ctl_getvnd succeeds only with a description
\* in hand, and another call only if the kernel has carried out a request of
\* that kind for this handle.
KindsKeptApart ==
    Returned /\ result.rc = RMNETCTL_SUCCESS =>
        IF own.to = "getvnd" THEN result.out # Null
                             ELSE carried \ {"getvnd"} # {}

\* A success is the right one, whatever is queued: both of the above.
AnswersMatched == OwnAnswer /\ KindsKeptApart

\* Whenever a call has its indices and goes on to build its message, every
\* attribute fits the buffer and the kernel's walk finds it where it belongs.
MessageSound == Building /\ look.type \in DOMAIN Sound => Sound[look.type]

\* A call never waits for an answer that cannot come: its request has reached
\* the kernel, and the answer is the last on the socket unless the kernel lost
\* it.  So a call that the kernel answers returns after one or two receives, and
\* one whose answer is lost, on a socket without a time-out, waits by design.
AnswerComes ==
    Waiting => /\ own.type # "none"
               /\ \/ Len(outq) = behind + 1 /\ outq[behind + 1] = own
                  \/ Len(outq) = behind /\ "drop" \in Faults

=============================================================================
