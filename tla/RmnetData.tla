----------------------------- MODULE RmnetData -----------------------------
(***************************************************************************)
(* librmnetctl's interface to the rmnet_data driver (rmnetctl_init ...     *)
(* rmnet_add_del_vnd_tc_flow): each call checks its arguments, sends one   *)
(* request and decodes the one answer it receives.                         *)
(*                                                                         *)
(* The driver is external.  Its configuration is a map from the object a   *)
(* request names to the value last stored there; a request is carried out  *)
(* or refused with one of the driver's error codes, and a query answers    *)
(* with the value or with an error code.  The struct a request is built in *)
(* becomes the pair (key, val).                                            *)
(***************************************************************************)
EXTENDS NetlinkHandle

CONSTANTS
    Formats,      \* data formats whose flags lie within the masks
    BadFormats,   \* data formats with a flag outside the masks
    EpIds,        \* logical endpoint numbers a caller tries
    Modes,        \* operating modes a caller tries
    VndIds,       \* virtual device numbers
    Flows,        \* (map flow, tc flow) pairs
    Sizes,        \* sizes of a caller's output buffers
    KernelErrs    \* the driver's error codes, 1..9

ASSUME DataAssumption ==
    /\ EpIds \subseteq Int /\ Modes \subseteq Nat /\ Sizes \subseteq Nat
    /\ KernelErrs \subseteq 1 .. 9

VARIABLES
    cfg,          \* the driver's configuration
    carried       \* history: the types of request the driver has carried out
                  \* for the present handle

driver == <<cfg, carried>>
vars == <<handle, driver>>

RMNET_EPMODE_LENGTH == 3

\* The objects the driver keeps a value for.
Keys == ({"assoc", "egress", "ingress"} \X Names)
            \cup ({"lep"} \X Names \X EpIds)
            \cup ({"vnd"} \X VndIds)
            \cup ({"flow"} \X VndIds \X Flows)

\* What can be stored there: nothing, a plain value (see Plain), a name.
Values == {Null} \cup [value : Formats \cup BadFormats \cup {0, 1, 2}]
                 \cup [text : Names \cup {Null}, cut : BOOLEAN]

\* The requests that ask for a value.
Queries == {"GET_NETWORK_DEVICE_ASSOCIATED", "GET_LINK_EGRESS_DATA_FORMAT",
            "GET_LINK_INGRESS_DATA_FORMAT", "GET_LOGICAL_EP_CONFIG", "GET_VND_NAME"}

\* A stored value that is not a name.
Plain(v) == [value |-> v]

\* The requests that store one.
Updates == {"ASSOCIATE_NETWORK_DEVICE", "UNASSOCIATE_NETWORK_DEVICE",
            "SET_LINK_EGRESS_DATA_FORMAT", "SET_LINK_INGRESS_DATA_FORMAT",
            "SET_LOGICAL_EP_CONFIG", "UNSET_LOGICAL_EP_CONFIG",
            "NEW_VND", "NEW_VND_WITH_PREFIX", "NEW_VND_WITH_NAME", "FREE_VND",
            "ADD_VND_TC_FLOW", "DEL_VND_TC_FLOW"}

Request == [seq : Nat, type : Queries \cup Updates, key : Keys, val : Values, size : Nat]
Answer  == [seq : Nat, type : Queries \cup Updates, crd : {"RETURNCODE", "RETURNDATA"},
            code : 0 .. 9, data : Values]

Init ==
    /\ HandleInit
    /\ cfg = [k \in Keys |-> IF k[1] = "assoc" THEN Plain(0) ELSE Null]
    /\ carried = {}

-----------------------------------------------------------------------------
\* The driver's possible answers to a request: a return code (0 is
\* RMNET_CONFIG_OK) or, for a query, the data.
Answers(req) ==
    LET reply(crd, code, data) ==
            [seq |-> req.seq, type |-> req.type, crd |-> crd, code |-> code, data |-> data]
    IN  {reply("RETURNCODE", e, Null) : e \in KernelErrs}
        \cup (IF req.type \notin Queries
              THEN {reply("RETURNCODE", 0, Null)}
              ELSE IF cfg[req.key] # Null
                   THEN {reply("RETURNDATA", 0, cfg[req.key])} ELSE {})

\* What the driver's configuration becomes when it gives that answer.
Effect(req, answer) ==
    IF req.type \notin Queries /\ answer.code = 0
    THEN [cfg EXCEPT ![req.key] = req.val] ELSE cfg

\* Mutant: a failed send is not noticed, and the call goes on to receive.
Bug_transact(type, key, val, size) ==
    LET req == [seq |-> transaction_id, type |-> type, key |-> key,
                val |-> val, size |-> size]
    IN  /\ transaction_id' = transaction_id + 1
        /\ \/ /\ "send" \in Faults
              /\ call' = req
              /\ own' = NoAnswer
              /\ behind' = Len(outq)
              /\ UNCHANGED <<hndl, opens, outq, result, driver>>
           \/ \E answer \in Answers(req) :
                 /\ Send(req, answer)
                 /\ cfg' = Effect(req, answer)
                 /\ carried' = IF answer.code = 0 THEN carried \cup {type} ELSE carried

\* The first half of a transaction: two buffers, a number, the send.  size is
\* the room the caller offers for the answer's string, 0 if it takes none.
rmnetctl_transact(type, key, val, size) ==
    LET req == [seq |-> transaction_id, type |-> type, key |-> key,
                val |-> val, size |-> size]
    IN  \/ /\ "memory" \in Faults
           /\ \E e \in {RMNETCTL_API_ERR_REQUEST_NULL, RMNETCTL_API_ERR_RESPONSE_NULL} :
                 Refuse(RMNETCTL_LIB_ERR, e)
           /\ UNCHANGED driver
        \/ /\ "send" \in Faults
           /\ RefuseNumbered(RMNETCTL_LIB_ERR, RMNETCTL_API_ERR_MESSAGE_SEND)
           /\ UNCHANGED driver
        \/ \E answer \in Answers(req) :
              /\ transaction_id' = transaction_id + 1
              /\ Send(req, answer)
              /\ cfg' = Effect(req, answer)
              /\ carried' = IF answer.code = 0 THEN carried \cup {type} ELSE carried

\* A call: refused if an argument (or the handle) is bad; refused if the name
\* did not survive its copy; otherwise a transaction.
Call(bad, truncated, type, key, val, size) ==
    /\ Ready
    /\ transaction_id < MaxCalls
    /\ \/ /\ hndl = "null" \/ bad
          /\ Refuse(RMNETCTL_INVALID_ARG, Untouched)
          /\ UNCHANGED driver
       \/ /\ hndl = "live" /\ ~bad /\ truncated
          /\ Refuse(RMNETCTL_LIB_ERR, RMNETCTL_API_ERR_STRING_TRUNCATION)
          /\ UNCHANGED driver
       \/ /\ hndl = "live" /\ ~bad /\ ~truncated
          /\ rmnetctl_transact(type, key, val, size)

-----------------------------------------------------------------------------
rmnetctl_init    == OpenHandle /\ carried' = {} /\ UNCHANGED cfg
rmnetctl_cleanup == CloseHandle /\ UNCHANGED driver

rmnet_associate_network_device(dev, assoc_dev) ==
    Call(~_rmnetctl_check_dev_name(dev) \/ assoc_dev \notin {0, 1},
         ~_rmnetctl_check_len(dev),
         IF assoc_dev = 1 THEN "ASSOCIATE_NETWORK_DEVICE" ELSE "UNASSOCIATE_NETWORK_DEVICE",
         <<"assoc", dev>>, Plain(assoc_dev), 0)

rmnet_get_network_device_associated(dev) ==
    Call(~_rmnetctl_check_dev_name(dev), ~_rmnetctl_check_len(dev),
         "GET_NETWORK_DEVICE_ASSOCIATED", <<"assoc", dev>>, Null, 0)

rmnet_set_link_egress_data_format(format, dev) ==
    Call(~_rmnetctl_check_dev_name(dev) \/ format \in BadFormats,
         ~_rmnetctl_check_len(dev),
         "SET_LINK_EGRESS_DATA_FORMAT", <<"egress", dev>>, Plain(format), 0)

rmnet_get_link_egress_data_format(dev) ==
    Call(~_rmnetctl_check_dev_name(dev), ~_rmnetctl_check_len(dev),
         "GET_LINK_EGRESS_DATA_FORMAT", <<"egress", dev>>, Null, 0)

rmnet_set_link_ingress_data_format_tailspace(format, dev) ==
    Call(~_rmnetctl_check_dev_name(dev) \/ format \in BadFormats,
         ~_rmnetctl_check_len(dev),
         "SET_LINK_INGRESS_DATA_FORMAT", <<"ingress", dev>>, Plain(format), 0)

rmnet_get_link_ingress_data_format_tailspace(dev) ==
    Call(~_rmnetctl_check_dev_name(dev), ~_rmnetctl_check_len(dev),
         "GET_LINK_INGRESS_DATA_FORMAT", <<"ingress", dev>>, Null, 0)

BadEp(ep_id) == ep_id < -1 \/ ep_id > 31

rmnet_set_logical_ep_config(ep_id, mode, dev, next_dev) ==
    Call(BadEp(ep_id) \/ mode >= RMNET_EPMODE_LENGTH
            \/ ~_rmnetctl_check_dev_name(dev) \/ ~_rmnetctl_check_dev_name(next_dev),
         ~_rmnetctl_check_len(dev) \/ ~_rmnetctl_check_len(next_dev),
         "SET_LOGICAL_EP_CONFIG", <<"lep", dev, ep_id>>,
         strlcpy(next_dev, RMNET_MAX_STR_LEN), 0)

rmnet_unset_logical_ep_config(ep_id, dev) ==
    Call(BadEp(ep_id) \/ ~_rmnetctl_check_dev_name(dev), ~_rmnetctl_check_len(dev),
         "UNSET_LOGICAL_EP_CONFIG", <<"lep", dev, ep_id>>, Null, 0)

rmnet_get_logical_ep_config(ep_id, dev, next_dev_len) ==
    Call(BadEp(ep_id) \/ ~_rmnetctl_check_dev_name(dev) \/ next_dev_len = 0,
         ~_rmnetctl_check_len(dev),
         "GET_LOGICAL_EP_CONFIG", <<"lep", dev, ep_id>>, Null, next_dev_len)

\* A device made without a name gets one from the driver, of this text.
DriverName == [text |-> Null, cut |-> FALSE]

\* prefix is Null when the caller gives none.
rmnet_new_vnd_prefix(id, new_vnd, prefix) ==
    LET named == new_vnd = 1 /\ prefix # Null
    IN  Call(new_vnd \notin {0, 1},
             named /\ ~_rmnetctl_check_len(prefix),
             CASE named       -> "NEW_VND_WITH_PREFIX"
               [] new_vnd = 0 -> "FREE_VND"
               [] OTHER       -> "NEW_VND",
             <<"vnd", id>>,
             CASE named       -> strlcpy(prefix, RMNET_MAX_STR_LEN)
               [] new_vnd = 0 -> Null
               [] OTHER       -> DriverName,
             0)

rmnet_new_vnd(id, new_vnd) == rmnet_new_vnd_prefix(id, new_vnd, Null)

rmnet_new_vnd_name(id, name) ==
    Call(FALSE, name # Null /\ ~_rmnetctl_check_len(name),
         IF name # Null THEN "NEW_VND_WITH_NAME" ELSE "NEW_VND",
         <<"vnd", id>>,
         IF name # Null THEN strlcpy(name, RMNET_MAX_STR_LEN) ELSE DriverName,
         0)

rmnet_get_vnd_name(id, buflen) ==
    Call(buflen = 0, FALSE, "GET_VND_NAME", <<"vnd", id>>, Null, buflen)

rmnet_add_del_vnd_tc_flow(id, flow, set_flow) ==
    Call(set_flow \notin {0, 1}, FALSE,
         IF set_flow = 1 THEN "ADD_VND_TC_FLOW" ELSE "DEL_VND_TC_FLOW",
         <<"flow", id, flow>>, Plain(set_flow), 0)

-----------------------------------------------------------------------------
\* The length of a name the driver holds: it was cut to fit, or is the
\* driver's own ("rmnet_data0").
HeldLen(v) ==
    CASE v.cut         -> RMNET_MAX_STR_LEN - 1
      [] v.text = Null -> 11
      [] OTHER         -> NameLen[v.text]

\* strlcpy of a name the driver holds into the caller's buffer.
CopyOut(v, size) == [v EXCEPT !.cut = @ \/ HeldLen(v) >= size]

\* The data of a query's answer, stored through the caller's pointers.  Only
\* rmnet_get_vnd_name compares the length with the buffer it copied into.
StoreData(req, data) ==
    CASE req.type = "GET_VND_NAME" ->
            IF HeldLen(data) >= req.size
            THEN Result(RMNETCTL_LIB_ERR, RMNETCTL_API_ERR_STRING_TRUNCATION,
                        CopyOut(data, req.size))
            ELSE Result(RMNETCTL_SUCCESS, 0, CopyOut(data, req.size))
      [] req.type = "GET_LOGICAL_EP_CONFIG" ->
            LET room == IF req.size < RMNET_MAX_STR_LEN THEN req.size
                                                        ELSE RMNET_MAX_STR_LEN
            IN  Result(RMNETCTL_SUCCESS, 0, CopyOut(data, room))
      [] OTHER -> Result(RMNETCTL_SUCCESS, 0, data)

\* Mutant: the answer's message type is not compared with the request's.
Bug_Decode(req, answer) ==
    IF req.type \in Queries /\ answer.crd = "RETURNDATA"
    THEN Result(RMNETCTL_SUCCESS, 0, answer.data)
    ELSE _rmnetctl_set_codes(answer.code, 0)

\* Mutant: a query's answer is taken for data without looking.
Bug_DecodeQuery(req, answer) ==
    IF answer.type = req.type
    THEN IF req.type \in Queries THEN Result(RMNETCTL_SUCCESS, 0, answer.data)
                                 ELSE _rmnetctl_set_codes(answer.code, 0)
    ELSE Result(RMNETCTL_LIB_ERR, RMNETCTL_API_ERR_MESSAGE_TYPE, Null)

\* The answer a call received, turned into what the call hands back.  Its
\* sequence number is not looked at.
Decode(req, answer) ==
    CASE answer.type # req.type ->
            Result(RMNETCTL_LIB_ERR, RMNETCTL_API_ERR_MESSAGE_TYPE, Null)
      [] answer.type = req.type /\ req.type \notin Queries ->
            IF answer.crd = "RETURNCODE"
            THEN _rmnetctl_set_codes(answer.code, 0)
            ELSE Result(RMNETCTL_LIB_ERR, RMNETCTL_API_ERR_RETURN_TYPE, Null)
      [] answer.type = req.type /\ req.type \in Queries ->
            CASE answer.crd = "RETURNDATA" -> StoreData(req, answer.data)
              [] answer.crd = "RETURNCODE" ->
                    _rmnetctl_set_codes(answer.code, RMNETCTL_API_ERR_RETURN_TYPE)
              [] OTHER -> Result(RMNETCTL_LIB_ERR, RMNETCTL_API_ERR_RETURN_TYPE, Null)

\* Mutant: the datagram is read without being taken off the queue.
Bug_Receive ==
    /\ Waiting
    /\ outq # << >>
    /\ Finish(Decode(call, Head(outq)))
    /\ UNCHANGED <<outq, driver>>

\* The second half of a transaction: one datagram, whichever is first.
Receive ==
    /\ Waiting
    /\ outq # << >>
    /\ Finish(Decode(call, Head(outq)))
    /\ outq' = Tail(outq)
    /\ UNCHANGED driver

\* recvfrom fails; what is queued stays queued.
ReceiveFails ==
    /\ Waiting
    /\ "recv" \in Faults
    /\ Finish(Result(RMNETCTL_LIB_ERR, RMNETCTL_API_ERR_MESSAGE_RECEIVE, Null))
    /\ UNCHANGED <<outq, driver>>

-----------------------------------------------------------------------------
Ptrs == Names \cup {Null}       \* a name argument may be the null pointer
Flag == {0, 1, 2}               \* a choice argument may be neither choice

Calls ==
    \/ \E dev \in Ptrs, a \in Flag : rmnet_associate_network_device(dev, a)
    \/ \E dev \in Ptrs : rmnet_get_network_device_associated(dev)
    \/ \E dev \in Ptrs, f \in Formats \cup BadFormats :
          \/ rmnet_set_link_egress_data_format(f, dev)
          \/ rmnet_set_link_ingress_data_format_tailspace(f, dev)
    \/ \E dev \in Ptrs :
          \/ rmnet_get_link_egress_data_format(dev)
          \/ rmnet_get_link_ingress_data_format_tailspace(dev)
    \/ \E dev \in Ptrs, next \in Ptrs, ep \in EpIds, mode \in Modes :
          rmnet_set_logical_ep_config(ep, mode, dev, next)
    \/ \E dev \in Ptrs, ep \in EpIds :
          \/ rmnet_unset_logical_ep_config(ep, dev)
          \/ \E size \in Sizes : rmnet_get_logical_ep_config(ep, dev, size)
    \/ \E id \in VndIds, new \in Flag :
          \/ rmnet_new_vnd(id, new)
          \/ \E p \in Names : rmnet_new_vnd_prefix(id, new, p)
    \/ \E id \in VndIds, n \in Ptrs : rmnet_new_vnd_name(id, n)
    \/ \E id \in VndIds, size \in Sizes : rmnet_get_vnd_name(id, size)
    \/ \E id \in VndIds, f \in Flows, s \in Flag : rmnet_add_del_vnd_tc_flow(id, f, s)

Next == rmnetctl_init \/ rmnetctl_cleanup \/ Calls \/ Receive \/ ReceiveFails

Spec == Init /\ [][Next]_vars

\* The caller's thread stays in recvfrom until it returns.
FairSpec == Spec /\ WF_vars(Receive)

-----------------------------------------------------------------------------
(***************************************************************************)
(* Properties.                                                             *)
(***************************************************************************)
\* The call `result` belongs to reached the driver and has returned.
Returned == ~Waiting /\ own.type # "none"

\* The type invariant: a handle, a configuration for every object, messages,
\* and no unread answer without a socket.
TypeOK ==
    /\ HandleTypeOK
    /\ result \in [rc : Int, err : Int, out : Values]
    /\ cfg \in [Keys -> Values]
    /\ carried \in SUBSET (Queries \cup Updates)
    /\ call \in Request \cup {NoCall}
    /\ own \in Answer \cup {NoAnswer}
    /\ outq \in Seq(Answer)

\* A call that found no older answer queued reports its own request's fate: a
\* success if the driver carried it out, with the data it answered, and the
\* driver's error otherwise.  The exceptions are a failed receive and a name
\* longer than the caller's buffer.
OwnAnswer ==
    Returned /\ behind = 0 /\ result.err # RMNETCTL_API_ERR_MESSAGE_RECEIVE =>
        \/ /\ result.rc = RMNETCTL_SUCCESS
           /\ own.code = 0
           /\ own.type \in Queries \ {"GET_LOGICAL_EP_CONFIG"} => result.out = own.data
        \/ /\ result.rc = RMNETCTL_KERNEL_ERR
           /\ own.code # 0
           /\ result.err = own.code + RMNETCTL_KERNEL_FIRST_ERR
        \/ /\ result.rc = RMNETCTL_LIB_ERR
           /\ result.err = RMNETCTL_API_ERR_STRING_TRUNCATION
           /\ own.type = "GET_VND_NAME"

\* RMNETCTL_SUCCESS is returned only for a request the driver carried out, as
\* librmnetctl.h promises of every call.  It needs every answer to be received
\* by the call that caused it: rmnetctl_transact compares message types, not
\* sequence numbers.
SuccessMeansDone ==
    Returned /\ result.rc = RMNETCTL_SUCCESS => own.code = 0

\* What the comparison of message types does guarantee, however far the socket
\* has fallen behind: a call succeeds only if a request of its type was
\* carried out for this handle.
SameKind ==
    Returned /\ result.rc = RMNETCTL_SUCCESS => own.type \in carried

\* Every outcome is one its caller (rmnetcli among them) knows: a documented
\* return value, and for a failure an error code with an entry in the matching
\* part of rmnetctl_error_code_text.
KnownOutcome ==
    <<result.rc, result.err>> \in DataOutcomes \cup InitOutcomes

\* No endpoint is configured with a shortened device name: the checks before
\* the copy leave strlcpy nothing to cut.
EndpointNamesWhole ==
    \A dev \in Names, ep \in EpIds :
        cfg[<<"lep", dev, ep>>] # Null => ~cfg[<<"lep", dev, ep>>].cut

\* No virtual device is made with a shortened name or prefix either, as
\* rmnetcli's usage text and the comment on _rmnetctl_check_len have it.  The
\* calls that make one check its length only after the copy, with > for >=.
NamesWhole ==
    \A id \in VndIds :
        cfg[<<"vnd", id>>] # Null => ~cfg[<<"vnd", id>>].cut

\* The driver has answered and the answer was lost; nothing else is queued.
Lost == Waiting /\ own.type # "none" /\ outq = << >>

\* A call returns, unless the kernel loses its answer: recvfrom has something
\* to read whenever the send succeeded.
CallReturns == Waiting ~> (~Waiting \/ Lost)

=============================================================================
