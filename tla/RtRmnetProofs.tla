--------------------------- MODULE RtRmnetProofs ---------------------------
(***************************************************************************)
(* Proofs about RtRmnet: whatever other processes do to the interfaces and *)
(* however far the socket has fallen behind, a call reports what became of *)
(* a request of its kind, and of its own if nothing older was queued.      *)
(***************************************************************************)
EXTENDS RtRmnet, SequenceTheorems, TLAPS

RequestType == {"newvnd", "delvnd", "changevnd", "getvnd", "bridgevnd", "uplink", "flow"}

LinkRec == [index : Nat, config : Configs \cup {Null}, uplink : Uplinks \cup {Null}]

Answer == [type : {"NLMSG_ERROR"}, to : RequestType, errno : {0} \cup Errnos]
          \cup [type : {"RTM_NEWLINK"}, to : {"getvnd"}, errno : {0}, link : LinkRec]

\* A request as Call puts it together.
Typed(req) ==
    /\ req \in [seq : Nat, type : RequestType, vndname : Ptrs, devindex : Nat,
                vndindex : Nat, val : Configs \cup Uplinks \cup {Null}]
    /\ req.type \in {"newvnd", "changevnd"} => req.val \in Configs
    /\ req.type = "uplink" => req.val \in Uplinks

\* The socket and the outcome have their types.
TypeInv ==
    /\ HandleTypeOK
    /\ outq \in Seq(Answer)
    /\ peeked \in BOOLEAN
    /\ <<result.rc, result.err>> \in RtOutcomes(Errnos \cup {ENODEV, EAGAIN, ENOMEM})
                                      \cup InitOutcomes

\* An index belongs to one interface; a name without an interface has none.
LinkInv ==
    /\ created \in Nat
    /\ links \in [Ifaces -> LinkRec]
    /\ \A n \in Ifaces : links[n].index <= created /\ (links[n].index = 0 => links[n] = NoLink)
    /\ \A m, n \in Ifaces : links[m].index = links[n].index /\ m # n => links[m] = NoLink

\* A call between its lookups and its send has a handle and no answer yet.
LookInv == Building => Typed(look) /\ hndl = "live" /\ ~Waiting /\ own = NoAnswer

\* A waiting call's own answer is of its kind, and if nothing older was queued
\* it is alone on the socket, or lost.
CallInv ==
    /\ Waiting => /\ call.type \in RequestType
                  /\ own \in Answer /\ own.to = call.type
                  /\ call.type # "getvnd" => own.type = "NLMSG_ERROR"
                  /\ behind = 0 => outq = << >> \/ outq = <<own>>
    /\ peeked => Waiting /\ call.type = "getvnd" /\ outq # << >>

\* A queued acknowledgement of success stands for a request that the kernel has
\* carried out, and descriptions are all that rtrmnet_ctl_getvnd brings.
QueueInv ==
    \A i \in DOMAIN outq : outq[i].type = "NLMSG_ERROR" /\ outq[i].errno = 0
                             => outq[i].to \in carried \ {"getvnd"}

IInv == TypeInv /\ LinkInv /\ LookInv /\ CallInv /\ QueueInv /\ OwnAnswer /\ KindsKeptApart

-----------------------------------------------------------------------------
(***************************************************************************)
(* What the kernel does with a request.                                    *)
(***************************************************************************)

\* A request that is waited for, or about to be sent, is not "none".
LEMMA NoneLemma ==
    /\ NoCall.type = "none" /\ NoAnswer.type = "none"
    /\ \A a \in Answer : a.type # "none" /\ a # NoAnswer
    /\ \A req : Typed(req) => req.type # "none" /\ req.type \in RequestType
BY DEF NoCall, NoAnswer, Answer, Typed, RequestType

\* An acknowledgement quotes the type of the request.
LEMMA AckLemma ==
    ASSUME NEW req, Typed(req), NEW e \in {0} \cup Errnos
    PROVE  /\ Ack(req, e) \in Answer
           /\ Ack(req, e).type = "NLMSG_ERROR" /\ Ack(req, e).to = req.type
           /\ Ack(req, e).errno = e
BY DEF Typed, Ack, Answer

\* The link a description is about is the one that has the index.
LEMMA LinkInfoLemma ==
    ASSUME LinkInv, NEW i, Exists(i)
    PROVE  LET l == CHOOSE x \in {links[n] : n \in Ifaces} : x.index = i
           IN  /\ LinkInfo(l) \in Answer
               /\ LinkInfo(l).type = "RTM_NEWLINK" /\ LinkInfo(l).to = "getvnd"
<1> DEFINE l == CHOOSE x \in {links[n] : n \in Ifaces} : x.index = i
<1>1. l \in {links[n] : n \in Ifaces}
  BY DEF Exists
<1>2. l \in LinkRec
  BY <1>1 DEF LinkInv
<1> HIDE DEF l
<1>3. LinkInfo(l) \in Answer /\ LinkInfo(l).type = "RTM_NEWLINK" /\ LinkInfo(l).to = "getvnd"
  BY <1>2 DEF LinkInfo, Answer, RequestType
<1> QED BY <1>3 DEF l

\* A fresh index makes no two interfaces share one; a removal neither.
LEMMA NewLinkKeepsLinks ==
    ASSUME LinkInv, NEW n \in Ifaces, links[n] = NoLink, NEW l \in LinkRec,
           l.index = created + 1, links' = [links EXCEPT ![n] = l], created' = created + 1
    PROVE  LinkInv'
<1>1. created \in Nat
  BY DEF LinkInv
<1>2. /\ links' \in [Ifaces -> LinkRec]
      /\ \A m \in Ifaces : links'[m] = IF m = n THEN l ELSE links[m]
  BY <1>1 DEF LinkInv
<1>3. \A m \in Ifaces : links[m].index \in Nat /\ links[m].index <= created
  BY DEF LinkInv, LinkRec
<1> QED BY <1>1, <1>2, <1>3 DEF LinkInv

LEMMA RemovalKeepsLinks ==
    ASSUME LinkInv, UNCHANGED created, links' \in [Ifaces -> LinkRec],
           \A m \in Ifaces : links'[m] \in {links[m], NoLink}
    PROVE  LinkInv'
<1>1. NoLink.index = 0
  BY DEF NoLink
<1>2. \A m \in Ifaces : links[m].index \in Nat /\ links[m].index <= created
  BY DEF LinkInv, LinkRec
<1> QED BY <1>1, <1>2 DEF LinkInv

\* A change of a virtual device leaves its index alone.
LEMMA ChangeKeepsLinks ==
    ASSUME LinkInv, NEW n, IsVnd(n), NEW l \in LinkRec, l.index = links[n].index,
           links' = [links EXCEPT ![n] = l], UNCHANGED created
    PROVE  LinkInv'
<1>1. n \in Ifaces /\ links[n] # NoLink
  BY DEF IsVnd, NoLink
<1>2. links[n].index # 0
  BY <1>1 DEF LinkInv
<1>3. /\ links' \in [Ifaces -> LinkRec]
      /\ \A m \in Ifaces : links'[m] = IF m = n THEN l ELSE links[m]
  BY <1>1 DEF LinkInv
<1>4. \A m \in Ifaces : links'[m].index = links[m].index
  BY <1>3
<1>5. \A m \in Ifaces : m # n => links[m].index # links[n].index
  BY <1>1, <1>2 DEF LinkInv, NoLink
<1> QED BY <1>1, <1>2, <1>3, <1>4, <1>5 DEF LinkInv

\* Whatever the request, it keeps the interfaces' indices apart.
LEMMA DoneKeepsLinks ==
    ASSUME LinkInv, NEW req, Typed(req), Doable(req), links' = Done(req),
           created' = IF req.type = "newvnd" THEN created + 1 ELSE created
    PROVE  LinkInv'
<1>1. CASE req.type = "newvnd"
  <2>1. req.vndname \in Ifaces /\ links[req.vndname] = NoLink
    BY <1>1 DEF Doable
  <2> DEFINE l == [index |-> created + 1, config |-> req.val, uplink |-> Null]
  <2>2. links' = [links EXCEPT ![req.vndname] = l]
    BY Zenon, <1>1 DEF Done
  <2>3. l \in LinkRec /\ l.index = created + 1 /\ created' = created + 1
    BY <1>1 DEF Typed, LinkInv, LinkRec
  <2> HIDE DEF l
  <2> QED BY <2>1, <2>2, <2>3, NewLinkKeepsLinks
<1>2. CASE req.type = "changevnd"
  <2> DEFINE l == [links[req.vndname] EXCEPT !.config = req.val]
  <2>1. IsVnd(req.vndname)
    BY <1>2 DEF Doable
  <2>2. links' = [links EXCEPT ![req.vndname].config = req.val]
    BY Zenon, <1>2 DEF Done
  <2>3. links' = [links EXCEPT ![req.vndname] = l]
    BY <2>2
  <2>4. links[req.vndname] \in LinkRec /\ req.val \in Configs
    BY <1>2, <2>1 DEF LinkInv, IsVnd, Typed
  <2>5. l \in LinkRec /\ l.index = links[req.vndname].index
    BY <2>4 DEF LinkRec
  <2> HIDE DEF l
  <2> QED BY <1>2, <2>1, <2>3, <2>5, ChangeKeepsLinks
<1>3. CASE req.type = "uplink"
  <2> DEFINE l == [links[req.vndname] EXCEPT !.uplink = req.val]
  <2>1. IsVnd(req.vndname)
    BY <1>3 DEF Doable
  <2>2. links' = [links EXCEPT ![req.vndname].uplink = req.val]
    BY Zenon, <1>3 DEF Done
  <2>3. links' = [links EXCEPT ![req.vndname] = l]
    BY <2>2
  <2>4. links[req.vndname] \in LinkRec /\ req.val \in Uplinks
    BY <1>3, <2>1 DEF LinkInv, IsVnd, Typed
  <2>5. l \in LinkRec /\ l.index = links[req.vndname].index
    BY <2>4 DEF LinkRec
  <2> HIDE DEF l
  <2> QED BY <1>3, <2>1, <2>3, <2>5, ChangeKeepsLinks
<1>4. CASE req.type = "delvnd"
  <2>1. links' = [n \in Ifaces |-> IF links[n].index = req.vndindex THEN NoLink ELSE links[n]]
    BY Zenon, <1>4 DEF Done
  <2>2. NoLink \in LinkRec
    BY DEF NoLink, LinkRec
  <2>3. \A n \in Ifaces : links[n] \in LinkRec /\ links'[n] \in {links[n], NoLink}
    BY <2>1 DEF LinkInv
  <2>4. links' \in [Ifaces -> LinkRec]
    BY <2>1, <2>2, <2>3
  <2> QED BY <1>4, <2>3, <2>4, RemovalKeepsLinks
<1>5. CASE req.type \in {"getvnd", "bridgevnd", "flow"}
  <2>1. links' = links
    BY Zenon, <1>5 DEF Done
  <2> QED BY <1>5, <2>1 DEF LinkInv
<1> QED BY <1>1, <1>2, <1>3, <1>4, <1>5 DEF Typed, RequestType

-----------------------------------------------------------------------------
(***************************************************************************)
(* Every step keeps the invariant: calls that end without a send, sends,   *)
(* and receives.                                                           *)
(***************************************************************************)
Outcomes == RtOutcomes(Errnos \cup {ENODEV, EAGAIN, ENOMEM}) \cup InitOutcomes

\* The library reports only outcomes rmnetcli knows.
LEMMA OutcomesLemma ==
    /\ <<RMNETCTL_SUCCESS, 0>> \in Outcomes /\ <<RMNETCTL_SUCCESS, Untouched>> \in Outcomes
    /\ <<RMNETCTL_INVALID_ARG, Untouched>> \in Outcomes
    /\ <<RMNETCTL_LIB_ERR, RMNETCTL_API_ERR_MESSAGE_SEND>> \in Outcomes
    /\ <<RMNETCTL_API_FIRST_ERR, RMNETCTL_API_ERR_RETURN_TYPE>> \in Outcomes
    /\ <<RMNETCTL_KERNEL_ERR, RMNETCTL_API_ERR_RTA_FAILURE>> \in Outcomes
    /\ \A e \in Errnos \cup {ENODEV, EAGAIN, ENOMEM} :
          /\ <<RMNETCTL_LIB_ERR, e>> \in Outcomes
          /\ <<RMNETCTL_KERNEL_ERR, e>> \in Outcomes
          /\ <<RMNETCTL_API_ERR_MESSAGE_RECEIVE, e>> \in Outcomes
    /\ \A e \in {RMNETCTL_API_ERR_HNDL_INVALID, RMNETCTL_INIT_ERR_PROCESS_ID,
                 RMNETCTL_INIT_ERR_NETLINK_FD, RMNETCTL_INIT_ERR_BIND} :
          <<RMNETCTL_LIB_ERR, e>> \in Outcomes
BY DEF Outcomes, RtOutcomes, InitOutcomes

\* A call that ends, or goes on to build its message, without having sent.
LEMMA UnsentStep ==
    ASSUME IInv, ~Waiting,
           transaction_id' \in Nat, own' = NoAnswer, behind' = 0,
           <<result'.rc, result'.err>> \in Outcomes,
           look'.type = "none" \/ (Typed(look') /\ hndl = "live"),
           UNCHANGED <<hndl, opens, call, outq, kernel, peeked>>
    PROVE  IInv'
<1>1. ~Waiting' /\ ~Returned' /\ UNCHANGED <<hndl, opens, call, outq, peeked, links, created, carried>>
  BY DEF Waiting, Returned, NoAnswer, kernel
<1>2. TypeInv'
  BY <1>1 DEF IInv, TypeInv, HandleTypeOK, Outcomes, Waiting
<1>3. LinkInv' /\ QueueInv'
  BY <1>1 DEF IInv, LinkInv, QueueInv
<1>4. LookInv'
  BY <1>1, NoneLemma DEF LookInv, Building, Typed
<1>5. CallInv' /\ OwnAnswer' /\ KindsKeptApart'
  BY <1>1 DEF IInv, CallInv, OwnAnswer, KindsKeptApart
<1> QED BY <1>2, <1>3, <1>4, <1>5 DEF IInv

\* An interface index is a number, and 0 where there is no interface.
LEMMA IndexLemma ==
    ASSUME LinkInv, NEW n
    PROVE  Index(n) \in Nat
BY DEF LinkInv, LinkRec, Index

\* The first half of a call.
LEMMA CallStep ==
    ASSUME IInv, NEW bad, NEW lookups, NEW type \in RequestType, NEW dev \in Ptrs,
           NEW vnd \in Ptrs, NEW val \in Configs \cup Uplinks \cup {Null},
           type \in {"newvnd", "changevnd"} => val \in Configs,
           type = "uplink" => val \in Uplinks,
           Call(bad, lookups, type, dev, vnd, val)
    PROVE  IInv'
<1>1. /\ ~Waiting /\ ~Building /\ UNCHANGED <<kernel, peeked>> /\ transaction_id \in Nat
      /\ look.type = "none"
  BY DEF Call, Ready, Building, IInv, TypeInv, HandleTypeOK
<1>2. CASE Refuse(RMNETCTL_INVALID_ARG, Untouched) /\ UNCHANGED look
  <2>1. <<result'.rc, result'.err>> \in Outcomes /\ look'.type = "none"
    BY <1>1, <1>2, OutcomesLemma DEF Refuse, Result
  <2> QED BY <1>1, <1>2, <2>1, UnsentStep DEF Refuse
<1>3. CASE RefuseNumbered(RMNETCTL_KERNEL_ERR, ENODEV) /\ UNCHANGED look
  <2>1. <<result'.rc, result'.err>> \in Outcomes /\ look'.type = "none"
    BY <1>1, <1>3, OutcomesLemma DEF RefuseNumbered, Result
  <2> QED BY <1>1, <1>3, <2>1, UnsentStep DEF RefuseNumbered
<1>4. CASE /\ hndl = "live"
           /\ look' = [seq |-> transaction_id, type |-> type, vndname |-> vnd,
                       devindex |-> Index(dev), vndindex |-> Index(vnd), val |-> val]
           /\ transaction_id' = transaction_id + 1 /\ own' = NoAnswer /\ behind' = 0
           /\ UNCHANGED <<hndl, opens, call, outq, result>>
  <2>1. Index(dev) \in Nat /\ Index(vnd) \in Nat
    BY IndexLemma DEF IInv
  <2>2. Typed(look')
    BY <1>1, <1>4, <2>1 DEF Typed
  <2>3. <<result'.rc, result'.err>> \in Outcomes
    BY <1>4 DEF IInv, TypeInv, Outcomes
  <2> QED BY <1>1, <1>4, <2>2, <2>3, UnsentStep
<1> QED BY <1>2, <1>3, <1>4 DEF Call

\* The kernel's answer to a request is of its kind; success it answers only
\* after carrying the request out.
AnsweredWith(req, a) ==
    /\ Send(req, a) /\ a.to = req.type
    /\ req.type # "getvnd" => a.type = "NLMSG_ERROR"
    /\ a.type = "NLMSG_ERROR" /\ a.errno = 0 => a.to \in carried' \ {"getvnd"}
    /\ carried \subseteq carried' /\ LinkInv'

\* ... whatever becomes of the request.
LEMMA HandleAnswers ==
    ASSUME RtAssumption, LinkInv, NEW req, Typed(req), Handle(req)
    PROVE  \E a \in Answer : AnsweredWith(req, a)
<1> DEFINE info == LinkInfo(CHOOSE l \in {links[n] : n \in Ifaces} : l.index = req.vndindex)
<1>1. ASSUME Doable(req), links' = Done(req),
             created' = IF req.type = "newvnd" THEN created + 1 ELSE created,
             carried' = carried \cup {req.type}, req.type = "getvnd", Send(req, info)
      PROVE  \E a \in Answer : AnsweredWith(req, a)
  <2>1. Exists(req.vndindex)
    BY <1>1 DEF Doable
  <2>2. info \in Answer /\ info.type = "RTM_NEWLINK" /\ info.to = "getvnd"
    BY <2>1, LinkInfoLemma
  <2>3. LinkInv'
    BY <1>1, DoneKeepsLinks
  <2> HIDE DEF info
  <2>4. AnsweredWith(req, info)
    BY <1>1, <2>2, <2>3 DEF AnsweredWith
  <2> QED BY <2>2, <2>4
<1>2. ASSUME Doable(req), links' = Done(req),
             created' = IF req.type = "newvnd" THEN created + 1 ELSE created,
             carried' = carried \cup {req.type}, req.type # "getvnd", Send(req, Ack(req, 0))
      PROVE  \E a \in Answer : AnsweredWith(req, a)
  <2>1. Ack(req, 0) \in Answer /\ Ack(req, 0).type = "NLMSG_ERROR" /\ Ack(req, 0).to = req.type
    BY AckLemma
  <2>2. LinkInv'
    BY <1>2, DoneKeepsLinks
  <2>3. AnsweredWith(req, Ack(req, 0))
    BY <1>2, <2>1, <2>2 DEF AnsweredWith
  <2> QED BY <2>1, <2>3
<1>3. ASSUME NEW e \in Errnos, Send(req, Ack(req, e)), UNCHANGED kernel
      PROVE  \E a \in Answer : AnsweredWith(req, a)
  <2>1. /\ Ack(req, e) \in Answer /\ Ack(req, e).type = "NLMSG_ERROR"
        /\ Ack(req, e).to = req.type /\ Ack(req, e).errno # 0
    BY AckLemma, RtAssumption
  <2>2. LinkInv' /\ carried' = carried
    BY <1>3 DEF IInv, LinkInv, kernel
  <2>3. AnsweredWith(req, Ack(req, e))
    BY <1>3, <2>1, <2>2 DEF AnsweredWith
  <2> QED BY <2>1, <2>3
<1> QED BY <1>1, <1>2, <1>3 DEF Handle

\* The second half of a call: its own answer joins what is queued.
LEMMA SendStep ==
    ASSUME RtAssumption, IInv, SendRequest
    PROVE  IInv'
<1>1. /\ Building /\ Typed(look) /\ hndl = "live" /\ ~Waiting /\ ~peeked
      /\ look' = NoCall /\ look'.type = "none" /\ UNCHANGED peeked /\ ~Building'
      /\ transaction_id \in Nat
  BY NoneLemma DEF SendRequest, IInv, LookInv, CallInv, Building, TypeInv, HandleTypeOK
<1>2. CASE /\ Refuse(RMNETCTL_LIB_ERR, RMNETCTL_API_ERR_MESSAGE_SEND)
           /\ UNCHANGED kernel
  <2>1. <<result'.rc, result'.err>> \in Outcomes
    BY <1>2, OutcomesLemma DEF Refuse, Result
  <2> QED BY <1>1, <1>2, <2>1, UnsentStep DEF Refuse
<1>3. CASE Handle(look) /\ UNCHANGED transaction_id
  <2>1. PICK a \in Answer : AnsweredWith(look, a)
    BY <1>1, <1>3, HandleAnswers DEF IInv
  <2> USE DEF AnsweredWith
  <2>2. /\ call' = look /\ own' = a /\ behind' = Len(outq) /\ UNCHANGED <<hndl, opens, result>>
        /\ outq' = Append(outq, a) \/ outq' = outq
    BY <2>1 DEF Send
  <2>3. Waiting' /\ ~Returned'
    BY <1>1, <2>2, NoneLemma DEF Waiting, Returned
  <2>4. /\ outq \in Seq(Answer) /\ Len(outq) \in Nat /\ outq' \in Seq(Answer)
        /\ Len(outq) = 0 => outq = << >>
        /\ \A i \in DOMAIN outq' : (i \in DOMAIN outq /\ outq'[i] = outq[i]) \/ outq'[i] = a
    <3>1. outq \in Seq(Answer)
      BY DEF IInv, TypeInv
    <3>2. CASE outq' = outq
      BY <3>1, <3>2
    <3>3. CASE outq' = Append(outq, a)
      <4>1. /\ Append(outq, a) \in Seq(Answer) /\ Len(outq) \in Nat
            /\ DOMAIN Append(outq, a) = 1 .. Len(outq) + 1 /\ DOMAIN outq = 1 .. Len(outq)
            /\ \A i \in 1 .. Len(outq) : Append(outq, a)[i] = outq[i]
            /\ Append(outq, a)[Len(outq) + 1] = a
        BY <3>1
      <4> QED BY <3>1, <3>3, <4>1
    <3> QED BY <2>2, <3>2, <3>3
  <2>5. TypeInv'
    BY <1>1, <1>3, <2>2, <2>4 DEF IInv, TypeInv, HandleTypeOK, Waiting
  <2>6. LookInv' /\ OwnAnswer' /\ KindsKeptApart'
    BY <1>1, <2>3 DEF LookInv, OwnAnswer, KindsKeptApart
  <2>7. CallInv'
    <3>1. behind' = 0 => outq' = << >> \/ outq' = <<own'>>
      <4>1. SUFFICES ASSUME behind' = 0, outq' = Append(outq, a) PROVE outq' = <<a>>
        BY <2>2, <2>4
      <4>2. outq = << >>
        BY <2>2, <2>4, <4>1
      <4> QED BY <4>1, <4>2
    <3> QED BY <1>1, <2>1, <2>2, <2>3, <3>1, NoneLemma DEF CallInv
  <2>8. QueueInv'
    <3>1. SUFFICES ASSUME NEW i \in DOMAIN outq', outq'[i].type = "NLMSG_ERROR",
                          outq'[i].errno = 0
                   PROVE  outq'[i].to \in carried' \ {"getvnd"}
      BY DEF QueueInv
    <3>2. CASE outq'[i] = a
      BY <2>1, <3>1, <3>2
    <3>3. CASE i \in DOMAIN outq /\ outq'[i] = outq[i]
      BY <2>1, <3>1, <3>3 DEF IInv, QueueInv
    <3> QED BY <2>4, <3>2, <3>3
  <2> QED BY <2>1, <2>5, <2>6, <2>7, <2>8 DEF IInv
<1> QED BY <1>2, <1>3 DEF SendRequest

\* A receive that ends the call, having taken the oldest answer or none, with
\* an outcome that is justified.
ReceiveEnds ==
    /\ Waiting /\ call' = NoCall
    /\ outq' = outq \/ (outq # << >> /\ outq' = Tail(outq))
    /\ peeked' = FALSE
    /\ UNCHANGED <<hndl, opens, transaction_id, own, behind, links, created, carried, look>>
    /\ <<result'.rc, result'.err>> \in Outcomes
    /\ OwnAnswer' /\ KindsKeptApart'

\* ... keeps the invariant.
LEMMA FinishStep ==
    ASSUME IInv, ReceiveEnds
    PROVE  IInv'
<1> USE DEF ReceiveEnds
<1>1. ~Waiting' /\ ~Building
  BY NoneLemma DEF Waiting, IInv, LookInv
<1>2. /\ outq \in Seq(Answer) /\ outq' \in Seq(Answer) /\ (outq = << >> => outq' = << >>)
      /\ \A i \in DOMAIN outq' : \E j \in DOMAIN outq : outq'[i] = outq[j]
  <2>1. CASE outq' = outq
    BY <2>1 DEF IInv, TypeInv
  <2>2. CASE outq # << >> /\ outq' = Tail(outq)
    <3>1. outq \in Seq(Answer) /\ outq # << >>
      BY <2>2 DEF IInv, TypeInv
    <3>2. \A i \in DOMAIN Tail(outq) : i + 1 \in DOMAIN outq /\ Tail(outq)[i] = outq[i + 1]
      BY <3>1
    <3> QED BY <2>2, <3>1, <3>2
  <2> QED BY <2>1, <2>2
<1>3. TypeInv'
  BY <1>1, <1>2 DEF IInv, TypeInv, HandleTypeOK, Outcomes
<1>4. LinkInv' /\ LookInv' /\ CallInv'
  BY <1>1 DEF IInv, LinkInv, LookInv, CallInv, Building
<1>5. QueueInv'
  BY <1>1, <1>2 DEF IInv, QueueInv
<1> QED BY <1>3, <1>4, <1>5 DEF IInv

\* The oldest answer queued, and the call's own one if it is alone.
LEMMA HeadLemma ==
    ASSUME IInv, Waiting, outq # << >>
    PROVE  /\ Head(outq) \in Answer
           /\ behind = 0 => Head(outq) = own
           /\ Head(outq).type = "NLMSG_ERROR" /\ Head(outq).errno = 0
                => Head(outq).to \in carried \ {"getvnd"}
<1>1. outq \in Seq(Answer)
  BY DEF IInv, TypeInv
<1>2. Head(outq) = outq[1] /\ 1 \in DOMAIN outq /\ outq[1] \in Answer
  BY <1>1
<1>3. behind = 0 => outq = <<own>>
  BY DEF IInv, CallInv
<1>4. Head(<<own>>) = own
  OBVIOUS
<1> QED BY <1>2, <1>3, <1>4 DEF IInv, QueueInv

\* rmnet_get_ack reports the acknowledgement's error, or success.
LEMMA AckStep ==
    ASSUME RtAssumption, IInv, rmnet_get_ack
    PROVE  IInv'
<1> DEFINE ack == Head(outq)
           rc == IF ack.type # "NLMSG_ERROR" THEN RMNETCTL_API_FIRST_ERR
                 ELSE IF ack.errno = 0 THEN RMNETCTL_SUCCESS ELSE RMNETCTL_KERNEL_ERR
           err == IF ack.type # "NLMSG_ERROR" THEN RMNETCTL_API_ERR_RETURN_TYPE
                  ELSE ack.errno
<1>1. /\ Waiting /\ call.type # "getvnd" /\ outq # << >> /\ outq' = Tail(outq)
      /\ UNCHANGED <<kernel, look, peeked>> /\ Finish(Result(rc, err, Null))
      /\ ack \in Answer /\ (behind = 0 => ack = own)
      /\ ack.type = "NLMSG_ERROR" /\ ack.errno = 0 => ack.to \in carried \ {"getvnd"}
  BY HeadLemma DEF rmnet_get_ack
<1> HIDE DEF ack
<1>2. /\ own \in Answer /\ own.to # "getvnd" /\ own.type = "NLMSG_ERROR" /\ peeked = FALSE
  BY <1>1 DEF IInv, CallInv, TypeInv
<1>3. /\ UNCHANGED <<hndl, opens, transaction_id, own, behind, links, created, carried, look>>
      /\ call' = NoCall /\ peeked' = peeked
      /\ result' = [rc |-> rc, err |-> err, out |-> Null] /\ result'.rc = rc /\ result'.err = err
  BY <1>1 DEF Finish, Result, kernel
<1>4. ack.errno \in {0} \cup Errnos
  BY <1>1 DEF Answer
<1>5. <<rc, err>> \in Outcomes
  <2>1. CASE ack.type # "NLMSG_ERROR"
    BY <2>1, OutcomesLemma
  <2>2. CASE ack.type = "NLMSG_ERROR" /\ ack.errno = 0
    BY <2>2, OutcomesLemma
  <2>3. CASE ack.type = "NLMSG_ERROR" /\ ack.errno # 0
    <3>1. ack.errno \in Errnos /\ rc = RMNETCTL_KERNEL_ERR /\ err = ack.errno
      BY <1>4, <2>3
    <3>2. <<RMNETCTL_KERNEL_ERR, ack.errno>> \in Outcomes
      BY <3>1 DEF Outcomes, RtOutcomes
    <3> QED BY <3>1, <3>2
  <2> QED BY <2>1, <2>2, <2>3
<1>6. OwnAnswer'
  <2> SUFFICES ASSUME behind' = 0 PROVE OwnAnswer'
    BY DEF OwnAnswer
  <2>1. ack = own /\ ack.type = "NLMSG_ERROR"
    BY <1>1, <1>2, <1>3
  <2> QED BY <1>2, <1>3, <2>1 DEF OwnAnswer
<1>7. KindsKeptApart'
  <2>1. rc = RMNETCTL_SUCCESS => ack.type = "NLMSG_ERROR" /\ ack.errno = 0
    BY DEF RMNETCTL_SUCCESS, RMNETCTL_API_FIRST_ERR, RMNETCTL_KERNEL_ERR
  <2>2. rc = RMNETCTL_SUCCESS => carried \ {"getvnd"} # {}
    BY <1>1, <2>1
  <2> QED BY <1>2, <1>3, <2>2 DEF KindsKeptApart
<1> HIDE DEF rc, err
<1>8. <<result'.rc, result'.err>> \in Outcomes
  BY <1>3, <1>5
<1>9. peeked' = FALSE
  BY <1>2, <1>3
<1>10. ReceiveEnds
  BY <1>1, <1>3, <1>6, <1>7, <1>8, <1>9 DEF ReceiveEnds
<1> QED BY <1>10, FinishStep

\* rtrmnet_ctl_getvnd hands on the description it reads, and nothing else.
LEMMA ReadLinkStep ==
    ASSUME RtAssumption, IInv, ReadLink
    PROVE  IInv'
<1> DEFINE answer == Head(outq)
           good == answer.type = "RTM_NEWLINK" /\ answer.link.config # Null
           rc == IF good THEN RMNETCTL_SUCCESS ELSE RMNETCTL_KERNEL_ERR
           err == IF good THEN Untouched ELSE RMNETCTL_API_ERR_RTA_FAILURE
           out == IF good THEN Described(answer) ELSE Null
<1>1. /\ Waiting /\ call.type = "getvnd" /\ outq # << >> /\ outq' = Tail(outq) /\ peeked' = FALSE
      /\ UNCHANGED <<kernel, look>>
  BY DEF ReadLink, IInv, CallInv
<1>2. Finish(Result(rc, err, out))
  BY DEF ReadLink
<1>3. /\ answer \in Answer /\ (behind = 0 => answer = own)
      /\ answer.type = "NLMSG_ERROR" /\ answer.errno = 0 => answer.to \in carried \ {"getvnd"}
  BY <1>1, HeadLemma
<1> HIDE DEF answer
<1>4. own \in Answer /\ own.to = "getvnd" /\ ~GaveUp'
  <2>1. own \in Answer /\ own.to = "getvnd"
    BY <1>1 DEF IInv, CallInv
  <2>2. result'.rc = rc /\ rc \in {RMNETCTL_SUCCESS, RMNETCTL_KERNEL_ERR}
    BY <1>2 DEF Finish, Result
  <2> HIDE DEF rc, err, out
  <2> QED BY <2>1, <2>2 DEF GaveUp, RMNETCTL_SUCCESS, RMNETCTL_KERNEL_ERR, RMNETCTL_LIB_ERR,
                            RMNETCTL_API_ERR_MESSAGE_RECEIVE
<1>5. /\ UNCHANGED <<hndl, opens, transaction_id, own, behind, links, created, carried, look>>
      /\ call' = NoCall
      /\ result' = [rc |-> rc, err |-> err, out |-> out] /\ result'.rc = rc /\ result'.err = err
  BY <1>1, <1>2 DEF Finish, Result, kernel
<1>6. <<rc, err>> \in Outcomes
  BY OutcomesLemma
<1>7. OwnAnswer'
  <2> SUFFICES ASSUME behind' = 0 PROVE OwnAnswer'
    BY DEF OwnAnswer
  <2>1. answer = own
    BY <1>3, <1>5
  <2>2. CASE good
    <3>1. own.errno = 0
      BY <1>3, <2>1, <2>2 DEF Answer
    <3> QED BY <1>4, <1>5, <2>1, <2>2, <3>1 DEF OwnAnswer
  <2>3. CASE ~good
    <3>1. own.errno # 0 \/ own.link.config = Null
      <4>1. CASE own.type = "RTM_NEWLINK"
        BY <2>1, <2>3, <4>1
      <4>2. CASE own.type = "NLMSG_ERROR"
        <5>1. own.errno = 0 => own.to # "getvnd"
          BY <1>3, <2>1, <4>2
        <5> QED BY <1>4, <5>1
      <4> QED BY <1>4, <4>1, <4>2 DEF Answer
    <3> QED BY <1>4, <1>5, <2>3, <3>1 DEF OwnAnswer
  <2> QED BY <2>2, <2>3
<1>8. KindsKeptApart'
  <2>1. good => Described(answer) # Null
    <3> SUFFICES ASSUME good PROVE Described(answer) # Null
      OBVIOUS
    <3>1. answer.link \in LinkRec /\ answer.link.config # Null
      BY <1>3 DEF Answer
    <3>2. Described(answer) \in [config : Configs, uplink : Uplinks \cup {Null}]
      BY <3>1 DEF Described, LinkRec
    <3> QED BY <3>2, RtAssumption
  <2>2. rc = RMNETCTL_SUCCESS => good
    BY DEF RMNETCTL_SUCCESS, RMNETCTL_KERNEL_ERR
  <2> QED BY <1>4, <1>5, <2>1, <2>2 DEF KindsKeptApart
<1> HIDE DEF rc, err, out
<1>9. <<result'.rc, result'.err>> \in Outcomes
  BY <1>5, <1>6
<1>10. ReceiveEnds
  BY <1>1, <1>5, <1>7, <1>8, <1>9 DEF ReceiveEnds
<1> QED BY <1>10, FinishStep

\* A call that could not read the answer says so, and is not the one to blame
\* for what stays queued.
LEMMA NotReadStep ==
    ASSUME RtAssumption, IInv, NoBuffer \/ ReceiveFails
    PROVE  IInv'
<1>1. /\ Waiting /\ call' = NoCall /\ outq' = outq /\ peeked' = FALSE
      /\ UNCHANGED <<hndl, opens, transaction_id, own, behind, links, created, carried, look>>
      /\ result' = Result(RMNETCTL_LIB_ERR, ENOMEM, Null)
         \/ result' = Result(RMNETCTL_API_ERR_MESSAGE_RECEIVE, EAGAIN, Null)
  BY DEF IInv, CallInv, NoBuffer, ReceiveFails, Finish, kernel
<1>2. \/ result'.rc = RMNETCTL_LIB_ERR /\ result'.err = ENOMEM
      \/ result'.rc = RMNETCTL_API_ERR_MESSAGE_RECEIVE /\ result'.err = EAGAIN
  BY <1>1 DEF Result
<1>3. GaveUp' /\ result'.rc # RMNETCTL_SUCCESS
  BY <1>2 DEF GaveUp, RMNETCTL_SUCCESS, RMNETCTL_LIB_ERR, RMNETCTL_API_ERR_MESSAGE_RECEIVE
<1>4. <<result'.rc, result'.err>> \in Outcomes
  <2>1. CASE result'.rc = RMNETCTL_LIB_ERR /\ result'.err = ENOMEM
    <3>1. <<RMNETCTL_LIB_ERR, ENOMEM>> \in Outcomes
      BY DEF Outcomes, RtOutcomes
    <3> QED BY <2>1, <3>1
  <2>2. CASE result'.rc = RMNETCTL_API_ERR_MESSAGE_RECEIVE /\ result'.err = EAGAIN
    <3>1. <<RMNETCTL_API_ERR_MESSAGE_RECEIVE, EAGAIN>> \in Outcomes
      BY DEF Outcomes, RtOutcomes
    <3> QED BY <2>2, <3>1
  <2> QED BY <1>2, <2>1, <2>2
<1>5. ReceiveEnds
  BY <1>1, <1>3, <1>4 DEF ReceiveEnds, OwnAnswer, KindsKeptApart
<1> QED BY <1>5, FinishStep

\* rtrmnet_ctl_getvnd asks for the size only of a datagram that is there.
LEMMA PeekStep ==
    ASSUME IInv, PeekLink
    PROVE  IInv'
<1>1. /\ Waiting /\ call.type = "getvnd" /\ outq # << >> /\ peeked' = TRUE
      /\ UNCHANGED <<hndl, opens, transaction_id, call, outq, result, own, behind,
                     links, created, carried, look>>
  BY DEF PeekLink, handle, kernel
<1>2. TypeInv'
  BY <1>1 DEF IInv, TypeInv, HandleTypeOK, Waiting
<1>3. LinkInv' /\ LookInv' /\ QueueInv'
  BY <1>1 DEF IInv, LinkInv, LookInv, QueueInv, Building, Waiting
<1>4. CallInv'
  BY <1>1 DEF IInv, CallInv, Waiting
<1>5. OwnAnswer' /\ KindsKeptApart'
  BY <1>1 DEF IInv, OwnAnswer, KindsKeptApart, Returned, Waiting, GaveUp
<1> QED BY <1>2, <1>3, <1>4, <1>5 DEF IInv

\* A new handle starts with an empty queue, and no request carried out for it.
LEMMA InitStep ==
    ASSUME IInv, rtrmnet_ctl_init
    PROVE  IInv'
<1>1. /\ ~Waiting /\ own' = NoAnswer /\ behind' = 0 /\ transaction_id' = 0 /\ outq' = << >>
      /\ hndl # "live" /\ UNCHANGED <<call, links, created, look, peeked>>
  BY DEF rtrmnet_ctl_init, OpenHandle
<1>2. hndl' \in {"null", "live", "dangling"} /\ opens' \in Nat
  BY DEF rtrmnet_ctl_init, OpenHandle, IInv, TypeInv, HandleTypeOK
<1>3. ~Waiting' /\ ~Returned' /\ ~Building /\ ~Building'
  BY <1>1 DEF Waiting, Returned, NoAnswer, Building, IInv, LookInv
<1>4. <<result'.rc, result'.err>> \in Outcomes
  BY OutcomesLemma DEF rtrmnet_ctl_init, OpenHandle, Result
<1>5. TypeInv'
  BY <1>1, <1>2, <1>3, <1>4 DEF IInv, TypeInv, HandleTypeOK, Outcomes
<1>6. LinkInv' /\ LookInv' /\ QueueInv'
  BY <1>1, <1>3 DEF IInv, LinkInv, LookInv, QueueInv
<1>7. CallInv' /\ OwnAnswer' /\ KindsKeptApart'
  BY <1>1, <1>3 DEF IInv, CallInv, OwnAnswer, KindsKeptApart
<1> QED BY <1>5, <1>6, <1>7 DEF IInv

\* A freed handle leaves the last call's outcome as it was.
LEMMA DeinitStep ==
    ASSUME IInv, rtrmnet_ctl_deinit
    PROVE  IInv'
<1>1. /\ ~Waiting /\ ~Building /\ hndl' = "null" /\ transaction_id' = 0 /\ outq' = << >>
      /\ UNCHANGED <<opens, call, result, own, behind, links, created, carried, look, peeked>>
  BY DEF rtrmnet_ctl_deinit, CloseHandle, Ready, kernel
<1>2. ~Waiting' /\ ~Building'
  BY <1>1 DEF Waiting, Building
<1>3. TypeInv'
  BY <1>1, <1>2 DEF IInv, TypeInv, HandleTypeOK
<1>4. LinkInv' /\ LookInv' /\ QueueInv' /\ CallInv'
  BY <1>1, <1>2 DEF IInv, LinkInv, LookInv, QueueInv, CallInv
<1>5. OwnAnswer' /\ KindsKeptApart'
  BY <1>1 DEF IInv, OwnAnswer, KindsKeptApart, Returned, Waiting, GaveUp
<1> QED BY <1>3, <1>4, <1>5 DEF IInv

\* What other processes do to the interfaces, and a step that does nothing,
\* leave the library's side alone.
LEMMA LinksOnlyStep ==
    ASSUME IInv, LinkInv', UNCHANGED <<handle, carried, look, peeked>>
    PROVE  IInv'
<1>1. UNCHANGED <<hndl, opens, transaction_id, call, outq, result, own, behind,
                  carried, look, peeked>>
  BY DEF handle
<1>2. TypeInv' /\ LookInv' /\ QueueInv' /\ CallInv'
  BY <1>1 DEF IInv, TypeInv, HandleTypeOK, LookInv, QueueInv, CallInv, Waiting, Building
<1>3. OwnAnswer' /\ KindsKeptApart'
  BY <1>1 DEF IInv, OwnAnswer, KindsKeptApart, Returned, Waiting, GaveUp
<1> QED BY <1>2, <1>3 DEF IInv

LEMMA VanishStep ==
    ASSUME IInv, NEW n \in Ifaces, Vanish(n)
    PROVE  IInv'
<1>1. NoLink \in LinkRec
  BY DEF NoLink, LinkRec
<1>2. /\ links' = [links EXCEPT ![n] = NoLink] /\ links \in [Ifaces -> LinkRec]
      /\ UNCHANGED created
  BY DEF Vanish, IInv, LinkInv
<1>3. links' \in [Ifaces -> LinkRec] /\ \A m \in Ifaces : links'[m] \in {links[m], NoLink}
  BY <1>1, <1>2
<1>4. LinkInv'
  BY <1>2, <1>3, RemovalKeepsLinks DEF IInv
<1> QED BY <1>4, LinksOnlyStep DEF Vanish

LEMMA AppearStep ==
    ASSUME IInv, NEW n \in Ifaces, NEW c \in Configs \cup {Null}, Appear(n, c)
    PROVE  IInv'
<1> DEFINE l == [index |-> created + 1, config |-> c, uplink |-> Null]
<1>1. /\ LinkInv /\ links[n] = NoLink /\ created' = created + 1
      /\ links' = [links EXCEPT ![n] = l] /\ l \in LinkRec /\ l.index = created + 1
  BY DEF Appear, IInv, LinkInv, LinkRec
<1> HIDE DEF l
<1>2. LinkInv'
  BY <1>1, NewLinkKeepsLinks
<1> QED BY <1>2, LinksOnlyStep DEF Appear

\* Every call names its type of request, and passes what it was given.
LEMMA CallsStep ==
    ASSUME IInv, Calls
    PROVE  IInv'
<1> USE DEF RequestType
<1>1. Null \in Ptrs
  BY DEF Ptrs
<1>2. ASSUME NEW dev \in Ptrs, NEW vnd \in Ptrs, NEW c \in Configs,
             rtrmnet_ctl_newvnd(dev, vnd, c) \/ rtrmnet_ctl_changevnd(dev, vnd, c)
      PROVE  IInv'
  BY <1>2, CallStep DEF rtrmnet_ctl_newvnd, rtrmnet_ctl_changevnd
<1>3. ASSUME NEW dev \in Ptrs, NEW vnd \in Ptrs, NEW u \in Uplinks,
             rtrmnet_set_uplink_aggregation_params(dev, vnd, u)
      PROVE  IInv'
  BY <1>3, CallStep DEF rtrmnet_set_uplink_aggregation_params
<1>4. ASSUME NEW dev \in Ptrs, NEW vnd \in Ptrs, rtrmnet_ctl_bridgevnd(dev, vnd)
      PROVE  IInv'
  BY <1>4, CallStep DEF rtrmnet_ctl_bridgevnd
<1>5. ASSUME NEW dev \in Ptrs, NEW vnd \in Ptrs, NEW bad, FlowCall(dev, vnd, bad)
      PROVE  IInv'
  BY <1>5, CallStep DEF FlowCall
<1>6. ASSUME NEW vnd \in Ptrs, rtrmnet_ctl_delvnd(vnd) \/ rtrmnet_ctl_getvnd(vnd)
      PROVE  IInv'
  BY <1>1, <1>6, CallStep DEF rtrmnet_ctl_delvnd, rtrmnet_ctl_getvnd
<1> QED BY <1>2, <1>3, <1>4, <1>5, <1>6
        DEF Calls, rtrmnet_activate_flow, rtrmnet_delete_flow, rtrmnet_control_flow,
            rtrmnet_flow_state_up, rtrmnet_flow_state_down, rtrmnet_set_qmi_scale,
            rtrmnet_set_wda_freq

\* The invariant is inductive.
LEMMA NextKeepsInv ==
    ASSUME RtAssumption, IInv, [RtNext]_rtVars
    PROVE  IInv'
<1>1. CASE rtrmnet_ctl_init \/ rtrmnet_ctl_deinit
  BY <1>1, InitStep, DeinitStep
<1>2. CASE Calls
  BY <1>2, CallsStep
<1>3. CASE SendRequest
  BY <1>3, SendStep
<1>4. CASE rmnet_get_ack \/ ReadLink
  BY <1>4, AckStep, ReadLinkStep
<1>5. CASE PeekLink \/ NoBuffer \/ ReceiveFails
  BY <1>5, PeekStep, NotReadStep
<1>6. ASSUME NEW n \in Ifaces, Vanish(n) PROVE IInv'
  BY <1>6, VanishStep
<1>7. ASSUME NEW n \in Ifaces, NEW c \in Configs \cup {Null}, Appear(n, c) PROVE IInv'
  BY <1>7, AppearStep
<1>8. CASE UNCHANGED rtVars
  <2>1. LinkInv'
    BY <1>8 DEF IInv, LinkInv, rtVars, kernel
  <2> QED BY <1>8, <2>1, LinksOnlyStep DEF rtVars, kernel
<1> QED BY <1>1, <1>2, <1>3, <1>4, <1>5, <1>6, <1>7, <1>8 DEF RtNext

\* It holds before the first call.
LEMMA InitInv == RtInit => IInv
<1> SUFFICES ASSUME RtInit PROVE IInv
  OBVIOUS
<1>1. /\ ~Waiting /\ ~Building /\ ~Returned /\ outq = << >> /\ peeked = FALSE
      /\ hndl = "null" /\ opens = 0 /\ transaction_id = 0 /\ behind = 0
      /\ result = Result(RMNETCTL_SUCCESS, Untouched, Null)
  BY DEF RtInit, HandleInit, Waiting, Building, Returned, NoCall, NoAnswer
<1>2. <<result.rc, result.err>> \in Outcomes
  BY <1>1, OutcomesLemma DEF Result
<1>3. TypeInv
  <2>1. << >> \in Seq(Answer) /\ 0 \in Nat /\ FALSE \in BOOLEAN
    OBVIOUS
  <2> QED BY Zenon, <1>1, <1>2, <2>1 DEF TypeInv, HandleTypeOK, Outcomes
<1>4. LinkInv
  BY DEF RtInit, LinkInv, NoLink, LinkRec
<1>5. LookInv /\ CallInv /\ QueueInv /\ OwnAnswer /\ KindsKeptApart
  BY <1>1 DEF LookInv, CallInv, QueueInv, OwnAnswer, KindsKeptApart
<1> QED BY <1>3, <1>4, <1>5 DEF IInv

\* All parts of the invariant hold in every behaviour of the interface.
THEOREM InductiveInvariant == RtSpec => []IInv
<1>1. IInv /\ [RtNext]_rtVars => IInv'
  BY RtAssumption, NextKeepsInv
<1> QED BY <1>1, InitInv, PTL DEF RtSpec

-----------------------------------------------------------------------------
(***************************************************************************)
(* What it means.                                                          *)
(***************************************************************************)

\* Every outcome of every call is one that RmnetCli deals with; a return value of
\* 4, which librmnetctl.h does not list, is among them.
THEOREM OutcomesKnown == RtSpec => []KnownOutcome
<1>1. IInv => KnownOutcome
  BY DEF IInv, TypeInv, KnownOutcome
<1> QED BY <1>1, InductiveInvariant, PTL

\* The numbers an outcome is made of: a return value, an unsigned code.
LEMMA OutcomeNumbers ==
    ASSUME NEW o \in Outcomes
    PROVE  o[1] \in Int /\ o[2] \in {Untouched} \cup Nat
<1> USE DEF RMNETCTL_SUCCESS, RMNETCTL_LIB_ERR, RMNETCTL_KERNEL_ERR, RMNETCTL_INVALID_ARG,
        Untouched, ENODEV, EAGAIN, ENOMEM, RMNETCTL_API_FIRST_ERR, RMNETCTL_API_ERR_MESSAGE_SEND,
        RMNETCTL_API_ERR_MESSAGE_RECEIVE, RMNETCTL_API_ERR_RETURN_TYPE,
        RMNETCTL_API_ERR_RTA_FAILURE, RMNETCTL_API_ERR_HNDL_INVALID,
        RMNETCTL_INIT_ERR_PROCESS_ID, RMNETCTL_INIT_ERR_NETLINK_FD, RMNETCTL_INIT_ERR_BIND
<1>1. CASE o \in InitOutcomes
  BY <1>1 DEF InitOutcomes
<1>2. CASE o \in {RMNETCTL_LIB_ERR, RMNETCTL_KERNEL_ERR, RMNETCTL_API_ERR_MESSAGE_RECEIVE}
                    \X (Errnos \cup {ENODEV, EAGAIN, ENOMEM})
  <2>1. PICK x \in {1, 2, 4}, y \in Errnos \cup {11, 12, 19} : o = <<x, y>>
    BY <1>2
  <2>2. y \in Nat
    BY RtAssumption
  <2> QED BY <2>1, <2>2
<1>3. CASE o \in {<<0, 0>>, <<0, -1>>, <<3, -1>>, <<1, 3>>, <<1, 13>>, <<2, 25>>}
  BY <1>3
<1> QED BY <1>1, <1>2, <1>3 DEF Outcomes, RtOutcomes

\* The type invariant of the interface: one call at a time, no unread answer
\* without a socket, one interface per index, unsigned error codes.
THEOREM TypeCorrect == RtSpec => []RtTypeOK
<1>1. IInv => RtTypeOK
  <2> SUFFICES ASSUME IInv PROVE RtTypeOK
    OBVIOUS
  <2>1. \A n \in Ifaces : links[n].index \in 0 .. created
    BY DEF IInv, LinkInv, LinkRec
  <2>2. result.rc \in Int /\ result.err \in {Untouched} \cup Nat
    <3>1. <<result.rc, result.err>> \in Outcomes
      BY DEF IInv, TypeInv, Outcomes
    <3> QED BY <3>1, OutcomeNumbers
  <2> QED BY <2>1, <2>2 DEF IInv, RtTypeOK, TypeInv, LinkInv, LookInv, CallInv
<1> QED BY <1>1, InductiveInvariant, PTL

\* rmnet_get_ack and rtrmnet_ctl_getvnd report the right answer: their own
\* request's if nothing older was queued, and never one of the other kind.
THEOREM AnswersJustified == RtSpec => []AnswersMatched
<1>1. IInv => AnswersMatched
  BY DEF IInv, AnswersMatched
<1> QED BY <1>1, InductiveInvariant, PTL

=============================================================================
