-------------------------- MODULE RmnetDataProofs --------------------------
(***************************************************************************)
(* Proofs about RmnetData: what a call reports is what became of its own   *)
(* request, unless an older answer was queued; and what still holds then.  *)
(*                                                                         *)
(* IInv, the inductive invariant, adds to the properties what is known of  *)
(* the socket: which answers can be queued, and where a waiting call's own *)
(* answer is.                                                              *)
(***************************************************************************)
EXTENDS RmnetData, SequenceTheorems, TLAPS

NameRec == [text : Names \cup {Null}, cut : BOOLEAN]

NameQueries == {"GET_LOGICAL_EP_CONFIG", "GET_VND_NAME"}

\* What may be stored for an endpoint or a virtual device: a name, whole for
\* an endpoint, and for a virtual device whole unless its length is exactly
\* RMNET_MAX_STR_LEN.
Storable(k, v) ==
    v # Null =>
        /\ k[1] \in {"lep", "vnd"} => v \in NameRec
        /\ k[1] = "lep" => ~v.cut
        /\ k[1] = "vnd" /\ v.cut => NameLen[v.text] = RMNET_MAX_STR_LEN

CfgTyped == \A k \in Keys : Storable(k, cfg[k])

\* Data comes only in answer to a query, and a query carried out returns
\* data, a name where a name is asked for.
WellFormed(answer) ==
    /\ answer.crd = "RETURNDATA" <=> answer.type \in Queries /\ answer.code = 0
    /\ answer.type \in NameQueries /\ answer.crd = "RETURNDATA" => answer.data \in NameRec

\* Every queued answer is the driver's, and a good one was carried out.
Backed ==
    \A i \in 1 .. Len(outq) :
        WellFormed(outq[i]) /\ (outq[i].code = 0 => outq[i].type \in carried)

\* A waiting call's own answer has its type, and if nothing older was queued
\* it is alone on the socket, or lost.
Aligned ==
    Waiting => /\ own \in Answer /\ own.type = call.type
               /\ behind = 0 => outq = << >> \/ outq = <<own>>

\* If no receive fails, no call leaves an answer behind for the next.
Drained == "recv" \notin Faults => behind = 0 /\ (~Waiting => outq = << >>)

IInv == /\ TypeOK /\ CfgTyped /\ Backed /\ Aligned /\ Drained
        /\ OwnAnswer /\ SameKind /\ KnownOutcome

-----------------------------------------------------------------------------
\* What a call passes to rmnetctl_transact once its arguments are checked.
GoodReq(type, key, val) ==
    /\ type \in Queries \cup Updates
    /\ key \in Keys
    /\ val \in Values
    /\ type \in NameQueries => key[1] \in {"lep", "vnd"}
    /\ Storable(key, val)

\* The two messages that stand for "none" are not requests or answers.
LEMMA NoneLemma ==
    /\ NoCall \notin Request
    /\ NoAnswer \notin Answer
    /\ \A r \in Request : r.type # "none"
    /\ \A a \in Answer : a.type # "none"
BY DEF NoCall, NoAnswer, Request, Answer, Queries, Updates

\* The driver's answers are well formed, whatever it holds.
LEMMA AnswersLemma ==
    ASSUME TypeOK, CfgTyped,
           NEW type, NEW key, NEW val, NEW size \in Nat, GoodReq(type, key, val),
           NEW a \in Answers([seq |-> transaction_id, type |-> type, key |-> key,
                              val |-> val, size |-> size])
    PROVE  a \in Answer /\ a.type = type /\ WellFormed(a)
<1> DEFINE req == [seq |-> transaction_id, type |-> type, key |-> key,
                   val |-> val, size |-> size]
<1>1. transaction_id \in Nat /\ cfg[key] \in Values /\ Null \in Values
  BY DEF TypeOK, HandleTypeOK, GoodReq, Values
<1>2. CASE \E e \in KernelErrs :
              a = [seq |-> transaction_id, type |-> type, crd |-> "RETURNCODE",
                   code |-> e, data |-> Null]
  <2>1. PICK e \in KernelErrs :
              a = [seq |-> transaction_id, type |-> type, crd |-> "RETURNCODE",
                   code |-> e, data |-> Null]
    BY <1>2
  <2>2. e \in 0 .. 9 /\ e # 0
    BY DataAssumption
  <2> QED BY <1>1, <2>1, <2>2 DEF GoodReq, Answer, WellFormed
<1>3. CASE /\ type \notin Queries
           /\ a = [seq |-> transaction_id, type |-> type, crd |-> "RETURNCODE",
                   code |-> 0, data |-> Null]
  BY <1>1, <1>3 DEF GoodReq, Answer, WellFormed
<1>4. CASE /\ type \in Queries /\ cfg[key] # Null
           /\ a = [seq |-> transaction_id, type |-> type, crd |-> "RETURNDATA",
                   code |-> 0, data |-> cfg[key]]
  BY <1>1, <1>4 DEF GoodReq, Answer, WellFormed, CfgTyped, Storable
<1> QED BY <1>2, <1>3, <1>4 DEF Answers

\* A call that is refused keeps the invariant.
LEMMA RefuseStep ==
    ASSUME IInv, Ready, NEW rc \in Int, NEW err \in Int, <<rc, err>> \in DataOutcomes,
           Refuse(rc, err) \/ RefuseNumbered(rc, err), UNCHANGED driver
    PROVE  IInv'
<1>1. /\ result' = Result(rc, err, Null) /\ own' = NoAnswer /\ behind' = 0
      /\ UNCHANGED <<hndl, opens, call, outq, cfg, carried>>
      /\ transaction_id' \in Nat
  BY DEF IInv, TypeOK, HandleTypeOK, Refuse, RefuseNumbered, driver
<1>2. ~Waiting /\ ~Waiting' /\ ~Returned'
  BY <1>1 DEF Ready, Waiting, Returned, NoAnswer
<1>3. TypeOK'
  BY <1>1, <1>2 DEF IInv, TypeOK, HandleTypeOK, Result, Values, Waiting
<1>4. CfgTyped' /\ Backed'
  BY <1>1 DEF IInv, CfgTyped, Backed
<1>5. Aligned' /\ Drained' /\ OwnAnswer' /\ SameKind'
  BY <1>1, <1>2 DEF IInv, Aligned, Drained, OwnAnswer, SameKind
<1>6. KnownOutcome'
  BY <1>1 DEF KnownOutcome, Result
<1> QED BY <1>3, <1>4, <1>5, <1>6 DEF IInv

\* The first half of a transaction keeps the invariant.
LEMMA TransactStep ==
    ASSUME IInv, Ready, hndl = "live",
           NEW type, NEW key, NEW val, NEW size \in Nat, GoodReq(type, key, val),
           rmnetctl_transact(type, key, val, size)
    PROVE  IInv'
<1> DEFINE req == [seq |-> transaction_id, type |-> type, key |-> key,
                   val |-> val, size |-> size]
<1>1. CASE /\ \E e \in {RMNETCTL_API_ERR_REQUEST_NULL, RMNETCTL_API_ERR_RESPONSE_NULL} :
                 Refuse(RMNETCTL_LIB_ERR, e)
           /\ UNCHANGED driver
  <2>1. PICK e \in {RMNETCTL_API_ERR_REQUEST_NULL, RMNETCTL_API_ERR_RESPONSE_NULL} :
              Refuse(RMNETCTL_LIB_ERR, e)
    BY <1>1
  <2>2. e \in Int /\ <<RMNETCTL_LIB_ERR, e>> \in DataOutcomes
    BY DEF DataOutcomes, RMNETCTL_API_ERR_REQUEST_NULL, RMNETCTL_API_ERR_RESPONSE_NULL
  <2> QED BY <1>1, <2>1, <2>2, RefuseStep DEF RMNETCTL_LIB_ERR
<1>2. CASE /\ RefuseNumbered(RMNETCTL_LIB_ERR, RMNETCTL_API_ERR_MESSAGE_SEND)
           /\ UNCHANGED driver
  <2>1. RMNETCTL_LIB_ERR \in Int /\ RMNETCTL_API_ERR_MESSAGE_SEND \in Int
    BY DEF RMNETCTL_LIB_ERR, RMNETCTL_API_ERR_MESSAGE_SEND
  <2>2. <<RMNETCTL_LIB_ERR, RMNETCTL_API_ERR_MESSAGE_SEND>> \in DataOutcomes
    BY DEF DataOutcomes
  <2> QED BY <1>2, <2>1, <2>2, RefuseStep
<1>3. ASSUME NEW answer \in Answers(req),
             transaction_id' = transaction_id + 1, Send(req, answer),
             cfg' = Effect(req, answer),
             carried' = IF answer.code = 0 THEN carried \cup {type} ELSE carried
      PROVE  IInv'
  <2>1. answer \in Answer /\ answer.type = type /\ WellFormed(answer)
    BY <1>3, AnswersLemma DEF IInv
  <2>2. /\ call' = req /\ own' = answer /\ behind' = Len(outq)
        /\ outq' = Append(outq, answer) \/ outq' = outq
        /\ UNCHANGED <<hndl, opens, result>>
    BY <1>3 DEF Send
  <2>3. req \in Request /\ Waiting' /\ ~Returned' /\ ~Waiting
    BY <2>2, NoneLemma DEF IInv, TypeOK, HandleTypeOK, GoodReq, Request, Waiting,
       Returned, Ready
  <2>4. outq \in Seq(Answer) /\ Len(outq) \in Nat /\ outq' \in Seq(Answer)
    BY <2>1, <2>2 DEF IInv, TypeOK
  <2>5. cfg' \in [Keys -> Values] /\ CfgTyped'
    BY <1>3 DEF IInv, TypeOK, CfgTyped, Effect, GoodReq
  <2>6. /\ carried' \in SUBSET (Queries \cup Updates)
        /\ carried \subseteq carried'
        /\ answer.code = 0 => type \in carried'
    BY <1>3 DEF IInv, TypeOK, GoodReq
  <2>7. TypeOK'
    BY <1>3, <2>1, <2>2, <2>3, <2>4, <2>5, <2>6 DEF IInv, TypeOK, HandleTypeOK
  <2>8. Backed'
    BY <2>1, <2>2, <2>4, <2>6 DEF IInv, Backed
  <2>9. Aligned'
    <3>1. behind' = 0 => outq = << >>
      BY <2>2, <2>4, EmptySeq
    <3>2. Append(<< >>, answer) = <<answer>>
      OBVIOUS
    <3> QED BY <2>1, <2>2, <3>1, <3>2 DEF Aligned
  <2>10. Drained'
    BY <2>2, <2>3 DEF IInv, Drained
  <2>11. OwnAnswer' /\ SameKind'
    BY <2>3 DEF OwnAnswer, SameKind
  <2>12. KnownOutcome'
    BY <2>2 DEF IInv, KnownOutcome
  <2> QED BY <2>5, <2>7, <2>8, <2>9, <2>10, <2>11, <2>12 DEF IInv
<1> QED BY <1>1, <1>2, <1>3 DEF rmnetctl_transact

-----------------------------------------------------------------------------
\* A name copied to the caller is a name; it is the driver's if it fits.
LEMMA CopyOutLemma ==
    ASSUME NEW v \in NameRec, NEW size \in Nat
    PROVE  /\ HeldLen(v) \in Nat
           /\ CopyOut(v, size) \in NameRec
           /\ HeldLen(v) < size => CopyOut(v, size) = v
<1>1. HeldLen(v) \in Nat
  <2>1. v.text \in Names \cup {Null} /\ (v.text \in Names => NameLen[v.text] \in Nat)
    BY NamesAssumption DEF NameRec
  <2> QED BY <2>1 DEF HeldLen, RMNET_MAX_STR_LEN
<1>2. CopyOut(v, size) = [text |-> v.text, cut |-> v.cut \/ HeldLen(v) >= size]
  BY DEF CopyOut, NameRec
<1>3. (v.cut \/ HeldLen(v) >= size) \in BOOLEAN
  OBVIOUS
<1>4. CopyOut(v, size) \in NameRec
  BY <1>2, <1>3 DEF NameRec
<1>5. ASSUME HeldLen(v) < size PROVE CopyOut(v, size) = v
  <2>1. ~(HeldLen(v) >= size)
    BY <1>1, <1>5
  <2>2. v.cut \in BOOLEAN /\ v = [text |-> v.text, cut |-> v.cut]
    BY DEF NameRec
  <2>3. (v.cut \/ HeldLen(v) >= size) = v.cut
    BY <2>1, <2>2
  <2> QED BY <1>2, <2>2, <2>3
<1> QED BY <1>1, <1>4, <1>5

\* What a well-formed answer of the request's own type is turned into: the
\* driver's error, or success with the data, or a name that was cut.
LEMMA DecodeOwn ==
    ASSUME NEW req \in Request, NEW a \in Answer, WellFormed(a), a.type = req.type,
           NEW r, r = Decode(req, a)
    PROVE  /\ r \in [rc : Int, err : Int, out : Values]
           /\ \/ /\ r.rc = RMNETCTL_SUCCESS /\ r.err = 0 /\ a.code = 0
                 /\ req.type \in Queries \ {"GET_LOGICAL_EP_CONFIG"} => r.out = a.data
              \/ /\ r.rc = RMNETCTL_KERNEL_ERR /\ a.code \in 1 .. 9
                 /\ r.err = a.code + RMNETCTL_KERNEL_FIRST_ERR
              \/ /\ r.rc = RMNETCTL_LIB_ERR
                 /\ r.err = RMNETCTL_API_ERR_STRING_TRUNCATION
                 /\ req.type = "GET_VND_NAME"
<1> USE DEF RMNETCTL_SUCCESS, RMNETCTL_KERNEL_ERR, RMNETCTL_LIB_ERR,
            RMNETCTL_KERNEL_FIRST_ERR, RMNETCTL_API_ERR_STRING_TRUNCATION
<1>1. /\ a.crd \in {"RETURNCODE", "RETURNDATA"} /\ a.code \in 0 .. 9
      /\ a.data \in Values /\ Null \in Values /\ req.size \in Nat
      /\ NameRec \subseteq Values
  BY DEF Answer, Request, Values, NameRec
<1>2. CASE a.crd = "RETURNCODE"
  <2>1. req.type \in Queries => a.code # 0
    BY <1>2 DEF WellFormed
  <2>2. CASE req.type \notin Queries
    <3>1. r = _rmnetctl_set_codes(a.code, 0)
      BY <1>2, <2>2 DEF Decode
    <3> QED BY <1>1, <2>2, <3>1 DEF _rmnetctl_set_codes, Result
  <2>3. CASE req.type \in Queries
    <3>1. r = _rmnetctl_set_codes(a.code, RMNETCTL_API_ERR_RETURN_TYPE)
      BY <1>2, <2>3 DEF Decode
    <3> QED BY <1>1, <2>1, <2>3, <3>1 DEF _rmnetctl_set_codes, Result
  <2> QED BY <2>2, <2>3
<1>3. CASE a.crd = "RETURNDATA"
  <2>1. req.type \in Queries /\ a.code = 0
        /\ (req.type \in NameQueries => a.data \in NameRec)
    BY <1>3 DEF WellFormed
  <2>2. r = StoreData(req, a.data)
    BY <1>3, <2>1 DEF Decode
  <2>3. CASE req.type \notin NameQueries
    <3>1. r = Result(RMNETCTL_SUCCESS, 0, a.data)
      BY <2>2, <2>3 DEF StoreData, NameQueries
    <3> QED BY <1>1, <2>1, <2>3, <3>1 DEF Result, NameQueries
  <2>4. CASE req.type = "GET_LOGICAL_EP_CONFIG"
    <3> DEFINE room == IF req.size < RMNET_MAX_STR_LEN THEN req.size ELSE RMNET_MAX_STR_LEN
    <3>1. room \in Nat
      BY <1>1 DEF RMNET_MAX_STR_LEN
    <3>2. r = Result(RMNETCTL_SUCCESS, 0, CopyOut(a.data, room))
      BY <2>2, <2>4 DEF StoreData
    <3>3. CopyOut(a.data, room) \in NameRec
      BY <2>1, <2>4, <3>1, CopyOutLemma DEF NameQueries
    <3> HIDE DEF room
    <3> QED BY <1>1, <2>1, <2>4, <3>2, <3>3 DEF Result
  <2>5. CASE req.type = "GET_VND_NAME"
    <3>1. /\ HeldLen(a.data) \in Nat /\ CopyOut(a.data, req.size) \in NameRec
          /\ HeldLen(a.data) < req.size => CopyOut(a.data, req.size) = a.data
      BY <1>1, <2>1, <2>5, CopyOutLemma DEF NameQueries
    <3>2. CASE HeldLen(a.data) >= req.size
      <4>1. r = Result(RMNETCTL_LIB_ERR, RMNETCTL_API_ERR_STRING_TRUNCATION,
                       CopyOut(a.data, req.size))
        BY <2>2, <2>5, <3>2 DEF StoreData
      <4> QED BY <1>1, <2>5, <3>1, <4>1 DEF Result
    <3>3. CASE ~(HeldLen(a.data) >= req.size)
      <4>1. r = Result(RMNETCTL_SUCCESS, 0, CopyOut(a.data, req.size))
        BY <2>2, <2>5, <3>3 DEF StoreData
      <4>2. CopyOut(a.data, req.size) = a.data
        BY <1>1, <3>1, <3>3
      <4> QED BY <1>1, <2>1, <2>5, <3>1, <4>1, <4>2 DEF Result
    <3> QED BY <3>2, <3>3
  <2> QED BY <2>3, <2>4, <2>5 DEF NameQueries
<1> QED BY <1>1, <1>2, <1>3

\* The second half of a transaction keeps the invariant.
LEMMA ReceiveStep == IInv /\ Receive => IInv'
<1> SUFFICES ASSUME IInv, Receive PROVE IInv'
  OBVIOUS
<1> DEFINE a == Head(outq)
<1>1. /\ result' = Decode(call, a) /\ call' = NoCall /\ outq' = Tail(outq)
      /\ UNCHANGED <<hndl, opens, transaction_id, own, behind, cfg, carried>>
      /\ Waiting /\ outq # << >>
  BY DEF Receive, Finish, driver
<1>2. outq \in Seq(Answer) /\ call \in Request /\ hndl = "live"
  BY <1>1 DEF IInv, TypeOK, HandleTypeOK, Waiting, NoCall
<1>3. /\ a \in Answer /\ WellFormed(a)
      /\ a.code = 0 => a.type \in carried
      /\ Len(outq) \in Nat /\ Len(outq) > 0 /\ a = outq[1]
      /\ outq' \in Seq(Answer) /\ Len(outq') = Len(outq) - 1
      /\ \A i \in 1 .. Len(outq') : outq'[i] = outq[i + 1]
  <2>1. Len(outq) \in Nat /\ Len(outq) > 0 /\ a = outq[1] /\ a \in Answer
    BY <1>1, <1>2, EmptySeq
  <2>2. outq' \in Seq(Answer) /\ Len(outq') = Len(outq) - 1
        /\ \A i \in 1 .. Len(outq') : outq'[i] = outq[i + 1]
    BY <1>1, <1>2, <2>1
  <2> QED BY <2>1, <2>2 DEF IInv, Backed
<1>4. ~Waiting'
  BY <1>1 DEF Waiting, NoCall
<1>5. own \in Answer /\ own.type = call.type
      /\ (behind = 0 => a = own)
  BY <1>1 DEF IInv, Aligned
<1>6. CASE a.type = call.type
  <2>1. /\ result' \in [rc : Int, err : Int, out : Values]
        /\ \/ /\ result'.rc = RMNETCTL_SUCCESS /\ result'.err = 0 /\ a.code = 0
              /\ call.type \in Queries \ {"GET_LOGICAL_EP_CONFIG"} => result'.out = a.data
           \/ /\ result'.rc = RMNETCTL_KERNEL_ERR /\ a.code \in 1 .. 9
              /\ result'.err = a.code + RMNETCTL_KERNEL_FIRST_ERR
           \/ /\ result'.rc = RMNETCTL_LIB_ERR
              /\ result'.err = RMNETCTL_API_ERR_STRING_TRUNCATION
              /\ call.type = "GET_VND_NAME"
    BY <1>1, <1>2, <1>3, <1>6, DecodeOwn
  <2>2. KnownOutcome'
    <3>1. a.code \in 1 .. 9 =>
            a.code + RMNETCTL_KERNEL_FIRST_ERR \in
                RMNETCTL_KERNEL_FIRST_ERR + 1 .. RMNETCTL_KERNEL_FIRST_ERR + 9
      BY DEF RMNETCTL_KERNEL_FIRST_ERR
    <3>2. <<result'.rc, result'.err>> \in DataOutcomes
      BY <2>1, <3>1 DEF DataOutcomes
    <3> QED BY <3>2 DEF KnownOutcome
  <2>3. SameKind'
    BY <1>1, <1>3, <1>5, <1>6, <2>1 DEF SameKind, RMNETCTL_SUCCESS, RMNETCTL_KERNEL_ERR,
       RMNETCTL_LIB_ERR
  <2>4. OwnAnswer'
    <3> SUFFICES ASSUME behind = 0
                 PROVE  OwnAnswer'
      BY <1>1 DEF OwnAnswer
    <3>1. a = own
      BY <1>5
    <3> QED BY <1>1, <1>5, <2>1, <3>1 DEF OwnAnswer
  <2> QED BY <2>1, <2>2, <2>3, <2>4, <1>1, <1>2, <1>3, <1>4
      DEF IInv, TypeOK, HandleTypeOK, CfgTyped, Backed, Aligned, Drained
<1>7. CASE a.type # call.type
  <2>1. result' = Result(RMNETCTL_LIB_ERR, RMNETCTL_API_ERR_MESSAGE_TYPE, Null)
    BY <1>1, <1>7 DEF Decode
  <2>2. Null \in Values
    BY DEF Values
  <2>3. KnownOutcome'
    <3>1. <<result'.rc, result'.err>> \in DataOutcomes
      BY <2>1 DEF DataOutcomes, Result
    <3> QED BY <3>1 DEF KnownOutcome
  <2>4. SameKind'
    BY <2>1 DEF SameKind, Result, RMNETCTL_SUCCESS, RMNETCTL_LIB_ERR
  <2>5. OwnAnswer'
    BY <1>1, <1>5, <1>7 DEF OwnAnswer
  <2>6. result' \in [rc : Int, err : Int, out : Values]
    BY <2>1, <2>2 DEF Result, RMNETCTL_LIB_ERR, RMNETCTL_API_ERR_MESSAGE_TYPE
  <2> QED BY <2>3, <2>4, <2>5, <2>6, <1>1, <1>2, <1>3, <1>4
      DEF IInv, TypeOK, HandleTypeOK, CfgTyped, Backed, Aligned, Drained
<1> QED BY <1>6, <1>7

\* So does a receive that fails.
LEMMA ReceiveFailsStep == IInv /\ ReceiveFails => IInv'
<1> SUFFICES ASSUME IInv, ReceiveFails PROVE IInv'
  OBVIOUS
<1>1. /\ result' = Result(RMNETCTL_LIB_ERR, RMNETCTL_API_ERR_MESSAGE_RECEIVE, Null)
      /\ call' = NoCall
      /\ UNCHANGED <<hndl, opens, transaction_id, own, behind, outq, cfg, carried>>
      /\ Waiting /\ "recv" \in Faults
  BY DEF ReceiveFails, Finish, driver
<1>2. ~Waiting' /\ hndl = "live"
  BY <1>1 DEF IInv, TypeOK, HandleTypeOK, Waiting, NoCall
<1>3. result' \in [rc : Int, err : Int, out : Values]
  BY <1>1 DEF Result, Values, RMNETCTL_LIB_ERR, RMNETCTL_API_ERR_MESSAGE_RECEIVE
<1>4. TypeOK' /\ CfgTyped' /\ Backed' /\ Aligned' /\ Drained'
  BY <1>1, <1>2, <1>3
     DEF IInv, TypeOK, HandleTypeOK, CfgTyped, Backed, Aligned, Drained
<1>5. OwnAnswer' /\ SameKind'
  BY <1>1 DEF OwnAnswer, SameKind, Result, RMNETCTL_SUCCESS, RMNETCTL_LIB_ERR
<1>6. KnownOutcome'
  <2>1. <<result'.rc, result'.err>> \in DataOutcomes
    BY <1>1 DEF DataOutcomes, Result
  <2> QED BY <2>1 DEF KnownOutcome
<1> QED BY <1>4, <1>5, <1>6 DEF IInv

\* Opening and closing a handle keep it: both leave an empty socket.
LEMMA HandleStep == IInv /\ (rmnetctl_init \/ rmnetctl_cleanup) => IInv'
<1>1. ASSUME IInv, rmnetctl_init PROVE IInv'
  <2>1. /\ ~Waiting /\ own' = NoAnswer /\ behind' = 0 /\ transaction_id' = 0
        /\ outq' = << >> /\ carried' = {} /\ UNCHANGED <<call, cfg>>
        /\ hndl' \in {"null", "live", "dangling"} /\ opens' \in {opens, opens + 1}
    BY <1>1 DEF rmnetctl_init, OpenHandle
  <2>2. \E rc \in Int, err \in Int :
            result' = Result(rc, err, Null) /\ <<rc, err>> \in InitOutcomes
    <3> USE DEF RMNETCTL_SUCCESS, Untouched, RMNETCTL_LIB_ERR, RMNETCTL_API_ERR_HNDL_INVALID,
       RMNETCTL_INIT_ERR_PROCESS_ID, RMNETCTL_INIT_ERR_NETLINK_FD, RMNETCTL_INIT_ERR_BIND
    <3>1. \/ result' = Result(RMNETCTL_SUCCESS, Untouched, Null)
          \/ \E e \in {RMNETCTL_API_ERR_HNDL_INVALID, RMNETCTL_INIT_ERR_PROCESS_ID,
                       RMNETCTL_INIT_ERR_NETLINK_FD, RMNETCTL_INIT_ERR_BIND} :
                result' = Result(RMNETCTL_LIB_ERR, e, Null)
      BY <1>1 DEF rmnetctl_init, OpenHandle
    <3>2. <<RMNETCTL_SUCCESS, Untouched>> \in InitOutcomes
      BY DEF InitOutcomes
    <3>3. \A e \in {RMNETCTL_API_ERR_HNDL_INVALID, RMNETCTL_INIT_ERR_PROCESS_ID,
                    RMNETCTL_INIT_ERR_NETLINK_FD, RMNETCTL_INIT_ERR_BIND} :
             e \in Int /\ <<RMNETCTL_LIB_ERR, e>> \in InitOutcomes
      BY DEF InitOutcomes
    <3>4. CASE result' = Result(RMNETCTL_SUCCESS, Untouched, Null)
      <4>1. RMNETCTL_SUCCESS \in Int /\ Untouched \in Int
        OBVIOUS
      <4> HIDE DEF RMNETCTL_SUCCESS, Untouched
      <4> QED BY <3>2, <3>4, <4>1
    <3>5. CASE \E e \in {RMNETCTL_API_ERR_HNDL_INVALID, RMNETCTL_INIT_ERR_PROCESS_ID,
                        RMNETCTL_INIT_ERR_NETLINK_FD, RMNETCTL_INIT_ERR_BIND} :
                 result' = Result(RMNETCTL_LIB_ERR, e, Null)
      <4>1. RMNETCTL_LIB_ERR \in Int
        OBVIOUS
      <4> HIDE DEF RMNETCTL_LIB_ERR, RMNETCTL_API_ERR_HNDL_INVALID,
            RMNETCTL_INIT_ERR_PROCESS_ID, RMNETCTL_INIT_ERR_NETLINK_FD, RMNETCTL_INIT_ERR_BIND
      <4> QED BY <3>3, <3>5, <4>1
    <3> QED BY <3>1, <3>4, <3>5
  <2>3. ~Waiting' /\ ~Returned'
    BY <2>1 DEF Waiting, Returned, NoAnswer
  <2>4. TypeOK'
    <3>1. result' \in [rc : Int, err : Int, out : Values]
      BY <2>2 DEF Result, Values
    <3>2. outq' \in Seq(Answer)
      BY <2>1, EmptySeq
    <3>3. HandleTypeOK'
      BY <1>1, <2>1, <2>3 DEF IInv, TypeOK, HandleTypeOK, Waiting
    <3>4. UNCHANGED <<call, cfg>> /\ own' = NoAnswer /\ carried' = {}
      BY <2>1
    <3> QED BY <1>1, <3>1, <3>2, <3>3, <3>4 DEF IInv, TypeOK
  <2>5. KnownOutcome'
    BY <2>2 DEF KnownOutcome, Result
  <2>6. CfgTyped' /\ Backed' /\ Aligned' /\ Drained'
    <3>1. Len(outq') = 0
      BY <2>1
    <3> QED BY <1>1, <2>1, <2>3, <3>1 DEF IInv, CfgTyped, Backed, Aligned, Drained
  <2>7. OwnAnswer' /\ SameKind'
    BY <2>3 DEF OwnAnswer, SameKind
  <2> QED BY <1>1, <2>4, <2>5, <2>6, <2>7 DEF IInv
<1>2. ASSUME IInv, rmnetctl_cleanup PROVE IInv'
  <2>1. /\ ~Waiting /\ hndl' = "null" /\ transaction_id' = 0 /\ outq' = << >>
        /\ UNCHANGED <<opens, call, result, own, behind, cfg, carried>>
    BY <1>2 DEF rmnetctl_cleanup, CloseHandle, Ready, driver
  <2>2. ~Waiting'
    BY <2>1 DEF Waiting
  <2>3. outq' \in Seq(Answer)
    BY <2>1, EmptySeq
  <2>4. TypeOK'
    <3>1. HandleTypeOK'
      BY <1>2, <2>1, <2>2 DEF IInv, TypeOK, HandleTypeOK, Waiting
    <3>2. UNCHANGED <<call, result, own, cfg, carried>>
      BY <2>1
    <3> QED BY <1>2, <2>3, <3>1, <3>2 DEF IInv, TypeOK
  <2>5. CfgTyped' /\ Backed' /\ Aligned' /\ Drained'
    <3>1. Len(outq') = 0
      BY <2>1
    <3> QED BY <1>2, <2>1, <2>2, <3>1 DEF IInv, CfgTyped, Backed, Aligned, Drained
  <2>6. OwnAnswer' /\ SameKind' /\ KnownOutcome'
    BY <1>2, <2>1, <2>2 DEF IInv, OwnAnswer, SameKind, KnownOutcome, Returned
  <2> QED BY <1>2, <2>4, <2>5, <2>6 DEF IInv
<1> QED BY <1>1, <1>2

-----------------------------------------------------------------------------
\* What the calls share: a call that is refused, or that passes a good request
\* on to rmnetctl_transact, keeps the invariant.
LEMMA CallStep ==
    ASSUME IInv, Ready,
           NEW type, NEW key, NEW val, NEW size \in Nat,
           \/ Refuse(RMNETCTL_INVALID_ARG, Untouched) /\ UNCHANGED driver
           \/ /\ Refuse(RMNETCTL_LIB_ERR, RMNETCTL_API_ERR_STRING_TRUNCATION)
              /\ UNCHANGED driver
           \/ /\ hndl = "live" /\ GoodReq(type, key, val)
              /\ rmnetctl_transact(type, key, val, size)
    PROVE  IInv'
<1>1. /\ <<RMNETCTL_INVALID_ARG, Untouched>> \in DataOutcomes
      /\ <<RMNETCTL_LIB_ERR, RMNETCTL_API_ERR_STRING_TRUNCATION>> \in DataOutcomes
  BY DEF DataOutcomes
<1>2. /\ RMNETCTL_INVALID_ARG \in Int /\ Untouched \in Int
      /\ RMNETCTL_LIB_ERR \in Int /\ RMNETCTL_API_ERR_STRING_TRUNCATION \in Int
  BY DEF RMNETCTL_INVALID_ARG, Untouched, RMNETCTL_LIB_ERR,
     RMNETCTL_API_ERR_STRING_TRUNCATION
<1>3. CASE Refuse(RMNETCTL_INVALID_ARG, Untouched) /\ UNCHANGED driver
  BY <1>1, <1>2, <1>3, RefuseStep
<1>4. CASE /\ Refuse(RMNETCTL_LIB_ERR, RMNETCTL_API_ERR_STRING_TRUNCATION)
           /\ UNCHANGED driver
  BY <1>1, <1>2, <1>4, RefuseStep
<1>5. CASE /\ hndl = "live" /\ GoodReq(type, key, val)
           /\ rmnetctl_transact(type, key, val, size)
  BY <1>5, TransactStep
<1> QED BY <1>3, <1>4, <1>5

\* The requests with no value to store that name a device.
LEMMA DeviceReq ==
    ASSUME NEW dev \in Names, NEW kind \in {"assoc", "egress", "ingress"},
           NEW type \in (Queries \cup Updates) \ NameQueries,
           NEW val, val = Null \/ \E f \in Formats \cup BadFormats \cup {0, 1, 2} : val = Plain(f)
    PROVE  GoodReq(type, <<kind, dev>>, val)
<1>1. <<kind, dev>> \in Keys /\ <<kind, dev>>[1] = kind
  BY DEF Keys
<1>2. val \in Values
  BY DEF Values, Plain
<1> QED BY <1>1, <1>2 DEF GoodReq, Storable

\* The requests about an endpoint: a name stored there passed the check made
\* before it was copied.
LEMMA EndpointReq ==
    ASSUME NEW dev \in Names, NEW ep \in EpIds, NEW type \in Queries \cup Updates,
           NEW val,
           \/ val = Null
           \/ \E n \in Names : /\ NameLen[n] < RMNET_MAX_STR_LEN
                               /\ val = strlcpy(n, RMNET_MAX_STR_LEN)
    PROVE  GoodReq(type, <<"lep", dev, ep>>, val)
<1>1. <<"lep", dev, ep>> \in Keys /\ <<"lep", dev, ep>>[1] = "lep"
  BY DEF Keys
<1>2. val \in Values /\ (val # Null => val \in NameRec /\ ~val.cut)
  <2>1. ASSUME NEW n \in Names, NameLen[n] < RMNET_MAX_STR_LEN,
               val = strlcpy(n, RMNET_MAX_STR_LEN)
        PROVE  val = [text |-> n, cut |-> FALSE]
    <3>1. NameLen[n] \in Nat
      BY NamesAssumption
    <3>2. (NameLen[n] >= RMNET_MAX_STR_LEN) = FALSE
      BY <2>1, <3>1 DEF RMNET_MAX_STR_LEN
    <3> QED BY <2>1, <3>2 DEF strlcpy
  <2>2. CASE val = Null
    BY <2>2 DEF Values
  <2>3. CASE \E n \in Names : /\ NameLen[n] < RMNET_MAX_STR_LEN
                             /\ val = strlcpy(n, RMNET_MAX_STR_LEN)
    <3>1. PICK n \in Names : /\ NameLen[n] < RMNET_MAX_STR_LEN
                            /\ val = strlcpy(n, RMNET_MAX_STR_LEN)
      BY <2>3
    <3>2. val = [text |-> n, cut |-> FALSE]
      BY <3>1, <2>1
    <3>3. val \in NameRec /\ ~val.cut
      BY <3>2 DEF NameRec
    <3> QED BY <3>3 DEF Values, NameRec
  <2> QED BY <2>2, <2>3
<1> QED BY <1>1, <1>2 DEF GoodReq, Storable

\* The requests about a virtual device: a name stored there passed the check
\* made after it was copied.
LEMMA VndReq ==
    ASSUME NEW id \in VndIds, NEW type \in Queries \cup Updates, NEW val,
           \/ val = Null
           \/ val = DriverName
           \/ \E n \in Names : /\ _rmnetctl_check_len(n)
                               /\ val = strlcpy(n, RMNET_MAX_STR_LEN)
    PROVE  GoodReq(type, <<"vnd", id>>, val)
<1>1. <<"vnd", id>> \in Keys /\ <<"vnd", id>>[1] = "vnd"
  BY DEF Keys
<1>2. /\ val \in Values
      /\ val # Null => val \in NameRec /\ (val.cut => NameLen[val.text] = RMNET_MAX_STR_LEN)
  <2>1. CASE val = Null
    BY <2>1 DEF Values
  <2>2. CASE val = DriverName
    BY <2>2 DEF Values, NameRec, DriverName
  <2>3. ASSUME NEW n \in Names, _rmnetctl_check_len(n), val = strlcpy(n, RMNET_MAX_STR_LEN)
        PROVE  val \in NameRec /\ (val.cut => NameLen[val.text] = RMNET_MAX_STR_LEN)
    <3>1. NameLen[n] \in Nat /\ NameLen[n] <= RMNET_MAX_STR_LEN
      BY <2>3, NamesAssumption DEF _rmnetctl_check_len
    <3>2. /\ val.text = n /\ val.cut = (NameLen[n] >= RMNET_MAX_STR_LEN)
          /\ val = [text |-> n, cut |-> NameLen[n] >= RMNET_MAX_STR_LEN]
      BY <2>3 DEF strlcpy
    <3>3. (NameLen[n] >= RMNET_MAX_STR_LEN) \in BOOLEAN
      OBVIOUS
    <3>4. val \in NameRec
      BY <3>2, <3>3 DEF NameRec
    <3>5. val.cut => NameLen[val.text] = RMNET_MAX_STR_LEN
      <4>1. NameLen[n] >= RMNET_MAX_STR_LEN => NameLen[n] = RMNET_MAX_STR_LEN
        BY <3>1 DEF RMNET_MAX_STR_LEN
      <4> QED BY <3>2, <4>1
    <3> QED BY <3>4, <3>5
  <2> QED BY <2>1, <2>2, <2>3 DEF Values, NameRec
<1> QED BY <1>1, <1>2 DEF GoodReq, Storable

\* The requests about a flow.
LEMMA FlowReq ==
    ASSUME NEW id \in VndIds, NEW flow \in Flows, NEW s \in {0, 1, 2},
           NEW type \in {"ADD_VND_TC_FLOW", "DEL_VND_TC_FLOW"}
    PROVE  GoodReq(type, <<"flow", id, flow>>, Plain(s))
<1>1. <<"flow", id, flow>> \in Keys /\ <<"flow", id, flow>>[1] = "flow"
  BY DEF Keys
<1>2. Plain(s) \in Values /\ type \in Updates /\ type \notin NameQueries
  BY DEF Values, Plain, Updates, NameQueries
<1> QED BY <1>1, <1>2 DEF GoodReq, Storable

\* Every call keeps the invariant.
LEMMA CallsStep == IInv /\ Calls => IInv'
<1> SUFFICES ASSUME IInv, Calls PROVE IInv'
  OBVIOUS
<1> USE DEF Ptrs, Flag
<1>1. ASSUME NEW dev \in Ptrs, NEW a \in Flag,
             rmnet_associate_network_device(dev, a)
      PROVE  IInv'
  <2> DEFINE type == IF a = 1 THEN "ASSOCIATE_NETWORK_DEVICE" ELSE "UNASSOCIATE_NETWORK_DEVICE"
             key  == <<"assoc", dev>>
             val  == Plain(a)
  <2>1. /\ Ready
        /\ \/ Refuse(RMNETCTL_INVALID_ARG, Untouched) /\ UNCHANGED driver
           \/ /\ Refuse(RMNETCTL_LIB_ERR, RMNETCTL_API_ERR_STRING_TRUNCATION)
              /\ UNCHANGED driver
           \/ /\ hndl = "live" /\ dev \in Names
              /\ rmnetctl_transact(type, key, val, 0)
    BY <1>1 DEF rmnet_associate_network_device, Call, _rmnetctl_check_dev_name
  <2>2. dev \in Names => GoodReq(type, key, val)
    BY DeviceReq DEF NameQueries, Updates
  <2>3. 0 \in Nat
    BY DataAssumption
  <2> HIDE DEF type, key, val
  <2> QED BY <2>1, <2>2, <2>3, CallStep
<1>2. ASSUME NEW dev \in Ptrs,
             rmnet_get_network_device_associated(dev)
      PROVE  IInv'
  <2> DEFINE type == "GET_NETWORK_DEVICE_ASSOCIATED"
             key  == <<"assoc", dev>>
             val  == Null
  <2>1. /\ Ready
        /\ \/ Refuse(RMNETCTL_INVALID_ARG, Untouched) /\ UNCHANGED driver
           \/ /\ Refuse(RMNETCTL_LIB_ERR, RMNETCTL_API_ERR_STRING_TRUNCATION)
              /\ UNCHANGED driver
           \/ /\ hndl = "live" /\ dev \in Names
              /\ rmnetctl_transact(type, key, val, 0)
    BY <1>2 DEF rmnet_get_network_device_associated, Call, _rmnetctl_check_dev_name
  <2>2. dev \in Names => GoodReq(type, key, val)
    BY DeviceReq DEF NameQueries, Queries
  <2>3. 0 \in Nat
    BY DataAssumption
  <2> HIDE DEF type, key, val
  <2> QED BY <2>1, <2>2, <2>3, CallStep
<1>3. ASSUME NEW dev \in Ptrs, NEW f \in Formats \cup BadFormats,
             rmnet_set_link_egress_data_format(f, dev)
      PROVE  IInv'
  <2> DEFINE type == "SET_LINK_EGRESS_DATA_FORMAT"
             key  == <<"egress", dev>>
             val  == Plain(f)
  <2>1. /\ Ready
        /\ \/ Refuse(RMNETCTL_INVALID_ARG, Untouched) /\ UNCHANGED driver
           \/ /\ Refuse(RMNETCTL_LIB_ERR, RMNETCTL_API_ERR_STRING_TRUNCATION)
              /\ UNCHANGED driver
           \/ /\ hndl = "live" /\ dev \in Names
              /\ rmnetctl_transact(type, key, val, 0)
    BY <1>3 DEF rmnet_set_link_egress_data_format, Call, _rmnetctl_check_dev_name
  <2>2. dev \in Names => GoodReq(type, key, val)
    BY DeviceReq DEF NameQueries, Updates
  <2>3. 0 \in Nat
    BY DataAssumption
  <2> HIDE DEF type, key, val
  <2> QED BY <2>1, <2>2, <2>3, CallStep
<1>4. ASSUME NEW dev \in Ptrs,
             rmnet_get_link_egress_data_format(dev)
      PROVE  IInv'
  <2> DEFINE type == "GET_LINK_EGRESS_DATA_FORMAT"
             key  == <<"egress", dev>>
             val  == Null
  <2>1. /\ Ready
        /\ \/ Refuse(RMNETCTL_INVALID_ARG, Untouched) /\ UNCHANGED driver
           \/ /\ Refuse(RMNETCTL_LIB_ERR, RMNETCTL_API_ERR_STRING_TRUNCATION)
              /\ UNCHANGED driver
           \/ /\ hndl = "live" /\ dev \in Names
              /\ rmnetctl_transact(type, key, val, 0)
    BY <1>4 DEF rmnet_get_link_egress_data_format, Call, _rmnetctl_check_dev_name
  <2>2. dev \in Names => GoodReq(type, key, val)
    BY DeviceReq DEF NameQueries, Queries
  <2>3. 0 \in Nat
    BY DataAssumption
  <2> HIDE DEF type, key, val
  <2> QED BY <2>1, <2>2, <2>3, CallStep
<1>5. ASSUME NEW dev \in Ptrs, NEW f \in Formats \cup BadFormats,
             rmnet_set_link_ingress_data_format_tailspace(f, dev)
      PROVE  IInv'
  <2> DEFINE type == "SET_LINK_INGRESS_DATA_FORMAT"
             key  == <<"ingress", dev>>
             val  == Plain(f)
  <2>1. /\ Ready
        /\ \/ Refuse(RMNETCTL_INVALID_ARG, Untouched) /\ UNCHANGED driver
           \/ /\ Refuse(RMNETCTL_LIB_ERR, RMNETCTL_API_ERR_STRING_TRUNCATION)
              /\ UNCHANGED driver
           \/ /\ hndl = "live" /\ dev \in Names
              /\ rmnetctl_transact(type, key, val, 0)
    BY <1>5 DEF rmnet_set_link_ingress_data_format_tailspace, Call, _rmnetctl_check_dev_name
  <2>2. dev \in Names => GoodReq(type, key, val)
    BY DeviceReq DEF NameQueries, Updates
  <2>3. 0 \in Nat
    BY DataAssumption
  <2> HIDE DEF type, key, val
  <2> QED BY <2>1, <2>2, <2>3, CallStep
<1>6. ASSUME NEW dev \in Ptrs,
             rmnet_get_link_ingress_data_format_tailspace(dev)
      PROVE  IInv'
  <2> DEFINE type == "GET_LINK_INGRESS_DATA_FORMAT"
             key  == <<"ingress", dev>>
             val  == Null
  <2>1. /\ Ready
        /\ \/ Refuse(RMNETCTL_INVALID_ARG, Untouched) /\ UNCHANGED driver
           \/ /\ Refuse(RMNETCTL_LIB_ERR, RMNETCTL_API_ERR_STRING_TRUNCATION)
              /\ UNCHANGED driver
           \/ /\ hndl = "live" /\ dev \in Names
              /\ rmnetctl_transact(type, key, val, 0)
    BY <1>6 DEF rmnet_get_link_ingress_data_format_tailspace, Call, _rmnetctl_check_dev_name
  <2>2. dev \in Names => GoodReq(type, key, val)
    BY DeviceReq DEF NameQueries, Queries
  <2>3. 0 \in Nat
    BY DataAssumption
  <2> HIDE DEF type, key, val
  <2> QED BY <2>1, <2>2, <2>3, CallStep
<1>7. ASSUME NEW dev \in Ptrs, NEW next \in Ptrs, NEW ep \in EpIds, NEW mode \in Modes,
             rmnet_set_logical_ep_config(ep, mode, dev, next)
      PROVE  IInv'
  <2> DEFINE type == "SET_LOGICAL_EP_CONFIG"
             key  == <<"lep", dev, ep>>
             val  == strlcpy(next, RMNET_MAX_STR_LEN)
  <2>1. /\ Ready
        /\ \/ Refuse(RMNETCTL_INVALID_ARG, Untouched) /\ UNCHANGED driver
           \/ /\ Refuse(RMNETCTL_LIB_ERR, RMNETCTL_API_ERR_STRING_TRUNCATION)
              /\ UNCHANGED driver
           \/ /\ hndl = "live" /\ (dev \in Names /\ next \in Names /\ NameLen[next] < RMNET_MAX_STR_LEN)
              /\ rmnetctl_transact(type, key, val, 0)
    BY <1>7 DEF rmnet_set_logical_ep_config, Call, _rmnetctl_check_dev_name
  <2>2. (dev \in Names /\ next \in Names /\ NameLen[next] < RMNET_MAX_STR_LEN) => GoodReq(type, key, val)
    BY EndpointReq DEF Updates
  <2>3. 0 \in Nat
    BY DataAssumption
  <2> HIDE DEF type, key, val
  <2> QED BY <2>1, <2>2, <2>3, CallStep
<1>8. ASSUME NEW dev \in Ptrs, NEW ep \in EpIds,
             rmnet_unset_logical_ep_config(ep, dev)
      PROVE  IInv'
  <2> DEFINE type == "UNSET_LOGICAL_EP_CONFIG"
             key  == <<"lep", dev, ep>>
             val  == Null
  <2>1. /\ Ready
        /\ \/ Refuse(RMNETCTL_INVALID_ARG, Untouched) /\ UNCHANGED driver
           \/ /\ Refuse(RMNETCTL_LIB_ERR, RMNETCTL_API_ERR_STRING_TRUNCATION)
              /\ UNCHANGED driver
           \/ /\ hndl = "live" /\ dev \in Names
              /\ rmnetctl_transact(type, key, val, 0)
    BY <1>8 DEF rmnet_unset_logical_ep_config, Call, _rmnetctl_check_dev_name
  <2>2. dev \in Names => GoodReq(type, key, val)
    BY EndpointReq DEF Updates
  <2>3. 0 \in Nat
    BY DataAssumption
  <2> HIDE DEF type, key, val
  <2> QED BY <2>1, <2>2, <2>3, CallStep
<1>9. ASSUME NEW dev \in Ptrs, NEW ep \in EpIds, NEW size \in Sizes,
             rmnet_get_logical_ep_config(ep, dev, size)
      PROVE  IInv'
  <2> DEFINE type == "GET_LOGICAL_EP_CONFIG"
             key  == <<"lep", dev, ep>>
             val  == Null
  <2>1. /\ Ready
        /\ \/ Refuse(RMNETCTL_INVALID_ARG, Untouched) /\ UNCHANGED driver
           \/ /\ Refuse(RMNETCTL_LIB_ERR, RMNETCTL_API_ERR_STRING_TRUNCATION)
              /\ UNCHANGED driver
           \/ /\ hndl = "live" /\ dev \in Names
              /\ rmnetctl_transact(type, key, val, size)
    BY <1>9 DEF rmnet_get_logical_ep_config, Call, _rmnetctl_check_dev_name
  <2>2. dev \in Names => GoodReq(type, key, val)
    BY EndpointReq DEF Queries
  <2>3. size \in Nat
    BY DataAssumption
  <2> HIDE DEF type, key, val
  <2> QED BY <2>1, <2>2, <2>3, CallStep
<1>10. ASSUME NEW id \in VndIds, NEW new \in Flag, NEW p \in Ptrs,
             rmnet_new_vnd_prefix(id, new, p)
      PROVE  IInv'
  <2> DEFINE type == CASE new = 1 /\ p # Null -> "NEW_VND_WITH_PREFIX"
                       [] new = 0              -> "FREE_VND"
                       [] OTHER                -> "NEW_VND"
             key  == <<"vnd", id>>
             val  == CASE new = 1 /\ p # Null -> strlcpy(p, RMNET_MAX_STR_LEN)
                       [] new = 0              -> Null
                       [] OTHER                -> DriverName
  <2>1. /\ Ready
        /\ \/ Refuse(RMNETCTL_INVALID_ARG, Untouched) /\ UNCHANGED driver
           \/ /\ Refuse(RMNETCTL_LIB_ERR, RMNETCTL_API_ERR_STRING_TRUNCATION)
              /\ UNCHANGED driver
           \/ /\ hndl = "live" /\ (new = 1 /\ p # Null => _rmnetctl_check_len(p))
              /\ rmnetctl_transact(type, key, val, 0)
    BY <1>10 DEF rmnet_new_vnd_prefix, Call
  <2>2. (new = 1 /\ p # Null => _rmnetctl_check_len(p)) => GoodReq(type, key, val)
    BY VndReq DEF Updates
  <2>3. 0 \in Nat
    BY DataAssumption
  <2> HIDE DEF type, key, val
  <2> QED BY <2>1, <2>2, <2>3, CallStep
<1>11. ASSUME NEW id \in VndIds, NEW name \in Ptrs,
             rmnet_new_vnd_name(id, name)
      PROVE  IInv'
  <2> DEFINE type == IF name # Null THEN "NEW_VND_WITH_NAME" ELSE "NEW_VND"
             key  == <<"vnd", id>>
             val  == IF name # Null THEN strlcpy(name, RMNET_MAX_STR_LEN) ELSE DriverName
  <2>1. /\ Ready
        /\ \/ Refuse(RMNETCTL_INVALID_ARG, Untouched) /\ UNCHANGED driver
           \/ /\ Refuse(RMNETCTL_LIB_ERR, RMNETCTL_API_ERR_STRING_TRUNCATION)
              /\ UNCHANGED driver
           \/ /\ hndl = "live" /\ (name # Null => _rmnetctl_check_len(name))
              /\ rmnetctl_transact(type, key, val, 0)
    BY <1>11 DEF rmnet_new_vnd_name, Call
  <2>2. (name # Null => _rmnetctl_check_len(name)) => GoodReq(type, key, val)
    BY VndReq DEF Updates
  <2>3. 0 \in Nat
    BY DataAssumption
  <2> HIDE DEF type, key, val
  <2> QED BY <2>1, <2>2, <2>3, CallStep
<1>12. ASSUME NEW id \in VndIds, NEW size \in Sizes,
             rmnet_get_vnd_name(id, size)
      PROVE  IInv'
  <2> DEFINE type == "GET_VND_NAME"
             key  == <<"vnd", id>>
             val  == Null
  <2>1. /\ Ready
        /\ \/ Refuse(RMNETCTL_INVALID_ARG, Untouched) /\ UNCHANGED driver
           \/ /\ Refuse(RMNETCTL_LIB_ERR, RMNETCTL_API_ERR_STRING_TRUNCATION)
              /\ UNCHANGED driver
           \/ /\ hndl = "live" /\ TRUE
              /\ rmnetctl_transact(type, key, val, size)
    BY <1>12 DEF rmnet_get_vnd_name, Call
  <2>2. TRUE => GoodReq(type, key, val)
    BY VndReq DEF Queries
  <2>3. size \in Nat
    BY DataAssumption
  <2> HIDE DEF type, key, val
  <2> QED BY <2>1, <2>2, <2>3, CallStep
<1>13. ASSUME NEW id \in VndIds, NEW f \in Flows, NEW s \in Flag,
             rmnet_add_del_vnd_tc_flow(id, f, s)
      PROVE  IInv'
  <2> DEFINE type == IF s = 1 THEN "ADD_VND_TC_FLOW" ELSE "DEL_VND_TC_FLOW"
             key  == <<"flow", id, f>>
             val  == Plain(s)
  <2>1. /\ Ready
        /\ \/ Refuse(RMNETCTL_INVALID_ARG, Untouched) /\ UNCHANGED driver
           \/ /\ Refuse(RMNETCTL_LIB_ERR, RMNETCTL_API_ERR_STRING_TRUNCATION)
              /\ UNCHANGED driver
           \/ /\ hndl = "live" /\ TRUE
              /\ rmnetctl_transact(type, key, val, 0)
    BY <1>13 DEF rmnet_add_del_vnd_tc_flow, Call
  <2>2. TRUE => GoodReq(type, key, val)
    BY FlowReq
  <2>3. 0 \in Nat
    BY DataAssumption
  <2> HIDE DEF type, key, val
  <2> QED BY <2>1, <2>2, <2>3, CallStep
<1> QED BY <1>1, <1>2, <1>3, <1>4, <1>5, <1>6, <1>7, <1>8, <1>9, <1>10, <1>11, <1>12, <1>13
    DEF Calls, rmnet_new_vnd

-----------------------------------------------------------------------------
\* IInv holds in every reachable state.
THEOREM Invariance == Spec => []IInv
<1>1. Init => IInv
  <2> SUFFICES ASSUME Init PROVE IInv
    OBVIOUS
  <2>1. /\ hndl = "null" /\ opens = 0 /\ transaction_id = 0 /\ call = NoCall /\ outq = << >>
        /\ result = Result(RMNETCTL_SUCCESS, Untouched, Null)
        /\ own = NoAnswer /\ behind = 0 /\ carried = {}
        /\ cfg = [k \in Keys |-> IF k[1] = "assoc" THEN Plain(0) ELSE Null]
    BY DEF Init, HandleInit
  <2>2. ~Waiting /\ ~Returned
    BY <2>1 DEF Waiting, Returned, NoCall, NoAnswer
  <2>3. TypeOK
    <3>1. Null \in Values /\ Plain(0) \in Values
      BY DEF Values, Plain
    <3>2. result \in [rc : Int, err : Int, out : Values]
      BY <2>1, <3>1 DEF Result, RMNETCTL_SUCCESS, Untouched
    <3>3. outq \in Seq(Answer)
      BY <2>1, EmptySeq
    <3>4. HandleTypeOK
      BY <2>1, <2>2 DEF HandleTypeOK
    <3> QED BY <2>1, <3>1, <3>2, <3>3, <3>4 DEF TypeOK
  <2>4. CfgTyped
    BY <2>1 DEF CfgTyped, Storable
  <2>5. Backed /\ Aligned /\ Drained /\ OwnAnswer /\ SameKind
    <3>1. Len(outq) = 0
      BY <2>1
    <3> QED BY <2>1, <2>2, <3>1 DEF Backed, Aligned, Drained, OwnAnswer, SameKind
  <2>6. KnownOutcome
    BY <2>1 DEF KnownOutcome, InitOutcomes, Result
  <2> QED BY <2>3, <2>4, <2>5, <2>6 DEF IInv
<1>2. IInv /\ [Next]_vars => IInv'
  <2> SUFFICES ASSUME IInv, [Next]_vars PROVE IInv'
    OBVIOUS
  <2>1. CASE Next
    BY <2>1, HandleStep, CallsStep, ReceiveStep, ReceiveFailsStep DEF Next
  <2>2. CASE UNCHANGED vars
    <3>1. UNCHANGED <<hndl, opens, transaction_id, call, outq, result, own, behind,
                      cfg, carried>>
      BY <2>2 DEF vars, handle, driver
    <3>2. TypeOK' /\ CfgTyped' /\ Backed' /\ Aligned' /\ Drained'
      BY <3>1 DEF IInv, TypeOK, HandleTypeOK, CfgTyped, Backed, Aligned, Drained, Waiting
    <3>3. OwnAnswer' /\ SameKind' /\ KnownOutcome'
      BY <3>1 DEF IInv, OwnAnswer, SameKind, KnownOutcome, Returned, Waiting
    <3> QED BY <3>2, <3>3 DEF IInv
  <2> QED BY <2>1, <2>2
<1> QED BY <1>1, <1>2, PTL DEF Spec

\* Every variable keeps its type, and a handle that is not open has no call in
\* progress and no socket with unread answers.
THEOREM DataTypeCorrect == Spec => []TypeOK
BY Invariance, PTL DEF IInv

\* A call that found no older answer queued reports its own request's fate,
\* whatever was lost or failed before it.
THEOREM FateReported == Spec => []OwnAnswer
BY Invariance, PTL DEF IInv

\* However far the socket has fallen behind, a success is backed by a request
\* of the same type that the driver carried out for this handle.
THEOREM SuccessIsBacked == Spec => []SameKind
BY Invariance, PTL DEF IInv

\* Every outcome of every call has a name in the library's tables: the offset
\* _rmnetctl_set_codes adds never leaves its part of them.
THEOREM OutcomesKnown == Spec => []KnownOutcome
BY Invariance, PTL DEF IInv

\* Endpoints are configured with whole names.
THEOREM EndpointNamesStoredWhole == Spec => []EndpointNamesWhole
<1>1. IInv => EndpointNamesWhole
  <2> SUFFICES ASSUME IInv, NEW dev \in Names, NEW ep \in EpIds,
                      cfg[<<"lep", dev, ep>>] # Null
               PROVE  ~cfg[<<"lep", dev, ep>>].cut
    BY DEF EndpointNamesWhole
  <2>1. <<"lep", dev, ep>> \in Keys /\ <<"lep", dev, ep>>[1] = "lep"
    BY DEF Keys
  <2> QED BY <2>1 DEF IInv, CfgTyped, Storable
<1> QED BY <1>1, Invariance, PTL

\* Of the names and prefixes of virtual devices only those of exactly
\* RMNET_MAX_STR_LEN characters are cut: the one length at which the check after
\* the copy and the room of the copy disagree.
THEOREM OnlyBoundaryNamesCut ==
    Spec => [](\A id \in VndIds :
                  cfg[<<"vnd", id>>] # Null /\ cfg[<<"vnd", id>>].cut =>
                      NameLen[cfg[<<"vnd", id>>].text] = RMNET_MAX_STR_LEN)
<1>1. IInv => (\A id \in VndIds :
                  cfg[<<"vnd", id>>] # Null /\ cfg[<<"vnd", id>>].cut =>
                      NameLen[cfg[<<"vnd", id>>].text] = RMNET_MAX_STR_LEN)
  <2> SUFFICES ASSUME IInv, NEW id \in VndIds,
                      cfg[<<"vnd", id>>] # Null, cfg[<<"vnd", id>>].cut
               PROVE  NameLen[cfg[<<"vnd", id>>].text] = RMNET_MAX_STR_LEN
    OBVIOUS
  <2>1. <<"vnd", id>> \in Keys /\ <<"vnd", id>>[1] = "vnd"
    BY DEF Keys
  <2> QED BY <2>1 DEF IInv, CfgTyped, Storable
<1> QED BY <1>1, Invariance, PTL

\* Where no receive fails, RMNETCTL_SUCCESS means that the driver carried the
\* call's own request out: the failed receive is the only way to the wrong
\* answer that the run data_stale shows.
THEOREM SuccessIsOwn ==
    ASSUME "recv" \notin Faults
    PROVE  Spec => []SuccessMeansDone
<1>1. IInv => SuccessMeansDone
  <2> SUFFICES ASSUME IInv, Returned, result.rc = RMNETCTL_SUCCESS
               PROVE  own.code = 0
    BY DEF SuccessMeansDone
  <2>1. behind = 0
    BY DEF IInv, Drained
  <2>2. result.err # RMNETCTL_API_ERR_MESSAGE_RECEIVE
    BY DEF IInv, KnownOutcome, DataOutcomes, InitOutcomes, RMNETCTL_SUCCESS,
       RMNETCTL_INVALID_ARG, RMNETCTL_LIB_ERR, RMNETCTL_KERNEL_ERR, Untouched,
       RMNETCTL_API_ERR_MESSAGE_RECEIVE
  <2> QED BY <2>1, <2>2 DEF IInv, OwnAnswer, RMNETCTL_SUCCESS, RMNETCTL_LIB_ERR,
       RMNETCTL_KERNEL_ERR
<1> QED BY <1>1, Invariance, PTL

=============================================================================
