----------------------------- MODULE RtaMessage -----------------------------
(***************************************************************************)
(* How librmnetctl lays out the attributes of a link request in its fixed  *)
(* buffer, and whether walking the buffer finds them again.  RtRmnet uses  *)
(* this module for what its calls send.                                    *)
(*                                                                         *)
(* A message is built by a sequence of puts; a nested attribute is put     *)
(* empty and gets its length when it is ended.  Of an attribute the model  *)
(* keeps type, offset in the data area, rta_len, and whether its payload   *)
(* was copied; offsets and lengths are bytes.  The reader is rta_find's    *)
(* walk (RTA_OK, RTA_NEXT), which is also how the kernel reads a request.  *)
(***************************************************************************)
EXTENDS Integers, Sequences

NLMSG_DATA_SIZE == 500
RTA_HDR == 4
RTA_ALIGN(n) == ((n + 3) \div 4) * 4

-----------------------------------------------------------------------------
\* Whether memscpy_repeat copies size bytes: a null source (present is FALSE)
\* or too little room makes it return without copying.  rta_put takes no
\* notice.
Copies(room, size, present) == present /\ room > size

\* Mutant: the next attribute starts where this one's bytes end.
Bug_rta_put(m, type, size, present) ==
    [len   |-> m.len + RTA_HDR + size,
     room  |-> IF Copies(m.room, size, present) THEN m.room - size ELSE m.room,
     attrs |-> Append(m.attrs,
                   [type |-> type, at |-> m.len, len |-> RTA_HDR + size,
                    whole |-> size = 0 \/ Copies(m.room, size, present)])]

\* An attribute at the tail of the message.
rta_put(m, type, size, present) ==
    [len   |-> m.len + RTA_ALIGN(RTA_HDR + size),
     room  |-> IF Copies(m.room, size, present) THEN m.room - size ELSE m.room,
     attrs |-> Append(m.attrs,
                   [type |-> type, at |-> m.len, len |-> RTA_HDR + size,
                    whole |-> size = 0 \/ Copies(m.room, size, present)])]

\* The nested attribute ends at the tail of the message.
rta_nested_end(m, type) ==
    LET i == CHOOSE j \in DOMAIN m.attrs : m.attrs[j].type = type
    IN  [m EXCEPT !.attrs[i].len = m.len - m.attrs[i].at]

\* The attributes found by the walk over bytes lo .. hi - 1.
rta_walk(attrs, lo, hi) ==
    LET here(p) == {i \in DOMAIN attrs : attrs[i].at = p}
        ok(p) == /\ here(p) # {} /\ hi - p >= RTA_HDR
                 /\ LET a == attrs[CHOOSE i \in here(p) : TRUE]
                    IN  a.len >= RTA_HDR /\ a.len <= hi - p
        found[p \in 0 .. NLMSG_DATA_SIZE] ==
            IF ok(p)
            THEN LET a == attrs[CHOOSE i \in here(p) : TRUE]
                 IN  <<a>> \o found[p + RTA_ALIGN(a.len)]
            ELSE << >>
    IN  found[lo]

-----------------------------------------------------------------------------
Put(type, size) == [op |-> "put", type |-> type, size |-> size]
Start(type)     == [op |-> "start", type |-> type, size |-> 0]
NestEnd(type)   == [op |-> "end", type |-> type, size |-> 0]

\* The attributes every request about a virtual device has: the real device,
\* the name (with its terminator), and the link information around data.
rmnet_fill_msg(name_len, data) ==
    <<Put("LINK", 4), Put("IFNAME", name_len + 1), Start("LINKINFO"),
      Put("KIND", 6), Start("DATA")>> \o data \o <<NestEnd("DATA"), NestEnd("LINKINFO")>>

rmnet_fill_newlink_msg(name_len, flagconfig) ==
    rmnet_fill_msg(name_len, <<Put("MUX_ID", 2)>>
                             \o (IF flagconfig THEN <<Put("FLAGS", 8)>> ELSE << >>))

rmnet_fill_flow_msg(name_len) == rmnet_fill_msg(name_len, <<Put("DFC_QOS", 20)>>)

uplink_msg(name_len) == rmnet_fill_msg(name_len, <<Put("UPLINK_PARAMS", 8)>>)

Program(k, name_len, flagconfig) ==
    CASE k = "newvnd"    -> <<Put("NUM_TX_QUEUES", 4)>>
                            \o rmnet_fill_newlink_msg(name_len, flagconfig)
      [] k = "changevnd" -> rmnet_fill_newlink_msg(name_len, flagconfig)
      [] k = "bridgevnd" -> <<Put("MASTER", 4)>>
      [] k = "uplink"    -> uplink_msg(name_len)
      [] k = "flow"      -> rmnet_fill_flow_msg(name_len)

\* One put, on message m.
Apply(m, t) ==
    CASE t.op = "put"   -> rta_put(m, t.type, t.size, TRUE)
      [] t.op = "start" -> rta_put(m, t.type, 0, FALSE)
      [] t.op = "end"   -> rta_nested_end(m, t.type)

\* The message made by a sequence of puts.
Build(puts) ==
    LET m[i \in 0 .. Len(puts)] ==
            IF i = 0
            THEN [len |-> 0, room |-> NLMSG_DATA_SIZE - RTA_HDR, attrs |-> << >>]
            ELSE Apply(m[i - 1], puts[i])
    IN  m[Len(puts)]

-----------------------------------------------------------------------------
Types(s) == [i \in DOMAIN s |-> s[i].type]

\* The attributes inside the one of this type that rta_find finds in s (none
\* if it finds none).
Inside(m, s, type) ==
    LET those == SelectSeq(s, LAMBDA a : a.type = type)
    IN  IF those = << >> THEN << >>
        ELSE LET a == Head(those)
             IN  rta_walk(m.attrs, a.at + RTA_HDR, a.at + a.len)

\* Every payload was copied and the message stays inside its buffer: the
\* silent return of memscpy_repeat has not happened.
WholeMessage(m) ==
    /\ \A i \in DOMAIN m.attrs : m.attrs[i].whole
    /\ m.len <= NLMSG_DATA_SIZE

\* A walk over the message finds exactly the attributes that were put, at the
\* level they were put at and in their order.
ReadsBack(m, kind, flagconfig) ==
    LET top  == rta_walk(m.attrs, 0, m.len)
        info == Inside(m, top, "LINKINFO")
        data == Inside(m, info, "DATA")
    IN  IF kind = "bridgevnd"
        THEN Types(top) = <<"MASTER">>
        ELSE /\ Types(top) = (IF kind = "newvnd" THEN <<"NUM_TX_QUEUES">> ELSE << >>)
                             \o <<"LINK", "IFNAME", "LINKINFO">>
             /\ Types(info) = <<"KIND", "DATA">>
             /\ Types(data) = CASE kind = "uplink" -> <<"UPLINK_PARAMS">>
                                [] kind = "flow"   -> <<"DFC_QOS">>
                                [] flagconfig      -> <<"MUX_ID", "FLAGS">>
                                [] OTHER           -> <<"MUX_ID">>

\* For which requests that holds, whatever the length of the device's name
\* does to the alignment of what follows it.
Sound ==
    [kind \in {"newvnd", "changevnd", "bridgevnd", "uplink", "flow"} |->
        \A name_len \in 0 .. 15, flagconfig \in BOOLEAN :
            LET m == Build(Program(kind, name_len, flagconfig))
            IN  WholeMessage(m) /\ ReadsBack(m, kind, flagconfig)]

=============================================================================
