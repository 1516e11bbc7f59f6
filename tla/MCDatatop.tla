----------------------------- MODULE MCDatatop -----------------------------
EXTENDS Datatop

L(n, v) == [name |-> n, vals |-> v]
MCKind == [dev |-> "dev", stat |-> "stat", snmp |-> "dual", snmp6 |-> "single",
           mem |-> "meminfo", rmnet |-> "gen", cpu0 |-> "cpu"]
MCFirst ==
  [dev |-> <<L("lo", <<0>>), L("rmnet0", <<1>>)>>,
   stat |-> <<L("cpu", <<0>>), L("ctxt", <<1>>)>>,
   snmp |-> <<L("Udp", <<0>>), L("UdpLite", <<1>>)>>,
   snmp6 |-> <<L("Ip6InReceives", <<0>>)>>,
   mem |-> <<L("MemFree:", <<1>>)>>,
   rmnet |-> <<L("rx", <<0, 1>>)>>,
   cpu0 |-> <<L(NoName, <<0>>)>>]
MCNew ==
  [dev |-> L("wlan0", <<0>>), stat |-> L("cpu0", <<0, 1>>), snmp |-> L("IcmpMsg", <<1>>),
   snmp6 |-> JunkLine, mem |-> JunkLine, rmnet |-> JunkLine, cpu0 |-> JunkLine]
MCLineNames == UNION {{MCFirst[g][p].name : p \in DOMAIN MCFirst[g]} \cup {MCNew[g].name} :
                        g \in DOMAIN MCFirst}

O(o, a) == [opt |-> o, arg |-> a]
S(argv, groups, absent) ==
  [argv |-> argv, groups |-> groups, absent |-> absent,
   typed |-> IF groups \in {<<"cpu0">>, <<"snmp6">>} THEN 2 ELSE 1]
W == O("w", "free")
T == O("t", 1)

\* Every kind with a CSV run of one second and with an endless one, two groups
\* together, the other ways to run, and command lines that are refused.
MCSetups ==
  {S(<<W, T>>, <<g>>, {}) : g \in DOMAIN MCKind}
  \cup {S(<<W>>, <<g>>, {}) : g \in {"snmp6", "cpu0"}}
  \cup {S(<<O("p", 0), T>>, <<"dev">>, {}), S(<<>>, <<"rmnet">>, {}),
        S(<<T, O("s", "free")>>, <<"stat">>, {}), S(<<O("s", "free")>>, <<"stat">>, {"stat"}),
        S(<<W, T>>, <<"cpu0", "mem">>, {"cpu0"}), S(<<O("p", 0)>>, <<"rmnet">>, {"rmnet"})}
  \cup {S(<<O("r", 0), O("o", "dir"), O("i", 3), W, T>>, <<>>, {}),
        S(<<O("o", "dir"), O("r", 0), O("p", 0)>>, <<>>, {})}
  \cup {S(<<a>>, <<>>, {}) : a \in {O("h", 0), O("r", 0), O("n", 20), O("i", 0), O("t", 0),
                                   O("w", "taken"), O("s", "taken"), O("x", 0),
                                   O("o", "absent"), O("o", "long"), O("o", "denied"),
                                   O("n", -20)}}
MCSnapshot == {S(<<O("r", 0), O("o", "dir"), O("s", "free")>>, <<>>, {})}
MCLogging == {S(<<O("r", 0), O("o", "dir"), W, T>>, <<>>, {})}
MCTypable == {<<>>, <<"q">>, <<"quit">>, <<"i">>, <<"l", "q">>}
=============================================================================
