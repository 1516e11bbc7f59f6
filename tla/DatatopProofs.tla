--------------------------- MODULE DatatopProofs ---------------------------
(***************************************************************************)
(* Proofs about Datatop: its thread and its options; then its data, that   *)
(* is what the searches find, what the polls store, what the CSV file and  *)
(* the differences say, and how the groups are freed, for every set of     *)
(* groups, files of every length and command lines of every kind.          *)
(***************************************************************************)
EXTENDS Datatop, SequenceTheorems, TLAPS

-----------------------------------------------------------------------------
(***************************************************************************)
(* The thread of -r and the exit handler.                                  *)
(***************************************************************************)
Ips == 1 .. IpGroups

ThrPlaces == {"none", "mutex", "atexit", "files", "head", "lock", "walk", "unlock",
              "sleep", "gone"}

\* The thread is started once, from main() before the first poll, and exit() is
\* called once.
StartInv ==
    /\ pc # "exit" => proc = "run"
    /\ pc \in {"parse", "init", "search"} => thr = "none"

\* The lock is held by the thread while it walks and by the exit handler while
\* it frees.
LockInv ==
    /\ proc \in {"run", "exit", "clean", "after", "dead"} /\ thr \in ThrPlaces
    /\ thr \in {"walk", "unlock"} => owner = "thread"
    /\ proc = "clean" <=> owner = "main"

\* A group is freed by the exit handler alone, which closes its file; only a
\* thread that opens it again later undoes that.
FreedInv ==
    /\ cur \in Nat \ {0}
    /\ ipg \in [Ips -> [file : {"null", "open", "closed"}, freed : {0, 1}]]
    /\ touched \in BOOLEAN
    /\ proc \in {"run", "exit"} => \A k \in Ips : ipg[k].freed = 0
    /\ proc = "after" => \A k \in Ips : ipg[k].freed = 1
    /\ proc = "dead" => \A k, l \in Ips : ipg[k].freed = ipg[l].freed
    /\ ~touched => \A k \in Ips : ipg[k].freed = 1 => ipg[k].file # "open"

IpInv == StartInv /\ LockInv /\ FreedInv

\* Each step of the thread, once it is started.
LEMMA ThreadKeepsIp ==
    ASSUME IpInv, Thread, UNCHANGED pc
    PROVE  IpInv'
<1>1. CASE ThrMutexInit
  BY <1>1 DEF ThrMutexInit, IpInv, StartInv, LockInv, FreedInv, ThrPlaces
<1>2. CASE ThrAtexit
  BY <1>2 DEF ThrAtexit, IpInv, StartInv, LockInv, FreedInv, ThrPlaces
<1>3. CASE dtop_ip_table_init_files
  <2>1. StartInv' /\ LockInv'
    BY <1>3 DEF dtop_ip_table_init_files, IpInv, StartInv, LockInv, ThrPlaces
  <2>2. FreedInv'
    <3>1. CASE cur > IpGroups
      BY <1>3, <3>1 DEF dtop_ip_table_init_files, Ips, IpInv, FreedInv
    <3>2. CASE ~(cur > IpGroups)
      <4>1. cur \in Ips /\ ipg[cur].freed \in {0, 1}
        BY IpAssumption, <3>2 DEF Ips, IpInv, FreedInv
      <4>2. cur' \in Nat \ {0} /\ touched' \in BOOLEAN /\ UNCHANGED proc
        BY <1>3, <3>2, <4>1 DEF dtop_ip_table_init_files, Touch, IpInv, FreedInv
      <4>3. touched' = (touched \/ ipg[cur].freed > 0)
        BY <1>3, <3>2 DEF dtop_ip_table_init_files, Touch
      <4>4. ipg' = [ipg EXCEPT ![cur].file = "open"] \/ ipg' = ipg
        BY <1>3, <3>2 DEF dtop_ip_table_init_files
      <4>5. /\ ipg' \in [Ips -> [file : {"null", "open", "closed"}, freed : {0, 1}]]
            /\ \A k \in Ips : ipg'[k].freed = ipg[k].freed
            /\ \A k \in Ips : k # cur => ipg'[k] = ipg[k]
        BY <4>1, <4>4 DEF IpInv, FreedInv
      <4>6. ~touched' => \A k \in Ips : ipg'[k].freed = 1 => ipg'[k].file # "open"
        <5> SUFFICES ASSUME ~touched', NEW k \in Ips, ipg'[k].freed = 1
                     PROVE  ipg'[k].file # "open"
          OBVIOUS
        <5>1. ~touched /\ ~(ipg[cur].freed > 0)
          BY Zenon, <4>3
        <5>2. k # cur /\ ipg[k].freed = 1
          BY <4>1, <4>5, <5>1
        <5> QED BY <4>5, <5>1, <5>2 DEF IpInv, FreedInv
      <4> QED BY <4>2, <4>5, <4>6 DEF IpInv, FreedInv
    <3> QED BY <3>1, <3>2
  <2> QED BY <2>1, <2>2 DEF IpInv
<1>4. CASE ThrHead
  BY <1>4 DEF ThrHead, IpInv, StartInv, LockInv, FreedInv, ThrPlaces
<1>5. CASE ThrLock
  BY <1>5 DEF ThrLock, IpInv, StartInv, LockInv, FreedInv, ThrPlaces
<1>6. CASE dtop_ip_table_poll
  <2>1. StartInv' /\ LockInv'
    BY <1>6 DEF dtop_ip_table_poll, IpInv, StartInv, LockInv, ThrPlaces
  <2>2. FreedInv'
    <3>1. CASE cur > IpGroups
      BY <1>6, <3>1 DEF dtop_ip_table_poll, Ips, IpInv, FreedInv
    <3>2. CASE ~(cur > IpGroups)
      <4>1. cur \in Ips /\ ipg[cur].freed \in {0, 1}
        BY IpAssumption, <3>2 DEF Ips, IpInv, FreedInv
      <4> QED BY <1>6, <3>2, <4>1 DEF dtop_ip_table_poll, Touch, IpInv, FreedInv
    <3> QED BY <3>1, <3>2
  <2> QED BY <2>1, <2>2 DEF IpInv
<1>7. CASE ThrUnlock
  BY <1>7 DEF ThrUnlock, IpInv, StartInv, LockInv, FreedInv, ThrPlaces
<1>8. CASE ThrSleep
  BY <1>8 DEF ThrSleep, IpInv, StartInv, LockInv, FreedInv, ThrPlaces
<1> QED BY <1>1, <1>2, <1>3, <1>4, <1>5, <1>6, <1>7, <1>8 DEF Thread

\* Each step of exit().
LEMMA ExitingKeepsIp ==
    ASSUME IpInv, Exiting, UNCHANGED pc
    PROVE  IpInv'
<1>1. CASE ExitHandlers
  BY <1>1 DEF ExitHandlers, IpInv, StartInv, LockInv, FreedInv
<1>2. CASE CleanupGroup
  BY <1>2 DEF CleanupGroup, Ips, IpInv, StartInv, LockInv, FreedInv
<1>3. CASE CleanupDone
  <2>1. \A k \in Ips : ipg[k].freed = 1
    BY <1>3 DEF CleanupDone, Ips, IpInv, FreedInv
  <2> QED BY <1>3, <2>1 DEF CleanupDone, IpInv, StartInv, LockInv, FreedInv
<1>4. CASE ProcessEnds
  BY <1>4 DEF ProcessEnds, IpInv, StartInv, LockInv, FreedInv
<1> QED BY <1>1, <1>2, <1>3, <1>4 DEF Exiting

\* Where dtop_poll goes back to is never a place before the first poll.
Backs == {"none", "terminal", "write", "sleep", "ended"}

LEMMA BackKept == ASSUME back \in Backs, Next PROVE back' \in Backs
<1>1. CASE Main
  BY <1>1
  DEF Main, ParseArgs, CountLines, SearchFile, InitDone, PollGroup, PollCrash, PollDone,
      dtop_print_terminal, OpenCsv, WriteHeader, LoopTest, SelectInput, SelectTimeout, Quit,
      QuitCrash, Command, WriteRow, ShowTotal, CloseCsv, Fork, Child, WaitPid, AfterSnapshot,
      Sleep, deconstruct_dpgs, Leave, Walk, mainVars, Backs
<1>2. CASE ~Main
  BY <1>2 DEF Next, IpThread, Bump, LineMoves, FileMoves, Type, CloseStdin, mainVars
<1> QED BY <1>1, <1>2

\* main() calls exit() once, starts the thread once, and otherwise lets both
\* alone.
LeavesIpAlone ==
    \/ pc # "exit" /\ Exit
    \/ pc = "init" /\ pc' \notin {"parse", "init", "search", "exit"} /\ StartThread
    \/ /\ UNCHANGED ipVars
       /\ pc' = "exit" => pc = "exit"
       /\ pc' \in {"parse", "init", "search"} => pc \in {"parse", "init", "search"}
       /\ pc = "exit" => pc' = "exit"

LEMMA MainKeepsIp ==
    ASSUME IpInv, LeavesIpAlone
    PROVE  IpInv'
<1>1. CASE pc # "exit" /\ Exit
  BY <1>1 DEF Exit, IpInv, StartInv, LockInv, FreedInv
<1>2. CASE /\ pc = "init" /\ pc' \notin {"parse", "init", "search", "exit"} /\ StartThread
  BY <1>2 DEF StartThread, IpInv, StartInv, LockInv, FreedInv, ThrPlaces
<1>3. CASE /\ UNCHANGED ipVars
           /\ pc' = "exit" => pc = "exit"
           /\ pc' \in {"parse", "init", "search"} => pc \in {"parse", "init", "search"}
           /\ pc = "exit" => pc' = "exit"
  BY <1>3 DEF ipVars, IpInv, StartInv, LockInv, FreedInv
<1> QED BY <1>1, <1>2, <1>3 DEF LeavesIpAlone

LEMMA MainLeavesIpAlone ==
    ASSUME Main, ~Leave, IpInv, back \in Backs
    PROVE  LeavesIpAlone
<1> USE DEF LeavesIpAlone, Backs
<1>1. CASE ParseArgs
  BY <1>1 DEF ParseArgs
<1>2. CASE CountLines
  BY <1>2 DEF CountLines
<1>3. CASE SearchFile
  BY <1>3 DEF SearchFile
<1>4. CASE InitDone
  BY <1>4 DEF InitDone, Walk
<1>5. CASE PollGroup
  BY <1>5 DEF PollGroup
<1>6. CASE PollCrash
  BY <1>6 DEF PollCrash
<1>7. CASE PollDone
  BY <1>7 DEF PollDone
<1>8. CASE dtop_print_terminal
  BY <1>8 DEF dtop_print_terminal
<1>9. CASE OpenCsv
  BY <1>9 DEF OpenCsv
<1>10. CASE WriteHeader
  BY <1>10 DEF WriteHeader
<1>11. CASE LoopTest
  BY <1>11 DEF LoopTest
<1>12. CASE SelectInput
  BY <1>12 DEF SelectInput
<1>13. CASE SelectTimeout
  BY <1>13 DEF SelectTimeout, Walk
<1>14. CASE Quit
  BY <1>14 DEF Quit
<1>15. CASE QuitCrash
  BY <1>15 DEF QuitCrash
<1>16. CASE Command
  BY <1>16 DEF Command, Walk
<1>17. CASE WriteRow
  BY <1>17 DEF WriteRow
<1>18. CASE ShowTotal
  BY <1>18 DEF ShowTotal
<1>19. CASE CloseCsv
  BY <1>19 DEF CloseCsv
<1>20. CASE Fork
  BY <1>20 DEF Fork, dtop_print_system_snapshot
<1>21. CASE Child
  BY <1>21 DEF Child
<1>22. CASE WaitPid
  BY <1>22 DEF WaitPid
<1>23. CASE AfterSnapshot
  BY <1>23 DEF AfterSnapshot, Walk
<1>24. CASE Sleep
  BY <1>24 DEF Sleep, Walk
<1>25. CASE deconstruct_dpgs
  BY <1>25 DEF deconstruct_dpgs
<1> QED BY <1>1, <1>2, <1>3, <1>4, <1>5, <1>6, <1>7, <1>8, <1>9, <1>10, <1>11, <1>12, <1>13, <1>14, <1>15, <1>16, <1>17, <1>18, <1>19, <1>20, <1>21, <1>22, <1>23, <1>24, <1>25 DEF Main

LEMMA NextKeepsIp ==
    ASSUME IpInv, back \in Backs, [Next]_vars
    PROVE  IpInv'
<1>1. CASE Main /\ ~Leave
  BY <1>1, MainLeavesIpAlone, MainKeepsIp
<1>2. CASE Leave
  BY <1>2, ExitingKeepsIp DEF Leave, mainVars
<1>3. CASE IpThread
  BY <1>3, ThreadKeepsIp DEF IpThread, mainVars
<1>4. CASE Bump \/ LineMoves \/ FileMoves \/ Type \/ CloseStdin \/ UNCHANGED vars
  <2>1. UNCHANGED pc /\ UNCHANGED ipVars
    BY <1>4 DEF Bump, LineMoves, FileMoves, Type, CloseStdin, vars, mainVars
  <2>2. LeavesIpAlone
    BY <2>1 DEF LeavesIpAlone
  <2> QED BY <2>2, MainKeepsIp
<1> QED BY <1>1, <1>2, <1>3, <1>4 DEF Next

LEMMA InitIp == Init => IpInv /\ back \in Backs
<1> SUFFICES ASSUME Init PROVE IpInv /\ back \in Backs
  OBVIOUS
<1>1. ipg \in [Ips -> [file : {"null", "open", "closed"}, freed : {0, 1}]]
  BY DEF Init, IpInit, Ips
<1>2. \A k \in Ips : ipg[k].freed = 0 /\ ipg[k].freed # 1
  BY DEF Init, IpInit, Ips
<1>3. /\ pc = "parse" /\ back = "none" /\ proc = "run" /\ thr = "none" /\ cur = 1
      /\ owner = "none" /\ touched = FALSE
  BY DEF Init, IpInit
<1>4. StartInv /\ LockInv /\ back \in Backs
  BY <1>3 DEF StartInv, LockInv, ThrPlaces, Backs
<1>5. FreedInv
  <2>1. 1 \in Nat \ {0} /\ FALSE \in BOOLEAN /\ proc \notin {"after", "dead"}
    BY <1>3
  <2> QED BY Zenon, <1>1, <1>2, <1>3, <2>1 DEF FreedInv
<1> QED BY <1>4, <1>5 DEF IpInv

\* dtop_ip_table_lock keeps the thread's polls and the exit handler apart, and
\* the handler frees and closes all there is, wherever main() left - as long as
\* the thread has not used a freed group, which the lock does not prevent.
THEOREM IpListSafe == Spec => []IpListSound
<1>1. back \in Backs /\ [Next]_vars => (back \in Backs)'
  BY BackKept DEF vars, mainVars
<1>2. IpInv /\ back \in Backs /\ [Next]_vars => IpInv'
  BY NextKeepsIp
<1>3. IpInv => IpListSound
  <2> SUFFICES ASSUME IpInv PROVE IpListSound
    OBVIOUS
  <2>1. IpWalkExclusive
    BY DEF IpInv, LockInv, IpWalkExclusive
  <2>2. \A k \in Ips : ipg[k].freed \in {0, 1}
    BY DEF IpInv, FreedInv
  <2>3. IpReleased
    BY <2>2 DEF IpInv, FreedInv, IpReleased, Ips
  <2> QED BY <2>1, <2>3 DEF IpListSound
<1> QED BY <1>1, <1>2, <1>3, InitIp, PTL DEF Spec

-----------------------------------------------------------------------------
(***************************************************************************)
(* What getopt's loop makes of a command line: FoldLeft's lemmas for it.   *)
(***************************************************************************)
\* The options of a command line as far as it has been read: no time but a
\* positive one was selected, and no period below the least.
SaneOpts(o) ==
    /\ {"print_csv", "poll_per", "poll_time", "time_selected"} \subseteq DOMAIN o
    /\ o.print_csv \in BOOLEAN /\ o.time_selected \in BOOLEAN
    /\ o.poll_per = 0 \/ (o.poll_per \in Int /\ o.poll_per >= MinPeriod)
    /\ o.poll_time \in Nat
    /\ o.time_selected => o.poll_time > 0

Sane(p) == {"status", "opts"} \subseteq DOMAIN p /\ SaneOpts(p.opts)

Parsing == INSTANCE FoldFacts WITH Op <- ParseOption, Good <- Sane

\* Every option leaves them so.
LEMMA ParseOptionSane ==
    ASSUME NEW p, Sane(p), NEW a, a.opt \in {"i", "t"} => a.arg \in Int
    PROVE  Sane(ParseOption(p, a))
<1> DEFINE o == p.opts
<1>0. {"status", "opts"} \subseteq DOMAIN p /\ SaneOpts(o)
  BY DEF Sane
<1>1. Sane(Reject(p)) /\ Sane([p EXCEPT !.status = "PARSE_FORCE_EXIT"])
  BY <1>0 DEF Reject, Sane
<1>2. ASSUME NEW q, SaneOpts(q)
      PROVE  Sane(Set(p, q))
  BY <1>0, <1>2 DEF Set, Sane
<1>3. /\ Sane(Set(p, [o EXCEPT !.print_cl = TRUE]))
      /\ Sane(Set(p, [o EXCEPT !.print_csv = TRUE]))
      /\ Sane(Set(p, [o EXCEPT !.out_dir = TRUE]))
      /\ Sane(Set(p, [o EXCEPT !.snapshot = TRUE]))
      /\ Sane(Set(p, [o EXCEPT !.tables = TRUE]))
      /\ Sane(Set(p, [o EXCEPT !.priority = a.arg]))
  <2> HIDE DEF o
  <2>1. /\ SaneOpts([o EXCEPT !.print_cl = TRUE]) /\ SaneOpts([o EXCEPT !.print_csv = TRUE])
        /\ SaneOpts([o EXCEPT !.out_dir = TRUE]) /\ SaneOpts([o EXCEPT !.snapshot = TRUE])
        /\ SaneOpts([o EXCEPT !.tables = TRUE]) /\ SaneOpts([o EXCEPT !.priority = a.arg])
    BY <1>0 DEF SaneOpts
  <2> QED BY <1>2, <2>1
<1>4. ASSUME a.opt = "i", a.arg >= MinPeriod
      PROVE  Sane(Set(p, [o EXCEPT !.poll_per = a.arg]))
  <2> HIDE DEF o
  <2>1. SaneOpts([o EXCEPT !.poll_per = a.arg])
    BY <1>0, <1>4 DEF SaneOpts
  <2> QED BY <1>2, <2>1
<1>5. ASSUME a.opt = "t", a.arg > 0
      PROVE  Sane(Set(p, [o EXCEPT !.poll_time = a.arg, !.time_selected = TRUE]))
  <2> HIDE DEF o
  <2>1. SaneOpts([o EXCEPT !.poll_time = a.arg, !.time_selected = TRUE])
    BY <1>0, <1>5 DEF SaneOpts
  <2> QED BY <1>2, <2>1
<1>6. CASE p.status # "PARSE_SUCCESS"
  BY <1>6 DEF ParseOption
<1>7. CASE p.status = "PARSE_SUCCESS"
  BY <1>1, <1>3, <1>4, <1>5, <1>7, Zenon DEF ParseOption
<1>8. QED
  BY <1>6, <1>7

\* getopt's loop ends with such options ...
LEMMA ParsedSane ==
    ASSUME NEW argv, Argv(argv)
    PROVE  Sane(FoldLeft(ParseOption,
                         [status |-> "PARSE_SUCCESS", opts |-> dtop_load_default_options], argv))
<1> DEFINE b == [status |-> "PARSE_SUCCESS", opts |-> dtop_load_default_options]
           n == Len(argv)
<1>1. Sane(b)
  <2> DEFINE d == dtop_load_default_options
  <2>1. /\ {"print_csv", "poll_per", "poll_time", "time_selected"} \subseteq DOMAIN d
        /\ d.print_csv = FALSE /\ d.time_selected = FALSE /\ d.poll_per = 0 /\ d.poll_time = 0
    BY DEF dtop_load_default_options
  <2> HIDE DEF d
  <2>2. SaneOpts(d)
    <3>1. 0 \in Nat
      OBVIOUS
    <3> QED BY <2>1, <3>1, Zenon DEF SaneOpts
  <2>3. {"status", "opts"} \subseteq DOMAIN b /\ b.opts = d
    BY DEF d
  <2> QED BY <2>2, <2>3, Zenon DEF Sane
<1>2. n \in Nat /\ DOMAIN argv = 1 .. n
  BY DEF Argv
<1>3. \A p : \A k \in 1 .. n : Sane(p) => Sane(ParseOption(p, argv[k]))
  BY <1>2, ParseOptionSane DEF Argv
<1>4. Parsing!FoldLeft(ParseOption, b, argv) = FoldLeft(ParseOption, b, argv)
  BY DEF Parsing!FoldLeft, Parsing!MapThenFoldSet, Parsing!Max, FoldLeft, MapThenFoldSet, Max
<1> HIDE DEF b, n
<1>5. Sane(Parsing!FoldLeft(ParseOption, b, argv))
  BY <1>1, <1>2, <1>3, Parsing!FoldKeeps
<1> QED BY <1>4, <1>5 DEF b

\* ... and a command line that is accepted gives a length, or none for a CSV
\* file, and a period.
LEMMA ParseLemma ==
    ASSUME NEW argv, Argv(argv), NEW o, o = dtop_parse_cli_opts(argv).opts
    PROVE  /\ o.poll_time = POLL_NOT_SPECIFIED => o.print_csv /\ ~o.time_selected
           /\ o.poll_per \in Nat /\ o.poll_time \in Int
           /\ dtop_parse_cli_opts(argv).status = "PARSE_SUCCESS" =>
                /\ o.poll_time = POLL_NOT_SPECIFIED \/ o.poll_time > 0
                /\ o.poll_per >= MinPeriod
<1> DEFINE p == FoldLeft(ParseOption,
                         [status |-> "PARSE_SUCCESS", opts |-> dtop_load_default_options], argv)
<1>1. Sane(p)
  BY ParsedSane
<1>2. dtop_parse_cli_opts(argv) = IF p.status = "PARSE_SUCCESS"
                                  THEN Set(p, Completed(p.opts)) ELSE p
  BY DEF dtop_parse_cli_opts
<1> HIDE DEF p
<1>3. {"status", "opts"} \subseteq DOMAIN p /\ SaneOpts(p.opts)
  BY <1>1 DEF Sane
<1>4. CASE p.status = "PARSE_SUCCESS"
  <2>1. o = Completed(p.opts)
    BY <1>2, <1>3, <1>4 DEF Set
  <2> DEFINE q == p.opts
  <2>2. SaneOpts(q) /\ o = Completed(q)
    BY <1>3, <2>1
  <2> HIDE DEF q
  <2>3. /\ o.print_csv = q.print_csv /\ o.time_selected = q.time_selected
        /\ o.poll_time = IF q.poll_time # 0 THEN q.poll_time
                         ELSE IF q.print_csv THEN POLL_NOT_SPECIFIED ELSE DefaultTime
        /\ o.poll_per = IF q.poll_per # 0 THEN q.poll_per ELSE DefaultPeriod
    BY <2>2 DEF Completed, SaneOpts
  <2> QED BY <2>2, <2>3, DatatopAssumption DEF POLL_NOT_SPECIFIED, SaneOpts
<1>5. CASE p.status # "PARSE_SUCCESS"
  <2>1. o = p.opts /\ dtop_parse_cli_opts(argv).status # "PARSE_SUCCESS"
    BY <1>2, <1>5
  <2> QED BY <1>3, <2>1, DatatopAssumption DEF POLL_NOT_SPECIFIED, SaneOpts
<1> QED BY <1>4, <1>5

-----------------------------------------------------------------------------
\* main() runs with the options that were parsed.
OptsInv ==
    /\ setup \in Setups /\ back \in Backs
    /\ pc = "parse" => opts = dtop_load_default_options /\ back = "none" /\ spent = 0
    /\ Endless => opts.print_csv /\ ~opts.time_selected
    /\ opts.poll_per \in Nat /\ opts.poll_time \in Int
    /\ pc \notin {"parse", "exit"} =>
          (Endless \/ opts.poll_time > 0) /\ opts.poll_per >= MinPeriod
    /\ pc = "sleep" \/ back = "sleep" => ~opts.print_csv

\* The time that a poll has taken is taken off once, by the wait that follows,
\* and as long as nothing was slow there is enough to take it off.
SpentInv ==
    /\ spent \in Nat /\ slow \in BOOLEAN
    /\ ~slow /\ (pc = "scan" \/ (pc = "poll" /\ back = "write")) => spent = 0
    /\ ~slow /\ pc \in {"write", "loop", "select"} => spent <= opts.poll_per

\* A line that was typed stays until it is read.
TermInv ==
    /\ term \in Seq(Typable)
    /\ pc = "scan" => stdio # <<>> \/ term # <<>> \/ eof \/ slow

UserInv == OptsInv /\ SpentInv /\ TermInv

\* Steps of main() after the command line was parsed leave the options alone,
\* and only a run without a CSV file sleeps.
Onward ==
    /\ UNCHANGED <<setup, opts>> /\ pc # "parse" /\ pc' # "parse"
    /\ pc = "exit" => pc' = "exit"
    /\ back' \in Backs
    /\ pc' = "sleep" \/ back' = "sleep" => pc = "sleep" \/ back = "sleep" \/ ~opts.print_csv

LEMMA MainOnward ==
    ASSUME Main, ~ParseArgs, ~Leave, back \in Backs
    PROVE  Onward
<1> USE DEF Onward, Backs
<1>1. CASE CountLines \/ SearchFile \/ InitDone
  BY <1>1 DEF CountLines, SearchFile, InitDone, Walk
<1>2. CASE PollGroup \/ PollCrash \/ PollDone \/ dtop_print_terminal
  BY <1>2 DEF PollGroup, PollCrash, PollDone, dtop_print_terminal
<1>3. CASE OpenCsv \/ WriteHeader \/ LoopTest
  BY <1>3 DEF OpenCsv, WriteHeader, LoopTest, Exit
<1>4. CASE SelectInput \/ SelectTimeout \/ Quit \/ QuitCrash \/ Command
  BY <1>4 DEF SelectInput, SelectTimeout, Quit, QuitCrash, Command, Walk
<1>5. CASE WriteRow \/ ShowTotal \/ CloseCsv
  BY <1>5 DEF WriteRow, ShowTotal, CloseCsv
<1>6. CASE Fork \/ Child \/ WaitPid
  BY <1>6 DEF Fork, Child, WaitPid, dtop_print_system_snapshot
<1>7. CASE AfterSnapshot \/ Sleep
  BY <1>7 DEF AfterSnapshot, Sleep, Walk
<1>8. CASE deconstruct_dpgs
  BY <1>8 DEF deconstruct_dpgs, Exit
<1> QED BY <1>1, <1>2, <1>3, <1>4, <1>5, <1>6, <1>7, <1>8 DEF Main

\* The options a run starts with.
LEMMA InitOpts == Init => OptsInv
<1> SUFFICES ASSUME Init PROVE OptsInv
  OBVIOUS
<1>1. /\ setup \in Setups /\ back = "none" /\ pc = "parse" /\ spent = 0
      /\ opts = dtop_load_default_options
  BY DEF Init
<1>2. opts.poll_time = 0 /\ opts.poll_per = 0
  BY <1>1 DEF dtop_load_default_options
<1> QED BY <1>1, <1>2 DEF OptsInv, Endless, Backs, POLL_NOT_SPECIFIED

\* Every step keeps what is known of the options.
LEMMA OptsKept ==
    ASSUME OptsInv, [Next]_vars
    PROVE  OptsInv'
<1>1. CASE ParseArgs
  <2>1. Argv(setup.argv)
    BY DatatopAssumption DEF OptsInv
  <2>2. /\ opts' = dtop_parse_cli_opts(setup.argv).opts /\ UNCHANGED <<setup, back, spent>>
        /\ pc = "parse" /\ pc' \in {"init", "exit"}
        /\ pc' = "init" => dtop_parse_cli_opts(setup.argv).status = "PARSE_SUCCESS"
    BY <1>1 DEF ParseArgs, Exit, timeVars
  <2> QED BY <2>1, <2>2, ParseLemma DEF OptsInv, Endless
<1>2. CASE Main /\ ~ParseArgs /\ ~Leave
  <2>1. Onward
    BY <1>2, MainOnward DEF OptsInv
  <2> QED BY <2>1 DEF Onward, OptsInv, Endless
<1>3. CASE Type \/ CloseStdin
  BY <1>3 DEF Type, CloseStdin, mainVars, OptsInv, Endless
<1>4. CASE Leave \/ IpThread \/ Bump \/ LineMoves \/ FileMoves \/ UNCHANGED vars
  <2>1. UNCHANGED mainVars /\ UNCHANGED timeVars
    BY <1>4 DEF Leave, IpThread, Bump, LineMoves, FileMoves, vars
  <2> QED BY <2>1 DEF mainVars, timeVars, OptsInv, Endless
<1> QED BY <1>1, <1>2, <1>3, <1>4 DEF Next

LEMMA MinLemma == \A a, b \in Int : a <= b => Min({a, b}) = a
<1> SUFFICES ASSUME NEW a \in Int, NEW b \in Int, a <= b PROVE Min({a, b}) = a
  OBVIOUS
<1>1. \A x \in {a, b} : (\A y \in {a, b} : x =< y) <=> x = a
  OBVIOUS
<1> QED BY <1>1, Zenon DEF Min

LEMMA LongerLemma ==
    ASSUME OptsInv, SpentInv, NEW d \in Nat
    PROVE  /\ Longer(d) \in Nat
           /\ spent = 0 /\ d <= opts.poll_per => Longer(d) = d
<1>1. spent + d \in Int /\ opts.poll_per + 1 \in Int /\ spent \in Nat /\ opts.poll_per \in Nat
  BY DEF OptsInv, SpentInv
<1>2. Longer(d) \in {spent + d, opts.poll_per + 1}
  <2>1. CASE spent + d <= opts.poll_per + 1
    BY <1>1, <2>1, MinLemma DEF Longer
  <2>2. CASE opts.poll_per + 1 <= spent + d
    <3>1. {spent + d, opts.poll_per + 1} = {opts.poll_per + 1, spent + d}
      OBVIOUS
    <3> QED BY <1>1, <2>2, <3>1, MinLemma DEF Longer
  <2> QED BY <1>1, <2>1, <2>2
<1>3. ASSUME spent = 0, d <= opts.poll_per PROVE Longer(d) = d
  BY <1>1, <1>3, MinLemma DEF Longer
<1> QED BY <1>1, <1>2, <1>3

\* The steps of main() that leave the time spent as it is.
Untimed ==
    /\ UNCHANGED <<spent, slow>>
    /\ pc' \in {"scan", "write", "loop", "select"} =>
          pc \in {"write", "loop", "select"} \/ (pc = "scan" /\ pc' = "scan")
    /\ pc' # "scan" \/ pc = "scan"
    /\ pc' = "poll" /\ back' = "write" => pc = "scan" \/ (pc = "poll" /\ back = "write")

LEMMA SpentKept ==
    ASSUME OptsInv, SpentInv, TermInv, [Next]_vars
    PROVE  SpentInv'
<1>1. CASE Untimed /\ UNCHANGED opts
  BY <1>1 DEF Untimed, SpentInv
<1>2. CASE ParseArgs
  BY <1>2 DEF ParseArgs, Exit, timeVars, SpentInv
<1>3. CASE CountLines \/ SearchFile \/ InitDone \/ PollGroup \/ PollCrash
  <2>1. Untimed /\ UNCHANGED opts
    BY <1>3 DEF CountLines, SearchFile, InitDone, PollGroup, PollCrash, timeVars, Walk, Untimed
  <2> QED BY <1>1, <2>1
<1>4. CASE PollDone
  <2>1. PICK d \in WorkTimes : /\ spent' = Longer(d)
                               /\ slow' = (slow \/ (back = "write" /\ d > opts.poll_per))
    BY <1>4 DEF PollDone
  <2>2. pc = "poll" /\ pc' = back /\ UNCHANGED <<opts, back>>
        /\ opts.poll_per \in Nat /\ d \in Nat
    BY <1>4, DatatopAssumption DEF PollDone, OptsInv
  <2>3. spent' \in Nat /\ (spent = 0 /\ d <= opts.poll_per => spent' <= opts.poll_per)
    BY <2>1, <2>2, LongerLemma
  <2>4. slow' \in BOOLEAN
    BY <2>1 DEF SpentInv
  <2>5. ASSUME ~slow', back = "write" PROVE spent' <= opts'.poll_per
    <3>1. ~slow /\ ~(d > opts.poll_per)
      BY <2>1, <2>5, Zenon
    <3>2. spent = 0
      BY <2>2, <2>5, <3>1 DEF SpentInv
    <3> QED BY <2>2, <2>3, <3>1, <3>2
  <2>6. pc' \in {"scan", "poll", "loop", "select", "write"} => pc' = "write" /\ back = "write"
    BY <2>2 DEF OptsInv, Backs
  <2> QED BY <2>2, <2>3, <2>4, <2>5, <2>6 DEF SpentInv
<1>5. CASE dtop_print_terminal \/ OpenCsv \/ LoopTest
  <2>1. Untimed /\ UNCHANGED opts
    BY <1>5 DEF dtop_print_terminal, OpenCsv, LoopTest, Exit, timeVars, Untimed
  <2> QED BY <1>1, <2>1
<1>6. CASE WriteHeader \/ SelectInput \/ SelectTimeout
  <2>1. spent' = 0 /\ UNCHANGED <<opts, slow>> /\ opts.poll_per \in Nat
    BY <1>6 DEF WriteHeader, SelectInput, SelectTimeout, OptsInv
  <2> QED BY <2>1 DEF SpentInv
<1>7. CASE Quit \/ QuitCrash \/ Command \/ WriteRow \/ ShowTotal \/ CloseCsv
  <2>1. Untimed /\ UNCHANGED opts
    BY <1>7 DEF Quit, QuitCrash, Command, WriteRow, ShowTotal, CloseCsv, timeVars, Walk, Untimed
  <2> QED BY <1>1, <2>1
<1>8. CASE Fork \/ Child \/ WaitPid \/ AfterSnapshot \/ Sleep \/ deconstruct_dpgs
  <2>1. Untimed /\ UNCHANGED opts
    BY <1>8 DEF Fork, Child, WaitPid, AfterSnapshot, Sleep, deconstruct_dpgs, Exit, timeVars, Walk,
       dtop_print_system_snapshot, Untimed
  <2> QED BY <1>1, <2>1
<1>9. CASE Type
  <2>1. UNCHANGED mainVars
    BY <1>9 DEF Type
  <2>2. CASE AwaitsWord
    <3>1. PICK d \in {0, opts.poll_per + 1} : spent' = Longer(d) /\ slow' = (slow \/ d > 0)
      BY <1>9, <2>2 DEF Type
    <3>2. opts.poll_per \in Nat /\ d \in Nat /\ pc = "scan"
      BY <2>2 DEF OptsInv, AwaitsWord
    <3>3. spent' \in Nat /\ (spent = 0 /\ d = 0 => spent' = 0)
      BY <3>1, <3>2, LongerLemma
    <3>4. ASSUME ~slow' PROVE ~slow /\ d = 0 /\ spent = 0
      <4>1. ~slow /\ ~(d > 0)
        BY <3>1, <3>4, Zenon
      <4> QED BY <3>2, <4>1 DEF SpentInv
    <3>5. slow' \in BOOLEAN
      BY <3>1 DEF SpentInv
    <3> QED BY <2>1, <3>2, <3>3, <3>4, <3>5 DEF SpentInv, mainVars
  <2>3. CASE ~AwaitsWord
    BY <1>9, <2>1, <2>3 DEF Type, mainVars, SpentInv
  <2> QED BY <2>2, <2>3
<1>10. CASE Leave \/ IpThread \/ Bump \/ LineMoves \/ FileMoves \/ CloseStdin \/ UNCHANGED vars
  <2>1. UNCHANGED mainVars /\ UNCHANGED timeVars
    BY <1>10 DEF Leave, IpThread, Bump, LineMoves, FileMoves, CloseStdin, vars
  <2> QED BY <2>1 DEF mainVars, timeVars, SpentInv
<1> QED BY <1>2, <1>3, <1>4, <1>5, <1>6, <1>7, <1>8, <1>9, <1>10 DEF Next, Main

LEMMA TermKept ==
    ASSUME OptsInv, SpentInv, TermInv, [Next]_vars
    PROVE  TermInv'
<1> DEFINE Unread == /\ UNCHANGED <<term, stdio, eof>> /\ (slow => slow')
                     /\ pc' # "scan" \/ pc = "scan"
<1>1. CASE Unread
  BY <1>1 DEF TermInv
<1>2. CASE SelectInput
  <2>1. CASE Timeout < 0
    <3>1. slow /\ UNCHANGED <<slow, term>>
      BY <1>2, <2>1 DEF SelectInput, ttyVars, Timeout, OptsInv, SpentInv
    <3> QED BY <3>1 DEF TermInv
  <2>2. CASE ~(Timeout < 0)
    <3>1. UNCHANGED <<term, stdio, eof>> /\ (term # <<>> \/ eof)
      BY <1>2, <2>2 DEF SelectInput, ttyVars
    <3> QED BY <3>1 DEF TermInv
  <2> QED BY <2>1, <2>2
<1>3. CASE Quit \/ QuitCrash \/ Command
  <2>1. pc' # "scan" /\ \E w : Scanned(w)
    BY <1>3 DEF Quit, QuitCrash, Command, Walk
  <2>2. \/ term' \in {term, <<>>}
        \/ \E i \in DOMAIN term : term' = SubSeq(term, i + 1, Len(term))
    BY <2>1 DEF Scanned
  <2>3. term' \in Seq(Typable)
    <3>1. CASE term' \in {term, <<>>}
      <4>1. <<>> \in Seq(Typable)
        OBVIOUS
      <4> QED BY <3>1, <4>1, Zenon DEF TermInv
    <3>2. ASSUME NEW i \in DOMAIN term, term' = SubSeq(term, i + 1, Len(term))
          PROVE  term' \in Seq(Typable)
      <4>1. term \in Seq(Typable) /\ i \in 1 .. Len(term) /\ Len(term) \in Nat
        BY DEF TermInv
      <4>2. \A j \in i + 1 .. Len(term) : term[j] \in Typable
        BY <4>1
      <4> QED BY <3>2, <4>1, <4>2, SubSeqProperties
    <3> QED BY <2>2, <3>1, <3>2
  <2> QED BY <2>1, <2>3 DEF TermInv
<1>4. CASE Type
  <2>1. PICK l \in Typable : term' = Append(term, l)
    BY <1>4 DEF Type
  <2>2. UNCHANGED eof
    BY <1>4 DEF Type
  <2>3. term' \in Seq(Typable) /\ term' # <<>>
    BY <2>1 DEF TermInv
  <2> QED BY <2>3 DEF TermInv
<1>5. CASE CloseStdin
  BY <1>5 DEF CloseStdin, mainVars, TermInv
<1>6. CASE ParseArgs \/ CountLines \/ SearchFile \/ InitDone \/ PollGroup \/ PollCrash
  <2>1. Unread
    BY <1>6 DEF timeVars, ParseArgs, CountLines, SearchFile, InitDone, PollGroup, PollCrash, ttyVars, Walk,
       Exit
  <2> QED BY <1>1, <2>1
<1>7. CASE PollDone
  <2>1. /\ UNCHANGED <<term, stdio, eof>> /\ pc' = back
        /\ \E b : slow' = (slow \/ b)
    BY <1>7 DEF PollDone
  <2>2. slow => slow'
    BY <2>1, Zenon
  <2>3. Unread
    BY <2>1, <2>2 DEF OptsInv, Backs
  <2> QED BY <1>1, <2>3
<1>10. CASE dtop_print_terminal \/ OpenCsv \/ WriteHeader \/ LoopTest \/ SelectTimeout
  <2>1. Unread
    BY <1>10 DEF timeVars, dtop_print_terminal, OpenCsv, WriteHeader, LoopTest, SelectTimeout,
       ttyVars, Walk, Exit, OptsInv, Backs
  <2> QED BY <1>1, <2>1
<1>8. CASE \/ WriteRow \/ ShowTotal \/ CloseCsv \/ Fork \/ Child \/ WaitPid \/ AfterSnapshot
           \/ Sleep \/ deconstruct_dpgs
  <2>1. Unread
    BY <1>8 DEF timeVars, WriteRow, ShowTotal, CloseCsv, Fork, Child, WaitPid, AfterSnapshot, Sleep,
       deconstruct_dpgs, ttyVars, Walk, Exit, dtop_print_system_snapshot
  <2> QED BY <1>1, <2>1
<1>9. CASE Leave \/ IpThread \/ Bump \/ LineMoves \/ FileMoves \/ UNCHANGED vars
  <2>1. UNCHANGED mainVars /\ UNCHANGED ttyVars /\ UNCHANGED timeVars
    BY <1>9 DEF Leave, IpThread, Bump, LineMoves, FileMoves, vars
  <2>2. Unread
    BY <2>1 DEF mainVars, ttyVars, timeVars
  <2> QED BY <1>1, <2>2
<1> QED BY <1>2, <1>3, <1>4, <1>5, <1>6, <1>7, <1>8, <1>9, <1>10 DEF Next, Main

\* Polling waits for the user only behind an empty line or after the time since
\* the last select was longer than the period, and a run only sleeps for a length
\* of time: for every command line, and polls and users of every speed.
THEOREM WaitsExplained == Spec => []NoNeedlessWait
<1>1. Init => UserInv
  <2> SUFFICES ASSUME Init PROVE UserInv
    OBVIOUS
  <2>1. pc = "parse" /\ back = "none" /\ spent = 0 /\ slow = FALSE /\ term = <<>>
    BY DEF Init
  <2>2. SpentInv
    BY <2>1, Zenon, 0 \in Nat, FALSE \in BOOLEAN DEF SpentInv
  <2>3. TermInv
    BY <2>1 DEF TermInv
  <2> QED BY <2>2, <2>3, InitOpts DEF UserInv
<1>2. UserInv /\ [Next]_vars => UserInv'
  BY OptsKept, SpentKept, TermKept DEF UserInv
<1>3. UserInv => NoNeedlessWait
  BY DEF UserInv, OptsInv, TermInv, NoNeedlessWait, AwaitsWord, HasWord
<1> QED BY <1>1, <1>2, <1>3, PTL DEF Spec

-----------------------------------------------------------------------------
(***************************************************************************)
(* FlattenSeq puts sequences one behind the other.                         *)
(***************************************************************************)

\* f[k] is what the first k sequences are together.
JoinStep(f, ss, k) == IF k = 1 THEN ss[k] ELSE f[k - 1] \o ss[k]
Joined(f, ss, n) == f = [k \in 1 .. n |-> JoinStep(f, ss, k)]

\* There is such a sequence, whatever is joined: the recursive function of
\* FlattenSeq is one.
LEMMA JoinedExists == ASSUME NEW ss, NEW n \in Nat PROVE \E f : Joined(f, ss, n)
<1> DEFINE T == {m \in Nat : \E f : Joined(f, ss, m)}
<1>1. 0 \in T
  <2> DEFINE f == [k \in 1 .. 0 |-> 0]
  <2>1. Joined(f, ss, 0)
    <3>1. 1 .. 0 = {}
      OBVIOUS
    <3> QED BY <3>1 DEF Joined
  <2> HIDE DEF f
  <2>2. \E h : Joined(h, ss, 0)
    BY <2>1
  <2> QED BY <2>2
<1>2. ASSUME NEW m \in Nat, m \in T PROVE m + 1 \in T
  <2>1. PICK f : Joined(f, ss, m)
    BY <1>2
  <2> DEFINE g == [k \in 1 .. m + 1 |-> IF k <= m THEN f[k] ELSE JoinStep(f, ss, k)]
  <2>2. ASSUME NEW k \in 1 .. m + 1
        PROVE  g[k] = JoinStep(g, ss, k)
    <3>1. k # 1 => k - 1 \in 1 .. m + 1 /\ k - 1 <= m
      OBVIOUS
    <3>2. k # 1 => g[k - 1] = f[k - 1]
      BY <3>1
    <3>3. JoinStep(g, ss, k) = JoinStep(f, ss, k)
      BY <3>2 DEF JoinStep
    <3>4. k <= m => f[k] = JoinStep(f, ss, k)
      BY <2>1 DEF Joined
    <3>5. g[k] = IF k <= m THEN f[k] ELSE JoinStep(f, ss, k)
      OBVIOUS
    <3> HIDE DEF g
    <3> QED BY <3>3, <3>4, <3>5
  <2>3. g = [k \in 1 .. m + 1 |-> g[k]]
    OBVIOUS
  <2> HIDE DEF g
  <2>4. Joined(g, ss, m + 1)
    BY <2>2, <2>3 DEF Joined
  <2> QED BY <2>4
<1>3. Nat \subseteq T
  <2> HIDE DEF T
  <2> QED BY <1>1, <1>2, Parsing!NatSet
<1> QED BY <1>3

\* FlattenSeq is its last element.
LEMMA FlattenJoined ==
    ASSUME NEW ss, NEW n \in Nat, n # 0, Len(ss) = n
    PROVE  \E f : Joined(f, ss, n) /\ FlattenSeq(ss) = f[n]
<1> DEFINE f == CHOOSE f : f = [k \in 1 .. n |-> IF k = 1 THEN ss[k] ELSE f[k - 1] \o ss[k]]
<1>1. \E g : g = [k \in 1 .. n |-> IF k = 1 THEN ss[k] ELSE g[k - 1] \o ss[k]]
  BY JoinedExists, Zenon DEF Joined, JoinStep
<1>2. f = [k \in 1 .. n |-> IF k = 1 THEN ss[k] ELSE f[k - 1] \o ss[k]]
  BY <1>1, Zenon
<1>3. FlattenSeq(ss) = f[n]
  BY Zenon DEF FlattenSeq
<1> HIDE DEF f
<1>4. Joined(f, ss, n)
  BY <1>2, Zenon DEF Joined, JoinStep
<1> QED BY <1>3, <1>4

\* Two sequences of equally long sequences, joined, agree place by place on
\* where they come from.
Paired(f, g, ss, tt, n) ==
    /\ Len(f) = Len(g)
    /\ \A j \in 1 .. Len(f) : \E p \in 1 .. n : \E c \in 1 .. Len(ss[p]) :
          f[j] = ss[p][c] /\ g[j] = tt[p][c]

LEMMA PairedStep ==
    ASSUME NEW S, NEW R, NEW n \in Nat,
           NEW ss \in Seq(Seq(S)), NEW tt \in Seq(Seq(R)), n < Len(ss), Len(tt) = Len(ss),
           Len(ss[n + 1]) = Len(tt[n + 1]),
           NEW f \in Seq(S), NEW g \in Seq(R), Paired(f, g, ss, tt, n)
    PROVE  Paired(f \o ss[n + 1], g \o tt[n + 1], ss, tt, n + 1)
<1> DEFINE s == ss[n + 1]  t == tt[n + 1]
<1>1. s \in Seq(S) /\ t \in Seq(R) /\ n + 1 \in 1 .. n + 1 /\ Len(s) = Len(t)
  OBVIOUS
<1> HIDE DEF s, t
<1> DEFINE u == f \o s  v == g \o t
<1>2. /\ Len(u) = Len(f) + Len(s)
      /\ \A j \in 1 .. Len(f) + Len(s) : u[j] = IF j <= Len(f) THEN f[j] ELSE s[j - Len(f)]
  BY <1>1, ConcatProperties
<1>3. /\ Len(v) = Len(g) + Len(t)
      /\ \A j \in 1 .. Len(g) + Len(t) : v[j] = IF j <= Len(g) THEN g[j] ELSE t[j - Len(g)]
  BY <1>1, ConcatProperties
<1> HIDE DEF u, v
<1>4. Len(f) = Len(g) /\ Len(f) \in Nat /\ Len(s) \in Nat /\ Len(u) = Len(v)
  BY <1>1, <1>2, <1>3 DEF Paired
<1>5. ASSUME NEW j \in 1 .. Len(u)
      PROVE  \E p \in 1 .. n + 1 : \E c \in 1 .. Len(ss[p]) : u[j] = ss[p][c] /\ v[j] = tt[p][c]
  <2>1. CASE j <= Len(f)
    <3>1. u[j] = f[j] /\ v[j] = g[j] /\ j \in 1 .. Len(f)
      BY <1>1, <1>2, <1>3, <1>4, <2>1
    <3>2. PICK p \in 1 .. n : \E c \in 1 .. Len(ss[p]) : f[j] = ss[p][c] /\ g[j] = tt[p][c]
      BY <3>1 DEF Paired
    <3> QED BY <3>1, <3>2
  <2>2. CASE ~(j <= Len(f))
    <3>1. u[j] = s[j - Len(f)] /\ v[j] = t[j - Len(f)] /\ j - Len(f) \in 1 .. Len(s)
      BY <1>1, <1>2, <1>3, <1>4, <2>2
    <3> QED BY <1>1, <3>1 DEF s, t
  <2> QED BY <2>1, <2>2
<1>6. Paired(u, v, ss, tt, n + 1)
  BY <1>4, <1>5 DEF Paired
<1> QED BY <1>6 DEF s, t, u, v

\* So do the flattened sequences.
LEMMA FlatPairs ==
    ASSUME NEW S, NEW R, NEW ss \in Seq(Seq(S)), NEW tt \in Seq(Seq(R)), Len(tt) = Len(ss),
           \A p \in 1 .. Len(ss) : Len(ss[p]) = Len(tt[p])
    PROVE  /\ FlattenSeq(ss) \in Seq(S) /\ FlattenSeq(tt) \in Seq(R)
           /\ Paired(FlattenSeq(ss), FlattenSeq(tt), ss, tt, Len(ss))
<1> DEFINE n == Len(ss)
<1>1. CASE n = 0
  <2>1. FlattenSeq(ss) = ss /\ FlattenSeq(tt) = tt /\ ss = <<>> /\ tt = <<>>
    BY <1>1 DEF FlattenSeq
  <2> QED BY <2>1 DEF Paired
<1>2. CASE n # 0
  <2>1. PICK f : Joined(f, ss, n) /\ FlattenSeq(ss) = f[n]
    BY <1>2, FlattenJoined
  <2>2. PICK g : Joined(g, tt, n) /\ FlattenSeq(tt) = g[n]
    <3>1. Len(tt) = n /\ n \in Nat
      OBVIOUS
    <3> HIDE DEF n
    <3> QED BY <1>2, <3>1, FlattenJoined
  <2> DEFINE T == {k \in Nat : k < n => /\ f[k + 1] \in Seq(S) /\ g[k + 1] \in Seq(R)
                                        /\ Paired(f[k + 1], g[k + 1], ss, tt, k + 1)}
  <2>3. 0 \in T
    <3>1. f[1] = ss[1] /\ g[1] = tt[1]
      BY <1>2, <2>1, <2>2 DEF Joined, JoinStep
    <3>2. ss[1] \in Seq(S) /\ tt[1] \in Seq(R) /\ Len(ss[1]) = Len(tt[1]) /\ 1 \in 1 .. 1
      BY <1>2
    <3>3. Paired(ss[1], tt[1], ss, tt, 1)
      BY <3>2 DEF Paired
    <3> QED BY <1>2, <3>1, <3>2, <3>3
  <2>4. ASSUME NEW k \in Nat, k \in T PROVE k + 1 \in T
    <3>1. CASE k + 1 < n
      <4>1. f[k + 1 + 1] = f[k + 1] \o ss[k + 1 + 1] /\ g[k + 1 + 1] = g[k + 1] \o tt[k + 1 + 1]
        <5>1. k + 1 + 1 \in 1 .. n /\ k + 1 + 1 # 1 /\ (k + 1 + 1) - 1 = k + 1
          BY <3>1
        <5>2. f[k + 1 + 1] = JoinStep(f, ss, k + 1 + 1) /\ g[k + 1 + 1] = JoinStep(g, tt, k + 1 + 1)
          BY <2>1, <2>2, <5>1, Zenon DEF Joined
        <5> QED BY <5>1, <5>2 DEF JoinStep
      <4>2. f[k + 1] \in Seq(S) /\ g[k + 1] \in Seq(R) /\ Paired(f[k + 1], g[k + 1], ss, tt, k + 1)
        BY <2>4, <3>1
      <4>3. ss[k + 1 + 1] \in Seq(S) /\ tt[k + 1 + 1] \in Seq(R)
            /\ Len(ss[k + 1 + 1]) = Len(tt[k + 1 + 1])
        BY <3>1
      <4>4. Paired(f[k + 1] \o ss[k + 1 + 1], g[k + 1] \o tt[k + 1 + 1], ss, tt, k + 1 + 1)
        <5> DEFINE m == k + 1
        <5>1. m \in Nat /\ m < Len(ss)
          BY <3>1
        <5> HIDE DEF m
        <5> QED BY <4>2, <4>3, <5>1, PairedStep DEF m
      <4>5. f[k + 1 + 1] \in Seq(S) /\ g[k + 1 + 1] \in Seq(R)
        BY <4>1, <4>2, <4>3, ConcatProperties
      <4>6. k + 1 \in Nat
        OBVIOUS
      <4> QED BY <4>1, <4>4, <4>5, <4>6, Zenon
    <3> QED BY <3>1
  <2>5. Nat \subseteq T
    <3> HIDE DEF T
    <3> QED BY <2>3, <2>4, Parsing!NatSet
  <2>6. n - 1 \in T
    BY <1>2, <2>5
  <2> QED BY <1>2, <2>1, <2>2, <2>6
<1> QED BY <1>1, <1>2

-----------------------------------------------------------------------------
(***************************************************************************)
(* The heap is given back.                                                 *)
(***************************************************************************)
Freeing == INSTANCE FoldFacts WITH Op <- Free, Good <- Sane
FreeingAll == INSTANCE FoldFacts WITH Op <- FreeGroup, Good <- Sane

\* The blocks of a kind, all there and none freed wrongly; and all gone.
Full(kind) == [live |-> Blocks(kind), ok |-> TRUE]
Gone == [live |-> {}, ok |-> TRUE]

\* The blocks of q from k on.
From(q, k) == {q[j] : j \in k .. Len(q)}

\* Each block is freed once, and before the blocks it is reached through.
Ordered(q) ==
    \A k \in 1 .. Len(q) : q[k] \notin From(q, k + 1) /\ Owners[q[k]] \subseteq From(q, k + 1)

Tidy(kind) ==
    LET q == Deconstructor(kind)
    IN  DOMAIN q = 1 .. Len(q) /\ Len(q) \in Nat /\ Ordered(q) /\ Blocks(kind) = From(q, 1)

\* A deconstructor is in order if it names the blocks of its kind, each in turn.
LEMMA OrderOf ==
    ASSUME NEW kind, NEW q, q = Deconstructor(kind), DOMAIN q = 1 .. Len(q), Len(q) \in Nat, Ordered(q),
           \A b \in Blocks(kind) : \E j \in 1 .. Len(q) : q[j] = b,
           \A j \in 1 .. Len(q) : q[j] \in Blocks(kind)
    PROVE  Tidy(kind)
BY DEF Tidy, From

\* Every deconstructor is.
LEMMA Orders == \A kind \in Kinds : Tidy(kind)
<1>1. Tidy("dual")
  <2> DEFINE q == Deconstructor("dual")
  <2>1. q = <<"data_points", "lines", "lines2", "line", "line2", "priv", "dpg">>
    BY Zenon DEF Deconstructor, dtop_dual_line_dpg_deconstructor
  <2>2. Blocks("dual") = construct_dual_line_file_dpg
    BY Zenon DEF Blocks
  <2> HIDE DEF q
  <2>3. DOMAIN q = 1 .. 7 /\ Len(q) = 7
    BY <2>1
  <2>4. Ordered(q)
    BY <2>1 DEF Ordered, From, Owners
  <2>5. \A b \in Blocks("dual") : \E j \in 1 .. 7 : q[j] = b
    BY <2>1, <2>2 DEF construct_dual_line_file_dpg, LineFileBlocks
  <2>6. \A j \in 1 .. 7 : q[j] \in Blocks("dual")
    BY <2>1, <2>2 DEF construct_dual_line_file_dpg, LineFileBlocks
  <2> QED BY <2>3, <2>4, <2>5, <2>6, OrderOf DEF q
<1>2. Tidy("single")
  <2> DEFINE q == Deconstructor("single")
  <2>1. q = <<"data_points", "lines", "line", "priv", "dpg">>
    BY Zenon DEF Deconstructor, dtop_single_line_dpg_deconstructor
  <2>2. Blocks("single") = construct_single_line_file_dpg
    BY Zenon DEF Blocks
  <2> HIDE DEF q
  <2>3. DOMAIN q = 1 .. 5 /\ Len(q) = 5
    BY <2>1
  <2>4. Ordered(q)
    BY <2>1 DEF Ordered, From, Owners
  <2>5. \A b \in Blocks("single") : \E j \in 1 .. 5 : q[j] = b
    BY <2>1, <2>2 DEF construct_single_line_file_dpg, LineFileBlocks
  <2>6. \A j \in 1 .. 5 : q[j] \in Blocks("single")
    BY <2>1, <2>2 DEF construct_single_line_file_dpg, LineFileBlocks
  <2> QED BY <2>3, <2>4, <2>5, <2>6, OrderOf DEF q
<1>3. Tidy("meminfo")
  <2> DEFINE q == Deconstructor("meminfo")
  <2>1. q = <<"data_points", "lines", "line", "priv", "dpg">>
    BY Zenon DEF Deconstructor, dtop_meminfo_dpg_deconstructor
  <2>2. Blocks("meminfo") = construct_meminfo_file_dpg
    BY Zenon DEF Blocks
  <2> HIDE DEF q
  <2>3. DOMAIN q = 1 .. 5 /\ Len(q) = 5
    BY <2>1
  <2>4. Ordered(q)
    BY <2>1 DEF Ordered, From, Owners
  <2>5. \A b \in Blocks("meminfo") : \E j \in 1 .. 5 : q[j] = b
    BY <2>1, <2>2 DEF construct_meminfo_file_dpg, LineFileBlocks
  <2>6. \A j \in 1 .. 5 : q[j] \in Blocks("meminfo")
    BY <2>1, <2>2 DEF construct_meminfo_file_dpg, LineFileBlocks
  <2> QED BY <2>3, <2>4, <2>5, <2>6, OrderOf DEF q
<1>4. Tidy("dev")
  <2> DEFINE q == Deconstructor("dev")
  <2>1. q = <<"prefixes", "data_points", "lines", "line", "priv", "dpg">>
    BY Zenon DEF Deconstructor, dtop_dev_dpg_deconstructor
  <2>2. Blocks("dev") = construct_dev_file_dpg
    BY Zenon DEF Blocks
  <2> HIDE DEF q
  <2>3. DOMAIN q = 1 .. 6 /\ Len(q) = 6
    BY <2>1
  <2>4. Ordered(q)
    BY <2>1 DEF Ordered, From, Owners
  <2>5. \A b \in Blocks("dev") : \E j \in 1 .. 6 : q[j] = b
    BY <2>1, <2>2 DEF construct_dev_file_dpg, LineFileBlocks
  <2>6. \A j \in 1 .. 6 : q[j] \in Blocks("dev")
    BY <2>1, <2>2 DEF construct_dev_file_dpg, LineFileBlocks
  <2> QED BY <2>3, <2>4, <2>5, <2>6, OrderOf DEF q
<1>5. Tidy("stat")
  <2> DEFINE q == Deconstructor("stat")
  <2>1. q = <<"names", "data_points", "lines", "line", "priv", "dpg">>
    BY Zenon DEF Deconstructor, dtop_stat_dpg_deconstructor
  <2>2. Blocks("stat") = construct_stat_file_dpg
    BY Zenon DEF Blocks
  <2> HIDE DEF q
  <2>3. DOMAIN q = 1 .. 6 /\ Len(q) = 6
    BY <2>1
  <2>4. Ordered(q)
    BY <2>1 DEF Ordered, From, Owners
  <2>5. \A b \in Blocks("stat") : \E j \in 1 .. 6 : q[j] = b
    BY <2>1, <2>2 DEF construct_stat_file_dpg, LineFileBlocks
  <2>6. \A j \in 1 .. 6 : q[j] \in Blocks("stat")
    BY <2>1, <2>2 DEF construct_stat_file_dpg, LineFileBlocks
  <2> QED BY <2>3, <2>4, <2>5, <2>6, OrderOf DEF q
<1>6. Tidy("gen")
  <2> DEFINE q == Deconstructor("gen")
  <2>1. q = <<"names", "data_points", "file", "prefix", "dpg">>
    BY Zenon DEF Deconstructor, dtop_gen_dpg_deconstructor
  <2>2. Blocks("gen") = GenBlocks
    BY Zenon DEF Blocks
  <2> HIDE DEF q
  <2>3. DOMAIN q = 1 .. 5 /\ Len(q) = 5
    BY <2>1
  <2>4. Ordered(q)
    BY <2>1 DEF Ordered, From, Owners
  <2>5. \A b \in Blocks("gen") : \E j \in 1 .. 5 : q[j] = b
    BY <2>1, <2>2 DEF GenBlocks
  <2>6. \A j \in 1 .. 5 : q[j] \in Blocks("gen")
    BY <2>1, <2>2 DEF GenBlocks
  <2> QED BY <2>3, <2>4, <2>5, <2>6, OrderOf DEF q
<1>7. Tidy("cpu")
  <2> DEFINE q == Deconstructor("cpu")
  <2>1. q = <<"names", "data_points", "file", "dpg">>
    BY Zenon DEF Deconstructor, dtop_value_only_dpg_deconstructor
  <2>2. Blocks("cpu") = CpuBlocks
    BY Zenon DEF Blocks
  <2> HIDE DEF q
  <2>3. DOMAIN q = 1 .. 4 /\ Len(q) = 4
    BY <2>1
  <2>4. Ordered(q)
    BY <2>1 DEF Ordered, From, Owners
  <2>5. \A b \in Blocks("cpu") : \E j \in 1 .. 4 : q[j] = b
    BY <2>1, <2>2 DEF CpuBlocks
  <2>6. \A j \in 1 .. 4 : q[j] \in Blocks("cpu")
    BY <2>1, <2>2 DEF CpuBlocks
  <2> QED BY <2>3, <2>4, <2>5, <2>6, OrderOf DEF q
<1> QED BY <1>1, <1>2, <1>3, <1>4, <1>5, <1>6, <1>7 DEF Kinds

\* free() of a block that is there, through blocks that are there.
LEMMA FreeOne ==
    ASSUME NEW x, NEW o, NEW b, {b} \cup Owners[b] \subseteq x
    PROVE  Free([live |-> x, ok |-> o], b) = [live |-> x \ {b}, ok |-> o]
<1> DEFINE m == [live |-> x, ok |-> o]
<1>1. Free(m, b) = [m EXCEPT !.live = @ \ {b}]
  BY DEF Free
<1>2. [m EXCEPT !.live = @ \ {b}] = [live |-> x \ {b}, ok |-> o]
  OBVIOUS
<1> QED BY <1>1, <1>2

\* So the deconstructor frees all of a group, and frees nothing twice.
LEMMA AllFreed == ASSUME NEW kind, Tidy(kind) PROVE Deconstruct(Full(kind), kind) = Gone
<1> DEFINE q == Deconstructor(kind)
           n == Len(q)
           Left(k) == [live |-> From(q, k), ok |-> TRUE]
<1>1. DOMAIN q = 1 .. n /\ n \in Nat /\ Ordered(q) /\ Blocks(kind) = From(q, 1)
  BY DEF Tidy
<1>2. PICK h : Freeing!Trace(h, Full(kind), q, n) /\ h[n] = Freeing!FoldLeft(Free, Full(kind), q)
  <2> HIDE DEF q, n
  <2> QED BY <1>1, Freeing!FoldTrace
<1>3. Freeing!FoldLeft(Free, Full(kind), q) = Deconstruct(Full(kind), kind)
  BY DEF Deconstruct, Freeing!FoldLeft, Freeing!MapThenFoldSet, Freeing!Max, FoldLeft,
     MapThenFoldSet, Max
<1> HIDE DEF q, n
<1>4. h[0] = Left(1) /\ \A k \in 1 .. n : h[k] = Free(h[k - 1], q[k])
  BY <1>1, <1>2 DEF Freeing!Trace, Full
<1> DEFINE T == {k \in Nat : k <= n => h[k] = Left(k + 1)}
<1>5. 0 \in T
  BY <1>4
<1>6. ASSUME NEW k \in Nat, k \in T PROVE k + 1 \in T
  <2>1. CASE k + 1 <= n
    <3>1. h[k + 1] = Free(Left(k + 1), q[k + 1])
      BY <1>1, <1>4, <1>6, <2>1
    <3>2. k + 1 \in 1 .. Len(q) /\ (k + 1) + 1 = k + 2
      BY <1>1, <2>1 DEF n
    <3>3. q[k + 1] \notin From(q, k + 2) /\ Owners[q[k + 1]] \subseteq From(q, k + 2)
      BY <1>1, <3>2 DEF Ordered
    <3>4. From(q, k + 1) = From(q, k + 2) \cup {q[k + 1]}
      BY <3>2 DEF From
    <3>5. Free(Left(k + 1), q[k + 1]) = Left(k + 2)
      <4>1. {q[k + 1]} \cup Owners[q[k + 1]] \subseteq From(q, k + 1)
        BY <3>3, <3>4
      <4>2. From(q, k + 1) \ {q[k + 1]} = From(q, k + 2)
        BY <3>3, <3>4
      <4>3. Free([live |-> From(q, k + 1), ok |-> TRUE], q[k + 1])
              = [live |-> From(q, k + 1) \ {q[k + 1]}, ok |-> TRUE]
        BY <4>1, FreeOne
      <4> QED BY <4>2, <4>3
    <3> QED BY <3>1, <3>2, <3>5
  <2> QED BY <2>1
<1>7. n \in T
  <2>1. Nat \subseteq T
    <3> HIDE DEF T
    <3> QED BY <1>5, <1>6, Freeing!NatSet
  <2> QED BY <1>1, <2>1
<1>8. h[n] = Left(n + 1) /\ From(q, n + 1) = {}
  BY <1>1, <1>7 DEF From, n
<1> QED BY <1>2, <1>3, <1>8 DEF Gone

\* What memory holds when the groups of s are registered.
Holding(s) == [g \in Groups |-> IF g \in Range(s) THEN Full(Kind[g]) ELSE Gone]

Distinct(s) == s \in Seq(Groups) /\ IsInjective(s)

\* deconstruct_dpgs gives every registered group back.
LEMMA FreedAll == ASSUME NEW s, Distinct(s) PROVE FoldLeft(FreeGroup, Holding(s), s) = Holding(<<>>)
<1> DEFINE n == Len(s)
           Left(k) == [g \in Groups |-> IF g \in From(s, k) THEN Full(Kind[g]) ELSE Gone]
<1>1. n \in Nat /\ DOMAIN s = 1 .. n /\ Range(s) = From(s, 1)
  BY DEF Distinct, Range, From
<1>2. PICK h : FreeingAll!Trace(h, Holding(s), s, n)
               /\ h[n] = FreeingAll!FoldLeft(FreeGroup, Holding(s), s)
  <2> HIDE DEF n
  <2> QED BY <1>1, FreeingAll!FoldTrace
<1>3. FreeingAll!FoldLeft(FreeGroup, Holding(s), s) = FoldLeft(FreeGroup, Holding(s), s)
  BY DEF FreeingAll!FoldLeft, FreeingAll!MapThenFoldSet, FreeingAll!Max, FoldLeft,
     MapThenFoldSet, Max
<1> HIDE DEF n
<1>4. h[0] = Left(1) /\ \A k \in 1 .. n : h[k] = FreeGroup(h[k - 1], s[k])
  BY <1>1, <1>2 DEF FreeingAll!Trace, Holding
<1> DEFINE T == {k \in Nat : k <= n => h[k] = Left(k + 1)}
<1>5. 0 \in T
  BY <1>4
<1>6. ASSUME NEW k \in Nat, k \in T PROVE k + 1 \in T
  <2>1. CASE k + 1 <= n
    <3> DEFINE d == s[k + 1]
    <3>1. h[k + 1] = FreeGroup(Left(k + 1), d)
      BY <1>1, <1>4, <1>6, <2>1
    <3>2. k + 1 \in 1 .. Len(s) /\ (k + 1) + 1 = k + 2 /\ d \in Groups
      BY <1>1, <2>1 DEF n, Distinct
    <3>3. From(s, k + 1) = From(s, k + 2) \cup {d}
      BY <3>2 DEF From
    <3>4. d \notin From(s, k + 2)
      BY <3>2 DEF From, Distinct, IsInjective
    <3>5. Deconstruct(Full(Kind[d]), Kind[d]) = Gone
      BY <3>2, AllFreed, Orders, DatatopAssumption
    <3> HIDE DEF d
    <3>6. FreeGroup(Left(k + 1), d) = [Left(k + 1) EXCEPT ![d] = Gone]
      BY <3>2, <3>3, <3>5 DEF FreeGroup
    <3>7. [Left(k + 1) EXCEPT ![d] = Gone] = Left(k + 2)
      BY <3>2, <3>3, <3>4
    <3> QED BY <3>1, <3>2, <3>6, <3>7
  <2> QED BY <2>1
<1>7. n \in T
  <2>1. Nat \subseteq T
    <3> HIDE DEF T
    <3> QED BY <1>5, <1>6, Freeing!NatSet
  <2> QED BY <1>1, <2>1
<1>8. h[n] = Left(n + 1) /\ From(s, n + 1) = {} /\ Range(<<>>) = {}
  BY <1>1, <1>7 DEF From, n, Range
<1>9. Left(n + 1) = Holding(<<>>)
  BY <1>8 DEF Holding
<1> QED BY <1>2, <1>3, <1>8, <1>9

\* A function on 1 .. n is a sequence.
LEMMA ASeq ==
    ASSUME NEW n \in Nat, NEW f, f = [j \in 1 .. n |-> f[j]], NEW S, \A j \in 1 .. n : f[j] \in S
    PROVE  f \in Seq(S) /\ Len(f) = n /\ DOMAIN f = 1 .. n
OBVIOUS

IsSeq(s) == Len(s) \in Nat /\ s = [j \in 1 .. Len(s) |-> s[j]]
SeqsOf(ss) == IsSeq(ss) /\ \A p \in 1 .. Len(ss) : IsSeq(ss[p])

\* The domain of anything that is a sequence.
LEMMA InSeq == ASSUME NEW s, IsSeq(s) PROVE DOMAIN s = 1 .. Len(s)
BY DEF IsSeq

\* FlatPairs for sequences of anything.
LEMMA Flat ==
    ASSUME NEW ss, NEW tt, SeqsOf(ss), SeqsOf(tt), Len(tt) = Len(ss),
           \A p \in 1 .. Len(ss) : Len(ss[p]) = Len(tt[p])
    PROVE  /\ IsSeq(FlattenSeq(ss)) /\ IsSeq(FlattenSeq(tt))
           /\ Paired(FlattenSeq(ss), FlattenSeq(tt), ss, tt, Len(ss))
<1> DEFINE n == Len(ss)
           S == UNION {{ss[p][c] : c \in 1 .. Len(ss[p])} : p \in 1 .. n}
           R == UNION {{tt[p][c] : c \in 1 .. Len(tt[p])} : p \in 1 .. n}
<1>1. \A p \in 1 .. n : \A c \in 1 .. Len(ss[p]) : ss[p][c] \in S
  OBVIOUS
<1>2. \A p \in 1 .. n : \A c \in 1 .. Len(tt[p]) : tt[p][c] \in R
  OBVIOUS
<1> HIDE DEF S, R
<1>3. \A p \in 1 .. n : ss[p] \in Seq(S) /\ tt[p] \in Seq(R)
  <2> TAKE p \in 1 .. n
  <2>1. IsSeq(ss[p]) /\ IsSeq(tt[p])
    BY DEF SeqsOf
  <2>2. ss[p] \in Seq(S)
    BY <1>1, <2>1, ASeq DEF IsSeq
  <2>3. tt[p] \in Seq(R)
    BY <1>2, <2>1, ASeq DEF IsSeq
  <2> QED BY <2>2, <2>3
<1>4. ss \in Seq(Seq(S)) /\ tt \in Seq(Seq(R))
  <2>1. IsSeq(ss) /\ IsSeq(tt)
    BY DEF SeqsOf
  <2>2. ss \in Seq(Seq(S))
    BY <1>3, <2>1, ASeq DEF IsSeq
  <2>3. tt \in Seq(Seq(R))
    BY <1>3, <2>1, ASeq DEF IsSeq
  <2> QED BY <2>2, <2>3
<1>5. FlattenSeq(ss) \in Seq(S) /\ FlattenSeq(tt) \in Seq(R)
      /\ Paired(FlattenSeq(ss), FlattenSeq(tt), ss, tt, n)
  BY <1>4, FlatPairs
<1>6. \A T, s : s \in Seq(T) => IsSeq(s)
  BY DEF IsSeq
<1> QED BY <1>5, <1>6

-----------------------------------------------------------------------------
(***************************************************************************)
(* Lines, places and data points.                                          *)
(***************************************************************************)
LinesOk(lines) == IsSeq(lines) /\ \A p \in 1 .. Len(lines) : IsSeq(lines[p].vals)

ValuesOf(lines) == FlattenSeq([p \in DOMAIN lines |-> lines[p].vals])

\* Place by place, of the same line and column.
Standing(P, V, lines) ==
    /\ IsSeq(P) /\ IsSeq(V) /\ Len(V) = Len(P)
    /\ \A j \in 1 .. Len(P) : \E p \in 1 .. Len(lines) : \E c \in 1 .. Len(lines[p].vals) :
          P[j] = <<p, c>> /\ V[j] = lines[p].vals[c]

\* The places of a file are those of its values, one by one.
LEMMA PlacesLemma ==
    ASSUME NEW lines, LinesOk(lines)
    PROVE  Standing(Places(lines), ValuesOf(lines), lines)
<1> DEFINE n == Len(lines)
           ss == [p \in DOMAIN lines |-> [c \in DOMAIN lines[p].vals |-> <<p, c>>]]
           tt == [p \in DOMAIN lines |-> lines[p].vals]
<1>1. n \in Nat /\ DOMAIN lines = 1 .. n /\ \A p \in 1 .. n : IsSeq(lines[p].vals)
  BY InSeq DEF LinesOk, IsSeq
<1>2. Len(ss) = n /\ Len(tt) = n /\ IsSeq(ss) /\ IsSeq(tt)
  BY <1>1 DEF IsSeq
<1>3. \A p \in 1 .. n : IsSeq(ss[p]) /\ IsSeq(tt[p]) /\ Len(ss[p]) = Len(tt[p])
  <2> TAKE p \in 1 .. n
  <2>1. IsSeq(lines[p].vals) /\ DOMAIN lines[p].vals = 1 .. Len(lines[p].vals)
    BY <1>1, InSeq
  <2>2. ss[p] = [c \in 1 .. Len(lines[p].vals) |-> <<p, c>>] /\ tt[p] = lines[p].vals
    BY <1>1, <2>1
  <2>3. Len(ss[p]) = Len(lines[p].vals)
    BY <2>1, <2>2 DEF IsSeq
  <2> HIDE DEF ss, tt
  <2>4. IsSeq(ss[p])
    BY <2>1, <2>2, <2>3 DEF IsSeq
  <2> QED BY <2>1, <2>2, <2>3, <2>4
<1>4. \A p \in 1 .. n : \A c \in 1 .. Len(ss[p]) :
         ss[p][c] = <<p, c>> /\ tt[p][c] = lines[p].vals[c] /\ c \in 1 .. Len(lines[p].vals)
  <2> TAKE p \in 1 .. n
  <2>1. DOMAIN lines[p].vals = 1 .. Len(lines[p].vals) /\ Len(ss[p]) = Len(lines[p].vals)
    BY <1>1, <1>3, InSeq
  <2> QED BY <1>1, <2>1
<1> HIDE DEF ss, tt
<1>5. SeqsOf(ss) /\ SeqsOf(tt)
  BY <1>2, <1>3 DEF SeqsOf
<1>6. /\ IsSeq(FlattenSeq(ss)) /\ IsSeq(FlattenSeq(tt))
      /\ Paired(FlattenSeq(ss), FlattenSeq(tt), ss, tt, n)
  BY <1>2, <1>3, <1>5, Flat
<1>7. Len(FlattenSeq(ss)) = Len(FlattenSeq(tt))
  BY <1>6 DEF Paired
<1>8. \A j \in 1 .. Len(FlattenSeq(ss)) : \E p \in 1 .. n : \E c \in 1 .. Len(lines[p].vals) :
         FlattenSeq(ss)[j] = <<p, c>> /\ FlattenSeq(tt)[j] = lines[p].vals[c]
  <2> TAKE j \in 1 .. Len(FlattenSeq(ss))
  <2>1. PICK p \in 1 .. n : \E c \in 1 .. Len(ss[p]) :
           FlattenSeq(ss)[j] = ss[p][c] /\ FlattenSeq(tt)[j] = tt[p][c]
    BY <1>6 DEF Paired
  <2> QED BY <1>4, <2>1
<1>9. Standing(FlattenSeq(ss), FlattenSeq(tt), lines)
  BY <1>6, <1>7, <1>8 DEF Standing
<1> QED BY <1>9 DEF Places, ValuesOf, ss, tt

Fields == {"name", "at", "data", "init", "pop"}
IsDps(dps) == IsSeq(dps) /\ \A j \in 1 .. Len(dps) : Fields \subseteq DOMAIN dps[j]

\* dtop_store_dp: a value that is not junk is stored, and is the baseline where
\* there was none.
Stored(d, dp, v) ==
    /\ Fields \subseteq DOMAIN d
    /\ d.name = dp.name /\ d.at = dp.at /\ d.pop = TRUE
    /\ v # Junk => d.data = v /\ d.init = IF dp.pop THEN dp.init ELSE v

LEMMA StoreLemma ==
    ASSUME NEW dp, Fields \subseteq DOMAIN dp, NEW v, NEW kept
    PROVE  Stored(dtop_store_dp(dp, v, kept), dp, v)
<1> DEFINE w == IF v = Junk /\ kept THEN dp.data ELSE v
<1>1. dtop_store_dp(dp, v, kept) = [dp EXCEPT !.data = w, !.init = IF dp.pop THEN @ ELSE w, !.pop = TRUE]
  BY DEF dtop_store_dp
<1>2. v # Junk => w = v
  OBVIOUS
<1> HIDE DEF w
<1> QED BY <1>1, <1>2 DEF Stored, Fields

\* Renaming a data point leaves the rest alone.
LEMMA RenameLemma ==
    ASSUME NEW dp, Fields \subseteq DOMAIN dp, NEW x
    PROVE  LET d == [dp EXCEPT !.name = x]
           IN  /\ Fields \subseteq DOMAIN d /\ d.name = x /\ d.at = dp.at
               /\ d.data = dp.data /\ d.init = dp.init /\ (d.pop <=> dp.pop)
BY DEF Fields

\* Data points that are changed in place remain data points.
LEMMA DpsLike ==
    ASSUME NEW dps, IsDps(dps), NEW q, q = [j \in DOMAIN dps |-> q[j]],
           \A j \in 1 .. Len(dps) : Fields \subseteq DOMAIN q[j]
    PROVE  IsDps(q) /\ Len(q) = Len(dps) /\ DOMAIN q = DOMAIN dps /\ DOMAIN dps = 1 .. Len(dps)
<1>1. DOMAIN dps = 1 .. Len(dps) /\ Len(dps) \in Nat
  BY InSeq DEF IsDps, IsSeq
<1>2. Len(q) = Len(dps) /\ DOMAIN q = 1 .. Len(dps)
  BY <1>1
<1> QED BY <1>1, <1>2 DEF IsDps, IsSeq

\* The polls by kind.
LEMMA PolledIs ==
    ASSUME NEW dps, NEW lines, NEW n, NEW v, NEW k
    PROVE  /\ Polled("dual", dps, lines, n, v, k) = dtop_dual_line_poll(dps, lines, n, k)
           /\ Polled("single", dps, lines, n, v, k) = ByName(dps, lines, n, k)
           /\ Polled("meminfo", dps, lines, n, v, k) = ByName(dps, lines, n, k)
           /\ Polled("dev", dps, lines, n, v, k) = dtop_dev_poll(dps, lines, n, k)
           /\ Polled("stat", dps, lines, n, v, k) = dtop_stat_poll(dps, v, k)
           /\ Polled("gen", dps, lines, n, v, k) = ByField(dps, lines, k)
           /\ Polled("cpu", dps, lines, n, v, k) = ByField(dps, lines, k)
BY Zenon DEF Polled, dtop_single_line_poll, dtop_meminfo_poll, dtop_gen_poll, dtop_value_only_poll

\* What a poll answers, its nondeterminism resolved.
LEMMA PollIs ==
    ASSUME NEW kind, NEW dps, NEW lines, NEW n, NEW r \in Poll(kind, dps, lines, n)
    PROVE  \E v, k :
              /\ r.dps = Polled(kind, dps, lines, n, v, k)
              /\ kind = "stat" => v \in StatVals(lines, n)
              /\ r.over => (kind = "stat" /\ Len(v) > Len(dps))
<1>1. PICK v \in (IF kind = "stat" THEN StatVals(lines, n) ELSE {<<>>}), k \in BOOLEAN :
         r = [dps |-> Polled(kind, dps, lines, n, v, k), over |-> kind = "stat" /\ Len(v) > Len(dps)]
  BY DEF Poll
<1>2. r.dps = Polled(kind, dps, lines, n, v, k)
  BY <1>1
<1>3. r.over = (kind = "stat" /\ Len(v) > Len(dps))
  BY <1>1
<1> QED BY <1>1, <1>2, <1>3

\* Whatever a file says, a poll keeps its data points.
SameDps(dps, q) == IsDps(q) /\ Len(q) = Len(dps)

LEMMA PollKeepsDps ==
    ASSUME NEW kind \in Kinds, NEW dps, IsDps(dps), NEW lines, NEW n,
           NEW r \in Poll(kind, dps, lines, n)
    PROVE  SameDps(dps, r.dps) /\ (kind # "stat" => ~r.over)
<1>1. \A j \in 1 .. Len(dps) : Fields \subseteq DOMAIN dps[j]
  BY DEF IsDps
<1>2. \A dp, v, k : Fields \subseteq DOMAIN dp => Fields \subseteq DOMAIN dtop_store_dp(dp, v, k)
  BY StoreLemma DEF Stored
<1>3. \A dp, x : Fields \subseteq DOMAIN dp => Fields \subseteq DOMAIN [dp EXCEPT !.name = x]
  BY RenameLemma
<1>4. DOMAIN dps = 1 .. Len(dps)
  BY InSeq DEF IsDps
<1>5. ASSUME NEW k PROVE SameDps(dps, dtop_dual_line_poll(dps, lines, n, k))
  <2> DEFINE q == dtop_dual_line_poll(dps, lines, n, k)
             lns == ReadLines(lines, n)
             Found(at) == {p \in 1 .. n : lns[p].name = lns[at[1]].name /\ at[2] \in DOMAIN lns[p].vals}
             LastOf(at) == CHOOSE p \in Found(at) : \A p2 \in Found(at) : p2 <= p
             Named(j) == [dps[j] EXCEPT !.name = At(lns, dps[j].at).name]
             Val(j) == lns[LastOf(dps[j].at)].vals[dps[j].at[2]]
             Body(j) == IF Found(dps[j].at) = {} THEN Named(j) ELSE dtop_store_dp(Named(j), Val(j), k)
  <2>1. q = [j \in DOMAIN dps |-> Body(j)]
    BY Zenon DEF dtop_dual_line_poll
  <2>2. ASSUME NEW j \in 1 .. Len(dps) PROVE Fields \subseteq DOMAIN Body(j)
    <3>1. Fields \subseteq DOMAIN Named(j)
      BY <1>1, <1>3
    <3> HIDE DEF Named, Val, Found
    <3>2. Fields \subseteq DOMAIN dtop_store_dp(Named(j), Val(j), k)
      BY <1>2, <3>1
    <3> QED BY <3>1, <3>2
  <2> HIDE DEF Body, q
  <2>3. \A j \in 1 .. Len(dps) : q[j] = Body(j)
    BY <1>4, <2>1
  <2>4. q = [j \in DOMAIN dps |-> q[j]]
    BY <2>1
  <2>5. SameDps(dps, q)
    BY <2>2, <2>3, <2>4, DpsLike DEF SameDps
  <2> QED BY <2>5 DEF q
<1>6. ASSUME NEW k PROVE SameDps(dps, ByName(dps, lines, n, k))
  <2> DEFINE q == ByName(dps, lines, n, k)
             lns == ReadLines(lines, n)
             FirstOf(name) == CHOOSE p \in 1 .. n :
                       /\ lns[p].name = name
                       /\ \A p2 \in 1 .. p - 1 : lns[p2].name # name
             Named(j) == [dps[j] EXCEPT !.name = At(lns, dps[j].at).name]
             Val(j) == lns[FirstOf(lns[dps[j].at[1]].name)].vals[1]
             Body(j) == dtop_store_dp(Named(j), Val(j), k)
  <2>1. q = [j \in DOMAIN dps |-> Body(j)]
    BY Zenon DEF ByName
  <2>2. ASSUME NEW j \in 1 .. Len(dps) PROVE Fields \subseteq DOMAIN Body(j)
    <3>1. Fields \subseteq DOMAIN Named(j)
      BY <1>1, <1>3
    <3> HIDE DEF Named, Val
    <3> QED BY <1>2, <3>1
  <2> HIDE DEF Body, q
  <2>3. \A j \in 1 .. Len(dps) : q[j] = Body(j)
    BY <1>4, <2>1
  <2>4. q = [j \in DOMAIN dps |-> q[j]]
    BY <2>1
  <2>5. SameDps(dps, q)
    BY <2>2, <2>3, <2>4, DpsLike DEF SameDps
  <2> QED BY <2>5 DEF q
<1>7. ASSUME NEW k PROVE SameDps(dps, dtop_dev_poll(dps, lines, n, k))
  <2> DEFINE q == dtop_dev_poll(dps, lines, n, k)
             Cell(j) == At(ReadLines(lines, n), dps[j].at)
             Body(j) == dtop_store_dp([dps[j] EXCEPT !.name = Cell(j).name], Cell(j).val, k)
  <2>1. q = [j \in DOMAIN dps |-> Body(j)]
    BY Zenon DEF dtop_dev_poll
  <2> HIDE DEF Cell
  <2>2. \A j \in 1 .. Len(dps) : Fields \subseteq DOMAIN Body(j)
    BY <1>1, <1>2, <1>3
  <2> HIDE DEF Body, q
  <2>3. \A j \in 1 .. Len(dps) : q[j] = Body(j)
    BY <1>4, <2>1
  <2>4. q = [j \in DOMAIN dps |-> q[j]]
    BY <2>1
  <2>5. SameDps(dps, q)
    BY <2>2, <2>3, <2>4, DpsLike DEF SameDps
  <2> QED BY <2>5 DEF q
<1>8. ASSUME NEW k, NEW v PROVE SameDps(dps, dtop_stat_poll(dps, v, k))
  <2> DEFINE q == dtop_stat_poll(dps, v, k)
             Body(j) == IF j \in DOMAIN v THEN dtop_store_dp(dps[j], v[j], k) ELSE dps[j]
  <2>1. q = [j \in DOMAIN dps |-> Body(j)]
    BY Zenon DEF dtop_stat_poll
  <2>2. \A j \in 1 .. Len(dps) : Fields \subseteq DOMAIN Body(j)
    BY <1>1, <1>2
  <2> HIDE DEF Body, q
  <2>3. \A j \in 1 .. Len(dps) : q[j] = Body(j)
    BY <1>4, <2>1
  <2>4. q = [j \in DOMAIN dps |-> q[j]]
    BY <2>1
  <2>5. SameDps(dps, q)
    BY <2>2, <2>3, <2>4, DpsLike DEF SameDps
  <2> QED BY <2>5 DEF q
<1>9. ASSUME NEW k PROVE SameDps(dps, ByField(dps, lines, k))
  <2> DEFINE q == ByField(dps, lines, k)
             Body(j) == dtop_store_dp(dps[j], At(lines, dps[j].at).val, k)
  <2>1. q = [j \in DOMAIN dps |-> Body(j)]
    BY Zenon DEF ByField
  <2>2. \A j \in 1 .. Len(dps) : Fields \subseteq DOMAIN Body(j)
    BY <1>1, <1>2
  <2> HIDE DEF Body, q
  <2>3. \A j \in 1 .. Len(dps) : q[j] = Body(j)
    BY <1>4, <2>1
  <2>4. q = [j \in DOMAIN dps |-> q[j]]
    BY <2>1
  <2>5. SameDps(dps, q)
    BY <2>2, <2>3, <2>4, DpsLike DEF SameDps
  <2> QED BY <2>5 DEF q
<1>10. PICK v, k :
          /\ r.dps = Polled(kind, dps, lines, n, v, k)
          /\ r.over => (kind = "stat" /\ Len(v) > Len(dps))
  BY PollIs
<1>11. SameDps(dps, Polled(kind, dps, lines, n, v, k))
  BY <1>5, <1>6, <1>7, <1>8, <1>9, PolledIs DEF Kinds
<1>12. kind # "stat" => ~r.over
  BY <1>10, Zenon
<1>13. SameDps(dps, r.dps)
  BY <1>10, <1>11, Zenon
<1> QED BY <1>12, <1>13, Zenon

-----------------------------------------------------------------------------
(***************************************************************************)
(* A file whose lines stay: what its search finds and its polls store.     *)
(***************************************************************************)

\* What stands at a place, and the name it has.
Stands(lines, at) == lines[at[1]].vals[at[2]]
NameOf(lines, at) == <<lines[at[1]].name, at[2]>>
InPlace(at, lines) == \E p \in 1 .. Len(lines) : \E c \in 1 .. Len(lines[p].vals) : at = <<p, c>>

\* A file that says other values in the same lines.
Alike(lines, first) ==
    /\ LinesOk(lines) /\ LinesOk(first) /\ Len(lines) = Len(first)
    /\ \A p \in 1 .. Len(first) :
          /\ lines[p].name = first[p].name /\ Len(lines[p].vals) = Len(first[p].vals)
          /\ \A c \in 1 .. Len(first[p].vals) : lines[p].vals[c] \in Value

\* The data points of such a file.
Points(dps, first) ==
    /\ IsDps(dps) /\ Len(dps) = Len(Places(first))
    /\ \A j \in 1 .. Len(dps) : dps[j].at = Places(first)[j] /\ dps[j].name = NameOf(first, dps[j].at)

\* Each is stored what stands in its place.
Updated(q, dps, lines) ==
    \A j \in 1 .. Len(dps) :
        /\ q[j].pop = TRUE /\ q[j].data = Stands(lines, dps[j].at)
        /\ q[j].init = IF dps[j].pop THEN dps[j].init ELSE q[j].data

\* A buffer as long as the file reads it whole.
LEMMA AllRead ==
    ASSUME NEW lines, LinesOk(lines) PROVE ReadLines(lines, Len(lines)) = lines
<1>1. lines = [p \in 1 .. Len(lines) |-> lines[p]] /\ DOMAIN lines = 1 .. Len(lines)
  BY InSeq DEF LinesOk, IsSeq
<1>2. ReadLines(lines, Len(lines)) = [p \in 1 .. Len(lines) |-> lines[p]]
  BY <1>1 DEF ReadLines, dt_read_line
<1> QED BY <1>1, <1>2

\* Such a file has the same places, with its own values.
LEMMA SamePlaces ==
    ASSUME NEW lines, NEW first, Alike(lines, first)
    PROVE  Places(lines) = Places(first)
<1>1. DOMAIN lines = 1 .. Len(first) /\ DOMAIN first = 1 .. Len(first)
  BY InSeq DEF Alike, LinesOk
<1>2. \A p \in 1 .. Len(first) : DOMAIN lines[p].vals = DOMAIN first[p].vals
  BY InSeq DEF Alike, LinesOk
<1>3. [p \in DOMAIN lines |-> [c \in DOMAIN lines[p].vals |-> <<p, c>>]]
        = [p \in DOMAIN first |-> [c \in DOMAIN first[p].vals |-> <<p, c>>]]
  BY <1>1, <1>2
<1> QED BY <1>3 DEF Places

\* A place is a line's column.
LEMMA PlaceIn ==
    ASSUME NEW first, LinesOk(first)
    PROVE  /\ IsSeq(Places(first)) /\ DOMAIN Places(first) = 1 .. Len(Places(first))
           /\ \A j \in 1 .. Len(Places(first)) : InPlace(Places(first)[j], first)
<1>1. Standing(Places(first), ValuesOf(first), first)
  BY PlacesLemma
<1>2. IsSeq(Places(first)) /\ \A j \in 1 .. Len(Places(first)) : InPlace(Places(first)[j], first)
  BY <1>1 DEF Standing, InPlace
<1> QED BY <1>2, InSeq

\* No value of a file is junk.
LEMMA ValueNotJunk == \A v \in Value : v # Junk
BY DEF Value, Junk

\* What At gives for such a place.
LEMMA AtPlace ==
    ASSUME NEW lines, NEW first, Alike(lines, first), NEW at, InPlace(at, first)
    PROVE  /\ At(lines, at).name = NameOf(first, at) /\ At(lines, at).val = Stands(lines, at)
           /\ Stands(lines, at) \in Value /\ Stands(lines, at) # Junk
           /\ at[1] \in 1 .. Len(first) /\ at[2] \in 1 .. Len(first[at[1]].vals)
           /\ at[2] \in DOMAIN lines[at[1]].vals
<1>0. PICK p \in 1 .. Len(first) : \E c \in 1 .. Len(first[p].vals) : at = <<p, c>>
  BY DEF InPlace
<1>1. PICK c \in 1 .. Len(first[p].vals) : at = <<p, c>>
  BY <1>0
<1>2. at[1] = p /\ at[2] = c
  BY <1>1
<1>3. DOMAIN lines[p].vals = 1 .. Len(first[p].vals)
  BY InSeq DEF Alike, LinesOk
<1>4. lines[p].name = first[p].name /\ lines[p].vals[c] \in Value
  BY DEF Alike
<1> HIDE DEF Alike
<1>5. At(lines, at) = [name |-> <<lines[p].name, c>>, val |-> lines[p].vals[c]]
  BY <1>2, <1>3 DEF At
<1> QED BY <1>2, <1>3, <1>4, <1>5, ValueNotJunk DEF NameOf, Stands

\* The data points of a sequence of places, one for each.
LEMMA SearchedLemma ==
    ASSUME NEW at, IsSeq(at), NEW lines, NEW flags, NEW dps \in SearchedAt(at, lines, flags)
    PROVE  /\ IsDps(dps) /\ Len(dps) = Len(at)
           /\ \A j \in 1 .. Len(dps) : /\ dps[j].at = at[j] /\ dps[j].name = At(lines, at[j]).name
                                       /\ dps[j].pop \in flags
                                       /\ dps[j].data = Junk /\ dps[j].init = Junk
<1>1. PICK f \in [DOMAIN at -> flags] :
         dps = [j \in DOMAIN at |-> [name |-> At(lines, at[j]).name, at |-> at[j],
                                     data |-> Junk, init |-> Junk, pop |-> f[j]]]
  BY DEF SearchedAt
<1>2. DOMAIN at = 1 .. Len(at) /\ Len(at) \in Nat
  BY InSeq DEF IsSeq
<1>3. Len(dps) = Len(at) /\ DOMAIN dps = 1 .. Len(at) /\ dps = [j \in 1 .. Len(at) |-> dps[j]]
  BY <1>1, <1>2
<1>4. \A j \in 1 .. Len(at) :
        /\ dps[j].at = at[j] /\ dps[j].name = At(lines, at[j]).name /\ dps[j].pop = f[j]
        /\ dps[j].data = Junk /\ dps[j].init = Junk
        /\ Fields \subseteq DOMAIN dps[j]
  BY <1>1, <1>2 DEF Fields
<1>5. \A j \in 1 .. Len(at) : f[j] \in flags
  BY <1>1, <1>2
<1>6. IsDps(dps)
  BY <1>2, <1>3, <1>4 DEF IsDps, IsSeq
<1>7. \A j \in 1 .. Len(dps) : dps[j].pop \in flags
  BY <1>3, <1>4, <1>5
<1> QED BY <1>3, <1>4, <1>6, <1>7

DevPlaces(n) == FlattenSeq([p \in 1 .. n |-> [c \in 1 .. DevCols |-> <<p, c>>]])

\* The places dtop_dev_search takes for granted are a sequence,
LEMMA DevPlacesLemma == ASSUME NEW n \in Nat PROVE IsSeq(DevPlaces(n))
<1> DEFINE ss == [p \in 1 .. n |-> [c \in 1 .. DevCols |-> <<p, c>>]]
<1>1. Len(ss) = n /\ IsSeq(ss)
  BY DEF IsSeq
<1>2. \A p \in 1 .. n : IsSeq(ss[p])
  BY FileAssumption DEF IsSeq
<1> HIDE DEF ss
<1>3. SeqsOf(ss)
  BY <1>1, <1>2 DEF SeqsOf
<1>4. IsSeq(FlattenSeq(ss))
  BY <1>3, Flat
<1> QED BY <1>4 DEF ss, DevPlaces

\* A buffer that is longer than its file is still full of lines.
LEMMA ReadLinesOk ==
    ASSUME NEW lines, LinesOk(lines), NEW n \in Nat PROVE LinesOk(ReadLines(lines, n))
<1> DEFINE ls == ReadLines(lines, n)
<1>1. ls = [p \in 1 .. n |-> IF p \in DOMAIN lines THEN lines[p] ELSE JunkLine]
  BY DEF ReadLines, dt_read_line
<1>2. IsSeq(JunkLine.vals)
  BY DEF JunkLine, IsSeq
<1>3. \A p \in DOMAIN lines : IsSeq(lines[p].vals)
  BY InSeq DEF LinesOk
<1> HIDE DEF ls
<1>4. Len(ls) = n /\ DOMAIN ls = 1 .. n /\ ls = [p \in 1 .. n |-> ls[p]]
  BY <1>1
<1>5. \A p \in 1 .. n : IsSeq(ls[p].vals)
  BY <1>1, <1>2, <1>3
<1>6. LinesOk(ls)
  BY <1>4, <1>5 DEF LinesOk, IsSeq
<1> QED BY <1>6 DEF ls

\* The searches by kind.
LEMMA SearchIs ==
    ASSUME NEW lines, NEW n
    PROVE  /\ Search("dual", lines, n) = Searched(ReadLines(lines, n), {FALSE})
           /\ Search("single", lines, n) = Searched(ReadLines(lines, n), BOOLEAN)
           /\ Search("meminfo", lines, n) = Searched(ReadLines(lines, n), BOOLEAN)
           /\ Search("dev", lines, n) = SearchedAt(DevPlaces(n), ReadLines(lines, n), {FALSE})
           /\ Search("stat", lines, n) = Searched(ReadLines(lines, n), {FALSE})
           /\ Search("gen", lines, n) = Searched(ReadLines(lines, 1), {FALSE})
           /\ Search("cpu", lines, n) = construct_cpu_stat_dpg
BY Zenon DEF Search, dtop_dual_line_search, dtop_single_line_search, dtop_meminfo_search,
   dtop_dev_search, dtop_stat_search, dpg_construction, DevPlaces

\* The one data point of a CPU.
LEMMA CpuSearch ==
    ASSUME NEW dps \in construct_cpu_stat_dpg
    PROVE  /\ IsDps(dps) /\ Len(dps) = 1
           /\ dps[1].at = <<1, 1>> /\ dps[1].name = <<NoName, 1>> /\ dps[1].pop = FALSE
           /\ dps[1].data = 0 /\ dps[1].init = 0
<1> DEFINE d == [name |-> <<NoName, 1>>, at |-> <<1, 1>>, data |-> 0, init |-> 0, pop |-> FALSE]
<1>1. dps = <<d>>
  BY DEF construct_cpu_stat_dpg
<1>2. /\ Fields \subseteq DOMAIN d /\ d.at = <<1, 1>> /\ d.name = <<NoName, 1>>
      /\ d.pop = FALSE /\ d.data = 0 /\ d.init = 0
  BY DEF Fields
<1> HIDE DEF d
<1>3. Len(dps) = 1 /\ dps[1] = d /\ dps = [j \in 1 .. 1 |-> dps[j]]
  BY <1>1
<1>4. IsDps(dps)
  BY <1>2, <1>3 DEF IsDps, IsSeq
<1> QED BY <1>2, <1>3, <1>4

\* Whatever a file says, a search finds data points.
LEMMA SearchDps ==
    ASSUME NEW kind \in Kinds, NEW lines, LinesOk(lines), NEW n \in Nat,
           NEW dps \in Search(kind, lines, n)
    PROVE  IsDps(dps)
<1>1. CASE kind = "cpu"
  BY <1>1, SearchIs, CpuSearch
<1>2. CASE kind = "dev"
  BY <1>2, SearchIs, DevPlacesLemma, SearchedLemma
<1>3. CASE kind \notin {"cpu", "dev"}
  <2>1. PICK m \in {1, n}, flags \in {{FALSE}, BOOLEAN} : dps \in Searched(ReadLines(lines, m), flags)
    BY <1>3, SearchIs DEF Kinds
  <2>2. m \in Nat /\ LinesOk(ReadLines(lines, m))
    BY <2>1, ReadLinesOk
  <2>3. IsSeq(Places(ReadLines(lines, m)))
    BY <2>2, PlaceIn
  <2> QED BY <2>1, <2>3, SearchedLemma DEF Searched
<1> QED BY <1>1, <1>2, <1>3

\* Of a file whose lines stay, those of its places.
LEMMA SearchPoints ==
    ASSUME NEW kind \in Kinds, NEW lines, NEW first, Alike(lines, first), Shaped(kind, first),
           NEW n, kind \in CountsLines => n = Len(first), NEW dps \in Search(kind, lines, n)
    PROVE  /\ Points(dps, first)
           /\ kind \notin {"single", "meminfo"} => \A j \in 1 .. Len(dps) : ~dps[j].pop
<1>1. /\ LinesOk(lines) /\ LinesOk(first) /\ Len(lines) = Len(first)
      /\ ReadLines(lines, Len(first)) = lines /\ Places(lines) = Places(first)
  BY AllRead, SamePlaces DEF Alike
<1>2. IsSeq(Places(first)) /\ \A j \in 1 .. Len(Places(first)) : InPlace(Places(first)[j], first)
  BY <1>1, PlaceIn
<1>3. ASSUME NEW flags, dps \in SearchedAt(Places(first), lines, flags)
      PROVE  Points(dps, first) /\ \A j \in 1 .. Len(dps) : dps[j].pop \in flags
  <2>1. /\ IsDps(dps) /\ Len(dps) = Len(Places(first))
        /\ \A j \in 1 .. Len(dps) :
              /\ dps[j].at = Places(first)[j] /\ dps[j].name = At(lines, Places(first)[j]).name
              /\ dps[j].pop \in flags
    BY <1>2, <1>3, SearchedLemma
  <2>2. \A j \in 1 .. Len(dps) : dps[j].name = NameOf(first, dps[j].at)
    BY <1>2, <2>1, AtPlace
  <2> QED BY <2>1, <2>2 DEF Points
<1>4. CASE kind = "cpu"
  <2>1. /\ IsDps(dps) /\ Len(dps) = 1
        /\ dps[1].at = <<1, 1>> /\ dps[1].name = <<NoName, 1>> /\ ~dps[1].pop
    BY <1>4, SearchIs, CpuSearch
  <2>2. Len(first) = 1 /\ Len(first[1].vals) = 1 /\ first[1].name = NoName
    BY <1>4 DEF Shaped
  <2>3. Places(first) = << <<1, 1>> >>
    <3>1. DOMAIN first = 1 .. 1 /\ DOMAIN first[1].vals = 1 .. 1
      BY <1>1, <2>2, InSeq DEF LinesOk
    <3> DEFINE ss == [p \in DOMAIN first |-> [c \in DOMAIN first[p].vals |-> <<p, c>>]]
    <3>2. ss = << << <<1, 1>> >> >>
      BY <3>1
    <3>3. Len(ss) = 1 /\ ss[1] = << <<1, 1>> >>
      BY <3>2
    <3> HIDE DEF ss
    <3>4. PICK f : Joined(f, ss, 1) /\ FlattenSeq(ss) = f[1]
      <4>1. 1 \in Nat /\ 1 # 0
        OBVIOUS
      <4> QED BY <3>3, <4>1, FlattenJoined, Zenon
    <3>5. f[1] = ss[1]
      BY <3>4 DEF Joined, JoinStep
    <3> QED BY <3>3, <3>4, <3>5 DEF ss, Places
  <2> QED BY <1>4, <2>1, <2>2, <2>3 DEF Points, NameOf
<1>5. CASE kind = "dev"
  <2>1. DOMAIN first = 1 .. Len(first)
    BY <1>1, InSeq DEF LinesOk
  <2>2. \A p \in 1 .. Len(first) : DOMAIN first[p].vals = 1 .. DevCols
    BY <1>1, <1>5, InSeq DEF LinesOk, Shaped
  <2>3. [p \in 1 .. Len(first) |-> [c \in 1 .. DevCols |-> <<p, c>>]]
          = [p \in DOMAIN first |-> [c \in DOMAIN first[p].vals |-> <<p, c>>]]
    BY <2>1, <2>2
  <2>4. n = Len(first) /\ DevPlaces(n) = Places(first)
    BY <1>5, <2>3 DEF DevPlaces, Places, CountsLines
  <2>5. dps \in SearchedAt(Places(first), lines, {FALSE})
    BY <1>1, <1>5, <2>4, SearchIs
  <2>6. Points(dps, first) /\ \A j \in 1 .. Len(dps) : dps[j].pop \in {FALSE}
    BY <1>3, <2>5
  <2> QED BY <2>6
<1>6. CASE kind \in {"dual", "stat", "gen"}
  <2>1. dps \in Searched(lines, {FALSE})
    <3>1. kind = "gen" => ReadLines(lines, 1) = lines
      BY <1>1 DEF Shaped
    <3>2. kind # "gen" => ReadLines(lines, n) = lines
      BY <1>1, <1>6 DEF CountsLines
    <3> QED BY <1>6, <3>1, <3>2, SearchIs
  <2>2. Points(dps, first) /\ \A j \in 1 .. Len(dps) : dps[j].pop \in {FALSE}
    BY <1>1, <1>3, <2>1 DEF Searched
  <2> QED BY <2>2
<1>7. CASE kind \in {"single", "meminfo"}
  <2>1. dps \in Searched(lines, BOOLEAN)
    BY <1>1, <1>7, SearchIs DEF CountsLines
  <2> QED BY <1>1, <1>3, <1>7, <2>1 DEF Searched
<1> QED BY <1>4, <1>5, <1>6, <1>7 DEF Kinds

\* The data point is as it was, but for the name it may get again.
Same(dp, old) ==
    /\ Fields \subseteq DOMAIN dp /\ dp.at = old.at /\ dp.name = old.name
    /\ dp.init = old.init /\ (dp.pop <=> old.pop)

\* A poll that stores for every data point what stands in its place.
LEMMA UpdatedLemma ==
    ASSUME NEW first, NEW lines, Alike(lines, first), NEW dps, Points(dps, first),
           NEW q, q = [j \in DOMAIN dps |-> q[j]],
           \A j \in 1 .. Len(dps) :
              \E dp : Same(dp, dps[j]) /\ Stored(q[j], dp, Stands(lines, dps[j].at))
    PROVE  Points(q, first) /\ Updated(q, dps, lines)
<1>1. \A j \in 1 .. Len(dps) :
         /\ Fields \subseteq DOMAIN q[j] /\ q[j].at = dps[j].at /\ q[j].name = dps[j].name
         /\ q[j].pop = TRUE /\ q[j].data = Stands(lines, dps[j].at)
         /\ q[j].init = IF dps[j].pop THEN dps[j].init ELSE Stands(lines, dps[j].at)
  <2> TAKE j \in 1 .. Len(dps)
  <2>1. PICK dp : Same(dp, dps[j]) /\ Stored(q[j], dp, Stands(lines, dps[j].at))
    OBVIOUS
  <2>2. Stands(lines, dps[j].at) # Junk
    <3>1. InPlace(dps[j].at, first)
      BY PlaceIn DEF Points, Alike
    <3> QED BY <3>1, AtPlace
  <2> QED BY <2>1, <2>2 DEF Same, Stored
<1>2. IsDps(q) /\ Len(q) = Len(dps)
  BY <1>1, DpsLike DEF Points
<1>3. Points(q, first)
  BY <1>1, <1>2 DEF Points
<1>4. Updated(q, dps, lines)
  BY <1>1 DEF Updated
<1> QED BY <1>3, <1>4

\* A poll of a file whose lines stay stores what stands in each place, and
\* nothing behind the last of them.
LEMMA PollPoints ==
    ASSUME NEW kind \in Kinds, NEW lines, NEW first, Alike(lines, first), Shaped(kind, first),
           NEW n, kind \in CountsLines => n = Len(first), NEW dps, Points(dps, first),
           NEW r \in Poll(kind, dps, lines, n)
    PROVE  Points(r.dps, first) /\ Updated(r.dps, dps, lines) /\ ~r.over
<1>1. /\ LinesOk(lines) /\ LinesOk(first) /\ Len(lines) = Len(first)
      /\ ReadLines(lines, Len(first)) = lines /\ Places(lines) = Places(first)
  BY AllRead, SamePlaces DEF Alike
<1>2. /\ DOMAIN dps = 1 .. Len(dps) /\ Len(dps) \in Nat
      /\ \A j \in 1 .. Len(dps) :
            /\ InPlace(dps[j].at, first) /\ Fields \subseteq DOMAIN dps[j]
            /\ dps[j].name = NameOf(first, dps[j].at)
  BY <1>1, InSeq, PlaceIn DEF Points, IsDps, IsSeq
<1>3. PICK v, k :
         /\ r.dps = Polled(kind, dps, lines, n, v, k)
         /\ kind = "stat" => v \in StatVals(lines, n)
         /\ r.over => (kind = "stat" /\ Len(v) > Len(dps))
  BY PollIs
<1>4. ASSUME NEW j \in 1 .. Len(dps)
      PROVE  Same([dps[j] EXCEPT !.name = At(lines, dps[j].at).name], dps[j])
  <2>1. At(lines, dps[j].at).name = dps[j].name
    BY <1>2, AtPlace
  <2> HIDE DEF Points
  <2> QED BY <1>2, <2>1, RenameLemma DEF Same
<1>5. \A j \in 1 .. Len(dps) : Same(dps[j], dps[j])
  BY <1>2 DEF Same
<1>6. \A dp, v1 : Fields \subseteq DOMAIN dp => Stored(dtop_store_dp(dp, v1, k), dp, v1)
  BY StoreLemma
<1>7. CASE kind = "dual"
  <2> DEFINE q == dtop_dual_line_poll(dps, lines, n, k)
             lns == ReadLines(lines, n)
             Found(at) == {p \in 1 .. n : lns[p].name = lns[at[1]].name /\ at[2] \in DOMAIN lns[p].vals}
             LastOf(at) == CHOOSE p \in Found(at) : \A p2 \in Found(at) : p2 <= p
             Named(j) == [dps[j] EXCEPT !.name = At(lns, dps[j].at).name]
             Val(j) == lns[LastOf(dps[j].at)].vals[dps[j].at[2]]
             Body(j) == IF Found(dps[j].at) = {} THEN Named(j) ELSE dtop_store_dp(Named(j), Val(j), k)
  <2>1. q = [j \in DOMAIN dps |-> Body(j)]
    BY Zenon DEF dtop_dual_line_poll
  <2>2. lns = lines /\ n = Len(first) /\ n \in Nat
    BY <1>1, <1>7 DEF CountsLines, LinesOk, IsSeq
  <2>3. ASSUME NEW j \in 1 .. Len(dps)
        PROVE  Same(Named(j), dps[j]) /\ Stored(Body(j), Named(j), Stands(lines, dps[j].at))
    <3> DEFINE at == dps[j].at
    <3>1. Same(Named(j), dps[j])
      BY <1>4, <2>2
    <3>2. at[1] \in 1 .. n /\ at[2] \in DOMAIN lines[at[1]].vals
      BY <1>2, <2>2, AtPlace
    <3>3. \A p \in 1 .. n : lines[p].name = lines[at[1]].name => p = at[1]
      BY <2>2, <3>2 DEF Alike, Shaped, Unalike
    <3> HIDE DEF lns, at
    <3>4. Found(at) = {at[1]}
      BY <2>2, <3>2, <3>3
    <3>5. at[1] <= at[1]
      BY <2>2, <3>2
    <3> HIDE DEF Found
    <3>6. LastOf(at) = at[1]
      BY <3>4, <3>5
    <3> HIDE DEF LastOf
    <3>7. Val(j) = Stands(lines, at)
      BY <2>2, <3>6 DEF Stands, at
    <3> HIDE DEF Val, Named
    <3>8. Body(j) = dtop_store_dp(Named(j), Stands(lines, at), k)
      BY <3>4, <3>7 DEF at
    <3> QED BY <1>6, <3>1, <3>8 DEF Same, at
  <2> HIDE DEF Body, q, Named
  <2>4. \A j \in 1 .. Len(dps) : q[j] = Body(j)
    BY <1>2, <2>1
  <2>5. q = [j \in DOMAIN dps |-> q[j]]
    BY <2>1
  <2>6. \A j \in 1 .. Len(dps) : \E dp : Same(dp, dps[j]) /\ Stored(q[j], dp, Stands(lines, dps[j].at))
    BY <2>3, <2>4
  <2>7. Points(q, first) /\ Updated(q, dps, lines)
    BY <2>5, <2>6, UpdatedLemma
  <2>8. r.dps = q /\ ~r.over
    BY <1>3, <1>7, PolledIs DEF q
  <2> QED BY <2>7, <2>8
<1>8. CASE kind \in {"single", "meminfo"}
  <2> DEFINE q == ByName(dps, lines, n, k)
             lns == ReadLines(lines, n)
             FirstOf(name) == CHOOSE p \in 1 .. n :
                       /\ lns[p].name = name
                       /\ \A p2 \in 1 .. p - 1 : lns[p2].name # name
             Named(j) == [dps[j] EXCEPT !.name = At(lns, dps[j].at).name]
             Val(j) == lns[FirstOf(lns[dps[j].at[1]].name)].vals[1]
             Body(j) == dtop_store_dp(Named(j), Val(j), k)
  <2>1. q = [j \in DOMAIN dps |-> Body(j)]
    BY Zenon DEF ByName
  <2>2. lns = lines /\ n = Len(first) /\ n \in Nat
    BY <1>1, <1>8 DEF CountsLines, LinesOk, IsSeq
  <2>3. ASSUME NEW j \in 1 .. Len(dps)
        PROVE  Same(Named(j), dps[j]) /\ Stored(Body(j), Named(j), Stands(lines, dps[j].at))
    <3> DEFINE at == dps[j].at
    <3>1. Same(Named(j), dps[j])
      BY <1>4, <2>2
    <3>2. at[1] \in 1 .. n /\ at[2] \in 1 .. Len(first[at[1]].vals)
      BY <1>2, <2>2, AtPlace
    <3>3. \A p \in 1 .. n : lines[p].name = lines[at[1]].name => p = at[1]
      BY <2>2, <3>2 DEF Alike, Shaped, Unalike
    <3> HIDE DEF lns, at
    <3>4. at[2] = 1
      <4>1. \A p \in 1 .. Len(first) : Len(first[p].vals) = 1
        BY <1>8 DEF Shaped
      <4>2. Len(first[at[1]].vals) = 1
        BY <2>2, <3>2, <4>1
      <4> QED BY <3>2, <4>2
    <3>5. FirstOf(lns[at[1]].name) = at[1]
      <4>1. \A p \in 1 .. n : (/\ lns[p].name = lns[at[1]].name
                               /\ \A p2 \in 1 .. p - 1 : lns[p2].name # lns[at[1]].name) <=> p = at[1]
        BY <2>2, <3>2, <3>3
      <4> QED BY <3>2, <4>1
    <3> HIDE DEF FirstOf
    <3>6. Val(j) = Stands(lines, at)
      BY <2>2, <3>4, <3>5 DEF Stands, at
    <3> HIDE DEF Val, Named
    <3>7. Body(j) = dtop_store_dp(Named(j), Stands(lines, at), k)
      BY <3>6 DEF at
    <3> QED BY <1>6, <3>1, <3>7 DEF Same, at
  <2> HIDE DEF Body, q, Named
  <2>4. \A j \in 1 .. Len(dps) : q[j] = Body(j)
    BY <1>2, <2>1
  <2>5. q = [j \in DOMAIN dps |-> q[j]]
    BY <2>1
  <2>6. \A j \in 1 .. Len(dps) : \E dp : Same(dp, dps[j]) /\ Stored(q[j], dp, Stands(lines, dps[j].at))
    BY <2>3, <2>4
  <2>7. Points(q, first) /\ Updated(q, dps, lines)
    BY <2>5, <2>6, UpdatedLemma
  <2>8. r.dps = q /\ ~r.over
    BY <1>3, <1>8, PolledIs DEF q
  <2> QED BY <2>7, <2>8
<1>9. CASE kind = "dev"
  <2> DEFINE q == dtop_dev_poll(dps, lines, n, k)
             Cell(j) == At(ReadLines(lines, n), dps[j].at)
             Named(j) == [dps[j] EXCEPT !.name = Cell(j).name]
             Body(j) == dtop_store_dp(Named(j), Cell(j).val, k)
  <2>1. q = [j \in DOMAIN dps |-> Body(j)]
    BY Zenon DEF dtop_dev_poll
  <2>2. \A j : Cell(j) = At(lines, dps[j].at)
    BY <1>1, <1>9 DEF CountsLines
  <2>3. \A j \in 1 .. Len(dps) : Cell(j).val = Stands(lines, dps[j].at)
    BY <1>2, <2>2, AtPlace
  <2>4. \A j \in 1 .. Len(dps) : Same(Named(j), dps[j])
    BY <1>4, <2>2
  <2> HIDE DEF Cell, Named
  <2>5. \A j \in 1 .. Len(dps) : Stored(Body(j), Named(j), Stands(lines, dps[j].at))
    BY <1>6, <2>3, <2>4 DEF Same
  <2> HIDE DEF Body, q
  <2>6. \A j \in 1 .. Len(dps) : q[j] = Body(j)
    BY <1>2, <2>1
  <2>7. q = [j \in DOMAIN dps |-> q[j]]
    BY <2>1
  <2>8. \A j \in 1 .. Len(dps) : \E dp : Same(dp, dps[j]) /\ Stored(q[j], dp, Stands(lines, dps[j].at))
    BY <2>4, <2>5, <2>6
  <2>9. Points(q, first) /\ Updated(q, dps, lines)
    BY <2>7, <2>8, UpdatedLemma
  <2>10. r.dps = q /\ ~r.over
    BY <1>3, <1>9, PolledIs DEF q
  <2> QED BY <2>9, <2>10
<1>10. CASE kind \in {"gen", "cpu"}
  <2> DEFINE q == ByField(dps, lines, k)
             Body(j) == dtop_store_dp(dps[j], At(lines, dps[j].at).val, k)
  <2>1. q = [j \in DOMAIN dps |-> Body(j)]
    BY Zenon DEF ByField
  <2>2. \A j \in 1 .. Len(dps) : At(lines, dps[j].at).val = Stands(lines, dps[j].at)
    BY <1>2, AtPlace
  <2>3. \A j \in 1 .. Len(dps) : Stored(Body(j), dps[j], Stands(lines, dps[j].at))
    BY <1>2, <1>6, <2>2
  <2> HIDE DEF Body, q
  <2>4. \A j \in 1 .. Len(dps) : q[j] = Body(j)
    BY <1>2, <2>1
  <2>5. q = [j \in DOMAIN dps |-> q[j]]
    BY <2>1
  <2>6. \A j \in 1 .. Len(dps) : \E dp : Same(dp, dps[j]) /\ Stored(q[j], dp, Stands(lines, dps[j].at))
    BY <1>5, <2>3, <2>4
  <2>7. Points(q, first) /\ Updated(q, dps, lines)
    BY <2>5, <2>6, UpdatedLemma
  <2>8. r.dps = q /\ ~r.over
    BY <1>3, <1>10, PolledIs DEF q
  <2> QED BY <2>7, <2>8
<1>11. CASE kind = "stat"
  <2> DEFINE q == dtop_stat_poll(dps, v, k)
             Body(j) == IF j \in DOMAIN v THEN dtop_store_dp(dps[j], v[j], k) ELSE dps[j]
  <2>1. q = [j \in DOMAIN dps |-> Body(j)]
    BY Zenon DEF dtop_stat_poll
  <2>2. v = ValuesOf(lines)
    <3>1. n = Len(lines) /\ Len(lines) \in Nat /\ DOMAIN lines = 1 .. Len(lines)
      BY <1>1, <1>11, InSeq DEF CountsLines, LinesOk, IsSeq
    <3>2. StatVals(lines, n) = {ValuesOf(lines)}
      <4>1. (IF n < Len(lines) THEN n ELSE Len(lines)) = Len(lines) /\ n <= Len(lines)
        BY <3>1
      <4> QED BY <3>1, <4>1 DEF StatVals, ValuesOf
    <3> QED BY <1>3, <1>11, <3>2
  <2>3. Standing(Places(first), v, lines)
    BY <1>1, <2>2, PlacesLemma
  <2>4. Len(v) = Len(dps) /\ DOMAIN v = 1 .. Len(dps)
    BY <2>3, InSeq DEF Standing, Points
  <2>5. \A j \in 1 .. Len(dps) : v[j] = Stands(lines, dps[j].at)
    <3> TAKE j \in 1 .. Len(dps)
    <3>1. dps[j].at = Places(first)[j] /\ j \in 1 .. Len(Places(first))
      BY DEF Points
    <3>2. PICK p \in 1 .. Len(lines) : \E c \in 1 .. Len(lines[p].vals) :
             Places(first)[j] = <<p, c>> /\ v[j] = lines[p].vals[c]
      BY <2>3, <3>1 DEF Standing
    <3> QED BY <3>1, <3>2 DEF Stands
  <2>6. \A j \in 1 .. Len(dps) : Stored(Body(j), dps[j], Stands(lines, dps[j].at))
    BY <1>2, <1>6, <2>4, <2>5
  <2> HIDE DEF Body, q
  <2>7. \A j \in 1 .. Len(dps) : q[j] = Body(j)
    BY <1>2, <2>1
  <2>8. q = [j \in DOMAIN dps |-> q[j]]
    BY <2>1
  <2>9. \A j \in 1 .. Len(dps) : \E dp : Same(dp, dps[j]) /\ Stored(q[j], dp, Stands(lines, dps[j].at))
    BY <1>5, <2>6, <2>7
  <2>10. Points(q, first) /\ Updated(q, dps, lines)
    BY <2>8, <2>9, UpdatedLemma
  <2>11. r.dps = q
    BY <1>3, <1>11, PolledIs DEF q
  <2>12. ~r.over
    BY <1>2, <1>3, <2>4
  <2> QED BY <2>10, <2>11, <2>12
<1> QED BY <1>7, <1>8, <1>9, <1>10, <1>11 DEF Kinds

-----------------------------------------------------------------------------
(***************************************************************************)
(* The groups: registered once, polled while their lines stay, written to  *)
(* the columns they were announced in, and freed.                          *)
(***************************************************************************)

\* Before the CSV file has its header.
Early == pc \in {"parse", "init", "search", "terminal", "csv"} \/ (pc = "poll" /\ back = "terminal")
\* After it, as long as rows are written.
Written == pc \in {"loop", "select", "scan", "write"} \/ (pc = "poll" /\ back = "write")

\* A group is looked for once, and polled only if it was found.
WalkInv ==
    /\ Distinct(list) /\ todo \in Seq(Groups)
    /\ pc \in {"parse", "init", "search"} =>
          /\ IsInjective(todo) /\ ~wasReset
          /\ \A j \in DOMAIN todo, k \in DOMAIN list : todo[j] # list[k]
    /\ pc = "parse" => list = <<>>
    /\ pc = "search" => todo # <<>> /\ Kind[Head(todo)] \in CountsLines
    /\ pc = "poll" => Range(todo) \subseteq Range(list)

\* Memory holds the groups of the list, until the run ends.
MemInv ==
    /\ mem = Holding(list) \/ (pc = "exit" /\ mem = Holding(<<>>))
    /\ Early => header = <<>>
    /\ pc = "exit" /\ (header # <<>> \/ ~opts.print_csv) => mem = Holding(<<>>)

\* A file whose lines have not moved has those it had first.
FileInv ==
    /\ file \in [Groups -> [open : BOOLEAN, lines : Seq(Line)]] /\ moved \subseteq Groups
    /\ \A g \in Groups \ moved : Alike(file[g].lines, FirstLines[g])

\* The data points of such a file are those of its lines.
GroupInv ==
    /\ DOMAIN grp = Groups /\ DOMAIN seen = Groups /\ DOMAIN base = Groups
    /\ count \in [Groups -> Nat]
    /\ \A g \in Range(list) : IsDps(grp[g])
    /\ \A g \in Range(list) \ moved :
          /\ Points(grp[g], FirstLines[g])
          /\ Kind[g] \in CountsLines => count[g] = Len(FirstLines[g])
    /\ pc = "search" /\ Head(todo) \notin moved =>
          count[Head(todo)] = Len(FirstLines[Head(todo)])
    /\ heap = "ok" \/ (heap = "overrun" /\ \E g \in moved : Kind[g] = "stat")

\* They hold what the last good poll read, and as a baseline what the first
\* good one since the last reset did.
SeenRow(first, dps, sn, bs, known) ==
    /\ sn # <<>> =>
          /\ Alike(sn, first)
          /\ \A j \in 1 .. Len(dps) : dps[j].data = Stands(sn, dps[j].at)
    /\ bs # <<>> => sn # <<>>
    /\ known =>
          \A j \in 1 .. Len(dps) :
             IF bs = <<>> THEN ~dps[j].pop ELSE dps[j].pop /\ dps[j].init = bs[j]
SeenOk(g) == SeenRow(FirstLines[g], grp[g], seen[g], base[g], FlagKnown(g))

SeenInv ==
    /\ \A g \in Range(list) \ moved : SeenOk(g)
    /\ \A g \in Groups \ Range(list) : seen[g] = <<>> /\ base[g] = <<>>

\* The header announces the data points of the groups in turn.
HeaderOf(hs) ==
    /\ SeqsOf(hs) /\ Len(hs) = Len(list) /\ header = FlattenSeq(hs)
    /\ \A i \in 1 .. Len(list) :
          /\ Len(hs[i]) = Len(grp[list[i]])
          /\ \A j \in 1 .. Len(hs[i]) :
                /\ hs[i][j].group = list[i]
                /\ list[i] \notin moved =>
                      hs[i][j].name = NameOf(FirstLines[list[i]], Places(FirstLines[list[i]])[j])

RowNow == FlattenSeq([i \in DOMAIN list |-> Row(grp[list[i]])])

CsvInv ==
    /\ Written => \E hs : HeaderOf(hs)
    /\ Early \/ pc = "header" => row = <<>>
    /\ pc = "loop" => row = <<>> \/ row = RowNow

DataInv == WalkInv /\ MemInv /\ FileInv /\ GroupInv /\ SeenInv /\ CsvInv

\* Steps that leave the groups and the CSV file alone.
Calm ==
    /\ UNCHANGED <<envVars, groupVars, csvVars, wasReset, opts>>
    /\ \/ UNCHANGED <<pc, todo, back>>
       \/ /\ pc # "exit"
          /\ pc' \notin {"parse", "init", "search", "exit", "loop"} /\ todo' \in {todo, list}
          /\ pc' = "poll" => todo' = list
          /\ Early' \/ pc' = "header" => Early
          /\ Written' => Written

Steady == ParseArgs \/ CountLines \/ SearchFile \/ PollGroup \/ OpenCsv \/ WriteHeader \/ WriteRow
          \/ Command \/ deconstruct_dpgs

\* The steps of main() that are such.
LEMMA MainCalm ==
    ASSUME Main, ~Steady, back \in Backs, WalkInv
    PROVE  Calm
<1> USE DEF Calm, Early, Written, Steady, Backs, csvVars
<1>1. CASE InitDone \/ PollCrash \/ PollDone \/ dtop_print_terminal
  BY <1>1 DEF InitDone, PollCrash, PollDone, dtop_print_terminal, Walk, ttyVars
<1>2. CASE LoopTest \/ SelectInput \/ SelectTimeout
  BY <1>2 DEF LoopTest, SelectInput, SelectTimeout, Walk, ttyVars
<1>3. CASE Quit \/ QuitCrash \/ ShowTotal \/ CloseCsv
  BY <1>3 DEF Quit, QuitCrash, ShowTotal, CloseCsv, Walk, ttyVars
<1>4. CASE Fork \/ Child \/ WaitPid \/ AfterSnapshot \/ Sleep
  BY <1>4 DEF Fork, Child, WaitPid, AfterSnapshot, Sleep, Walk, ttyVars, dtop_print_system_snapshot
<1>5. CASE Leave
  BY <1>5 DEF Leave, mainVars, ttyVars
<1> QED BY <1>1, <1>2, <1>3, <1>4, <1>5 DEF Main

\* They keep the invariant.
LEMMA CalmKeeps ==
    ASSUME DataInv, Calm
    PROVE  DataInv'
<1> USE DEF DataInv, Calm, envVars, groupVars, csvVars
<1>1. WalkInv'
  BY DEF WalkInv, Distinct
<1>2. MemInv'
  BY DEF MemInv, Early
<1>3. FileInv'
  BY DEF FileInv
<1>4. GroupInv'
  BY DEF GroupInv
<1>5. SeenInv'
  BY DEF SeenInv, SeenOk, FlagKnown
<1>6. CsvInv'
  BY DEF CsvInv, HeaderOf, RowNow, Early, Written
<1> QED BY <1>1, <1>2, <1>3, <1>4, <1>5, <1>6

\* What each kind of step leaves of the invariant to be shown.
LEMMA EmptyHeld == Holding(<<>>) = [g \in Groups |-> Gone] /\ Range(<<>>) = {}
<1>1. Range(<<>>) = {}
  BY DEF Range
<1> QED BY <1>1 DEF Holding

\* dtop_parse_cli_opts: the groups to look for are distinct, and none is there.
LEMMA ParseKeeps ==
    ASSUME DataInv, ParseArgs, setup \in Setups
    PROVE  DataInv'
<1>1. /\ pc = "parse" /\ list = <<>> /\ UNCHANGED <<envVars, groupVars, csvVars, back, wasReset>>
      /\ \/ pc' = "init" /\ todo' = setup.groups
         \/ pc' = "exit" /\ todo' = todo
  BY DEF ParseArgs, DataInv, WalkInv, Exit, ttyVars
<1>2. setup.groups \in Seq(Groups) /\ IsInjective(setup.groups)
  BY DatatopAssumption
<1> USE <1>1 DEF DataInv, envVars, groupVars, csvVars
<1>3. WalkInv'
  BY <1>2 DEF WalkInv, Distinct
<1>4. MemInv'
  BY DEF MemInv, Early
<1>5. FileInv'
  BY DEF FileInv
<1>6. GroupInv'
  BY DEF GroupInv
<1>7. SeenInv'
  BY DEF SeenInv, SeenOk, FlagKnown
<1>8. CsvInv'
  BY DEF CsvInv, HeaderOf, RowNow, Early, Written
<1> QED BY <1>3, <1>4, <1>5, <1>6, <1>7, <1>8

\* The lines of a file are sequences of values.
LEMMA LineLinesOk == ASSUME NEW lines \in Seq(Line) PROVE LinesOk(lines)
<1>1. \A T, s : s \in Seq(T) => IsSeq(s)
  BY DEF IsSeq
<1>2. \A p \in 1 .. Len(lines) : lines[p] \in Line
  OBVIOUS
<1>3. \A l \in Line : l.vals \in Seq(Value)
  BY DEF Line
<1>4. \A p \in 1 .. Len(lines) : IsSeq(lines[p].vals)
  BY <1>1, <1>2, <1>3
<1> QED BY <1>1, <1>4 DEF LinesOk

\* dtop_get_file_line_amount: what is counted is what the file had first, unless
\* its lines have moved.
LEMMA CountKeeps ==
    ASSUME DataInv, CountLines
    PROVE  DataInv'
<1> DEFINE g == Head(todo)
<1>1. /\ pc = "init" /\ todo # <<>> /\ Kind[g] \in CountsLines
      /\ \/ count' = [count EXCEPT ![g] = Len(file[g].lines)] /\ pc' = "search"
         \/ pc' = "crashed" /\ UNCHANGED count
      /\ UNCHANGED <<opts, todo, back, envVars, grp, list, mem, heap, seen, base, csvVars, wasReset>>
  BY DEF CountLines, ttyVars
<1>2. g \in Groups /\ g \notin Range(list)
  <2>1. todo \in Seq(Groups) /\ g = todo[1] /\ 1 \in DOMAIN todo
    BY <1>1 DEF DataInv, WalkInv
  <2> QED BY <1>1, <2>1 DEF DataInv, WalkInv, Range
<1>3. file[g].lines \in Seq(Line) /\ count \in [Groups -> Nat]
  BY <1>2 DEF DataInv, FileInv, GroupInv
<1> HIDE DEF g
<1>4. count' \in [Groups -> Nat] /\ \A d \in Groups : d # g => count'[d] = count[d]
  BY <1>1, <1>2, <1>3
<1>5. pc' = "search" /\ g \notin moved => count'[g] = Len(FirstLines[g])
  BY <1>1, <1>2, <1>3 DEF DataInv, FileInv, Alike
<1> USE <1>1 DEF DataInv, envVars, csvVars
<1>6. WalkInv'
  BY DEF WalkInv, Distinct, g
<1>7. MemInv'
  BY DEF MemInv, Early
<1>8. FileInv'
  BY DEF FileInv
<1>9. GroupInv'
  <2>1. Range(list) \subseteq Groups
    BY DEF WalkInv, Distinct, Range
  <2>2. \A d \in Range(list) \ moved : Kind[d] \in CountsLines => count'[d] = Len(FirstLines[d])
    BY <1>2, <1>4, <2>1 DEF GroupInv
  <2> QED BY <1>4, <1>5, <2>2 DEF GroupInv, g
<1>10. SeenInv'
  BY DEF SeenInv, SeenOk, FlagKnown
<1>11. CsvInv'
  BY DEF CsvInv, HeaderOf, RowNow, Early, Written
<1> QED BY <1>6, <1>7, <1>8, <1>9, <1>10, <1>11

\* The CSV file is opened, or main() exits.
LEMMA OpenKeeps ==
    ASSUME DataInv, OpenCsv
    PROVE  DataInv'
<1>1. /\ pc = "csv" /\ UNCHANGED <<opts, todo, back, envVars, groupVars, csvVars, wasReset>>
      /\ pc' \in {"snap", "header"} \/ (pc' = "exit" /\ opts.print_csv)
  BY DEF OpenCsv, Exit, ttyVars
<1> USE <1>1 DEF DataInv, envVars, groupVars, csvVars
<1>2. WalkInv'
  BY DEF WalkInv, Distinct
<1>3. MemInv'
  BY DEF MemInv, Early
<1>4. FileInv'
  BY DEF FileInv
<1>5. GroupInv'
  BY DEF GroupInv
<1>6. SeenInv'
  BY DEF SeenInv, SeenOk, FlagKnown
<1>7. CsvInv'
  BY DEF CsvInv, HeaderOf, RowNow, Early, Written
<1> QED BY <1>2, <1>3, <1>4, <1>5, <1>6, <1>7

\* deconstruct_dpgs frees what the list holds, once.
LEMMA FreeKeeps ==
    ASSUME DataInv, deconstruct_dpgs
    PROVE  DataInv'
<1>1. /\ pc \in {"free", "fail"} /\ pc' = "exit"
      /\ mem' = FoldLeft(FreeGroup, mem, list)
      /\ UNCHANGED <<opts, todo, back, envVars, count, grp, list, heap, seen, base, csvVars, wasReset>>
  BY DEF deconstruct_dpgs, Exit
<1>2. mem' = Holding(<<>>)
  <2>1. mem = Holding(list) /\ Distinct(list)
    BY <1>1 DEF DataInv, MemInv, WalkInv
  <2> QED BY <1>1, <2>1, FreedAll
<1> USE <1>1 DEF DataInv, envVars, csvVars
<1>3. WalkInv'
  BY DEF WalkInv, Distinct
<1>4. MemInv'
  BY <1>2 DEF MemInv, Early
<1>5. FileInv'
  BY DEF FileInv
<1>6. GroupInv'
  BY DEF GroupInv
<1>7. SeenInv'
  BY DEF SeenInv, SeenOk, FlagKnown
<1>8. CsvInv'
  BY DEF CsvInv, HeaderOf, RowNow, Early, Written
<1> QED BY <1>3, <1>4, <1>5, <1>6, <1>7, <1>8

\* The elements of a sequence of groups are groups.
LEMMA GroupsOfSeq == ASSUME NEW s \in Seq(Groups) PROVE Range(s) \subseteq Groups
<1>1. \A i \in DOMAIN s : s[i] \in Groups
  OBVIOUS
<1> QED BY <1>1 DEF Range

\* A search registers a new group, with its blocks and its unpolled data points.
LEMMA SearchKeeps ==
    ASSUME DataInv, SearchFile
    PROVE  DataInv'
<1> DEFINE g == Head(todo)
<1>0. todo # <<>> /\ todo \in Seq(Groups)
  BY DEF SearchFile, DataInv, WalkInv
<1>1. /\ pc \in {"init", "search"} /\ pc' = "init" /\ todo' = Tail(todo)
      /\ pc = "search" \/ Kind[g] \notin CountsLines
      /\ UNCHANGED <<opts, back, envVars, count, heap, seen, base, csvVars, wasReset>>
      /\ \/ UNCHANGED <<grp, list, mem>>
         \/ /\ Readable(g) \/ Kind[g] = "cpu"
            /\ \E dps \in Search(Kind[g], file[g].lines, count[g]) : dtop_register(g, dps)
  BY DEF SearchFile, ttyVars
<1>2. /\ g \in Groups /\ g \notin Range(list) /\ Kind[g] \in Kinds
      /\ todo' \in Seq(Groups) /\ IsInjective(todo')
      /\ \A j \in DOMAIN todo' : todo'[j] # g /\ todo'[j] \notin Range(list)
  <2>1. 1 \in DOMAIN todo /\ g = todo[1] /\ Tail(todo) \in Seq(Groups)
    BY <1>0
  <2>2. DOMAIN Tail(todo) = 1 .. Len(todo) - 1 /\ \A j \in 1 .. Len(todo) - 1 : Tail(todo)[j] = todo[j + 1]
    BY <1>0
  <2>3. /\ IsInjective(todo) /\ \A j \in DOMAIN todo, k \in DOMAIN list : todo[j] # list[k]
    BY <1>1 DEF DataInv, WalkInv
  <2>4. \A j \in DOMAIN todo : todo[j] \notin Range(list)
    BY <2>3 DEF Range
  <2>5. DOMAIN todo = 1 .. Len(todo) /\ Len(todo) \in Nat
    BY <1>0
  <2>6. IsInjective(Tail(todo))
    BY <2>2, <2>3, <2>5 DEF IsInjective
  <2>7. \A j \in 1 .. Len(todo) - 1 : todo[j + 1] # todo[1] /\ j + 1 \in DOMAIN todo
    BY <2>1, <2>3, <2>5 DEF IsInjective
  <2>8. g \in Groups /\ Kind[g] \in Kinds
    BY <1>0, <2>1, DatatopAssumption
  <2> QED BY <1>1, <2>1, <2>2, <2>4, <2>6, <2>7, <2>8
<1> HIDE DEF g
<1>3. CASE UNCHANGED <<grp, list, mem>>
  <2> USE <1>1, <1>3 DEF DataInv, envVars, csvVars
  <2>1. WalkInv'
    BY <1>2 DEF WalkInv, Distinct, Range
  <2>2. MemInv'
    BY DEF MemInv, Early
  <2>3. FileInv'
    BY DEF FileInv
  <2>4. GroupInv'
    BY DEF GroupInv
  <2>5. SeenInv'
    BY DEF SeenInv, SeenOk, FlagKnown
  <2>6. CsvInv'
    BY DEF CsvInv, HeaderOf, RowNow, Early, Written
  <2> QED BY <2>1, <2>2, <2>3, <2>4, <2>5, <2>6
<1>4. ASSUME NEW dps \in Search(Kind[g], file[g].lines, count[g]), dtop_register(g, dps)
      PROVE  DataInv'
  <2>1. /\ grp' = [grp EXCEPT ![g] = dps] /\ list' = <<g>> \o list
        /\ mem' = [mem EXCEPT ![g].live = Blocks(Kind[g])]
    BY <1>4 DEF dtop_register
  <2>2. Distinct(list) /\ DOMAIN list = 1 .. Len(list) /\ Len(list) \in Nat
    BY DEF DataInv, WalkInv, Distinct
  <2>3. /\ list' \in Seq(Groups) /\ Len(list') = Len(list) + 1 /\ DOMAIN list' = 1 .. Len(list) + 1
        /\ list'[1] = g /\ \A i \in 2 .. Len(list) + 1 : list'[i] = list[i - 1] /\ i - 1 \in DOMAIN list
    <3> DEFINE h == <<g>>
    <3>1. h \in Seq(Groups) /\ Len(h) = 1 /\ h[1] = g /\ list \in Seq(Groups)
      BY <1>2, <2>2 DEF Distinct
    <3>2. list' = h \o list
      BY <2>1
    <3> HIDE DEF h
    <3> DEFINE u == h \o list
    <3>3. /\ u \in Seq(Groups) /\ Len(u) = Len(h) + Len(list)
          /\ \A i \in 1 .. Len(h) + Len(list) : u[i] = IF i <= Len(h) THEN h[i] ELSE list[i - Len(h)]
      BY <3>1, ConcatProperties
    <3>4. list' = u
      BY <3>2
    <3> HIDE DEF u
    <3>5. DOMAIN u = 1 .. Len(u)
      BY <3>3
    <3> QED BY <2>2, <3>1, <3>3, <3>4, <3>5
  <2>4. Range(list') = Range(list) \cup {g}
    <3>1. \A x \in Range(list') : x = g \/ x \in Range(list)
      BY <2>3 DEF Range
    <3>2. g \in Range(list')
      BY <2>2, <2>3 DEF Range
    <3>3. \A i \in DOMAIN list : list'[i + 1] = list[i] /\ i + 1 \in DOMAIN list'
      BY <2>2, <2>3
    <3>4. \A x \in Range(list) : x \in Range(list')
      BY <3>3 DEF Range
    <3> QED BY <3>1, <3>2, <3>4
  <2>5. IsInjective(list')
    <3> SUFFICES ASSUME NEW i \in 1 .. Len(list) + 1, NEW j \in 1 .. Len(list) + 1, list'[i] = list'[j]
                 PROVE  i = j
      BY <2>3 DEF IsInjective
    <3>1. CASE i = 1 /\ j = 1
      BY <3>1
    <3>2. CASE i # 1 /\ j # 1
      BY <2>2, <2>3, <3>2 DEF Distinct, IsInjective
    <3>3. CASE i = 1 /\ j # 1
      BY <1>2, <2>3, <3>3 DEF Range
    <3>4. CASE i # 1 /\ j = 1
      BY <1>2, <2>3, <3>4 DEF Range
    <3> QED BY <3>1, <3>2, <3>3, <3>4
  <2>6. file[g].lines \in Seq(Line) /\ LinesOk(file[g].lines) /\ count[g] \in Nat
    BY <1>2, LineLinesOk DEF DataInv, FileInv, GroupInv
  <2>7. IsDps(dps)
    BY <1>2, <2>6, SearchDps
  <2>8. ASSUME g \notin moved
        PROVE  /\ Points(dps, FirstLines[g]) /\ (Kind[g] \in CountsLines => count[g] = Len(FirstLines[g]))
               /\ Kind[g] \notin {"single", "meminfo"} => \A j \in 1 .. Len(dps) : ~dps[j].pop
    <3>1. Alike(file[g].lines, FirstLines[g]) /\ Shaped(Kind[g], FirstLines[g])
      BY <1>2, <2>8, FileAssumption DEF DataInv, FileInv
    <3>2. Kind[g] \in CountsLines => count[g] = Len(FirstLines[g])
      BY <1>1, <2>8 DEF DataInv, GroupInv, g
    <3> QED BY <1>2, <3>1, <3>2, SearchPoints
  <2> USE <1>1, <2>1 DEF DataInv, envVars, csvVars
  <2>9. WalkInv'
    <3>1. \A j \in DOMAIN todo' : \A k \in DOMAIN list' : todo'[j] # list'[k]
      <4>1. \A k \in DOMAIN list' : list'[k] \in Range(list')
        BY DEF Range
      <4> QED BY <1>2, <2>4, <4>1
    <3> QED BY <1>2, <2>3, <2>5, <3>1 DEF WalkInv, Distinct
  <2>10. MemInv'
    <3>1. mem = Holding(list)
      BY DEF MemInv
    <3>2. mem' = Holding(list')
      <4>1. mem[g] = Gone
        BY <1>2, <3>1 DEF Holding
      <4>2. [mem[g] EXCEPT !.live = Blocks(Kind[g])] = Full(Kind[g])
        <5>1. \A o : [[live |-> {}, ok |-> o] EXCEPT !.live = Blocks(Kind[g])] = [live |-> Blocks(Kind[g]), ok |-> o]
          OBVIOUS
        <5> QED BY <4>1, <5>1 DEF Full, Gone
      <4>3. mem' = [mem EXCEPT ![g] = Full(Kind[g])]
        BY <4>2
      <4> QED BY <1>2, <2>4, <3>1, <4>3 DEF Holding
    <3> QED BY <3>2 DEF MemInv, Early
  <2>11. FileInv'
    BY DEF FileInv
  <2>12. DOMAIN grp = Groups /\ DOMAIN grp' = Groups /\ grp'[g] = dps
         /\ \A d \in Groups : d # g => grp'[d] = grp[d]
    BY <1>2 DEF GroupInv
  <2>13. Range(list) \subseteq Groups
    <3>1. list \in Seq(Groups)
      BY <2>2 DEF Distinct
    <3> QED BY <3>1, GroupsOfSeq, Zenon
  <2>14. GroupInv'
    <3>1. \A d \in Range(list') : IsDps(grp'[d])
      BY <2>4, <2>7, <2>12, <2>13 DEF GroupInv
    <3>2. \A d \in Range(list') \ moved :
             /\ Points(grp'[d], FirstLines[d])
             /\ Kind[d] \in CountsLines => count[d] = Len(FirstLines[d])
      BY <2>4, <2>8, <2>12, <2>13 DEF GroupInv
    <3> QED BY <2>12, <3>1, <3>2 DEF GroupInv
  <2>15. SeenInv'
    <3>1. seen[g] = <<>> /\ base[g] = <<>>
      BY <1>2 DEF SeenInv
    <3>2. \A d \in Range(list) \ moved : SeenOk(d)'
      BY <1>2, <2>12, <2>13 DEF SeenInv, SeenOk, FlagKnown
    <3>3. ASSUME NEW d, d = g, d \notin moved
          PROVE  SeenOk(d)'
      <4>1. FlagKnown(d) => \A j \in 1 .. Len(dps) : ~dps[j].pop
        <5>1. FlagKnown(d) => Kind[d] \notin {"single", "meminfo"}
          BY <1>1 DEF WalkInv, FlagKnown
        <5> QED BY <2>8, <3>3, <5>1
      <4>2. SeenRow(FirstLines[d], dps, <<>>, <<>>, FlagKnown(d))
        BY <4>1 DEF SeenRow
      <4>3. grp'[d] = dps /\ seen'[d] = <<>> /\ base'[d] = <<>>
        BY <2>12, <3>1, <3>3
      <4>4. wasReset' = wasReset
        OBVIOUS
      <4>5. SeenRow(FirstLines[d], grp'[d], seen'[d], base'[d], FlagKnown(d))
        BY <4>2, <4>3, Zenon
      <4>6. FlagKnown(d)' = FlagKnown(d)
        BY <4>4 DEF FlagKnown
      <4> QED BY <4>5, <4>6, Zenon DEF SeenOk
    <3>4. \A d \in Groups \ Range(list') : seen'[d] = <<>> /\ base'[d] = <<>>
      BY <2>4 DEF SeenInv
    <3>5. moved' = moved
      OBVIOUS
    <3>6. \A d \in Range(list') \ moved' : SeenOk(d)'
      BY <2>4, <3>2, <3>3, <3>5, Zenon
    <3> QED BY <3>4, <3>6, Zenon DEF SeenInv
  <2>16. CsvInv'
    BY DEF CsvInv, Early, Written
  <2> QED BY <2>9, <2>10, <2>11, <2>14, <2>15, <2>16
<1> QED BY <1>1, <1>3, <1>4

\* A good poll of a steady file makes its lines the ones that were read last,
\* and its row the baseline if there was none.
LEMMA SeenAfterPoll ==
    ASSUME NEW first, NEW lines, Alike(lines, first), lines # <<>>, NEW dps, NEW q,
           Points(dps, first), Points(q, first), Updated(q, dps, lines),
           NEW sn, NEW bs, NEW known \in BOOLEAN, SeenRow(first, dps, sn, bs, known)
    PROVE  SeenRow(first, q, lines, IF bs = <<>> THEN Row(q) ELSE bs, known)
<1> DEFINE b == IF bs = <<>> THEN Row(q) ELSE bs
<1>1. /\ Len(dps) = Len(q) /\ Len(q) \in Nat /\ DOMAIN q = 1 .. Len(q)
      /\ \A j \in 1 .. Len(q) : q[j].at = dps[j].at
  BY InSeq DEF Points, IsDps, IsSeq
<1>2. \A j \in 1 .. Len(q) : q[j].data = Stands(lines, q[j].at)
  BY <1>1 DEF Updated
<1>3. /\ \A j \in 1 .. Len(q) : Row(q)[j] = q[j].data
      /\ Len(q) # 0 => Row(q) # <<>>
  BY <1>1 DEF Row
<1>4. ASSUME known, NEW j \in 1 .. Len(q)
      PROVE  q[j].pop /\ b # <<>> /\ q[j].init = b[j]
  <2>1. q[j].pop /\ q[j].init = IF dps[j].pop THEN dps[j].init ELSE q[j].data
    BY <1>1, <1>4 DEF Updated
  <2>2. IF bs = <<>> THEN ~dps[j].pop ELSE dps[j].pop /\ dps[j].init = bs[j]
    BY <1>1, <1>4 DEF SeenRow
  <2>3. CASE bs = <<>>
    BY <1>1, <1>3, <2>1, <2>2, <2>3
  <2>4. CASE bs # <<>>
    BY <2>1, <2>2, <2>4
  <2> QED BY <2>3, <2>4
<1> HIDE DEF b
<1>5. SeenRow(first, q, lines, b, known)
  BY <1>2, <1>4 DEF SeenRow
<1> QED BY <1>5 DEF b

\* dtop_poll of one group.
LEMMA PollKeeps ==
    ASSUME DataInv, PollGroup
    PROVE  DataInv'
<1>1. PICK g : g = Head(todo)
  OBVIOUS
<1>2. /\ pc = "poll" /\ todo # <<>> /\ todo' = Tail(todo)
      /\ UNCHANGED <<pc, opts, back, envVars, count, list, mem, wasReset, csvVars>>
      /\ \/ /\ file[g].lines # <<>>
            /\ \E r \in Poll(Kind[g], grp[g], file[g].lines, count[g]) :
                  /\ grp' = [grp EXCEPT ![g] = r.dps]
                  /\ heap' = IF r.over THEN "overrun" ELSE heap
                  /\ seen' = [seen EXCEPT ![g] = file[g].lines]
                  /\ base' = [base EXCEPT ![g] = IF @ = <<>> THEN Row(r.dps) ELSE @]
         \/ UNCHANGED <<grp, heap, seen, base>>
  BY <1>1 DEF PollGroup, Readable
<1>3. /\ todo \in Seq(Groups) /\ Tail(todo) \in Seq(Groups) /\ Range(todo) \subseteq Range(list)
      /\ Distinct(list)
  BY <1>2 DEF DataInv, WalkInv, Distinct
<1>4. g \in Range(list) /\ Range(Tail(todo)) \subseteq Range(todo)
  <2>1. 1 \in DOMAIN todo /\ g = todo[1]
    BY <1>1, <1>2, <1>3
  <2>2. \A j \in DOMAIN Tail(todo) : Tail(todo)[j] = todo[j + 1] /\ j + 1 \in DOMAIN todo
    BY <1>2, <1>3
  <2>3. \A x \in Range(Tail(todo)) : x \in Range(todo)
    BY <2>2 DEF Range
  <2> QED BY <1>3, <2>1, <2>3 DEF Range
<1>5. Range(list) \subseteq Groups /\ g \in Groups /\ Kind[g] \in Kinds
  BY <1>3, <1>4, GroupsOfSeq, DatatopAssumption DEF Distinct
<1> USE DEF DataInv, envVars, csvVars
<1>6. WalkInv'
  BY <1>2, <1>3, <1>4 DEF WalkInv, Distinct
<1>7. MemInv'
  BY <1>2 DEF MemInv, Early
<1>8. FileInv'
  BY <1>2 DEF FileInv
<1>9. CASE UNCHANGED <<grp, heap, seen, base>>
  <2>1. GroupInv'
    BY <1>2, <1>9 DEF GroupInv
  <2>2. SeenInv'
    BY <1>2, <1>9 DEF SeenInv, SeenOk, FlagKnown
  <2>3. CsvInv'
    BY <1>2, <1>9 DEF CsvInv, HeaderOf, Early, Written
  <2> QED BY <1>6, <1>7, <1>8, <2>1, <2>2, <2>3
<1>10. ASSUME NEW r \in Poll(Kind[g], grp[g], file[g].lines, count[g]), file[g].lines # <<>>,
              grp' = [grp EXCEPT ![g] = r.dps],
              heap' = IF r.over THEN "overrun" ELSE heap,
              seen' = [seen EXCEPT ![g] = file[g].lines],
              base' = [base EXCEPT ![g] = IF @ = <<>> THEN Row(r.dps) ELSE @]
       PROVE  DataInv'
  <2>1. /\ DOMAIN grp = Groups /\ DOMAIN seen = Groups /\ DOMAIN base = Groups
        /\ IsDps(grp[g])
    BY <1>4 DEF GroupInv
  <2>2. /\ grp'[g] = r.dps /\ seen'[g] = file[g].lines
        /\ base'[g] = IF base[g] = <<>> THEN Row(r.dps) ELSE base[g]
        /\ \A d \in Groups : d # g => grp'[d] = grp[d] /\ seen'[d] = seen[d] /\ base'[d] = base[d]
        /\ DOMAIN grp' = Groups /\ DOMAIN seen' = Groups /\ DOMAIN base' = Groups
    BY <1>5, <1>10, <2>1
  <2>3. SameDps(grp[g], r.dps) /\ (Kind[g] # "stat" => ~r.over)
    BY <1>5, <2>1, PollKeepsDps
  <2>4. ASSUME g \notin moved
        PROVE  /\ Alike(file[g].lines, FirstLines[g]) /\ Points(grp[g], FirstLines[g])
               /\ Points(r.dps, FirstLines[g]) /\ Updated(r.dps, grp[g], file[g].lines) /\ ~r.over
    <3>1. Alike(file[g].lines, FirstLines[g]) /\ Shaped(Kind[g], FirstLines[g])
      BY <1>5, <2>4, FileAssumption DEF FileInv
    <3>2. Points(grp[g], FirstLines[g]) /\ (Kind[g] \in CountsLines => count[g] = Len(FirstLines[g]))
      BY <1>4, <2>4 DEF GroupInv
    <3> QED BY <1>5, <3>1, <3>2, PollPoints
  <2>5. GroupInv'
    <3>1. \A d \in Range(list) : IsDps(grp'[d])
      BY <1>5, <2>2, <2>3 DEF GroupInv, SameDps
    <3>2. \A d \in Range(list) \ moved :
             /\ Points(grp'[d], FirstLines[d])
             /\ Kind[d] \in CountsLines => count[d] = Len(FirstLines[d])
      BY <1>5, <2>2, <2>4 DEF GroupInv
    <3>3. heap' = "ok" \/ (heap' = "overrun" /\ \E d \in moved : Kind[d] = "stat")
      BY <1>10, <2>3, <2>4 DEF GroupInv
    <3>4. count \in [Groups -> Nat]
      BY DEF GroupInv
    <3> QED BY <1>2, <2>2, <3>1, <3>2, <3>3, <3>4 DEF GroupInv
  <2>6. SeenInv'
    <3>1. \A d \in Range(list) \ moved : SeenOk(d)
      BY DEF SeenInv
    <3>2. ASSUME NEW d \in Range(list), d \notin moved
          PROVE  SeenOk(d)'
      <4>1. FlagKnown(d)' = FlagKnown(d) /\ FlagKnown(d) \in BOOLEAN
        BY <1>2 DEF FlagKnown
      <4>2. CASE d # g
        <5>1. SeenRow(FirstLines[d], grp'[d], seen'[d], base'[d], FlagKnown(d))
          BY <1>5, <2>2, <3>1, <3>2, <4>2 DEF SeenOk
        <5> QED BY <4>1, <5>1, Zenon DEF SeenOk
      <4>3. CASE d = g
        <5>1. SeenRow(FirstLines[g], grp[g], seen[g], base[g], FlagKnown(g))
          BY <3>1, <3>2, <4>3 DEF SeenOk
        <5>2. SeenRow(FirstLines[g], r.dps, file[g].lines,
                      IF base[g] = <<>> THEN Row(r.dps) ELSE base[g], FlagKnown(g))
          BY <1>10, <2>4, <3>2, <4>1, <4>3, <5>1, SeenAfterPoll
        <5>3. SeenRow(FirstLines[d], grp'[d], seen'[d], base'[d], FlagKnown(d))
          BY <2>2, <4>3, <5>2, Zenon
        <5> QED BY <4>1, <5>3, Zenon DEF SeenOk
      <4> QED BY <4>2, <4>3
    <3>3. \A d \in Groups \ Range(list) : seen'[d] = <<>> /\ base'[d] = <<>>
      BY <1>4, <2>2 DEF SeenInv
    <3>4. moved' = moved /\ list' = list
      BY <1>2
    <3> QED BY <3>2, <3>3, <3>4, Zenon DEF SeenInv
  <2>7. CsvInv'
    <3>1. \A i \in 1 .. Len(list) : Len(grp'[list[i]]) = Len(grp[list[i]])
      <4>1. DOMAIN list = 1 .. Len(list)
        BY <1>3 DEF Distinct
      <4>2. \A i \in 1 .. Len(list) : list[i] \in Groups
        BY <1>3 DEF Distinct
      <4> QED BY <2>2, <2>3, <4>2 DEF SameDps
    <3>2. \A hs : HeaderOf(hs) => HeaderOf(hs)'
      BY <1>2, <3>1 DEF HeaderOf
    <3>3. Written' = Written /\ ((Early \/ pc = "header")' => Early \/ pc = "header") /\ pc' # "loop"
      BY <1>2 DEF Written, Early
    <3> QED BY <1>2, <3>2, <3>3 DEF CsvInv
  <2> QED BY <1>6, <1>7, <1>8, <2>5, <2>6, <2>7
<1> QED BY <1>2, <1>9, <1>10

\* i forgets every baseline.
LEMMA ResetDps ==
    ASSUME NEW dps, IsDps(dps), NEW q, q = dtop_reset_dp_initial_values(dps)
    PROVE  /\ SameDps(dps, q) /\ \A j \in 1 .. Len(dps) : ~q[j].pop /\ q[j].data = dps[j].data
           /\ \A first : Points(dps, first) => Points(q, first)
<1> DEFINE Body(j) == [dps[j] EXCEPT !.pop = FALSE]
<1>1. DOMAIN dps = 1 .. Len(dps) /\ Len(dps) \in Nat /\ q = [j \in DOMAIN dps |-> Body(j)]
  BY InSeq DEF IsDps, IsSeq, dtop_reset_dp_initial_values
<1>2. \A j \in 1 .. Len(dps) : /\ Fields \subseteq DOMAIN Body(j) /\ ~Body(j).pop
                               /\ Body(j).data = dps[j].data /\ Body(j).at = dps[j].at
                               /\ Body(j).name = dps[j].name
  BY DEF IsDps, Fields
<1> HIDE DEF Body
<1>3. /\ Len(q) = Len(dps) /\ q = [j \in 1 .. Len(q) |-> q[j]]
      /\ \A j \in 1 .. Len(dps) : q[j] = Body(j)
  BY <1>1
<1>4. SameDps(dps, q)
  BY <1>1, <1>2, <1>3 DEF SameDps, IsDps, IsSeq
<1>5. \A j \in 1 .. Len(dps) : /\ ~q[j].pop /\ q[j].data = dps[j].data
                               /\ q[j].at = dps[j].at /\ q[j].name = dps[j].name
  BY <1>2, <1>3
<1>6. ASSUME NEW first, Points(dps, first)
      PROVE  Points(q, first)
  BY <1>3, <1>4, <1>5, <1>6 DEF Points, SameDps
<1> QED BY <1>4, <1>5, <1>6

\* i, l and the rest.
LEMMA CommandKeeps ==
    ASSUME DataInv, Command
    PROVE  DataInv'
<1>1. /\ pc = "scan" /\ pc' = "poll" /\ todo' = list /\ back' = "write"
      /\ UNCHANGED <<opts, envVars, count, list, mem, heap, seen, csvVars>>
      /\ \/ UNCHANGED <<grp, base, wasReset>>
         \/ /\ grp' = [d \in Groups |-> IF d \in Range(list)
                                        THEN dtop_reset_dp_initial_values(grp[d]) ELSE grp[d]]
            /\ base' = [d \in Groups |-> <<>>] /\ wasReset' = TRUE
  BY DEF Command, Walk, ResetAll
<1>2. Distinct(list) /\ Range(list) \subseteq Groups
  BY GroupsOfSeq DEF DataInv, WalkInv, Distinct
<1> USE DEF DataInv, envVars, csvVars
<1>3. WalkInv'
  BY <1>1, <1>2 DEF WalkInv, Distinct
<1>4. MemInv'
  BY <1>1 DEF MemInv, Early
<1>5. FileInv'
  BY <1>1 DEF FileInv
<1>6. CASE UNCHANGED <<grp, base, wasReset>>
  <2>1. GroupInv'
    BY <1>1, <1>6 DEF GroupInv
  <2>2. SeenInv'
    BY <1>1, <1>6 DEF SeenInv, SeenOk, FlagKnown
  <2>3. CsvInv'
    BY <1>1, <1>6 DEF CsvInv, HeaderOf, Early, Written
  <2> QED BY <1>3, <1>4, <1>5, <2>1, <2>2, <2>3
<1>7. ASSUME grp' = [d \in Groups |-> IF d \in Range(list)
                                      THEN dtop_reset_dp_initial_values(grp[d]) ELSE grp[d]],
             base' = [d \in Groups |-> <<>>]
      PROVE  DataInv'
  <2>1. /\ DOMAIN grp' = Groups /\ \A d \in Range(list) : IsDps(grp[d])
        /\ \A d \in Range(list) : grp'[d] = dtop_reset_dp_initial_values(grp[d])
    BY <1>2, <1>7 DEF GroupInv
  <2>2. \A d \in Range(list) :
           /\ SameDps(grp[d], grp'[d])
           /\ \A j \in 1 .. Len(grp[d]) : ~grp'[d][j].pop /\ grp'[d][j].data = grp[d][j].data
           /\ \A first : Points(grp[d], first) => Points(grp'[d], first)
    BY <2>1, ResetDps
  <2>3. GroupInv'
    <3>1. \A d \in Range(list) : IsDps(grp'[d])
      BY <2>2 DEF SameDps
    <3>2. \A d \in Range(list) \ moved :
             /\ Points(grp'[d], FirstLines[d])
             /\ Kind[d] \in CountsLines => count[d] = Len(FirstLines[d])
      BY <2>2 DEF GroupInv
    <3> QED BY <1>1, <1>7, <2>1, <3>1, <3>2 DEF GroupInv
  <2>4. SeenInv'
    <3>1. ASSUME NEW d \in Range(list), d \notin moved
          PROVE  SeenOk(d)'
      <4>1. SeenRow(FirstLines[d], grp[d], seen[d], base[d], FlagKnown(d))
        BY <3>1 DEF SeenInv, SeenOk
      <4>2. Len(grp'[d]) = Len(grp[d])
            /\ \A j \in 1 .. Len(grp[d]) : ~grp'[d][j].pop /\ grp'[d][j].data = grp[d][j].data
        BY <2>2 DEF SameDps
      <4>3. \A j \in 1 .. Len(grp[d]) : grp'[d][j].at = grp[d][j].at
        <5>1. Points(grp[d], FirstLines[d])
          BY <3>1 DEF GroupInv
        <5> QED BY <2>2, <4>2, <5>1 DEF Points
      <4>4. \A b : SeenRow(FirstLines[d], grp'[d], seen[d], <<>>, b)
        BY <4>1, <4>2, <4>3 DEF SeenRow
      <4>5. seen' = seen /\ base'[d] = <<>>
        BY <1>1, <1>2, <1>7
      <4> QED BY <4>4, <4>5, Zenon DEF SeenOk
    <3>2. \A d \in Groups \ Range(list) : seen'[d] = <<>> /\ base'[d] = <<>>
      BY <1>1, <1>7 DEF SeenInv
    <3>3. moved' = moved /\ list' = list
      BY <1>1
    <3> QED BY <3>1, <3>2, <3>3, Zenon DEF SeenInv
  <2>5. CsvInv'
    <3>1. \A i \in 1 .. Len(list) : Len(grp'[list[i]]) = Len(grp[list[i]])
      <4>1. \A i \in 1 .. Len(list) : list[i] \in Range(list)
        BY <1>2 DEF Distinct, Range
      <4> QED BY <2>2, <4>1 DEF SameDps
    <3>2. \A hs : HeaderOf(hs) => HeaderOf(hs)'
      BY <1>1, <3>1 DEF HeaderOf
    <3>3. Written /\ ~Early' /\ pc' = "poll"
      BY <1>1 DEF Written, Early
    <3> QED BY <3>2, <3>3 DEF CsvInv
  <2> QED BY <1>3, <1>4, <1>5, <2>3, <2>4, <2>5
<1> QED BY <1>1, <1>6, <1>7

\* dtop_print_dpg_names_csv: the header is that of the groups on the list.
LEMMA HeaderKeeps ==
    ASSUME DataInv, WriteHeader
    PROVE  DataInv'
<1> DEFINE hs == [i \in DOMAIN list |-> dtop_print_dpg_names_csv(list[i])]
<1>1. /\ pc = "header" /\ pc' \in {"loop", "fail"} /\ header' = FlattenSeq(hs)
      /\ UNCHANGED <<opts, todo, back, envVars, groupVars, wasReset, row>>
  BY DEF WriteHeader, ttyVars
<1>2. /\ DOMAIN list = 1 .. Len(list) /\ Len(list) \in Nat /\ Distinct(list)
      /\ \A i \in 1 .. Len(list) : list[i] \in Range(list)
  BY DEF DataInv, WalkInv, Distinct, Range
<1>3. \A i \in 1 .. Len(list) : IsDps(grp[list[i]])
  BY <1>2 DEF DataInv, GroupInv
<1>4. /\ hs = [i \in 1 .. Len(list) |-> dtop_print_dpg_names_csv(list[i])]
      /\ Len(hs) = Len(list) /\ hs = [i \in 1 .. Len(list) |-> hs[i]]
      /\ \A i \in 1 .. Len(list) : hs[i] = dtop_print_dpg_names_csv(list[i])
  BY <1>2
<1>5. ASSUME NEW i \in 1 .. Len(list)
      PROVE  /\ IsSeq(hs[i]) /\ Len(hs[i]) = Len(grp[list[i]])
             /\ \A j \in 1 .. Len(grp[list[i]]) :
                   hs[i][j].group = list[i] /\ hs[i][j].name = grp[list[i]][j].name
  <2>1. DOMAIN grp[list[i]] = 1 .. Len(grp[list[i]]) /\ Len(grp[list[i]]) \in Nat
    BY <1>3, InSeq DEF IsDps, IsSeq
  <2>2. hs[i] = [j \in 1 .. Len(grp[list[i]]) |-> [group |-> list[i], name |-> grp[list[i]][j].name]]
    BY <1>4, <2>1 DEF dtop_print_dpg_names_csv
  <2> HIDE DEF hs
  <2> QED BY <2>1, <2>2 DEF IsSeq
<1> HIDE DEF hs
<1>6. SeqsOf(hs)
  BY <1>2, <1>4, <1>5 DEF SeqsOf, IsSeq
<1>7. ASSUME NEW i \in 1 .. Len(list), list[i] \notin moved, NEW j \in 1 .. Len(grp[list[i]])
      PROVE  hs[i][j].name = NameOf(FirstLines[list[i]], Places(FirstLines[list[i]])[j])
  <2>1. Points(grp[list[i]], FirstLines[list[i]])
    BY <1>2, <1>7 DEF DataInv, GroupInv
  <2> QED BY <1>5, <2>1 DEF Points
<1> USE <1>1 DEF DataInv, envVars, groupVars
<1>8. WalkInv'
  BY DEF WalkInv, Distinct
<1>9. MemInv'
  BY DEF MemInv, Early
<1>10. FileInv'
  BY DEF FileInv
<1>11. GroupInv'
  BY DEF GroupInv
<1>12. SeenInv'
  BY DEF SeenInv, SeenOk, FlagKnown
<1>13. CsvInv'
  <2>1. PICK s : s = hs
    OBVIOUS
  <2>2. HeaderOf(s)'
    BY <1>4, <1>5, <1>6, <1>7, <2>1 DEF HeaderOf
  <2>3. row' = <<>> /\ ~Early'
    BY DEF CsvInv, Early
  <2> QED BY <2>2, <2>3 DEF CsvInv
<1> QED BY <1>8, <1>9, <1>10, <1>11, <1>12, <1>13

\* dtop_write_pollingdata_csv.
LEMMA RowKeeps ==
    ASSUME DataInv, WriteRow
    PROVE  DataInv'
<1>1. /\ pc = "write" /\ pc' \in {"loop", "fail"} /\ row' = RowNow
      /\ UNCHANGED <<opts, todo, back, envVars, groupVars, wasReset, header>>
  BY DEF WriteRow, RowNow, ttyVars
<1> USE <1>1 DEF DataInv, envVars, groupVars
<1>2. WalkInv'
  BY DEF WalkInv, Distinct
<1>3. MemInv'
  BY DEF MemInv, Early
<1>4. FileInv'
  BY DEF FileInv
<1>5. GroupInv'
  BY DEF GroupInv
<1>6. SeenInv'
  BY DEF SeenInv, SeenOk, FlagKnown
<1>7. CsvInv'
  <2>1. Written /\ ~Early' /\ pc' # "header"
    BY DEF Written, Early
  <2>2. \A hs : HeaderOf(hs) => HeaderOf(hs)'
    BY DEF HeaderOf
  <2>3. RowNow' = RowNow
    BY DEF RowNow
  <2> QED BY <2>1, <2>2, <2>3 DEF CsvInv
<1> QED BY <1>2, <1>3, <1>4, <1>5, <1>6, <1>7

\* A file's counters move, its lines move, or it comes and goes.
LEMMA FileKeeps ==
    ASSUME DataInv, FileInv', moved \subseteq moved',
           UNCHANGED <<mainVars, groupVars, csvVars, wasReset>>
    PROVE  DataInv'
<1> USE DEF DataInv, mainVars, groupVars, csvVars
<1>1. WalkInv'
  BY DEF WalkInv, Distinct
<1>2. MemInv'
  BY DEF MemInv, Early
<1>3. GroupInv'
  BY DEF GroupInv
<1>4. SeenInv'
  BY DEF SeenInv, SeenOk, FlagKnown
<1>5. CsvInv'
  BY DEF CsvInv, HeaderOf, RowNow, Early, Written
<1> QED BY <1>1, <1>2, <1>3, <1>4, <1>5

\* A counter moves: the file's lines stay.
LEMMA BumpKeeps ==
    ASSUME DataInv, Bump
    PROVE  DataInv'
<1>1. PICK g \in Groups : \E p \in DOMAIN file[g].lines : \E c \in DOMAIN file[g].lines[p].vals :
        /\ file[g].lines[p].vals[c] < MaxVal
        /\ file' = [file EXCEPT ![g].lines[p].vals[c] = @ + 1]
        /\ UNCHANGED <<mainVars, moved, groupVars, csvVars, wasReset>>
  BY DEF Bump, ttyVars
<1>2. PICK p \in DOMAIN file[g].lines : \E c \in DOMAIN file[g].lines[p].vals :
        /\ file[g].lines[p].vals[c] < MaxVal
        /\ file' = [file EXCEPT ![g].lines[p].vals[c] = @ + 1]
        /\ UNCHANGED <<mainVars, moved, groupVars, csvVars, wasReset>>
  BY <1>1
<1>3. PICK c \in DOMAIN file[g].lines[p].vals :
        /\ file[g].lines[p].vals[c] < MaxVal
        /\ file' = [file EXCEPT ![g].lines[p].vals[c] = @ + 1]
        /\ UNCHANGED <<mainVars, moved, groupVars, csvVars, wasReset>>
  BY <1>2
<1> DEFINE lines == file[g].lines
           line == lines[p]
           v == [line.vals EXCEPT ![c] = @ + 1]
           line2 == [line EXCEPT !.vals = v]
           lines2 == [lines EXCEPT ![p] = line2]
<1>4. file \in [Groups -> [open : BOOLEAN, lines : Seq(Line)]] /\ lines \in Seq(Line) /\ moved \subseteq Groups
  BY DEF DataInv, FileInv
<1>5. file' = [file EXCEPT ![g] = [file[g] EXCEPT !.lines = lines2]]
  BY <1>3
<1>6. line \in Line /\ line.vals \in Seq(Value) /\ line.name \in LineNames
  <2>1. \A l \in Line : l.vals \in Seq(Value) /\ l.name \in LineNames
    BY DEF Line
  <2>2. p \in DOMAIN lines
    BY <1>2
  <2> HIDE DEF lines
  <2> QED BY <1>4, <2>1, <2>2
<1>7. line.vals[c] \in Value /\ line.vals[c] + 1 \in Value
  <2> DEFINE w == line.vals
  <2>1. c \in DOMAIN w /\ w \in Seq(Value) /\ w[c] < MaxVal
    BY <1>3, <1>6
  <2> HIDE DEF w
  <2>2. w[c] \in Value
    BY <2>1
  <2>3. w[c] + 1 \in Value
    BY <2>1, <2>2, FileAssumption DEF Value
  <2> QED BY <2>2, <2>3 DEF w
<1>8. v \in Seq(Value) /\ Len(v) = Len(line.vals)
      /\ \A k \in 1 .. Len(line.vals) : v[k] \in Value
  BY <1>3, <1>6, <1>7
<1> HIDE DEF v
<1>9. line2 \in Line /\ line2.name = line.name /\ line2.vals = v
  BY <1>6, <1>8 DEF Line
<1> HIDE DEF line2
<1>10. /\ lines2 \in Seq(Line) /\ Len(lines2) = Len(lines)
       /\ \A q \in 1 .. Len(lines) : lines2[q] = IF q = p THEN line2 ELSE lines[q]
  BY <1>2, <1>4, <1>9
<1> HIDE DEF lines2
<1>11. /\ file' \in [Groups -> [open : BOOLEAN, lines : Seq(Line)]] /\ file'[g].lines = lines2
       /\ \A d \in Groups : d # g => file'[d] = file[d]
  <2>1. file[g] \in [open : BOOLEAN, lines : Seq(Line)]
    BY <1>4
  <2> DEFINE f == [file[g] EXCEPT !.lines = lines2]
  <2>2. f \in [open : BOOLEAN, lines : Seq(Line)] /\ f.lines = lines2
    BY <1>10, <2>1
  <2> HIDE DEF f
  <2>3. file' = [file EXCEPT ![g] = f]
    BY <1>5 DEF f
  <2> QED BY <1>4, <2>2, <2>3
<1>12. g \notin moved => Alike(file'[g].lines, FirstLines[g])
  <2>1. g \notin moved => Alike(lines, FirstLines[g])
    BY DEF DataInv, FileInv
  <2>2. LinesOk(lines2)
    BY <1>10, LineLinesOk
  <2>3. \A q \in 1 .. Len(lines) :
          /\ lines2[q].name = lines[q].name /\ Len(lines2[q].vals) = Len(lines[q].vals)
          /\ \A k \in 1 .. Len(lines[q].vals) : lines[q].vals[k] \in Value => lines2[q].vals[k] \in Value
    BY <1>8, <1>9, <1>10
  <2> HIDE DEF lines
  <2> QED BY <1>10, <1>11, <2>1, <2>2, <2>3 DEF Alike
<1>13. moved' = moved
  BY <1>3
<1>14. FileInv'
  <2>1. \A d \in Groups \ moved : Alike(file'[d].lines, FirstLines[d])
    BY <1>11, <1>12 DEF DataInv, FileInv
  <2> QED BY <1>4, <1>11, <1>13, <2>1 DEF FileInv
<1> QED BY <1>3, <1>13, <1>14, FileKeeps

\* A line comes or goes: the file has moved.
LEMMA LineMovesKeeps ==
    ASSUME DataInv, LineMoves
    PROVE  DataInv'
<1>1. PICK g \in Groups :
        /\ Kind[g] \in {"dual", "dev", "stat"} /\ moved' = moved \cup {g}
        /\ \/ file[g].lines # <<>> /\ file' = [file EXCEPT ![g].lines = Tail(@)]
           \/ file' = [file EXCEPT ![g].lines = <<NewLine[g]>> \o @]
        /\ UNCHANGED <<mainVars, groupVars, csvVars, wasReset>>
  BY DEF LineMoves, ttyVars
<1>2. file \in [Groups -> [open : BOOLEAN, lines : Seq(Line)]] /\ moved \subseteq Groups
      /\ \A d \in Groups \ moved : Alike(file[d].lines, FirstLines[d])
  BY DEF DataInv, FileInv
<1>3. file[g].lines \in Seq(Line) /\ NewLine[g] \in Line
  BY <1>1, <1>2, FileAssumption
<1>4. PICK l \in Seq(Line) : file' = [file EXCEPT ![g] = [file[g] EXCEPT !.lines = l]]
  <2>1. CASE file[g].lines # <<>> /\ file' = [file EXCEPT ![g].lines = Tail(@)]
    <3>1. Tail(file[g].lines) \in Seq(Line)
      BY <1>3, <2>1
    <3> QED BY <2>1, <3>1
  <2>2. CASE file' = [file EXCEPT ![g].lines = <<NewLine[g]>> \o @]
    <3> DEFINE l == <<NewLine[g]>> \o file[g].lines
    <3>1. l \in Seq(Line)
      <4>1. <<NewLine[g]>> \in Seq(Line)
        BY <1>3
      <4> QED BY <1>3, <4>1, ConcatProperties
    <3>2. file' = [file EXCEPT ![g] = [file[g] EXCEPT !.lines = l]]
      BY <2>2
    <3> HIDE DEF l
    <3> QED BY <3>1, <3>2
  <2> QED BY <1>1, <2>1, <2>2
<1>5. /\ file' \in [Groups -> [open : BOOLEAN, lines : Seq(Line)]]
      /\ \A d \in Groups : d # g => file'[d] = file[d]
  <2>1. [file[g] EXCEPT !.lines = l] \in [open : BOOLEAN, lines : Seq(Line)]
    BY <1>2, <1>4
  <2> QED BY <1>2, <1>4, <2>1
<1>6. FileInv'
  <2>1. \A d \in Groups \ moved' : Alike(file'[d].lines, FirstLines[d])
    BY <1>1, <1>2, <1>5
  <2> QED BY <1>1, <1>2, <1>5, <2>1 DEF FileInv
<1> QED BY <1>1, <1>6, FileKeeps

\* A file comes or goes as a whole: its lines stay.
LEMMA FileMovesKeeps ==
    ASSUME DataInv, FileMoves
    PROVE  DataInv'
<1>1. PICK g \in Groups : file' = [file EXCEPT ![g].open = ~@]
  BY DEF FileMoves
<1>2. moved' = moved /\ UNCHANGED <<mainVars, groupVars, csvVars, wasReset>>
  BY DEF FileMoves, ttyVars
<1>3. FileInv'
  <2>1. file \in [Groups -> [open : BOOLEAN, lines : Seq(Line)]] /\ moved \subseteq Groups
        /\ \A d \in Groups \ moved : Alike(file[d].lines, FirstLines[d])
    BY DEF DataInv, FileInv
  <2> DEFINE f == [file[g] EXCEPT !.open = ~@]
  <2>2. f \in [open : BOOLEAN, lines : Seq(Line)] /\ f.lines = file[g].lines
    BY <2>1
  <2>3. file' = [file EXCEPT ![g] = f]
    BY <1>1
  <2> HIDE DEF f
  <2>4. file' \in [Groups -> [open : BOOLEAN, lines : Seq(Line)]]
        /\ \A d \in Groups : file'[d].lines = file[d].lines
    BY <2>1, <2>2, <2>3
  <2>5. \A d \in Groups \ moved' : Alike(file'[d].lines, FirstLines[d])
    BY <1>2, <2>1, <2>4
  <2> QED BY <1>2, <2>1, <2>4, <2>5 DEF FileInv
<1> QED BY <1>2, <1>3, FileKeeps

\* The files start with the lines they start with.
LEMMA FirstAlike == \A g \in Groups : Alike(FirstLines[g], FirstLines[g])
<1> SUFFICES ASSUME NEW g \in Groups PROVE Alike(FirstLines[g], FirstLines[g])
  OBVIOUS
<1> DEFINE lines == FirstLines[g]
<1>1. lines \in Seq(Line)
  BY FileAssumption
<1> HIDE DEF lines
<1>2. LinesOk(lines)
  BY <1>1, LineLinesOk
<1>3. \A p \in 1 .. Len(lines) : lines[p] \in Line
  BY <1>1
<1>4. \A l \in Line : \A c \in 1 .. Len(l.vals) : l.vals[c] \in Value
  BY DEF Line
<1>5. Alike(lines, lines)
  BY <1>2, <1>3, <1>4 DEF Alike
<1> QED BY <1>5 DEF lines

\* Nothing is registered, allocated, read or written at first.
LEMMA InitData == Init => DataInv
<1> SUFFICES ASSUME Init PROVE DataInv
  OBVIOUS
<1>1. /\ pc = "parse" /\ todo = <<>> /\ back = "none" /\ list = <<>> /\ wasReset = FALSE
      /\ header = <<>> /\ row = <<>> /\ heap = "ok" /\ moved = {}
      /\ mem = [g \in Groups |-> [live |-> {}, ok |-> TRUE]]
      /\ count = [g \in Groups |-> 0] /\ grp = [g \in Groups |-> <<>>]
      /\ seen = [g \in Groups |-> <<>>] /\ base = [g \in Groups |-> <<>>]
      /\ file = [g \in Groups |-> [open |-> g \notin setup.absent, lines |-> FirstLines[g]]]
  BY DEF Init
<1>2. WalkInv
  BY <1>1 DEF WalkInv, Distinct, IsInjective
<1>3. MemInv
  BY <1>1, EmptyHeld DEF MemInv, Gone
<1>4. FileInv
  BY <1>1, FirstAlike, FileAssumption DEF FileInv
<1>5. GroupInv
  BY <1>1, EmptyHeld DEF GroupInv
<1>6. SeenInv
  BY <1>1, EmptyHeld DEF SeenInv
<1>7. CsvInv
  BY <1>1 DEF CsvInv, Early, Written
<1> QED BY <1>2, <1>3, <1>4, <1>5, <1>6, <1>7 DEF DataInv

\* Every step keeps the invariant.
LEMMA DataKept ==
    ASSUME DataInv, OptsInv, [Next]_vars
    PROVE  DataInv'
<1>1. CASE Steady
  BY <1>1, ParseKeeps, CountKeeps, SearchKeeps, PollKeeps, OpenKeeps, HeaderKeeps, RowKeeps,
     CommandKeeps, FreeKeeps DEF Steady, OptsInv
<1>2. CASE Main /\ ~Steady
  BY <1>2, MainCalm, CalmKeeps DEF OptsInv, DataInv
<1>3. CASE Bump \/ LineMoves \/ FileMoves
  BY <1>3, BumpKeeps, LineMovesKeeps, FileMovesKeeps
<1>4. CASE IpThread \/ Type \/ CloseStdin \/ UNCHANGED vars
  <2>1. UNCHANGED <<envVars, groupVars, csvVars, wasReset, opts, pc, todo, back>>
    BY <1>4 DEF IpThread, Type, CloseStdin, vars, mainVars, ttyVars
  <2>2. Calm
    BY <2>1 DEF Calm
  <2> QED BY <2>2, CalmKeeps
<1> QED BY <1>1, <1>2, <1>3, <1>4 DEF Next

\* It says that the heap is sound,
LEMMA DataHeap == DataInv => HeapSound
<1> SUFFICES ASSUME DataInv PROVE HeapSound
  OBVIOUS
<1>1. HeapSafeWhileSteady
  BY DEF DataInv, GroupInv, HeapSafeWhileSteady
<1>2. GroupsReleased
  <2>1. \A s : \A g \in Groups : /\ Holding(s)[g].ok
                                 /\ g \in Range(s) => Holding(s)[g].live = Blocks(Kind[g])
    BY DEF Holding, Full, Gone
  <2>2. \A g \in Groups : Holding(<<>>)[g].live = {}
    BY EmptyHeld DEF Gone
  <2>3. Range(list) \subseteq Groups
    BY GroupsOfSeq DEF DataInv, WalkInv, Distinct
  <2> QED BY <2>1, <2>2, <2>3 DEF DataInv, MemInv, GroupsReleased
<1> QED BY <1>1, <1>2 DEF HeapSound

\* A name says where its value stands.
LEMMA SaidLemma ==
    ASSUME NEW first, Unalike(first), NEW lines, Alike(lines, first), NEW at, InPlace(at, first)
    PROVE  Said(lines, NameOf(first, at)) = Stands(lines, at)
<1> DEFINE name == NameOf(first, at)
           p == CHOOSE p \in DOMAIN lines : lines[p].name = name[1]
<1>1. at[1] \in 1 .. Len(first) /\ name[1] = first[at[1]].name /\ name[2] = at[2]
  BY AtPlace DEF NameOf
<1>2. DOMAIN lines = 1 .. Len(first) /\ \A k \in 1 .. Len(first) : lines[k].name = first[k].name
  BY InSeq DEF Alike, LinesOk
<1>3. Said(lines, name) = lines[p].vals[name[2]]
  BY DEF Said
<1> HIDE DEF name
<1>4. p \in DOMAIN lines /\ lines[p].name = name[1]
  BY <1>1, <1>2
<1> HIDE DEF p
<1>5. p = at[1]
  BY <1>1, <1>2, <1>4 DEF Unalike
<1>6. Said(lines, name) = lines[at[1]].vals[at[2]]
  BY <1>1, <1>3, <1>5
<1> QED BY <1>6 DEF Stands, name

\* What the data points of a steady file hold is what it says under their names.
LEMMA HeldIsSaid ==
    ASSUME DataInv, NEW g \in Range(list), g \notin moved, seen[g] # <<>>, NEW j \in 1 .. Len(grp[g])
    PROVE  /\ grp[g][j].name = NameOf(FirstLines[g], Places(FirstLines[g])[j])
           /\ grp[g][j].data = Said(seen[g], grp[g][j].name)
<1>1. Points(grp[g], FirstLines[g]) /\ SeenOk(g)
  BY DEF DataInv, GroupInv, SeenInv
<1>2. Alike(seen[g], FirstLines[g]) /\ grp[g][j].data = Stands(seen[g], grp[g][j].at)
  BY <1>1 DEF SeenOk, SeenRow
<1>3. /\ grp[g][j].at = Places(FirstLines[g])[j] /\ Len(grp[g]) = Len(Places(FirstLines[g]))
      /\ grp[g][j].name = NameOf(FirstLines[g], grp[g][j].at)
  BY <1>1 DEF Points
<1>4. InPlace(grp[g][j].at, FirstLines[g])
  BY <1>2, <1>3, PlaceIn DEF Alike
<1>5. g \in Groups
  BY GroupsOfSeq DEF DataInv, WalkInv, Distinct
<1>6. Unalike(FirstLines[g])
  BY <1>5, FileAssumption DEF Shaped
<1> QED BY <1>2, <1>3, <1>4, <1>6, SaidLemma

\* that the columns mean what they are named,
LEMMA DataColumns == DataInv => ColumnsMeanNames
<1> SUFFICES ASSUME DataInv, pc = "loop", row # <<>>
             PROVE  /\ Len(row) = Len(header)
                    /\ \A c \in DOMAIN header :
                         LET g == header[c].group
                         IN  g \notin moved /\ seen[g] # <<>> => row[c] = Said(seen[g], header[c].name)
  BY DEF ColumnsMeanNames
<1>1. row = RowNow /\ \E hs : HeaderOf(hs)
  BY DEF DataInv, CsvInv, Written
<1>2. PICK hs : HeaderOf(hs)
  BY <1>1
<1> DEFINE rs == [i \in DOMAIN list |-> Row(grp[list[i]])]
<1>3. /\ DOMAIN list = 1 .. Len(list) /\ Len(list) \in Nat
      /\ \A i \in 1 .. Len(list) : list[i] \in Range(list)
  BY DEF DataInv, WalkInv, Distinct, Range
<1>4. /\ Len(rs) = Len(list) /\ rs = [i \in 1 .. Len(list) |-> rs[i]] /\ row = FlattenSeq(rs)
      /\ \A i \in 1 .. Len(list) : rs[i] = Row(grp[list[i]])
  BY <1>1, <1>3 DEF RowNow
<1> HIDE DEF rs
<1>5. ASSUME NEW i \in 1 .. Len(list)
      PROVE  /\ IsSeq(rs[i]) /\ Len(rs[i]) = Len(grp[list[i]])
             /\ \A j \in 1 .. Len(grp[list[i]]) : rs[i][j] = grp[list[i]][j].data
  <2> DEFINE dps == grp[list[i]]
  <2>1. IsDps(dps)
    BY <1>3 DEF DataInv, GroupInv
  <2>2. DOMAIN dps = 1 .. Len(dps) /\ Len(dps) \in Nat /\ rs[i] = Row(dps)
    BY <1>4, <2>1, InSeq DEF IsDps, IsSeq
  <2> HIDE DEF dps
  <2>3. rs[i] = [j \in 1 .. Len(dps) |-> dps[j].data]
    BY <2>2 DEF Row
  <2>4. IsSeq(rs[i]) /\ Len(rs[i]) = Len(dps) /\ \A j \in 1 .. Len(dps) : rs[i][j] = dps[j].data
    BY <2>2, <2>3 DEF IsSeq
  <2> QED BY <2>4 DEF dps
<1>6. SeqsOf(rs) /\ SeqsOf(hs) /\ Len(hs) = Len(list) /\ header = FlattenSeq(hs)
  BY <1>2, <1>3, <1>4, <1>5 DEF SeqsOf, IsSeq, HeaderOf
<1>7. \A i \in 1 .. Len(list) : Len(hs[i]) = Len(rs[i])
  BY <1>2, <1>5 DEF HeaderOf
<1>8. IsSeq(header) /\ Paired(header, row, hs, rs, Len(hs))
  BY <1>4, <1>6, <1>7, Flat
<1>9. ASSUME NEW c \in DOMAIN header, header[c].group \notin moved, seen[header[c].group] # <<>>
      PROVE  row[c] = Said(seen[header[c].group], header[c].name)
  <2>1. PICK i \in 1 .. Len(list) : \E j \in 1 .. Len(hs[i]) : header[c] = hs[i][j] /\ row[c] = rs[i][j]
    BY <1>6, <1>8, InSeq DEF Paired
  <2>2. PICK j \in 1 .. Len(hs[i]) : header[c] = hs[i][j] /\ row[c] = rs[i][j]
    BY <2>1
  <2>3. j \in 1 .. Len(grp[list[i]]) /\ header[c].group = list[i] /\ row[c] = grp[list[i]][j].data
    BY <1>2, <1>5, <2>2 DEF HeaderOf
  <2>4. header[c].name = NameOf(FirstLines[list[i]], Places(FirstLines[list[i]])[j])
    BY <1>2, <1>9, <2>2, <2>3 DEF HeaderOf
  <2> QED BY <1>3, <1>9, <2>3, <2>4, HeldIsSaid
<1>10. Len(row) = Len(header)
  BY <1>8 DEF Paired
<1> QED BY <1>9, <1>10

\* and that a difference is one between two readings.
LEMMA DifferencesData ==
    ASSUME DataInv, NEW g \in Range(list), g \notin moved, FlagKnown(g), base[g] # <<>>,
           NEW s, s = dtop_print_snapshot_diff(grp[g]), NEW j \in DOMAIN s
    PROVE  s[j].diff = Said(seen[g], s[j].name) - base[g][j]
<1>1. IsDps(grp[g]) /\ SeenOk(g)
  BY DEF DataInv, GroupInv, SeenInv
<1>2. DOMAIN grp[g] = 1 .. Len(grp[g])
  BY <1>1, InSeq DEF IsDps
<1>3. j \in 1 .. Len(grp[g]) /\ s[j].name = grp[g][j].name
      /\ s[j].diff = grp[g][j].data - grp[g][j].init
  BY <1>2 DEF dtop_print_snapshot_diff
<1>4. seen[g] # <<>> /\ grp[g][j].init = base[g][j]
  BY <1>1, <1>3 DEF SeenOk, SeenRow
<1> QED BY <1>3, <1>4, HeldIsSaid

\* Differences are printed or taken away, never changed.
LEMMA WhatIsShown == ASSUME Next PROVE shown' \in {shown, <<>>, Differences}
<1>1. CASE ParseArgs \/ CountLines \/ SearchFile \/ InitDone \/ OpenCsv \/ WriteHeader \/ LoopTest
  BY <1>1 DEF ParseArgs, CountLines, SearchFile, InitDone, OpenCsv, WriteHeader, LoopTest, ttyVars
<1>2. CASE PollGroup \/ PollCrash \/ PollDone \/ dtop_print_terminal
  BY <1>2 DEF PollGroup, PollCrash, PollDone, dtop_print_terminal, ttyVars
<1>3. CASE SelectInput \/ SelectTimeout \/ Quit \/ QuitCrash \/ WriteRow
  BY <1>3 DEF SelectInput, SelectTimeout, Quit, QuitCrash, WriteRow, ttyVars
<1>4. CASE Command
  BY <1>4 DEF Command
<1>5. CASE ShowTotal \/ CloseCsv \/ deconstruct_dpgs
  BY <1>5 DEF ShowTotal, CloseCsv, deconstruct_dpgs
<1>6. CASE Fork \/ Child \/ WaitPid \/ AfterSnapshot \/ Sleep \/ Leave
  BY <1>6 DEF Fork, Child, WaitPid, AfterSnapshot, Sleep, Leave, ttyVars
<1>7. CASE ~Main
  BY <1>7 DEF Next, IpThread, Bump, LineMoves, FileMoves, Type, CloseStdin, ttyVars
<1> QED BY <1>1, <1>2, <1>3, <1>4, <1>5, <1>6, <1>7 DEF Main

\* The invariant holds in every behaviour.
LEMMA DataHolds == Spec => [](DataInv /\ OptsInv)
<1>1. DataInv /\ OptsInv /\ [Next]_vars => (DataInv /\ OptsInv)'
  BY DataKept, OptsKept
<1> QED BY <1>1, InitData, InitOpts, PTL DEF Spec

\* Whatever files, groups and command lines there are, polls stay inside their
\* groups while /proc/stat keeps its lines, and each group is freed once.
THEOREM HeapAlwaysSound == Spec => []HeapSound
BY DataHolds, DataHeap, PTL

\* Every column of the CSV file holds what its header names, for groups of any
\* kind and number.
THEOREM ColumnsAlwaysNamed == Spec => []ColumnsMeanNames
BY DataHolds, DataColumns, PTL

\* The differences that are printed are those between two good polls.
THEOREM DifferencesAlwaysTrue == Spec => DifferencesTrue
<1> DEFINE Shows ==
      \A g \in DOMAIN shown' :
        shown' # shown /\ g \notin moved /\ FlagKnown(g) /\ base[g] # <<>> =>
          \A j \in DOMAIN shown'[g] :
            shown'[g][j].diff = Said(seen[g], shown'[g][j].name) - base[g][j]
<1>1. DataInv /\ [Next]_vars => [Shows]_vars
  <2> SUFFICES ASSUME DataInv, Next PROVE Shows
    OBVIOUS
  <2> SUFFICES ASSUME NEW g \in DOMAIN shown', shown' # shown, g \notin moved, FlagKnown(g), base[g] # <<>>,
                      NEW j \in DOMAIN shown'[g]
               PROVE  shown'[g][j].diff = Said(seen[g], shown'[g][j].name) - base[g][j]
    OBVIOUS
  <2>1. CASE shown' = <<>>
    BY <2>1
  <2>2. CASE shown' = Differences
    <3>1. g \in Range(list) /\ shown'[g] = dtop_print_snapshot_diff(grp[g])
      BY <2>2 DEF Differences
    <3> QED BY <3>1, DifferencesData
  <2> QED BY <2>1, <2>2, WhatIsShown
<1>2. DifferencesTrue <=> [][Shows]_vars
  BY DEF DifferencesTrue
<1> HIDE DEF Shows
<1> QED BY <1>1, <1>2, DataHolds, PTL DEF Spec


-----------------------------------------------------------------------------
(***************************************************************************)
(* Types: what the data points hold, where main() is, and the clock.       *)
(***************************************************************************)
Cell == Value \cup {Junk}

\* The data points of a group. Those of a device stay in its lines, even when
\* the file has lost some of them.
Typed(kind, n, dps) ==
    \A j \in 1 .. Len(dps) :
       /\ dps[j].data \in Cell /\ dps[j].init \in Cell /\ dps[j].pop \in BOOLEAN
       /\ kind = "dev" => dps[j].at[1] \in 1 .. n

\* dtop_store_dp stores what it is given or keeps what there was.
LEMMA StoreTyped ==
    ASSUME NEW dp, Fields \subseteq DOMAIN dp, dp.data \in Cell, dp.init \in Cell,
           dp.pop \in BOOLEAN, NEW v \in Cell, NEW kept
    PROVE  LET d == dtop_store_dp(dp, v, kept)
           IN  d.data \in Cell /\ d.init \in Cell /\ d.pop \in BOOLEAN /\ d.at = dp.at
<1> DEFINE w == IF v = Junk /\ kept THEN dp.data ELSE v
<1>1. dtop_store_dp(dp, v, kept) = [dp EXCEPT !.data = w, !.init = IF dp.pop THEN @ ELSE w, !.pop = TRUE]
  BY DEF dtop_store_dp
<1>2. w \in Cell
  OBVIOUS
<1> HIDE DEF w
<1> QED BY <1>1, <1>2 DEF Fields

\* What stands in a line, in a buffer that may be longer than its file.
LEMMA ReadTyped ==
    ASSUME NEW lines \in Seq(Line), NEW n \in Nat, NEW p \in 1 .. n
    PROVE  \A c \in DOMAIN ReadLines(lines, n)[p].vals : ReadLines(lines, n)[p].vals[c] \in Cell
<1>1. ReadLines(lines, n)[p] = IF p \in DOMAIN lines THEN lines[p] ELSE JunkLine
  BY DEF ReadLines, dt_read_line
<1>2. ASSUME p \in DOMAIN lines PROVE \A c \in DOMAIN lines[p].vals : lines[p].vals[c] \in Value
  <2>1. lines[p] \in Line
    BY <1>2
  <2>2. lines[p].vals \in Seq(Value)
    BY <2>1 DEF Line
  <2> QED BY <2>2
<1>3. \A c \in DOMAIN JunkLine.vals : JunkLine.vals[c] = Junk
  BY DEF JunkLine
<1> QED BY <1>1, <1>2, <1>3 DEF Cell

\* What stands at a place of such a buffer.
LEMMA AtTyped ==
    ASSUME NEW lines \in Seq(Line), NEW n \in Nat, NEW at, at[1] \in 1 .. n
    PROVE  At(ReadLines(lines, n), at).val \in Cell
<1> DEFINE ls == ReadLines(lines, n)
<1>1. \A c \in DOMAIN ls[at[1]].vals : ls[at[1]].vals[c] \in Cell
  BY ReadTyped
<1> HIDE DEF ls
<1>2. At(ls, at).val \in Cell
  BY <1>1 DEF At, Cell
<1> QED BY <1>2 DEF ls

\* The values of all lines in a row.
LEMMA FlatTyped ==
    ASSUME NEW lines \in Seq(Line), NEW m \in Nat, m <= Len(lines)
    PROVE  LET real == FlattenSeq([p \in 1 .. m |-> lines[p].vals])
           IN  IsSeq(real) /\ \A j \in 1 .. Len(real) : real[j] \in Value
<1> DEFINE ss == [p \in 1 .. m |-> lines[p].vals]
<1>1. Len(ss) = m /\ IsSeq(ss)
  BY DEF IsSeq
<1>2. \A p \in 1 .. m : ss[p] = lines[p].vals
  OBVIOUS
<1>3. \A p \in 1 .. m : lines[p].vals \in Seq(Value)
  <2> TAKE p \in 1 .. m
  <2>1. lines[p] \in Line
    OBVIOUS
  <2> QED BY <2>1 DEF Line
<1> HIDE DEF ss
<1>4. \A p \in 1 .. m : IsSeq(ss[p]) /\ \A c \in 1 .. Len(ss[p]) : ss[p][c] \in Value
  <2> TAKE p \in 1 .. m
  <2>1. ss[p] \in Seq(Value)
    BY <1>2, <1>3
  <2> QED BY <2>1 DEF IsSeq
<1>5. SeqsOf(ss)
  BY <1>1, <1>4 DEF SeqsOf
<1>6. IsSeq(FlattenSeq(ss)) /\ Paired(FlattenSeq(ss), FlattenSeq(ss), ss, ss, Len(ss))
  BY <1>5, Flat
<1>7. \A j \in 1 .. Len(FlattenSeq(ss)) : FlattenSeq(ss)[j] \in Value
  BY <1>1, <1>4, <1>6 DEF Paired
<1> QED BY <1>6, <1>7 DEF ss

\* The values dtop_stat_poll takes in turn.
LEMMA StatTyped ==
    ASSUME NEW lines \in Seq(Line), NEW n \in Nat, NEW v \in StatVals(lines, n)
    PROVE  \A j \in DOMAIN v : v[j] \in Cell
<1> DEFINE m == IF n < Len(lines) THEN n ELSE Len(lines)
           real == FlattenSeq([p \in 1 .. m |-> lines[p].vals])
<1>1. m \in Nat /\ m <= Len(lines)
  OBVIOUS
<1>2. v \in {<<>>, real, real \o <<Junk>>}
  BY DEF StatVals
<1> HIDE DEF m
<1>3. IsSeq(real) /\ \A j \in 1 .. Len(real) : real[j] \in Value
  BY <1>1, FlatTyped
<1> HIDE DEF real
<1>4. real \in Seq(Cell)
  BY <1>3 DEF IsSeq, Cell
<1> DEFINE x == <<Junk>>
<1>5. x \in Seq(Cell)
  BY DEF Cell
<1> HIDE DEF x
<1>6. real \o x \in Seq(Cell) /\ <<>> \in Seq(Cell)
  BY <1>4, <1>5
<1>7. v \in Seq(Cell)
  BY <1>2, <1>4, <1>6 DEF x
<1> QED BY <1>7

\* A set of line numbers that is not empty has a greatest one.
LEMMA Greatest ==
    ASSUME NEW n \in Nat, NEW S \in SUBSET (1 .. n), S # {}
    PROVE  \E p \in S : \A q \in S : q <= p
<1> DEFINE Tops(m) == \A R \in SUBSET (1 .. m) : R # {} => \E p \in R : \A q \in R : q <= p
           T == {m \in Nat : Tops(m)}
<1>1. 0 \in T
  <2>1. 1 .. 0 = {}
    OBVIOUS
  <2> QED BY <2>1
<1>2. ASSUME NEW m \in Nat, m \in T PROVE m + 1 \in T
  <2> SUFFICES ASSUME NEW R \in SUBSET (1 .. m + 1), R # {}
               PROVE  \E p \in R : \A q \in R : q <= p
    OBVIOUS
  <2>1. CASE m + 1 \in R
    BY <2>1
  <2>2. CASE m + 1 \notin R
    <3>1. R \in SUBSET (1 .. m)
      BY <2>2
    <3> QED BY <3>1, <1>2
  <2> QED BY <2>1, <2>2
<1> HIDE DEF T
<1>3. Nat \subseteq T
  BY <1>1, <1>2, Parsing!NatSet
<1> QED BY <1>3 DEF T

\* The places of a device's columns are in its lines.
LEMMA DevPlacesIn ==
    ASSUME NEW n \in Nat, NEW j \in 1 .. Len(DevPlaces(n))
    PROVE  DevPlaces(n)[j][1] \in 1 .. n
<1> DEFINE ss == [p \in 1 .. n |-> [c \in 1 .. DevCols |-> <<p, c>>]]
<1>1. Len(ss) = n /\ IsSeq(ss)
  BY DEF IsSeq
<1>2. \A p \in 1 .. n : IsSeq(ss[p]) /\ \A c \in 1 .. Len(ss[p]) : ss[p][c] = <<p, c>>
  BY FileAssumption DEF IsSeq
<1>0. DevPlaces(n) = FlattenSeq(ss)
  BY DEF DevPlaces
<1> HIDE DEF ss
<1>3. SeqsOf(ss)
  BY <1>1, <1>2 DEF SeqsOf
<1>4. Paired(FlattenSeq(ss), FlattenSeq(ss), ss, ss, n)
  BY <1>1, <1>3, Flat
<1>5. PICK p \in 1 .. n : \E c \in 1 .. Len(ss[p]) : FlattenSeq(ss)[j] = ss[p][c]
  BY <1>0, <1>4 DEF Paired
<1> QED BY <1>0, <1>2, <1>5

\* What a search finds is junk, but for a CPU's.
LEMMA SearchTyped ==
    ASSUME NEW kind \in Kinds, NEW lines, NEW n \in Nat, LinesOk(lines),
           NEW dps \in Search(kind, lines, n)
    PROVE  Typed(kind, n, dps)
<1>1. CASE kind = "cpu"
  <2>1. Len(dps) = 1 /\ dps[1].pop = FALSE /\ dps[1].data = 0 /\ dps[1].init = 0
    BY <1>1, SearchIs, CpuSearch
  <2>2. 0 \in Cell
    BY FileAssumption DEF Cell, Value
  <2>3. \A j \in 1 .. Len(dps) : dps[j].pop = FALSE /\ dps[j].data = 0 /\ dps[j].init = 0
    BY <2>1
  <2> QED BY <1>1, <2>3, <2>2 DEF Typed
<1>2. CASE kind = "dev"
  <2>1. dps \in SearchedAt(DevPlaces(n), ReadLines(lines, n), {FALSE})
    BY <1>2, SearchIs
  <2>2. /\ Len(dps) = Len(DevPlaces(n))
        /\ \A j \in 1 .. Len(dps) : /\ dps[j].at = DevPlaces(n)[j] /\ dps[j].pop \in {FALSE}
                                    /\ dps[j].data = Junk /\ dps[j].init = Junk
    <3>1. IsSeq(DevPlaces(n))
      BY DevPlacesLemma
    <3> DEFINE places == DevPlaces(n)
               ls == ReadLines(lines, n)
               flags == {FALSE}
    <3>2. IsSeq(places) /\ dps \in SearchedAt(places, ls, flags)
      BY <2>1, <3>1
    <3> HIDE DEF places, ls, flags
    <3>3. /\ Len(dps) = Len(places)
          /\ \A j \in 1 .. Len(dps) : /\ dps[j].at = places[j] /\ dps[j].pop \in flags
                                      /\ dps[j].data = Junk /\ dps[j].init = Junk
      BY <3>2, SearchedLemma
    <3> QED BY <3>3 DEF places, flags
  <2>3. \A j \in 1 .. Len(dps) : dps[j].at[1] \in 1 .. n
    BY <2>2, DevPlacesIn
  <2>4. Junk \in Cell
    BY DEF Cell
  <2> QED BY <2>2, <2>3, <2>4 DEF Typed
<1>3. CASE kind \notin {"cpu", "dev"}
  <2>1. PICK m \in {1, n}, flags \in {{FALSE}, BOOLEAN} : dps \in Searched(ReadLines(lines, m), flags)
    BY <1>3, SearchIs DEF Kinds
  <2>2. m \in Nat /\ LinesOk(ReadLines(lines, m))
    BY <2>1, ReadLinesOk
  <2>3. IsSeq(Places(ReadLines(lines, m)))
    BY <2>2, PlaceIn
  <2>4. \A j \in 1 .. Len(dps) : /\ dps[j].pop \in flags
                                 /\ dps[j].data = Junk /\ dps[j].init = Junk
    BY <2>1, <2>3, SearchedLemma DEF Searched
  <2> QED BY <1>3, <2>1, <2>4 DEF Typed, Cell
<1> QED BY <1>1, <1>2, <1>3

\* A data point and what it is changed to, in place.
Holds(d) == d.data \in Cell /\ d.init \in Cell /\ d.pop \in BOOLEAN
Changed(d, old) == Holds(d) /\ d.at = old.at

\* A data point takes any cell's value, under a new name or the old one.
LEMMA ChangeLemma ==
    ASSUME NEW dp, Fields \subseteq DOMAIN dp, Holds(dp), NEW v \in Cell, NEW kept, NEW x
    PROVE  LET d == [dp EXCEPT !.name = x]
           IN  /\ Changed(d, dp) /\ Changed(dtop_store_dp(d, v, kept), dp)
               /\ Changed(dtop_store_dp(dp, v, kept), dp)
<1> DEFINE d == [dp EXCEPT !.name = x]
<1>1. Fields \subseteq DOMAIN d /\ d.data = dp.data /\ d.init = dp.init /\ d.pop = dp.pop /\ d.at = dp.at
  BY DEF Fields
<1> HIDE DEF d
<1>2. Changed(d, dp)
  BY <1>1 DEF Changed, Holds
<1>3. Changed(dtop_store_dp(d, v, kept), d)
  BY <1>1, <1>2, StoreTyped DEF Changed, Holds
<1>4. Changed(dtop_store_dp(dp, v, kept), dp)
  BY StoreTyped DEF Changed, Holds
<1> QED BY <1>1, <1>2, <1>3, <1>4 DEF d, Changed

\* Changed in place, data points keep their types.
LEMMA TypedLike ==
    ASSUME NEW kind, NEW n, NEW dps, Typed(kind, n, dps), NEW q, Len(q) = Len(dps),
           \A j \in 1 .. Len(dps) : Changed(q[j], dps[j])
    PROVE  Typed(kind, n, q)
BY DEF Typed, Changed, Holds

\* A poll of a file whose lines stay.
LEMMA UpdatedTyped ==
    ASSUME NEW kind, NEW n, NEW lines, NEW first, Alike(lines, first), NEW dps, Points(dps, first),
           Typed(kind, n, dps), NEW q, Points(q, first), Updated(q, dps, lines)
    PROVE  Typed(kind, n, q)
<1>1. LinesOk(first) /\ Len(q) = Len(dps)
      /\ \A j \in 1 .. Len(dps) : q[j].at = dps[j].at /\ dps[j].at = Places(first)[j]
  BY DEF Alike, Points
<1>2. Len(dps) = Len(Places(first))
  BY DEF Points
<1>3. \A j \in 1 .. Len(dps) : InPlace(dps[j].at, first)
  BY <1>1, <1>2, PlaceIn
<1>4. \A j \in 1 .. Len(dps) : Stands(lines, dps[j].at) \in Cell
  BY <1>3, AtPlace DEF Cell
<1>5. \A j \in 1 .. Len(dps) : Changed(q[j], dps[j])
  BY <1>1, <1>4 DEF Updated, Typed, Changed, Holds
<1> QED BY <1>1, <1>5, TypedLike

\* A poll, whatever its file says now, of the kinds whose files may move.
LEMMA MovedPollTyped ==
    ASSUME NEW kind \in {"dual", "dev", "stat"}, NEW lines \in Seq(Line), NEW n \in Nat,
           NEW dps, IsDps(dps), Typed(kind, n, dps), NEW r \in Poll(kind, dps, lines, n)
    PROVE  Typed(kind, n, r.dps)
<1>1. PICK v, k :
         /\ r.dps = Polled(kind, dps, lines, n, v, k)
         /\ kind = "stat" => v \in StatVals(lines, n)
  BY PollIs
<1>2. /\ DOMAIN dps = 1 .. Len(dps) /\ Len(dps) \in Nat
      /\ \A j \in 1 .. Len(dps) : Fields \subseteq DOMAIN dps[j] /\ Holds(dps[j])
  BY InSeq DEF IsDps, IsSeq, Typed, Holds
<1>3. ASSUME NEW q, q = [j \in DOMAIN dps |-> q[j]],
             \A j \in 1 .. Len(dps) : Changed(q[j], dps[j]), r.dps = q
      PROVE  Typed(kind, n, r.dps)
  <2>1. Len(q) = Len(dps)
    BY <1>2, <1>3
  <2> QED BY <1>3, <2>1, TypedLike
<1>4. CASE kind = "dual"
  <2> DEFINE q == dtop_dual_line_poll(dps, lines, n, k)
             lns == ReadLines(lines, n)
             Found(at) == {p \in 1 .. n : lns[p].name = lns[at[1]].name /\ at[2] \in DOMAIN lns[p].vals}
             LastOf(at) == CHOOSE p \in Found(at) : \A p2 \in Found(at) : p2 <= p
             Named(j) == [dps[j] EXCEPT !.name = At(lns, dps[j].at).name]
             Val(j) == lns[LastOf(dps[j].at)].vals[dps[j].at[2]]
             Body(j) == IF Found(dps[j].at) = {} THEN Named(j) ELSE dtop_store_dp(Named(j), Val(j), k)
  <2>1. q = [j \in DOMAIN dps |-> Body(j)]
    BY Zenon DEF dtop_dual_line_poll
  <2>2. \A p \in 1 .. n : \A c \in DOMAIN lns[p].vals : lns[p].vals[c] \in Cell
    BY ReadTyped
  <2>3. ASSUME NEW j \in 1 .. Len(dps) PROVE Changed(Body(j), dps[j])
    <3> DEFINE at == dps[j].at
               x == At(lns, at).name
    <3>1. CASE Found(at) = {}
      <4>1. Body(j) = [dps[j] EXCEPT !.name = x]
        BY <3>1
      <4>2. Junk \in Cell
        BY DEF Cell
      <4> QED BY <1>2, <4>1, <4>2, ChangeLemma
    <3>2. CASE Found(at) # {}
      <4>1. Found(at) \in SUBSET (1 .. n)
        OBVIOUS
      <4> HIDE DEF lns
      <4>2. \E p \in Found(at) : \A p2 \in Found(at) : p2 <= p
        BY <3>2, <4>1, Greatest
      <4>3. LastOf(at) \in Found(at)
        BY <4>2
      <4> HIDE DEF LastOf
      <4>4. Val(j) \in Cell
        BY <2>2, <4>3
      <4>5. Body(j) = dtop_store_dp([dps[j] EXCEPT !.name = x], Val(j), k)
        BY <3>2
      <4> HIDE DEF Found, Val, Body, x
      <4> QED BY <1>2, <4>4, <4>5, ChangeLemma
    <3> QED BY <3>1, <3>2
  <2> HIDE DEF Body, q
  <2>4. q = [j \in DOMAIN dps |-> q[j]] /\ \A j \in 1 .. Len(dps) : Changed(q[j], dps[j])
    BY <1>2, <2>1, <2>3
  <2>5. r.dps = q
    BY <1>1, <1>4, PolledIs DEF q
  <2> QED BY <1>3, <2>4, <2>5
<1>5. CASE kind = "dev"
  <2> DEFINE q == dtop_dev_poll(dps, lines, n, k)
             cell(j) == At(ReadLines(lines, n), dps[j].at)
             Named(j) == [dps[j] EXCEPT !.name = cell(j).name]
             Body(j) == dtop_store_dp(Named(j), cell(j).val, k)
  <2>1. q = [j \in DOMAIN dps |-> Body(j)]
    BY Zenon DEF dtop_dev_poll
  <2>2. ASSUME NEW j \in 1 .. Len(dps) PROVE Changed(Body(j), dps[j])
    <3>1. dps[j].at[1] \in 1 .. n
      BY <1>5 DEF Typed
    <3>2. cell(j).val \in Cell
      BY <3>1, AtTyped
    <3> HIDE DEF cell
    <3> QED BY <1>2, <3>2, ChangeLemma
  <2> HIDE DEF Body, q
  <2>4. q = [j \in DOMAIN dps |-> q[j]] /\ \A j \in 1 .. Len(dps) : Changed(q[j], dps[j])
    BY <1>2, <2>1, <2>2
  <2>5. r.dps = q
    BY <1>1, <1>5, PolledIs DEF q
  <2> QED BY <1>3, <2>4, <2>5
<1>6. CASE kind = "stat"
  <2> DEFINE q == dtop_stat_poll(dps, v, k)
             Body(j) == IF j \in DOMAIN v THEN dtop_store_dp(dps[j], v[j], k) ELSE dps[j]
  <2>1. q = [j \in DOMAIN dps |-> Body(j)]
    BY Zenon DEF dtop_stat_poll
  <2>2. \A j \in DOMAIN v : v[j] \in Cell
    BY <1>1, <1>6, StatTyped
  <2>3. ASSUME NEW j \in 1 .. Len(dps) PROVE Changed(Body(j), dps[j])
    <3>1. CASE j \in DOMAIN v
      BY <1>2, <2>2, <3>1, ChangeLemma
    <3>2. CASE j \notin DOMAIN v
      BY <1>2, <3>2 DEF Changed
    <3> QED BY <3>1, <3>2
  <2> HIDE DEF Body, q
  <2>4. q = [j \in DOMAIN dps |-> q[j]] /\ \A j \in 1 .. Len(dps) : Changed(q[j], dps[j])
    BY <1>2, <2>1, <2>3
  <2>5. r.dps = q
    BY <1>1, <1>6, PolledIs DEF q
  <2> QED BY <1>3, <2>4, <2>5
<1> QED BY <1>4, <1>5, <1>6

-----------------------------------------------------------------------------
\* main() is somewhere, and knows where to go on after a walk.
PlaceInv == pc \in Pcs /\ (pc = "poll" => back # "none")

\* Every step moves main() from one place to another.
LEMMA PlaceKept == ASSUME PlaceInv, back \in Backs, [Next]_vars PROVE PlaceInv'
<1> USE DEF PlaceInv, Pcs
<1>1. CASE ParseArgs \/ CountLines \/ SearchFile \/ InitDone
  BY <1>1 DEF ParseArgs, CountLines, SearchFile, InitDone, Exit, Walk
<1>2. CASE PollGroup \/ PollCrash \/ PollDone \/ dtop_print_terminal
  BY <1>2 DEF PollGroup, PollCrash, PollDone, dtop_print_terminal, Backs
<1>3. CASE OpenCsv \/ WriteHeader \/ LoopTest
  BY <1>3 DEF OpenCsv, WriteHeader, LoopTest, Exit
<1>4. CASE SelectInput \/ SelectTimeout \/ Quit \/ QuitCrash \/ Command \/ WriteRow
  BY <1>4 DEF SelectInput, SelectTimeout, Quit, QuitCrash, Command, WriteRow, Walk
<1>5. CASE ShowTotal \/ CloseCsv \/ Fork \/ Child \/ WaitPid
  BY <1>5 DEF ShowTotal, CloseCsv, Fork, Child, WaitPid, dtop_print_system_snapshot
<1>6. CASE AfterSnapshot \/ Sleep \/ deconstruct_dpgs
  BY <1>6 DEF AfterSnapshot, Sleep, deconstruct_dpgs, Exit, Walk
<1>7. CASE Leave \/ IpThread \/ Bump \/ LineMoves \/ FileMoves \/ Type \/ CloseStdin \/ UNCHANGED vars
  <2>1. CASE Leave \/ IpThread \/ UNCHANGED vars
    BY <2>1 DEF Leave, IpThread, vars, mainVars
  <2>2. CASE Bump
    <3>1. UNCHANGED mainVars
      BY <2>2 DEF Bump
    <3> QED BY <3>1 DEF mainVars
  <2>3. CASE LineMoves
    <3>1. UNCHANGED mainVars
      BY <2>3 DEF LineMoves
    <3> QED BY <3>1 DEF mainVars
  <2>4. CASE FileMoves
    <3>1. UNCHANGED mainVars
      BY <2>4 DEF FileMoves
    <3> QED BY <3>1 DEF mainVars
  <2>5. CASE Type \/ CloseStdin
    BY <2>5 DEF Type, CloseStdin, mainVars
  <2> QED BY <1>7, <2>1, <2>2, <2>3, <2>4, <2>5
<1> QED BY <1>1, <1>2, <1>3, <1>4, <1>5, <1>6, <1>7 DEF Next, Main

\* The clock and its samples; the time that polls took is cut off above the period.
ClockInv == now \in Nat /\ curtime \in Nat /\ spent \in 0 .. opts.poll_per + 1

\* The clock does not run past the end of a run that has one.
LEMMA AheadLemma ==
    ASSUME OptsInv, pc \notin {"parse", "exit"}, NEW t \in Nat, NEW d \in Nat
    PROVE  Ahead(t, d) \in Nat
<1>1. CASE Endless
  BY <1>1 DEF Ahead
<1>2. CASE ~Endless
  <2>1. opts.poll_time \in Nat /\ Sec \in Nat
    BY <1>2, DatatopAssumption DEF OptsInv
  <2>2. End \in Nat
    BY <2>1 DEF End
  <2> DEFINE e == End
  <2>3. e \in Nat /\ Ahead(t, d) = Min({t + d, e})
    BY <1>2, <2>2 DEF Ahead
  <2> HIDE DEF e
  <2>4. CASE t + d <= e
    BY <2>3, <2>4, MinLemma
  <2>5. CASE e <= t + d
    <3>1. {t + d, e} = {e, t + d}
      OBVIOUS
    <3> QED BY <2>3, <2>5, <3>1, MinLemma
  <2> QED BY <2>3, <2>4, <2>5
<1> QED BY <1>1, <1>2

\* What is taken off the next wait.
LEMMA SpentLemma ==
    ASSUME OptsInv, ClockInv, NEW d \in Nat
    PROVE  Longer(d) \in 0 .. opts.poll_per + 1
<1> DEFINE m == opts.poll_per + 1
<1>1. m \in Nat /\ spent + d \in Nat /\ Longer(d) = Min({spent + d, m})
  BY DEF OptsInv, ClockInv, Longer
<1> HIDE DEF m
<1>2. CASE spent + d <= m
  BY <1>1, <1>2, MinLemma DEF m
<1>3. CASE m <= spent + d
  <2>1. {spent + d, m} = {m, spent + d}
    OBVIOUS
  <2>2. Longer(d) = m
    BY <1>1, <1>3, <2>1, MinLemma
  <2> QED BY <1>1, <2>2 DEF m
<1> QED BY <1>1, <1>2, <1>3

\* Time passes in polls, in waits and while the user thinks.
LEMMA ClockKept == ASSUME ClockInv, OptsInv, OptsInv', [Next]_vars PROVE ClockInv'
<1>0. 0 \in 0 .. opts.poll_per + 1
  BY DEF OptsInv
<1>1. CASE UNCHANGED <<timeVars, opts>>
  BY <1>1 DEF ClockInv, timeVars
<1>2. CASE ParseArgs
  <2>1. spent = 0 /\ UNCHANGED timeVars /\ opts'.poll_per \in Nat
    BY <1>2 DEF ParseArgs, OptsInv
  <2> QED BY <2>1 DEF ClockInv, timeVars
<1>3. CASE PollDone
  <2>1. PICK d \in WorkTimes : spent' = Longer(d) /\ now' = Ahead(now, d)
    BY <1>3 DEF PollDone
  <2>2. d \in Nat /\ pc \notin {"parse", "exit"} /\ UNCHANGED <<opts, curtime>>
    BY <1>3, DatatopAssumption DEF PollDone
  <2> QED BY <2>1, <2>2, AheadLemma, SpentLemma DEF ClockInv
<1>4. CASE WriteHeader
  <2>1. PICK f \in 0 .. Sec - 1 : now' = Ahead(f, 0) /\ curtime' = Ahead(f, 0)
    BY <1>4 DEF WriteHeader
  <2>2. f \in Nat /\ pc \notin {"parse", "exit"} /\ UNCHANGED opts /\ spent' = 0
    BY <1>4, DatatopAssumption DEF WriteHeader
  <2> QED BY <2>1, <2>2, <1>0, AheadLemma DEF ClockInv
<1>5. CASE SelectInput
  <2>1. PICK d \in (IF Timeout < 0 THEN {0} ELSE {0, Timeout}) : now' = Ahead(now, d)
    BY <1>5 DEF SelectInput
  <2>2. Timeout \in Int
    BY DEF Timeout, OptsInv, ClockInv
  <2>3. d \in Nat /\ pc \notin {"parse", "exit"} /\ UNCHANGED <<opts, curtime>> /\ spent' = 0
    BY <1>5, <2>2 DEF SelectInput
  <2> QED BY <2>1, <2>3, <1>0, AheadLemma DEF ClockInv
<1>6. CASE SelectTimeout
  <2>1. /\ Timeout \in Nat /\ pc \notin {"parse", "exit"} /\ UNCHANGED opts /\ spent' = 0
        /\ now' = Ahead(now, Timeout) /\ curtime' = now'
    BY <1>6 DEF SelectTimeout, Timeout, OptsInv, ClockInv
  <2> QED BY <2>1, <1>0, AheadLemma DEF ClockInv
<1>7. CASE Command
  BY <1>7 DEF Command, ClockInv
<1>8. CASE Type
  <2>1. pc \notin {"parse", "exit"} /\ UNCHANGED <<opts, curtime>>
    BY <1>8 DEF Type, mainVars
  <2>2. \/ UNCHANGED <<spent, now>>
        \/ \E d \in {0, opts.poll_per + 1} : spent' = Longer(d) /\ now' = Ahead(now, d)
    BY <1>8 DEF Type
  <2>3. {0, opts.poll_per + 1} \subseteq Nat
    BY DEF OptsInv
  <2> QED BY <2>1, <2>2, <2>3, AheadLemma, SpentLemma DEF ClockInv
<1>9. CASE CountLines \/ SearchFile \/ InitDone \/ PollGroup \/ PollCrash \/ dtop_print_terminal
           \/ OpenCsv \/ LoopTest
  BY <1>1, <1>9 DEF CountLines, SearchFile, InitDone, PollGroup, PollCrash, dtop_print_terminal,
     OpenCsv, LoopTest
<1>10. CASE Quit \/ QuitCrash \/ WriteRow \/ ShowTotal \/ CloseCsv \/ Fork \/ Child \/ WaitPid
            \/ AfterSnapshot \/ Sleep \/ deconstruct_dpgs
  BY <1>1, <1>10 DEF Quit, QuitCrash, WriteRow, ShowTotal, CloseCsv, Fork, Child, WaitPid,
     AfterSnapshot, Sleep, deconstruct_dpgs
<1>11. CASE Leave \/ IpThread \/ Bump \/ LineMoves \/ FileMoves \/ CloseStdin \/ UNCHANGED vars
  <2>1. CASE Leave \/ IpThread \/ CloseStdin \/ UNCHANGED vars
    BY <1>1, <2>1 DEF Leave, IpThread, CloseStdin, vars, mainVars
  <2>2. CASE Bump \/ LineMoves \/ FileMoves
    <3>1. UNCHANGED mainVars /\ UNCHANGED timeVars
      BY <2>2 DEF Bump, LineMoves, FileMoves
    <3> QED BY <1>1, <3>1 DEF mainVars
  <2> QED BY <1>11, <2>1, <2>2
<1> QED BY <1>2, <1>3, <1>4, <1>5, <1>6, <1>7, <1>8, <1>9, <1>10, <1>11 DEF Next, Main

\* The data points of the groups that were found are typed, and no other group
\* has any. Lines come and go in some kinds of files only.
DpsInv ==
    /\ \A g \in moved : Kind[g] \in {"dual", "dev", "stat"}
    /\ \A g \in Range(list) : Typed(Kind[g], count[g], grp[g])
    /\ \A g \in Groups \ Range(list) : grp[g] = <<>>

\* dtop_get_file_line_amount is called for a group that is not yet registered.
LEMMA CountTyped == ASSUME DpsInv, DataInv, CountLines PROVE DpsInv'
<1> DEFINE g == Head(todo)
<1>1. /\ pc = "init" /\ todo # <<>> /\ UNCHANGED <<moved, grp, list>>
      /\ \/ count' = [count EXCEPT ![g] = Len(file[g].lines)]
         \/ UNCHANGED count
  BY DEF CountLines, envVars
<1>2. g \notin Range(list)
  <2>1. todo \in Seq(Groups) /\ g = todo[1] /\ 1 \in DOMAIN todo
    BY <1>1 DEF DataInv, WalkInv
  <2> QED BY <1>1, <2>1 DEF DataInv, WalkInv, Range
<1> HIDE DEF g
<1>3. DOMAIN count = Groups /\ Range(list) \subseteq Groups
  BY GroupsOfSeq DEF DataInv, GroupInv, WalkInv, Distinct
<1>4. \A d \in Range(list) : count'[d] = count[d]
  BY <1>1, <1>2, <1>3
<1> QED BY <1>1, <1>4 DEF DpsInv

\* dtop_register: the list gains a group.
LEMMA Registered ==
    ASSUME NEW s \in Seq(Groups), NEW g \in Groups PROVE Range(<<g>> \o s) = Range(s) \cup {g}
<1> DEFINE h == <<g>>
           u == h \o s
<1>1. h \in Seq(Groups) /\ Len(h) = 1 /\ h[1] = g
  OBVIOUS
<1> HIDE DEF h
<1>2. /\ u \in Seq(Groups) /\ Len(u) = Len(h) + Len(s)
      /\ \A i \in 1 .. Len(h) + Len(s) : u[i] = IF i <= Len(h) THEN h[i] ELSE s[i - Len(h)]
  BY <1>1, ConcatProperties
<1> HIDE DEF u
<1>3. /\ DOMAIN u = 1 .. Len(s) + 1 /\ u[1] = g /\ DOMAIN s = 1 .. Len(s) /\ Len(s) \in Nat
      /\ \A i \in 2 .. Len(s) + 1 : u[i] = s[i - 1]
  BY <1>1, <1>2
<1>4. \A x \in Range(u) : x = g \/ x \in Range(s)
  BY <1>3 DEF Range
<1>5. g \in Range(u)
  BY <1>3 DEF Range
<1>6. \A i \in 1 .. Len(s) : i + 1 \in DOMAIN u /\ u[i + 1] = s[i]
  BY <1>3
<1>7. \A x \in Range(s) : x \in Range(u)
  BY <1>3, <1>6 DEF Range
<1>8. Range(u) = Range(s) \cup {g}
  BY <1>4, <1>5, <1>7
<1> QED BY <1>8 DEF u, h

\* dtop_*_search: what is registered is typed.
LEMMA SearchFileTyped == ASSUME DpsInv, DataInv, SearchFile PROVE DpsInv'
<1> DEFINE g == Head(todo)
<1>0. todo # <<>> /\ todo \in Seq(Groups)
  BY DEF SearchFile, DataInv, WalkInv
<1>1. /\ UNCHANGED <<moved, count>>
      /\ \/ UNCHANGED <<grp, list>>
         \/ \E dps \in Search(Kind[g], file[g].lines, count[g]) : dtop_register(g, dps)
  BY DEF SearchFile, envVars
<1>2. g \in Groups /\ Kind[g] \in Kinds
  BY <1>0, DatatopAssumption
<1> HIDE DEF g
<1>3. CASE UNCHANGED <<grp, list>>
  BY <1>1, <1>3 DEF DpsInv
<1>4. ASSUME NEW dps \in Search(Kind[g], file[g].lines, count[g]), dtop_register(g, dps)
      PROVE  DpsInv'
  <2>1. LinesOk(file[g].lines) /\ count[g] \in Nat /\ DOMAIN grp = Groups
    BY <1>2, LineLinesOk DEF DataInv, FileInv, GroupInv
  <2>2. Typed(Kind[g], count[g], dps)
    BY <1>2, <1>4, <2>1, SearchTyped
  <2>3. grp' = [grp EXCEPT ![g] = dps] /\ list' = <<g>> \o list
    BY <1>4 DEF dtop_register
  <2>4. Range(list') = Range(list) \cup {g}
    <3>1. list \in Seq(Groups)
      BY DEF DataInv, WalkInv, Distinct
    <3> QED BY <1>2, <2>3, <3>1, Registered
  <2>5. grp'[g] = dps /\ \A d \in Groups : d # g => grp'[d] = grp[d]
    BY <1>2, <2>1, <2>3
  <2>6. Range(list) \subseteq Groups
    BY GroupsOfSeq DEF DataInv, WalkInv, Distinct
  <2> QED BY <1>1, <2>2, <2>4, <2>5, <2>6 DEF DpsInv
<1> QED BY <1>1, <1>3, <1>4

\* dtop_poll: whether the lines of its file moved or not.
LEMMA PollGroupTyped == ASSUME DpsInv, DataInv, PollGroup PROVE DpsInv'
<1>1. PICK g : g = Head(todo)
  OBVIOUS
<1>2. /\ pc = "poll" /\ todo # <<>> /\ UNCHANGED <<moved, count, list>>
      /\ \/ UNCHANGED grp
         \/ \E r \in Poll(Kind[g], grp[g], file[g].lines, count[g]) : grp' = [grp EXCEPT ![g] = r.dps]
  BY <1>1 DEF PollGroup, envVars
<1>3. g \in Range(list) /\ g \in Groups /\ Kind[g] \in Kinds /\ Range(list) \subseteq Groups
  <2>1. todo \in Seq(Groups) /\ Range(todo) \subseteq Range(list) /\ Range(list) \subseteq Groups
    BY <1>2, GroupsOfSeq DEF DataInv, WalkInv, Distinct
  <2>2. 1 \in DOMAIN todo /\ g = todo[1]
    BY <1>1, <1>2, <2>1
  <2> QED BY <2>1, <2>2, DatatopAssumption DEF Range
<1>4. CASE UNCHANGED grp
  BY <1>2, <1>4 DEF DpsInv
<1>5. ASSUME NEW r \in Poll(Kind[g], grp[g], file[g].lines, count[g]), grp' = [grp EXCEPT ![g] = r.dps]
      PROVE  DpsInv'
  <2>1. DOMAIN grp = Groups /\ IsDps(grp[g]) /\ count[g] \in Nat /\ file[g].lines \in Seq(Line)
    BY <1>3 DEF DataInv, GroupInv, FileInv
  <2>2. Typed(Kind[g], count[g], grp[g])
    BY <1>3 DEF DpsInv
  <2>3. Typed(Kind[g], count[g], r.dps)
    <3>1. CASE g \in moved
      <4>1. Kind[g] \in {"dual", "dev", "stat"}
        BY <3>1 DEF DpsInv
      <4> QED BY <2>1, <2>2, <4>1, <1>5, MovedPollTyped
    <3>2. CASE g \notin moved
      <4>1. Alike(file[g].lines, FirstLines[g]) /\ Shaped(Kind[g], FirstLines[g])
        BY <1>3, <3>2, FileAssumption DEF DataInv, FileInv
      <4>2. Points(grp[g], FirstLines[g]) /\ (Kind[g] \in CountsLines => count[g] = Len(FirstLines[g]))
        BY <1>3, <3>2 DEF DataInv, GroupInv
      <4>3. Points(r.dps, FirstLines[g]) /\ Updated(r.dps, grp[g], file[g].lines)
        BY <1>3, <1>5, <4>1, <4>2, PollPoints
      <4> QED BY <2>2, <4>1, <4>2, <4>3, UpdatedTyped
    <3> QED BY <3>1, <3>2
  <2>4. grp'[g] = r.dps /\ \A d \in Groups : d # g => grp'[d] = grp[d]
    BY <1>3, <1>5, <2>1
  <2> QED BY <1>2, <1>3, <2>3, <2>4 DEF DpsInv
<1> QED BY <1>2, <1>4, <1>5

\* i only takes the flags away.
LEMMA ResetTyped ==
    ASSUME NEW kind, NEW n, NEW dps, IsDps(dps), Typed(kind, n, dps)
    PROVE  Typed(kind, n, dtop_reset_dp_initial_values(dps))
<1> DEFINE q == dtop_reset_dp_initial_values(dps)
           Body(j) == [dps[j] EXCEPT !.pop = FALSE]
<1>1. DOMAIN dps = 1 .. Len(dps) /\ Len(dps) \in Nat /\ q = [j \in DOMAIN dps |-> Body(j)]
  BY InSeq DEF IsDps, IsSeq, dtop_reset_dp_initial_values
<1>2. \A j \in 1 .. Len(dps) : Changed(Body(j), dps[j])
  BY DEF IsDps, Fields, Typed, Changed, Holds
<1> HIDE DEF Body, q
<1>3. Len(q) = Len(dps) /\ \A j \in 1 .. Len(dps) : Changed(q[j], dps[j])
  BY <1>1, <1>2
<1>4. Typed(kind, n, q)
  BY <1>3, TypedLike
<1> QED BY <1>4 DEF q

\* i, l and the rest.
LEMMA CommandTyped == ASSUME DpsInv, DataInv, Command PROVE DpsInv'
<1>1. /\ UNCHANGED <<moved, count, list>>
      /\ \/ UNCHANGED grp
         \/ grp' = [d \in Groups |-> IF d \in Range(list)
                                     THEN dtop_reset_dp_initial_values(grp[d]) ELSE grp[d]]
  BY DEF Command, Walk, ResetAll, envVars
<1>2. CASE UNCHANGED grp
  BY <1>1, <1>2 DEF DpsInv
<1>3. CASE grp' = [d \in Groups |-> IF d \in Range(list)
                                    THEN dtop_reset_dp_initial_values(grp[d]) ELSE grp[d]]
  <2>1. Range(list) \subseteq Groups /\ \A d \in Range(list) : IsDps(grp[d])
    BY GroupsOfSeq DEF DataInv, WalkInv, Distinct, GroupInv
  <2>2. \A d \in Range(list) : grp'[d] = dtop_reset_dp_initial_values(grp[d])
    BY <1>3, <2>1
  <2>3. \A d \in Groups \ Range(list) : grp'[d] = grp[d]
    BY <1>3
  <2>4. \A d \in Range(list) : Typed(Kind[d], count[d], grp'[d])
    BY <2>1, <2>2, ResetTyped DEF DpsInv
  <2> QED BY <1>1, <2>3, <2>4 DEF DpsInv
<1> QED BY <1>1, <1>2, <1>3

\* No other step changes the data points.
LEMMA DpsKept == ASSUME DpsInv, DataInv, [Next]_vars PROVE DpsInv'
<1>1. CASE UNCHANGED <<moved, count, grp, list>>
  BY <1>1 DEF DpsInv
<1>2. CASE CountLines \/ SearchFile \/ PollGroup \/ Command
  BY <1>2, CountTyped, SearchFileTyped, PollGroupTyped, CommandTyped
<1>3. CASE LineMoves
  <2>1. PICK g \in Groups : Kind[g] \in {"dual", "dev", "stat"} /\ moved' = moved \cup {g}
    BY <1>3 DEF LineMoves
  <2>2. UNCHANGED <<count, grp, list>>
    BY <1>3 DEF LineMoves, groupVars
  <2> QED BY <2>1, <2>2 DEF DpsInv
<1>4. CASE ParseArgs \/ InitDone \/ PollCrash \/ PollDone \/ dtop_print_terminal \/ OpenCsv
           \/ WriteHeader \/ LoopTest \/ SelectInput \/ SelectTimeout
  BY <1>1, <1>4 DEF ParseArgs, InitDone, PollCrash, PollDone, dtop_print_terminal, OpenCsv,
     WriteHeader, LoopTest, SelectInput, SelectTimeout, envVars, groupVars
<1>5. CASE Quit \/ QuitCrash \/ WriteRow \/ ShowTotal \/ CloseCsv \/ Fork \/ Child \/ WaitPid
           \/ AfterSnapshot \/ Sleep \/ deconstruct_dpgs
  BY <1>1, <1>5 DEF Quit, QuitCrash, WriteRow, ShowTotal, CloseCsv, Fork, Child, WaitPid,
     AfterSnapshot, Sleep, deconstruct_dpgs, envVars, groupVars
<1>6. CASE Leave \/ IpThread \/ Bump \/ FileMoves \/ Type \/ CloseStdin \/ UNCHANGED vars
  BY <1>1, <1>6 DEF Leave, IpThread, Bump, FileMoves, Type, CloseStdin, vars, envVars, groupVars
<1> QED BY <1>2, <1>3, <1>4, <1>5, <1>6 DEF Next, Main

\* They say that every state is typed.
TypesInv == DataInv /\ OptsInv /\ PlaceInv /\ ClockInv /\ DpsInv

\* Nothing is found at first.
LEMMA InitTypes == Init => TypesInv
<1> SUFFICES ASSUME Init PROVE TypesInv
  OBVIOUS
<1>1. PlaceInv
  BY DEF Init, PlaceInv, Pcs
<1>2. OptsInv /\ DataInv
  BY InitOpts, InitData
<1>3. ClockInv
  <2>1. now = 0 /\ curtime = 0 /\ spent = 0 /\ opts.poll_per \in Nat
    BY <1>2 DEF Init, OptsInv
  <2> QED BY <2>1 DEF ClockInv
<1>4. DpsInv
  <2>1. list = <<>> /\ moved = {} /\ grp = [g \in Groups |-> <<>>]
    BY DEF Init
  <2>2. Range(list) = {}
    BY <2>1 DEF Range
  <2> QED BY <2>1, <2>2 DEF DpsInv
<1> QED BY <1>1, <1>2, <1>3, <1>4 DEF TypesInv

\* The type invariant, of it.
LEMMA TypesType == TypesInv => TypeOK
<1> SUFFICES ASSUME TypesInv PROVE TypeOK
  OBVIOUS
<1>1. pc \in Pcs /\ setup \in Setups /\ back \in Pcs \cup {"none"}
  BY DEF TypesInv, PlaceInv, OptsInv, Backs, Pcs
<1>2. Range(list) \subseteq Groups /\ Range(todo) \subseteq Groups
  BY GroupsOfSeq DEF TypesInv, DataInv, WalkInv, Distinct
<1>3. ASSUME NEW g \in Groups, NEW j \in DOMAIN grp[g]
      PROVE  /\ {grp[g][j].data, grp[g][j].init} \subseteq Value \cup {Junk}
             /\ grp[g][j].pop \in BOOLEAN
  <2>1. CASE g \in Range(list)
    <3>1. IsDps(grp[g]) /\ Typed(Kind[g], count[g], grp[g])
      BY <2>1 DEF TypesInv, DataInv, GroupInv, DpsInv
    <3>2. j \in 1 .. Len(grp[g])
      BY <3>1, InSeq DEF IsDps
    <3> QED BY <3>1, <3>2 DEF Typed, Cell
  <2>2. CASE g \notin Range(list)
    BY <2>2 DEF TypesInv, DpsInv
  <2> QED BY <2>1, <2>2
<1>4. now \in Nat /\ curtime \in Nat /\ spent \in 0 .. opts.poll_per + 1
  BY DEF TypesInv, ClockInv
<1>5. moved \subseteq Groups /\ heap \in {"ok", "overrun"}
  BY DEF TypesInv, DataInv, FileInv, GroupInv
<1> QED BY <1>1, <1>2, <1>3, <1>4, <1>5 DEF TypeOK

\* Whatever files, groups and command lines there are, main() is where it can
\* be, the data points hold values of files or junk, the clock counts, and the
\* time that polls took stays within what select is given.
THEOREM TypesHold == Spec => []TypeOK
<1>1. TypesInv /\ [Next]_vars => TypesInv'
  <2> SUFFICES ASSUME TypesInv, [Next]_vars PROVE TypesInv'
    OBVIOUS
  <2>1. DataInv' /\ OptsInv'
    BY DataKept, OptsKept DEF TypesInv
  <2>2. PlaceInv'
    BY PlaceKept DEF TypesInv, OptsInv
  <2>3. ClockInv' /\ DpsInv'
    BY <2>1, ClockKept, DpsKept DEF TypesInv
  <2> QED BY <2>1, <2>2, <2>3 DEF TypesInv
<1> QED BY <1>1, InitTypes, TypesType, PTL DEF Spec
=============================================================================
