--------------------------- MODULE DatatopIpTable ---------------------------
(***************************************************************************)
(* The thread that logs iptables, rules and routes (datatop -r), against   *)
(* the exit handler that frees what it works on. The handler takes the     *)
(* thread's lock but leaves ip_dpg_list pointing at the freed list, and    *)
(* the process lives on for a moment after it.                             *)
(*                                                                         *)
(* Time is counted in half seconds, the length of the thread's sleep;      *)
(* time() is cut to whole seconds. What a command prints is left out.      *)
(***************************************************************************)
EXTENDS Integers

CONSTANTS IpGroups,   \* how many commands there are (42 in the code)
          PollDelays  \* what a command or a late wake-up may take

ASSUME IpAssumption == IpGroups \in Nat /\ PollDelays \subseteq Nat

VARIABLES
  proc,       \* "run", "exit" (exit() called), "clean" (handler), "after", "dead"
  thr,        \* where the thread is
  cur,        \* its curr_ptr: a position in the list
  owner,      \* who holds dtop_ip_table_lock
  registered, \* the exit handler is registered
  ipg,        \* per group: its FILE and how often it was freed
  since,      \* half seconds since start_t, no more than Long
  half,       \* start_t cut this much off
  touched     \* a freed group was used

ipVars == <<proc, thr, cur, owner, registered, ipg, since, half, touched>>

IpPeriod == 5
Long == 2 * IpPeriod
Later(d) == since' = IF since + d > Long THEN Long ELSE since + d

IpInit ==
  /\ proc = "run" /\ thr = "none" /\ cur = 1 /\ owner = "none"
  /\ registered = FALSE /\ since = Long /\ half = 0 /\ touched = FALSE
  /\ ipg = [k \in 1 .. IpGroups |-> [file |-> "null", freed |-> 0]]

Alive == proc # "dead"
Touch(k) == touched' = (touched \/ ipg[k].freed > 0)

\* pthread_create in main(); it may fail, and main() goes on.
StartThread == /\ thr' \in {"mutex", "none"}
               /\ UNCHANGED <<proc, cur, owner, registered, ipg, since, half, touched>>

ThrMutexInit == /\ Alive /\ thr = "mutex"
                /\ thr' \in {"atexit", "gone"}
                /\ UNCHANGED <<proc, cur, owner, registered, ipg, since, half, touched>>

ThrAtexit == /\ Alive /\ thr = "atexit"
             /\ thr' = "files" /\ registered' = TRUE
             /\ UNCHANGED <<proc, cur, owner, ipg, since, half, touched>>

\* One turn of dtop_ip_table_init_files; the thread ends at the first failure.
dtop_ip_table_init_files ==
  /\ Alive /\ thr = "files"
  /\ IF cur > IpGroups
     THEN thr' = "head" /\ UNCHANGED <<cur, ipg, touched>>
     ELSE /\ Touch(cur)
          /\ \/ /\ ipg' = [ipg EXCEPT ![cur].file = "open"]
                /\ cur' = cur + 1 /\ thr' = thr
             \/ thr' = "gone" /\ UNCHANGED <<ipg, cur>>
  /\ UNCHANGED <<proc, owner, registered, since, half>>

\* curr_ptr = ip_dpg_list, before the lock is taken.
ThrHead == /\ Alive /\ thr = "head"
           /\ thr' = "lock" /\ cur' = 1
           /\ UNCHANGED <<proc, owner, registered, ipg, since, half, touched>>

Due == (half + since) \div 2 >= IpPeriod
\* Mutant: the list is walked without the lock.
Bug_ThrLock == /\ Alive /\ thr = "lock"
               /\ IF Due
                  THEN thr' = "walk" /\ since' = 0 /\ half' \in {0, 1}
                  ELSE thr' = "unlock" /\ UNCHANGED <<since, half>>
               /\ UNCHANGED <<proc, cur, owner, registered, ipg, touched>>

ThrLock == /\ Alive /\ thr = "lock" /\ owner = "none"
           /\ owner' = "thread"
           /\ IF Due
              THEN thr' = "walk" /\ since' = 0 /\ half' \in {0, 1}
              ELSE thr' = "unlock" /\ UNCHANGED <<since, half>>
           /\ UNCHANGED <<proc, cur, registered, ipg, touched>>

\* dpset->poll(dpset); a command that cannot be started is passed over.
dtop_ip_table_poll ==
  /\ Alive /\ thr = "walk"
  /\ IF cur > IpGroups
     THEN thr' = "unlock" /\ UNCHANGED <<cur, since, touched>>
     ELSE /\ Touch(cur) /\ cur' = cur + 1 /\ thr' = thr
          /\ \E d \in PollDelays : Later(d)
  /\ UNCHANGED <<proc, owner, registered, ipg, half>>

\* Mutant: the lock is kept.
Bug_ThrUnlock == /\ Alive /\ thr = "unlock"
                 /\ thr' = "sleep"
                 /\ UNCHANGED <<proc, cur, owner, registered, ipg, since, half, touched>>

ThrUnlock == /\ Alive /\ thr = "unlock"
             /\ thr' = "sleep" /\ owner' = "none"
             /\ UNCHANGED <<proc, cur, registered, ipg, since, half, touched>>

ThrSleep == /\ Alive /\ thr = "sleep"
            /\ thr' = "head" /\ \E d \in PollDelays : Later(1 + d)
            /\ UNCHANGED <<proc, cur, owner, registered, ipg, half, touched>>

Thread == ThrMutexInit \/ ThrAtexit \/ dtop_ip_table_init_files \/ ThrHead
          \/ ThrLock \/ dtop_ip_table_poll \/ ThrUnlock \/ ThrSleep

\* exit(): the handlers that are registered by then.
ExitHandlers ==
  /\ proc = "exit"
  /\ IF registered
     THEN owner = "none" /\ owner' = "main" /\ proc' = "clean"
     ELSE proc' = "dead" /\ owner' = owner
  /\ UNCHANGED <<thr, cur, registered, ipg, since, half, touched>>

\* dtop_ip_table_poll_cleanup: one group, then the list and the lock.
CleanupGroup ==
  /\ proc = "clean"
  /\ \E k \in 1 .. IpGroups :
       /\ ipg[k].freed = 0 /\ \A l \in 1 .. k - 1 : ipg[l].freed > 0
       /\ ipg' = [ipg EXCEPT ![k] = [file |-> IF @.file = "open" THEN "closed" ELSE @.file,
                                     freed |-> @.freed + 1]]
  /\ UNCHANGED <<proc, thr, cur, owner, registered, since, half, touched>>

CleanupDone ==
  /\ proc = "clean" /\ \A k \in 1 .. IpGroups : ipg[k].freed > 0
  /\ proc' = "after" /\ owner' = "none"
  /\ UNCHANGED <<thr, cur, registered, ipg, since, half, touched>>

ProcessEnds == /\ proc = "after" /\ proc' = "dead"
               /\ UNCHANGED <<thr, cur, owner, registered, ipg, since, half, touched>>

Exiting == ExitHandlers \/ CleanupGroup \/ CleanupDone \/ ProcessEnds
=============================================================================
