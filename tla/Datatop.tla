------------------------------ MODULE Datatop ------------------------------
(***************************************************************************)
(* datatop: main(), the poll loop and its commands, the data points and    *)
(* the files they come from, composed with the thread of -r.               *)
(*                                                                         *)
(* The kernel's files, the user at the terminal and the clock are the      *)
(* environment. A file can only be seen changed when it is read, so it     *)
(* changes only before a step that reads. Time is counted in ticks, Sec to *)
(* the second; the clock stops at the end of the run that was asked for.   *)
(***************************************************************************)
EXTENDS DatatopGroups, DatatopOpts, DatatopIpTable, FiniteSetsExt

CONSTANTS
  Kind,        \* the groups that can be registered, with their kinds
  FirstLines,  \* what a group's file says at first
  NewLine,     \* the line a file of the kinds dual, dev and stat may gain
  SnapCmds,    \* how many commands a snapshot runs (23 in the code)
  Setups,      \* command lines, the groups looked for and those without a file
  Sec, WorkTimes,    \* ticks in a second; ticks a poll of all groups takes
  Typable            \* lines the user may type, as sequences of words; Enter
                     \* alone is the empty one

Groups == DOMAIN Kind
CountsLines == {"dual", "single", "meminfo", "dev", "stat"}

ASSUME DatatopAssumption ==
  /\ Kind \in [Groups -> Kinds]
  /\ Sec \in Nat \ {0} /\ MinPeriod \in Nat \ {0}
  /\ DefaultPeriod \in Nat /\ DefaultPeriod >= MinPeriod
  /\ DefaultTime \in Nat \ {0} /\ WorkTimes \subseteq Nat \ {0}
  /\ \A s \in Setups : Argv(s.argv) /\ s.groups \in Seq(Groups) /\ IsInjective(s.groups)

\* What the kernel's files have in common: every line has a name of its own,
\* a file of single or meminfo one value in each, /proc/net/dev its columns, and
\* the files of gen and cpu are one line.
Unalike(lines) == \A p, q \in 1 .. Len(lines) : lines[p].name = lines[q].name => p = q
Shaped(kind, lines) ==
  /\ Unalike(lines)
  /\ kind \in {"single", "meminfo", "cpu"} => \A p \in 1 .. Len(lines) : Len(lines[p].vals) = 1
  /\ kind = "dev" => \A p \in 1 .. Len(lines) : Len(lines[p].vals) = DevCols
  /\ kind \in {"gen", "cpu"} => Len(lines) = 1
  /\ kind = "cpu" => lines[1].name = NoName

ASSUME FileAssumption ==
  /\ MaxVal \in Nat /\ DevCols \in Nat
  /\ FirstLines \in [Groups -> Seq(Line)]
  /\ \A g \in Groups : Shaped(Kind[g], FirstLines[g])
  /\ \A g \in Groups : Kind[g] \in {"dual", "dev", "stat"} => NewLine[g] \in Line

VARIABLES
  pc, setup, opts,  \* main(): where it is, how it was started, usr_cl_opts
  child, cmds,        \* the snapshot's child process; commands run so far
  file,    \* per group: can it be opened, and its lines
  count,   \* storage->line_count
  grp,     \* per group: its data points
  list,    \* first_dpg_list, the group registered last first
  todo, back,         \* the groups left in this walk, and where to go on
  now, curtime, spent,\* the clock; its last sample; time since itime
  slow,    \* history: a poll of the loop took longer than the period, or the
           \* user kept scanf waiting
  term, stdio, eof, typed, \* lines on the terminal, words left in stdin's buffer
  header, row,        \* the CSV file's first and last line
  mem,     \* per group: its blocks that are allocated, and no free went wrong
  heap,    \* "ok", or "overrun" once a poll wrote behind the data points
  seen,    \* history: the lines a group's last good poll read
  base,    \* history: the row of the first good poll since the last reset
  moved,   \* history: groups whose lines came or went since they were counted
  wasReset,\* history: the user has typed i
  shown    \* the differences just printed

mainVars == <<pc, setup, opts, todo, back, child, cmds>>
envVars == <<file, moved>>
groupVars == <<count, grp, list, mem, heap, seen, base>>
timeVars == <<now, curtime, spent, slow>>
ttyVars == <<term, stdio, eof, typed, wasReset, shown>>
csvVars == <<header, row>>
vars == <<mainVars, envVars, groupVars, timeVars, ttyVars, csvVars, ipVars>>

End == opts.poll_time * Sec
Endless == opts.poll_time = POLL_NOT_SPECIFIED
Ahead(t, d) == IF Endless THEN 0 ELSE Min({t + d, End})
Longer(d) == Min({spent + d, opts.poll_per + 1})

Init ==
  /\ pc = "parse" /\ setup \in Setups /\ opts = dtop_load_default_options
  /\ todo = <<>> /\ back = "none" /\ child = "none" /\ cmds = 0
  /\ file = [g \in Groups |-> [open |-> g \notin setup.absent, lines |-> FirstLines[g]]]
  /\ count = [g \in Groups |-> 0] /\ grp = [g \in Groups |-> <<>>]
  /\ list = <<>> /\ mem = [g \in Groups |-> [live |-> {}, ok |-> TRUE]] /\ heap = "ok"
  /\ seen = [g \in Groups |-> <<>>] /\ base = [g \in Groups |-> <<>>]
  /\ moved = {} /\ wasReset = FALSE /\ shown = <<>>
  /\ now = 0 /\ curtime = 0 /\ spent = 0 /\ slow = FALSE
  /\ term = <<>> /\ stdio = <<>> /\ eof = FALSE /\ typed = 0
  /\ header = <<>> /\ row = <<>>
  /\ IpInit

-----------------------------------------------------------------------------
(* Starting: main() up to the first poll.                                  *)

Exit == pc' = "exit" /\ proc' = "exit" /\
        UNCHANGED <<thr, cur, owner, registered, ipg, since, half, touched>>

ParseArgs ==
  LET p == dtop_parse_cli_opts(setup.argv)
      go == p.status = "PARSE_SUCCESS" /\ (p.opts.tables => p.opts.out_dir)
  IN  /\ pc = "parse" /\ opts' = p.opts
      /\ IF go THEN pc' = "init" /\ todo' = setup.groups /\ UNCHANGED ipVars
         ELSE Exit /\ UNCHANGED todo
      /\ UNCHANGED <<setup, back, child, cmds, envVars, groupVars, timeVars, ttyVars, csvVars>>

\* dtop_get_file_line_amount: the file must be there.
CountLines ==
  /\ pc = "init" /\ todo # <<>> /\ Kind[Head(todo)] \in CountsLines
  /\ IF file[Head(todo)].open
     THEN /\ count' = [count EXCEPT ![Head(todo)] = Len(file[Head(todo)].lines)]
          /\ pc' = "search"
     ELSE pc' = "crashed" /\ UNCHANGED count
  /\ UNCHANGED <<setup, opts, todo, back, child, cmds, envVars, grp, list, mem, heap, seen,
                 base, timeVars, ttyVars, csvVars, ipVars>>

Readable(g) == file[g].open /\ file[g].lines # <<>>

dtop_register(g, dps) ==
  /\ grp' = [grp EXCEPT ![g] = dps] /\ list' = <<g>> \o list
  /\ mem' = [mem EXCEPT ![g].live = Blocks(Kind[g])]

SearchFile ==
  LET g == Head(todo) IN
  /\ \/ pc = "search"
     \/ pc = "init" /\ todo # <<>> /\ Kind[Head(todo)] \notin CountsLines
  /\ IF Readable(g) \/ Kind[g] = "cpu"
     THEN \E dps \in Search(Kind[g], file[g].lines, count[g]) : dtop_register(g, dps)
     ELSE UNCHANGED <<grp, list, mem>>
  /\ pc' = "init" /\ todo' = Tail(todo)
  /\ UNCHANGED <<setup, opts, back, child, cmds, envVars, count, heap, seen, base,
                 timeVars, ttyVars, csvVars, ipVars>>

Walk(to) == pc' = "poll" /\ todo' = list /\ back' = to

InitDone ==
  /\ pc = "init" /\ todo = <<>>
  /\ IF opts.tables THEN StartThread ELSE UNCHANGED ipVars
  /\ IF opts.print_cl THEN Walk("terminal") ELSE pc' = "csv" /\ UNCHANGED <<todo, back>>
  /\ UNCHANGED <<setup, opts, child, cmds, envVars, groupVars, timeVars, ttyVars, csvVars>>

-----------------------------------------------------------------------------
(* dtop_poll: the groups one after the other, then back.                   *)

PollGroup ==
  LET g == Head(todo) IN
  /\ pc = "poll" /\ todo # <<>>
  /\ todo' = Tail(todo) /\ shown' = <<>>
  /\ IF Readable(g)
     THEN \E r \in Poll(Kind[g], grp[g], file[g].lines, count[g]) :
            /\ grp' = [grp EXCEPT ![g] = r.dps]
            /\ heap' = IF r.over THEN "overrun" ELSE heap
            /\ seen' = [seen EXCEPT ![g] = file[g].lines]
            /\ base' = [base EXCEPT ![g] = IF @ = <<>> THEN Row(r.dps) ELSE @]
     ELSE UNCHANGED <<grp, heap, seen, base>>
  /\ UNCHANGED <<pc, setup, opts, back, child, cmds, envVars, count, list, mem, timeVars,
                 term, stdio, eof, typed, wasReset, csvVars, ipVars>>

\* Parsing junk may follow a pointer nobody set.
PollCrash ==
  /\ pc = "poll" /\ todo # <<>>
  /\ Kind[Head(todo)] \in CountsLines /\ Readable(Head(todo))
  /\ \/ count[Head(todo)] > Len(file[Head(todo)].lines)
     \/ heap = "overrun"
  /\ pc' = "crashed"
  /\ UNCHANGED <<setup, opts, todo, back, child, cmds, envVars, groupVars, timeVars, ttyVars,
                 csvVars, ipVars>>

PollDone ==
  /\ pc = "poll" /\ todo = <<>>
  /\ pc' = back /\ shown' = <<>>
  /\ \E d \in WorkTimes :
       /\ spent' = Longer(d) /\ now' = Ahead(now, d)
       /\ slow' = (slow \/ (back = "write" /\ d > opts.poll_per))
  /\ UNCHANGED <<setup, opts, todo, back, child, cmds, envVars, groupVars, curtime, term, stdio,
                 eof, typed, wasReset, csvVars, ipVars>>

dtop_print_terminal ==
  /\ pc = "terminal" /\ pc' = "csv"
  /\ UNCHANGED <<setup, opts, todo, back, child, cmds, envVars, groupVars, timeVars, ttyVars,
                 csvVars, ipVars>>

-----------------------------------------------------------------------------
(* dtop_poll_periodically.                                                 *)

Differences == [g \in Range(list) |-> dtop_print_snapshot_diff(grp[g])]

OpenCsv ==
  /\ pc = "csv"
  /\ IF ~opts.print_csv THEN pc' = "snap" /\ UNCHANGED ipVars
     ELSE (pc' = "header" /\ UNCHANGED ipVars) \/ Exit
  /\ UNCHANGED <<setup, opts, todo, back, child, cmds, envVars, groupVars, timeVars, ttyVars, csvVars>>

dtop_print_dpg_names_csv(g) ==
  [j \in DOMAIN grp[g] |-> [group |-> g, name |-> grp[g][j].name]]

\* endtime is cut to whole seconds: the run has already begun by a fraction.
WriteHeader ==
  /\ pc = "header"
  /\ header' = FlattenSeq([i \in DOMAIN list |-> dtop_print_dpg_names_csv(list[i])])
  /\ \E f \in 0 .. Sec - 1 : now' = Ahead(f, 0) /\ curtime' = Ahead(f, 0)
  /\ spent' = 0 /\ pc' \in {"loop", "fail"}
  /\ UNCHANGED <<setup, opts, todo, back, child, cmds, envVars, groupVars, slow, ttyVars, row,
                 ipVars>>

\* Mutant: the time spent is taken off twice.
Bug_Timeout == opts.poll_per - 2 * spent

Timeout == opts.poll_per - spent

LoopTest ==
  /\ pc = "loop"
  /\ pc' = IF curtime < End \/ Endless THEN "select" ELSE "ended"
  /\ UNCHANGED <<setup, opts, todo, back, child, cmds, envVars, groupVars, timeVars, ttyVars,
                 csvVars, ipVars>>

\* A negative timeout is an error, and any answer but 0 means input here.
SelectInput ==
  /\ pc = "select" /\ (Timeout < 0 \/ term # <<>> \/ eof)
  /\ pc' = "scan" /\ spent' = 0
  /\ \E d \in (IF Timeout < 0 THEN {0} ELSE {0, Timeout}) : now' = Ahead(now, d)
  /\ UNCHANGED <<setup, opts, todo, back, child, cmds, envVars, groupVars, curtime, slow,
                 ttyVars, csvVars, ipVars>>

SelectTimeout ==
  /\ pc = "select" /\ Timeout >= 0 /\ term = <<>> /\ ~eof
  /\ spent' = 0 /\ now' = Ahead(now, Timeout) /\ curtime' = now'
  /\ Walk("write")
  /\ UNCHANGED <<setup, opts, child, cmds, envVars, groupVars, slow, ttyVars, csvVars, ipVars>>

\* scanf reads a word, from stdin's buffer or else from the next line of the
\* terminal that has one: it skips the ends of lines, and waits for a word behind
\* the last. At the end of the input s is what the stack holds; q would have
\* ended the loop.
HasWord == stdio # <<>> \/ \E i \in DOMAIN term : term[i] # <<>>
Scanned(w) ==
  \/ stdio # <<>> /\ w = Head(stdio) /\ stdio' = Tail(stdio) /\ UNCHANGED term
  \/ /\ stdio = <<>>
     /\ \E i \in DOMAIN term :
          /\ term[i] # <<>> /\ \A j \in 1 .. i - 1 : term[j] = <<>>
          /\ w = Head(term[i]) /\ stdio' = Tail(term[i])
          /\ term' = SubSeq(term, i + 1, Len(term))
  \/ ~HasWord /\ eof /\ w \in {"i", "l", "other"} /\ term' = <<>> /\ UNCHANGED stdio
AwaitsWord == pc = "scan" /\ ~HasWord /\ ~eof

Quit == /\ pc = "scan"
        /\ \E w \in {"q", "quit"} : Scanned(w)
        /\ pc' = "close"
        /\ UNCHANGED <<setup, opts, todo, back, child, cmds, envVars, groupVars, timeVars, eof,
                       typed, wasReset, shown, csvVars, ipVars>>

\* "quit" and its end are longer than s[4].
QuitCrash == /\ pc = "scan" /\ Scanned("quit")
             /\ pc' = "crashed"
             /\ UNCHANGED <<setup, opts, todo, back, child, cmds, envVars, groupVars, timeVars, eof,
                            typed, wasReset, shown, csvVars, ipVars>>

ResetAll ==
  /\ grp' = [g \in Groups |-> IF g \in Range(list)
                              THEN dtop_reset_dp_initial_values(grp[g]) ELSE grp[g]]
  /\ base' = [g \in Groups |-> <<>>] /\ wasReset' = TRUE

Command ==
  /\ pc = "scan"
  /\ \E w \in {"i", "l", "other"} :
       /\ Scanned(w)
       /\ shown' = IF w = "other" THEN <<>> ELSE Differences
       /\ IF w = "i" THEN ResetAll ELSE UNCHANGED <<grp, base, wasReset>>
  /\ curtime' = now /\ Walk("write")
  /\ UNCHANGED <<setup, opts, child, cmds, envVars, count, list, mem, heap, seen, now, spent,
                 slow, eof, typed, csvVars, ipVars>>

WriteRow ==
  /\ pc = "write"
  /\ row' = FlattenSeq([i \in DOMAIN list |-> Row(grp[list[i]])])
  /\ pc' \in {"loop", "fail"}
  /\ UNCHANGED <<setup, opts, todo, back, child, cmds, envVars, groupVars, timeVars, ttyVars,
                 header, ipVars>>

ShowTotal ==
  /\ pc = "ended" /\ shown' = Differences
  /\ pc' = IF opts.print_csv THEN "close" ELSE "free"
  /\ UNCHANGED <<setup, opts, todo, back, child, cmds, envVars, groupVars, timeVars, term, stdio,
                 eof, typed, wasReset, csvVars, ipVars>>

-----------------------------------------------------------------------------
(* The rest of main().                                                     *)

CloseCsv == /\ pc = "close" /\ pc' = "snap" /\ shown' = <<>>
            /\ UNCHANGED <<setup, opts, todo, back, child, cmds, envVars, groupVars, timeVars, term,
                           stdio, eof, typed, wasReset, csvVars, ipVars>>

\* One command after the other, whatever became of the last.
dtop_print_system_snapshot == pc = "snap" /\ opts.snapshot /\ cmds < SnapCmds

\* dtop_run_and_log: the child is a copy of this thread alone. If it cannot
\* execute the command it calls exit(), which runs the handler of -r on a copy
\* of a lock that the thread, which is not there, may be holding.
Fork ==
  /\ dtop_print_system_snapshot
  /\ \/ /\ child' = IF registered /\ owner = "thread" THEN "held" ELSE "free"
        /\ pc' = "waitpid" /\ UNCHANGED cmds
     \/ cmds' = cmds + 1 /\ UNCHANGED <<pc, child>>
  /\ UNCHANGED <<setup, opts, todo, back, envVars, groupVars, timeVars, ttyVars,
                 csvVars, ipVars>>

Child ==
  /\ pc = "waitpid" /\ child \in {"held", "free"}
  /\ child' \in (IF child = "held" THEN {"done", "stuck"} ELSE {"done"})
  /\ UNCHANGED <<pc, setup, opts, todo, back, cmds, envVars, groupVars, timeVars,
                 ttyVars, csvVars, ipVars>>

WaitPid ==
  /\ pc = "waitpid" /\ child = "done"
  /\ pc' = "snap" /\ child' = "none" /\ cmds' = cmds + 1
  /\ UNCHANGED <<setup, opts, todo, back, envVars, groupVars, timeVars, ttyVars,
                 csvVars, ipVars>>

\* dtop_print_system_snapshot answers FILE_SUCCESS whatever happened to it.
AfterSnapshot ==
  /\ pc = "snap" /\ (opts.snapshot => cmds = SnapCmds)
  /\ IF /\ ~opts.print_cl /\ ~opts.print_csv
        /\ ~opts.snapshot \/ opts.time_selected
     THEN Walk("sleep")
     ELSE pc' = "free" /\ UNCHANGED <<todo, back>>
  /\ UNCHANGED <<setup, opts, child, cmds, envVars, groupVars, timeVars, ttyVars,
                 csvVars, ipVars>>

Sleep == /\ pc = "sleep" /\ Walk("ended")
         /\ UNCHANGED <<setup, opts, child, cmds, envVars, groupVars, timeVars, ttyVars, csvVars, ipVars>>

\* deconstruct_dpgs and dtop_rem_linked_list, then exit or return.
FreeGroup(m, g) == [m EXCEPT ![g] = Deconstruct(@, Kind[g])]
deconstruct_dpgs ==
  /\ pc \in {"free", "fail"}
  /\ mem' = FoldLeft(FreeGroup, mem, list)
  /\ shown' = <<>> /\ Exit
  /\ UNCHANGED <<setup, opts, todo, back, child, cmds, envVars, count, grp, list, heap, seen, base,
                 timeVars, term, stdio, eof, typed, wasReset, csvVars>>

Leave == Exiting /\ UNCHANGED <<mainVars, envVars, groupVars, timeVars, ttyVars, csvVars>>

Main == ParseArgs \/ CountLines \/ SearchFile \/ InitDone \/ PollGroup \/ PollCrash
        \/ PollDone \/ dtop_print_terminal \/ OpenCsv \/ WriteHeader \/ LoopTest
        \/ SelectInput \/ SelectTimeout \/ Quit \/ QuitCrash \/ Command \/ WriteRow
        \/ ShowTotal \/ CloseCsv \/ Fork \/ Child \/ WaitPid
        \/ AfterSnapshot \/ Sleep \/ deconstruct_dpgs
        \/ Leave

MainRuns == pc # "crashed"
IpThread == /\ MainRuns /\ Thread
            /\ UNCHANGED <<mainVars, envVars, groupVars, timeVars, ttyVars, csvVars>>

-----------------------------------------------------------------------------
(* The environment: the kernel's files and the user.                       *)

Reading(g) == pc \in {"init", "search", "poll"} /\ todo # <<>> /\ g = Head(todo)

\* A counter moves.
Bump ==
  \E g \in Groups : \E p \in DOMAIN file[g].lines : \E c \in DOMAIN file[g].lines[p].vals :
    /\ Reading(g) /\ pc = "poll" /\ file[g].lines[p].vals[c] < MaxVal
    /\ file' = [file EXCEPT ![g].lines[p].vals[c] = @ + 1]
    /\ UNCHANGED <<mainVars, moved, groupVars, timeVars, ttyVars, csvVars, ipVars>>

\* An interface, a CPU or a protocol's line comes (first, here) or goes.
LineMoves ==
  \E g \in Groups :
    LET lines == file[g].lines IN
    /\ Reading(g) /\ Kind[g] \in {"dual", "dev", "stat"} /\ pc # "init"
    /\ \/ /\ lines # <<>> /\ Head(lines).name = NewLine[g].name
          /\ file' = [file EXCEPT ![g].lines = Tail(@)]
       \/ /\ \A p \in DOMAIN lines : lines[p].name # NewLine[g].name
          /\ file' = [file EXCEPT ![g].lines = <<NewLine[g]>> \o @]
    /\ moved' = moved \cup {g}
    /\ UNCHANGED <<mainVars, groupVars, timeVars, ttyVars, csvVars, ipVars>>

\* A file of a CPU or a module that goes offline, or comes back.
FileMoves ==
  \E g \in Groups :
    /\ Reading(g) /\ Kind[g] \in {"gen", "cpu"} /\ pc = "poll"
    /\ file' = [file EXCEPT ![g].open = ~@]
    /\ UNCHANGED <<mainVars, moved, groupVars, timeVars, ttyVars, csvVars, ipVars>>

\* A line is typed, at once or, when the program waits for one, much later.
Type ==
  /\ pc \in {"select", "scan"} /\ typed < setup.typed /\ ~eof
  /\ \E l \in Typable : term' = Append(term, l)
  /\ typed' = typed + 1
  /\ IF AwaitsWord
     THEN \E d \in {0, opts.poll_per + 1} :
            spent' = Longer(d) /\ now' = Ahead(now, d) /\ slow' = (slow \/ d > 0)
     ELSE UNCHANGED <<spent, now, slow>>
  /\ UNCHANGED <<mainVars, envVars, groupVars, curtime, stdio, eof, wasReset,
                 shown, csvVars, ipVars>>

CloseStdin == /\ pc \in {"select", "scan"} /\ ~eof /\ typed < setup.typed
              /\ eof' = TRUE /\ typed' = typed + 1
              /\ UNCHANGED <<mainVars, envVars, groupVars, timeVars, term, stdio,
                             wasReset, shown, csvVars, ipVars>>

Next == Main \/ IpThread \/ Bump \/ LineMoves \/ FileMoves \/ Type \/ CloseStdin

Spec == Init /\ [][Next]_vars

\* Both threads are scheduled; neither the kernel nor the user owes anything.
\* The thread leaves its lock free for the half second of every sleep, so that
\* the exit handler gets it.
FairSpec == Spec /\ WF_vars(Main) /\ WF_vars(IpThread) /\ SF_vars(Leave)
-----------------------------------------------------------------------------
(* Properties.                                                             *)

Pcs == {"parse", "init", "search", "poll", "terminal", "csv", "header", "loop",
        "select", "scan", "write", "ended", "close", "snap", "sleep", "free",
        "fail", "exit", "crashed", "waitpid"}

TypeOK ==
  /\ pc \in Pcs /\ setup \in Setups /\ back \in Pcs \cup {"none"}
  /\ \A g \in Groups : \A j \in DOMAIN grp[g] :
       /\ {grp[g][j].data, grp[g][j].init} \subseteq Value \cup {Junk}
       /\ grp[g][j].pop \in BOOLEAN
  /\ Range(list) \subseteq Groups /\ Range(todo) \subseteq Groups
  /\ now \in Nat /\ curtime \in Nat /\ spent \in 0 .. opts.poll_per + 1
  /\ moved \subseteq Groups /\ heap \in {"ok", "overrun"}

\* The value a file gave a data point's name.
Said(lines, name) ==
  LET p == CHOOSE p \in DOMAIN lines : lines[p].name = name[1]
  IN  lines[p].vals[name[2]]

\* The flag of single and meminfo is only ever set right by a reset.
FlagKnown(g) == Kind[g] \notin {"single", "meminfo"} \/ wasReset

\* Whatever failed in between, a difference that is printed for a data point
\* is what its file said at the last good poll less what it said at the first
\* good poll since the last i (dtop_store_dp, dtop_reset_dp_initial_values).
\* It takes a file whose lines stay, and a flag that was initialised.
DifferencesTrue ==
  [][\A g \in DOMAIN shown' :
       shown' # shown /\ g \notin moved /\ FlagKnown(g) /\ base[g] # <<>> =>
         \A j \in DOMAIN shown'[g] :
           shown'[g][j].diff = Said(seen[g], shown'[g][j].name) - base[g][j]]_vars

\* Every row of the CSV file gives each column the value that its header's
\* name had at the last good poll, through failed polls and with groups that
\* were never registered, as long as the file keeps its lines
\* (dtop_print_dpg_names_csv against the polls and dtop_write_pollingdata_csv).
ColumnsMeanNames ==
  pc = "loop" /\ row # <<>> =>
    /\ Len(row) = Len(header)
    /\ \A c \in DOMAIN header :
         LET g == header[c].group
         IN  g \notin moved /\ seen[g] # <<>> => row[c] = Said(seen[g], header[c].name)

\* No poll writes behind the data points its search found, as long as
\* /proc/stat keeps the lines that were counted (dtop_stat_poll trusts the
\* file's present values and not data_points_len).
HeapSafeWhileSteady == heap = "ok" \/ \E g \in moved : Kind[g] = "stat"

\* A group is freed once, every block of it through blocks that are still
\* there, and not before the last poll; a run that ends without a crash and
\* past the opening of its output has freed every group it registered
\* (the deconstructors, deconstruct_dpgs, the error paths of main).
GroupsReleased ==
  /\ \A g \in Groups : mem[g].ok
  /\ \A g \in Range(list) : mem[g].live = Blocks(Kind[g]) \/ pc = "exit"
  /\ pc = "exit" /\ (header # <<>> \/ ~opts.print_csv) =>
       \A g \in Groups : mem[g].live = {}

\* The heap is used and given back as it should be: both of the above.
HeapSound == HeapSafeWhileSteady /\ GroupsReleased

\* Polling waits for the user in two cases only: all that was typed is Enter,
\* which makes select ready and gives scanf nothing to read; or the time since
\* the last select was longer than the period, since a poll or the user was slow,
\* so that select fails and its error is taken for input.  Otherwise scanf is
\* reached with a word to read: what a poll took is taken off the next wait once.
\* And no run sleeps for ever: only one that writes a CSV file and was given no -t
\* is endless, so that sleep() never gets the -1 that stands for it
\* (dtop_poll_periodically, dtop_parse_cli_opts, main).
NoNeedlessWait ==
  /\ AwaitsWord => term # <<>> \/ slow
  /\ pc = "sleep" => opts.poll_time > 0
  /\ Endless => opts.print_csv /\ ~opts.time_selected

\* The thread does not poll the commands while the exit handler frees them
\* (dtop_ip_table_lock).  That is all the lock does for the list: the files are
\* opened without it, and after the handler the thread still finds the freed
\* list.  See FreedNoLongerNeeded for these.
IpWalkExclusive == ~(thr = "walk" /\ proc = "clean")

\* The handler frees every command's group once and closes every file that
\* was opened, wherever the thread was when main() left.  A behaviour in which
\* the thread has used a freed group is undefined from there on; nothing is said
\* of it (touched).
IpReleased ==
  /\ \A k \in 1 .. IpGroups : ipg[k].freed <= 1
  /\ proc \in {"after", "dead"} /\ registered /\ ~touched =>
       \A k \in 1 .. IpGroups :
         (\E l \in 1 .. IpGroups : ipg[l].freed > 0) =>
            ipg[k].freed = 1 /\ ipg[k].file # "open"

\* The polls under the lock and the exit handler keep apart, and what nobody has
\* used too late is given back: both of the above.
IpListSound == IpWalkExclusive /\ IpReleased

\* The exit handler frees what is "no longer needed"
\* (dtop_ip_table_dpg_deconstructor): the thread uses no group that was freed.
FreedNoLongerNeeded == ~touched

Ended == proc = "dead" \/ pc = "crashed"

\* A run with a length ends, its exit handler included, however the groups'
\* files fail and whatever the user types - unless it stops in scanf and the
\* user never types another word: NoNeedlessWait says when that can be.  A run
\* that takes a snapshot while the thread of -r runs is left to SnapshotReturns.
RunEnds == (pc = "init" /\ ~Endless /\ ~(opts.tables /\ opts.snapshot))
             ~> (Ended \/ []AwaitsWord)

\* A q on a line of its own, with nothing typed before it left unread, ends
\* the run.
QuitObeyed == (pc = "select" /\ term = << <<"q">> >> /\ stdio = <<>>) ~> Ended

\* The program ends when it should: both of the above.
RunsEnd == RunEnds /\ QuitObeyed

\* dtop_print_system_snapshot says with what it returns: it returns.
SnapshotReturns == (pc = "waitpid") ~> (pc # "waitpid")
=============================================================================
