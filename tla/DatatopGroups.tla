--------------------------- MODULE DatatopGroups ---------------------------
(***************************************************************************)
(* The data points of datatop: how each kind of file is searched for them  *)
(* when the program starts and how a poll stores what the file says now.   *)
(*                                                                         *)
(* A file is a sequence of lines, a line has a name (an interface, a CPU,  *)
(* a protocol, a counter) and one or more values; a file of the kinds gen  *)
(* and cpu is one such line. A file of the kind dual says each line twice, *)
(* once with the keys and once with the values: here that is one line, and *)
(* its keys are the column numbers, the same in every line, as InErrors is *)
(* a key of Udp and of UdpLite.                                            *)
(*                                                                         *)
(* The names of dual, single, meminfo and dev are pointers into the line   *)
(* buffers that the next poll overwrites; those of stat and gen are copies.*)
(***************************************************************************)
EXTENDS Integers, Sequences, FiniteSets, SequencesExt

CONSTANTS LineNames, MaxVal,
          DevCols   \* the columns of /proc/net/dev, 16 in the code

\* What memory holds that nobody wrote: no counter has this value.
Junk == -1
NoName == "?"

Kinds == {"dual", "single", "meminfo", "dev", "stat", "gen", "cpu"}

Value == 0 .. MaxVal
Line == [name : LineNames, vals : Seq(Value)]

\* The buffer is as large as the largest file, and the lines are looked for
\* in all of it: behind the end of the file there is junk.
JunkLine == [name |-> NoName, vals |-> <<Junk>>]
dt_read_line(lines, p) == IF p \in DOMAIN lines THEN lines[p] ELSE JunkLine
ReadLines(lines, n) == [p \in 1 .. n |-> dt_read_line(lines, p)]

\* The places <<line, column>> of a file's values, in the order of the file.
Places(lines) ==
  FlattenSeq([p \in DOMAIN lines |-> [c \in DOMAIN lines[p].vals |-> <<p, c>>]])

\* What stands at a place now, and under which name.
At(lines, at) ==
  IF at[2] \in DOMAIN lines[at[1]].vals
  THEN [name |-> <<lines[at[1]].name, at[2]>>, val |-> lines[at[1]].vals[at[2]]]
  ELSE [name |-> <<lines[at[1]].name, at[2]>>, val |-> Junk]

-----------------------------------------------------------------------------
(* dtop_*_search: the data points of a file of n lines. Each is a set: the *)
(* searches of single and meminfo leave initial_data_populated as malloc   *)
(* returned it.                                                            *)

SearchedAt(at, lines, flags) ==
  {[j \in DOMAIN at |-> [name |-> At(lines, at[j]).name, at |-> at[j],
                         data |-> Junk, init |-> Junk, pop |-> f[j]]] :
     f \in [DOMAIN at -> flags]}
Searched(lines, flags) == SearchedAt(Places(lines), lines, flags)

dtop_dual_line_search(lines, n) == Searched(ReadLines(lines, n), {FALSE})
dtop_single_line_search(lines, n) == Searched(ReadLines(lines, n), BOOLEAN)
dtop_meminfo_search(lines, n) == Searched(ReadLines(lines, n), BOOLEAN)
dtop_dev_search(lines, n) ==
  SearchedAt(FlattenSeq([p \in 1 .. n |-> [c \in 1 .. DevCols |-> <<p, c>>]]),
             ReadLines(lines, n), {FALSE})
dtop_stat_search(lines, n) == Searched(ReadLines(lines, n), {FALSE})
dpg_construction(lines) == Searched(ReadLines(lines, 1), {FALSE})
construct_cpu_stat_dpg ==
  {<<[name |-> <<NoName, 1>>, at |-> <<1, 1>>,
      data |-> 0, init |-> 0, pop |-> FALSE]>>}

-----------------------------------------------------------------------------
(* What the construction of a group allocates, and the order in which its  *)
(* deconstructor frees it. A block is reached through its owners, which    *)
(* must not be gone before it; all buffers of an array are one block.      *)

Owners ==
  [dpg |-> {}, data_points |-> {"dpg"}, priv |-> {"dpg"}, file |-> {"dpg"},
   prefix |-> {"dpg"}, names |-> {"dpg", "data_points"},
   prefixes |-> {"dpg", "priv", "data_points"}, line |-> {"dpg", "priv"},
   lines |-> {"dpg", "priv", "line"}, line2 |-> {"dpg", "priv"},
   lines2 |-> {"dpg", "priv", "line2"}]

LineFileBlocks == {"dpg", "data_points", "priv", "line", "lines"}
construct_dual_line_file_dpg == LineFileBlocks \cup {"line2", "lines2"}
construct_single_line_file_dpg == LineFileBlocks
construct_meminfo_file_dpg == LineFileBlocks
construct_dev_file_dpg == LineFileBlocks \cup {"prefixes"}
construct_stat_file_dpg == LineFileBlocks \cup {"names"}
GenBlocks == {"dpg", "data_points", "names", "file", "prefix"}
CpuBlocks == {"dpg", "data_points", "names", "file"}

Blocks(kind) ==
  CASE kind = "dual" -> construct_dual_line_file_dpg
    [] kind = "single" -> construct_single_line_file_dpg
    [] kind = "meminfo" -> construct_meminfo_file_dpg
    [] kind = "dev" -> construct_dev_file_dpg
    [] kind = "stat" -> construct_stat_file_dpg
    [] kind = "gen" -> GenBlocks
    [] kind = "cpu" -> CpuBlocks

dtop_dual_line_dpg_deconstructor ==
  <<"data_points", "lines", "lines2", "line", "line2", "priv", "dpg">>
dtop_single_line_dpg_deconstructor == <<"data_points", "lines", "line", "priv", "dpg">>
dtop_meminfo_dpg_deconstructor == <<"data_points", "lines", "line", "priv", "dpg">>
dtop_dev_dpg_deconstructor ==
  <<"prefixes", "data_points", "lines", "line", "priv", "dpg">>
dtop_stat_dpg_deconstructor ==
  <<"names", "data_points", "lines", "line", "priv", "dpg">>
\* Mutant: the array goes before the names it leads to.
Bug_dtop_gen_dpg_deconstructor == <<"data_points", "names", "file", "prefix", "dpg">>

dtop_gen_dpg_deconstructor == <<"names", "data_points", "file", "prefix", "dpg">>
\* The prefix of these groups is the file's name itself.
dtop_value_only_dpg_deconstructor == <<"names", "data_points", "file", "dpg">>

Deconstructor(kind) ==
  CASE kind = "dual" -> dtop_dual_line_dpg_deconstructor
    [] kind = "single" -> dtop_single_line_dpg_deconstructor
    [] kind = "meminfo" -> dtop_meminfo_dpg_deconstructor
    [] kind = "dev" -> dtop_dev_dpg_deconstructor
    [] kind = "stat" -> dtop_stat_dpg_deconstructor
    [] kind = "gen" -> dtop_gen_dpg_deconstructor
    [] kind = "cpu" -> dtop_value_only_dpg_deconstructor

\* free() of a block; a block that is gone, or reached through one that is,
\* spoils the heap.
Free(mem, b) ==
  IF {b} \cup Owners[b] \subseteq mem.live
  THEN [mem EXCEPT !.live = @ \ {b}] ELSE [mem EXCEPT !.ok = FALSE]
Deconstruct(mem, kind) == FoldLeft(Free, mem, Deconstructor(kind))

-----------------------------------------------------------------------------
(* dtop_store_dp: the value, and the baseline when there is none. From junk*)
(* sscanf makes some number or, finding none, keeps the old one.           *)

\* Mutant: the value is added to the old one.
Bug_dtop_store_dp(dp, v, kept) ==
  LET w == IF v = Junk THEN v ELSE dp.data + v
  IN  [dp EXCEPT !.data = w, !.init = IF dp.pop THEN @ ELSE w, !.pop = TRUE]

dtop_store_dp(dp, v, kept) ==
  LET w == IF v = Junk /\ kept THEN dp.data ELSE v
  IN  [dp EXCEPT !.data = w, !.init = IF dp.pop THEN @ ELSE w, !.pop = TRUE]

\* Mutant: the prefix is not compared.
Bug_dtop_dual_line_poll(dps, lines, n, kept) ==
  LET now == ReadLines(lines, n)
      Found(at) == {p \in 1 .. n : at[2] \in DOMAIN now[p].vals}
      LastOf(at) == CHOOSE p \in Found(at) : \A q \in Found(at) : q <= p
  IN  [j \in DOMAIN dps |->
         dtop_store_dp([dps[j] EXCEPT !.name = At(now, dps[j].at).name],
                       now[LastOf(dps[j].at)].vals[dps[j].at[2]], kept)]

\* dual: by the key, in every line that has the data point's prefix; a key
\* that is found nowhere leaves the data point alone.
dtop_dual_line_poll(dps, lines, n, kept) ==
  LET now == ReadLines(lines, n)
      Found(at) == {p \in 1 .. n : /\ now[p].name = now[at[1]].name
                                   /\ at[2] \in DOMAIN now[p].vals}
      LastOf(at) == CHOOSE p \in Found(at) : \A q \in Found(at) : q <= p
  IN  [j \in DOMAIN dps |->
         LET at == dps[j].at
             dp == [dps[j] EXCEPT !.name = At(now, at).name]
         IN  IF Found(at) = {} THEN dp
             ELSE dtop_store_dp(dp, now[LastOf(at)].vals[at[2]], kept)]

\* single, meminfo: by the name, which is the one its own line has now.
ByName(dps, lines, n, kept) ==
  LET now == ReadLines(lines, n)
      FirstOf(name) == CHOOSE p \in 1 .. n :
                       /\ now[p].name = name
                       /\ \A q \in 1 .. p - 1 : now[q].name # name
  IN  [j \in DOMAIN dps |->
         LET cell == At(now, dps[j].at)
         IN  dtop_store_dp([dps[j] EXCEPT !.name = cell.name],
                           now[FirstOf(now[dps[j].at[1]].name)].vals[1], kept)]
dtop_single_line_poll(dps, lines, n, kept) == ByName(dps, lines, n, kept)
dtop_meminfo_poll(dps, lines, n, kept) == ByName(dps, lines, n, kept)

\* dev: by line and column.
dtop_dev_poll(dps, lines, n, kept) ==
  [j \in DOMAIN dps |->
     LET cell == At(ReadLines(lines, n), dps[j].at)
     IN  dtop_store_dp([dps[j] EXCEPT !.name = cell.name], cell.val, kept)]

\* stat: every value of the first n lines in turn, whatever data point is
\* next. Junk ends the count, adds to it, or (an empty line) voids it.
StatVals(lines, n) ==
  LET real == FlattenSeq([p \in 1 .. (IF n < Len(lines) THEN n ELSE Len(lines))
                            |-> lines[p].vals])
  IN  IF n <= Len(lines) THEN {real} ELSE {<<>>, real, real \o <<Junk>>}
dtop_stat_poll(dps, vals, kept) ==
  [j \in DOMAIN dps |-> IF j \in DOMAIN vals
                        THEN dtop_store_dp(dps[j], vals[j], kept) ELSE dps[j]]

\* gen, value_only: by the field's number in the first line.
ByField(dps, lines, kept) ==
  [j \in DOMAIN dps |-> dtop_store_dp(dps[j], At(lines, dps[j].at).val, kept)]
dtop_gen_poll(dps, lines, kept) == ByField(dps, lines, kept)
dtop_value_only_poll(dps, lines, kept) == ByField(dps, lines, kept)

-----------------------------------------------------------------------------
(* The search and the poll of a group by its kind; a poll can write behind *)
(* the end of the data points only where it stores without counting them.  *)

Search(kind, lines, n) ==
  CASE kind = "dual" -> dtop_dual_line_search(lines, n)
    [] kind = "single" -> dtop_single_line_search(lines, n)
    [] kind = "meminfo" -> dtop_meminfo_search(lines, n)
    [] kind = "dev" -> dtop_dev_search(lines, n)
    [] kind = "stat" -> dtop_stat_search(lines, n)
    [] kind = "gen" -> dpg_construction(lines)
    [] kind = "cpu" -> construct_cpu_stat_dpg

Polled(kind, dps, lines, n, vals, kept) ==
  CASE kind = "dual" -> dtop_dual_line_poll(dps, lines, n, kept)
    [] kind = "single" -> dtop_single_line_poll(dps, lines, n, kept)
    [] kind = "meminfo" -> dtop_meminfo_poll(dps, lines, n, kept)
    [] kind = "dev" -> dtop_dev_poll(dps, lines, n, kept)
    [] kind = "stat" -> dtop_stat_poll(dps, vals, kept)
    [] kind = "gen" -> dtop_gen_poll(dps, lines, kept)
    [] kind = "cpu" -> dtop_value_only_poll(dps, lines, kept)

Poll(kind, dps, lines, n) ==
  {[dps |-> Polled(kind, dps, lines, n, vals, kept),
    over |-> kind = "stat" /\ Len(vals) > Len(dps)] :
     vals \in IF kind = "stat" THEN StatVals(lines, n) ELSE {<<>>}, kept \in BOOLEAN}

\* Mutant: the last data point keeps its flag.
Bug_dtop_reset_dp_initial_values(dps) ==
  [j \in DOMAIN dps |-> [dps[j] EXCEPT !.pop = j = Len(dps) /\ @]]

dtop_reset_dp_initial_values(dps) == [j \in DOMAIN dps |-> [dps[j] EXCEPT !.pop = FALSE]]
dtop_print_snapshot_diff(dps) ==
  [j \in DOMAIN dps |-> [name |-> dps[j].name, diff |-> dps[j].data - dps[j].init]]
Row(dps) == [j \in DOMAIN dps |-> dps[j].data]
=============================================================================
