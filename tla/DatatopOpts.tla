---------------------------- MODULE DatatopOpts ----------------------------
(***************************************************************************)
(* The command line of datatop. An argument vector is a sequence of        *)
(* records [opt, arg]; what the file system says of a name given to -w, -s *)
(* or -o is its arg: "free" and "taken" for a file, "dir", "absent",       *)
(* "long" and "denied" (mkdir fails) for a directory. Times of -t are      *)
(* seconds, periods of -i ticks of the model's clock.                      *)
(***************************************************************************)
EXTENDS Integers, Sequences, SequencesExt

CONSTANTS MinPeriod,     \* 200000 us
          DefaultPeriod, \* DEFAULT_POLL_INTERVAL
          DefaultTime    \* POLL_TIME_DEFAULT

POLL_NOT_SPECIFIED == -1

\* What main() hands over: atoi makes a number of whatever follows -i and -t.
Argv(argv) ==
  /\ argv \in Seq(Range(argv))
  /\ \A j \in DOMAIN argv : argv[j].opt \in {"i", "t"} => argv[j].arg \in Int

dtop_load_default_options ==
  [print_cl |-> FALSE, print_csv |-> FALSE, snapshot |-> FALSE,
   tables |-> FALSE, out_dir |-> FALSE, poll_per |-> 0, poll_time |-> 0,
   time_selected |-> FALSE, priority |-> 19]

dtop_check_writefile_access(arg) == arg # "taken"
dtop_check_out_dir_presence(arg) == arg # "absent"

\* dtop_create_dir answers INVALID when the directory was made, and its
\* caller goes on when the answer is INVALID.
dtop_create_dir(arg) == IF arg # "denied" THEN "INVALID" ELSE "VALID"

Reject(p) == [p EXCEPT !.status = "PARSE_FAILURE"]
Set(p, o) == [p EXCEPT !.opts = o]

\* One turn of getopt's loop; nothing is looked at after a return.
ParseOption(p, a) ==
  LET o == p.opts IN
  IF p.status # "PARSE_SUCCESS" THEN p ELSE
  CASE a.opt = "p" -> Set(p, [o EXCEPT !.print_cl = TRUE])
    [] a.opt = "h" -> [p EXCEPT !.status = "PARSE_FORCE_EXIT"]
    [] a.opt = "n" -> IF a.arg \in -20 .. 19
                      THEN Set(p, [o EXCEPT !.priority = a.arg]) ELSE Reject(p)
    [] a.opt = "i" -> IF a.arg >= MinPeriod
                      THEN Set(p, [o EXCEPT !.poll_per = a.arg]) ELSE Reject(p)
    [] a.opt = "t" -> IF a.arg > 0
                      THEN Set(p, [o EXCEPT !.poll_time = a.arg,
                                            !.time_selected = TRUE])
                      ELSE Reject(p)
    [] a.opt = "w" -> IF dtop_check_writefile_access(a.arg)
                      THEN Set(p, [o EXCEPT !.print_csv = TRUE]) ELSE Reject(p)
    [] a.opt = "o" -> IF /\ dtop_check_out_dir_presence(a.arg)
                         /\ a.arg # "long"
                         /\ dtop_create_dir(a.arg) = "INVALID"
                      THEN Set(p, [o EXCEPT !.out_dir = TRUE]) ELSE Reject(p)
    [] a.opt = "s" -> IF dtop_check_writefile_access(a.arg)
                      THEN Set(p, [o EXCEPT !.snapshot = TRUE]) ELSE Reject(p)
    [] a.opt = "r" -> Set(p, [o EXCEPT !.tables = TRUE])
    [] OTHER -> Reject(p)

Completed(o) ==
  [o EXCEPT !.poll_time = IF @ # 0 THEN @
                          ELSE IF o.print_csv THEN POLL_NOT_SPECIFIED
                          ELSE DefaultTime,
            !.poll_per = IF @ # 0 THEN @ ELSE DefaultPeriod]

dtop_parse_cli_opts(argv) ==
  LET p == FoldLeft(ParseOption,
                    [status |-> "PARSE_SUCCESS", opts |-> dtop_load_default_options],
                    argv)
  IN  IF p.status = "PARSE_SUCCESS" THEN Set(p, Completed(p.opts)) ELSE p
=============================================================================
