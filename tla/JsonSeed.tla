------------------------------ MODULE JsonSeed ------------------------------
(* json-c: the seed of the hash function (linkhash.c, random_seed.c).  Every  *)
(* thread that hashes a name may be the first one, and draws a seed then; one *)
(* of the seeds drawn is for the whole life of the process.                   *)
EXTENDS Integers

CONSTANTS
  Threads,           \* of the program
  Seeds              \* 32-bit numbers that /dev/urandom or the clock yields
Unset == -1          \* may be drawn as well
ASSUME SeedAssumption == Unset \notin Seeds

VARIABLES
  random_seed,       \* the static variable
  sdpc,              \* where each thread is: "idle", "draw", "swap", "hash"
  sdseed,            \* its local variable seed
  sdexit,            \* the process has ended
  sdused             \* seeds that names have been hashed with
seedVars == <<random_seed, sdpc, sdseed, sdexit, sdused>>

SeedInit ==
  /\ random_seed = Unset
  /\ sdpc = [t \in Threads |-> "idle"] /\ sdseed = [t \in Threads |-> Unset]
  /\ sdexit = FALSE /\ sdused = {}

Goto(t, pc) == ~sdexit /\ sdpc' = [sdpc EXCEPT ![t] = pc]

\* The first look at the variable.
lh_char_hash(t) ==
  /\ sdpc[t] = "idle" /\ Goto(t, IF random_seed = Unset THEN "draw" ELSE "hash")
  /\ UNCHANGED <<random_seed, sdseed, sdexit, sdused>>
\* The loop draws again when it gets the value that means "not set".
json_c_get_random_seed(t) ==
  /\ sdpc[t] = "draw"
  /\ \E s \in Seeds \cup {Unset} :
       /\ sdseed' = [sdseed EXCEPT ![t] = s]
       /\ Goto(t, IF s = Unset THEN "draw" ELSE "swap")
  /\ UNCHANGED <<random_seed, sdexit, sdused>>
\* The device is there and does not open, or a read brings less than an int.
get_dev_random_seed_fails(t) ==
  /\ sdpc[t] = "draw" /\ ~sdexit /\ sdexit' = TRUE
  /\ UNCHANGED <<random_seed, sdpc, sdseed, sdused>>
\* "potentially racy": a plain assignment.
Bug_CompareAndSwap(t) ==
  /\ sdpc[t] = "swap" /\ Goto(t, "hash") /\ random_seed' = sdseed[t]
  /\ UNCHANGED <<sdseed, sdexit, sdused>>
CompareAndSwap(t) ==
  /\ sdpc[t] = "swap" /\ Goto(t, "hash")
  /\ random_seed' = (IF random_seed = Unset THEN sdseed[t] ELSE random_seed)
  /\ UNCHANGED <<sdseed, sdexit, sdused>>
\* Reads the variable once more.
hashlittle(t) ==
  /\ sdpc[t] = "hash" /\ Goto(t, "idle")
  /\ sdused' = sdused \cup {random_seed}
  /\ sdseed' = [sdseed EXCEPT ![t] = Unset]
  /\ UNCHANGED <<random_seed, sdexit>>

SeedNext ==
  \E t \in Threads : \/ lh_char_hash(t) \/ json_c_get_random_seed(t)
                     \/ get_dev_random_seed_fails(t) \/ CompareAndSwap(t) \/ hashlittle(t)
SeedSpec == SeedInit /\ [][SeedNext]_seedVars
-----------------------------------------------------------------------------
\* However many threads hash their first name at the same time, every name is
\* hashed with the same seed, and never with the mark of an unset one: a name
\* that one thread stored is found by the others (linkhash.c calls the variant
\* without compare-and-swap "potentially racy").
SeedAgreed == \A s \in sdused : s # Unset /\ s = random_seed
=============================================================================
