----------------------------- MODULE Transform -----------------------------
(***************************************************************************)
(* What a kernel of the search promises: the working code that its load,   *)
(* expand, run_alg, run_one_map and run_all_maps leave behind is the one   *)
(* the scalar kernel computes, whatever its registers look like.  This is  *)
(* the abstract specification the kernels are shown to implement.  A block *)
(* search leaves no code that anyone reads.                                *)
(***************************************************************************)
EXTENDS Tm8

CONSTANTS
  Samples,    \* records [key, data]: a key, and the data of each code to expand with it
  Loads,      \* the sequences of finished codes a test may load
  Schedules,  \* the schedules a test may run, sequences of entries
  Requests,   \* blocks of data: records [key, start, amount, schedule, room]
  MaxAlgs     \* how many calls a behavior makes of run_alg and load_data; a run of maps is one by itself

VARIABLES
  working_code,  \* the codes, in natural order; every call is made on each of them
  rng_seed,      \* the seed the caller of run_alg owns
  call           \* the calls made, the last one first

vars == <<working_code, rng_seed, call>>

Expanded(s) == [n \in DOMAIN s.data |-> ExpandCode(s.key, s.data[n])]

Init ==
  \/ /\ \E s \in Samples : working_code = Expanded(s) /\ rng_seed = 256 * s.key[3] + s.key[4]
     /\ call = << >>
  \/ /\ working_code \in Loads
     /\ rng_seed = 0
     /\ call = << [op |-> "load_data"] >>

RunAlg(id) ==
  /\ Len(call) < MaxAlgs /\ working_code # << >>
  /\ call' = << [op |-> "run_alg", id |-> id] >> \o call
  /\ working_code' = [n \in DOMAIN working_code |-> Alg(id, working_code[n], rng_seed)]
  /\ rng_seed' = SeedAfter(id, rng_seed)

\* The maps begin .. end-1 of a schedule.
RunMaps(schedule, begin, end) ==
  /\ call = << >>
  /\ call' = << [op |-> "run_maps", entries |-> SubSeq(schedule, begin + 1, end)] >>
  /\ working_code' = [n \in DOMAIN working_code |-> AllMaps(working_code[n], SubSeq(schedule, begin + 1, end))]
  /\ UNCHANGED rng_seed

\* A key and a data value are expanded and run through their first map.
RunFirstMap(r) ==
  /\ call = << >>
  /\ call' = << [op |-> "run_first_map", request |-> r] >>
  /\ working_code' = << OneMap(ExpandCode(r.key, r.start), r.schedule[1]) >>
  /\ UNCHANGED rng_seed

RunBlock(r) ==
  /\ call = << >>
  /\ call' = << [op |-> "run_block", request |-> r] >>
  /\ working_code' = << >>
  /\ UNCHANGED rng_seed

Next ==
  \/ \E id \in 0 .. 7 : RunAlg(id)
  \/ \E r \in Requests : RunFirstMap(r) \/ RunBlock(r)
  \/ \E schedule \in Schedules : \E begin, end \in 0 .. Len(schedule) :
       begin < end /\ RunMaps(schedule, begin, end)

Spec == Init /\ [][Next]_vars
=============================================================================
