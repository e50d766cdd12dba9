------------------------------- MODULE Blocks -------------------------------
(***************************************************************************)
(* The block calls: a kernel searches amount data values of a key, from    *)
(* start_data on, and writes a record of five bytes for each code whose    *)
(* checksum is right for a world, until the values or the room run out.    *)
(*                                                                         *)
(* A record is << data, flags >>; its data field is the number of the      *)
(* value in the block, or the value itself.  A block's answer is a record  *)
(* [records, ran, size]: what was written, how many values were run, and   *)
(* what *result_size says.                                                 *)
(***************************************************************************)
EXTENDS R512sKernels, MachineCode

CONSTANT NWAY_BATCH  \* codes tm_8 runs in lockstep

\* start_data + i, four bytes that wrap.
DataAt(start, i) ==
  LET s4 == start[4] + i
      s3 == start[3] + (s4 \div 256)
      s2 == start[2] + (s3 \div 256)
      s1 == start[1] + (s2 \div 256)
  IN  << s1 % 256, s2 % 256, s3 % 256, s4 % 256 >>

\* The world of a code, if any: the carnival world is tried first, and the other
\* world on the code as it was.
FirstWorld(check(_, _), x) ==
  IF check(x, "carnival") THEN "carnival" ELSE IF check(x, "other") THEN "other" ELSE "none"

\* The record of a code, if it has one.
RecordOf(bits, x, ref, world) ==
  IF world = "none" THEN << >>
  ELSE << ref, check_machine_code(Unshuffle(ShuffledDecrypt(bits, x, world), bits), world) >>
Emit(check(_, _), bits, x, ref) == RecordOf(bits, x, ref, FirstWorld(check, x))
\* tm_avx_r128s_8's run_bruteforce_boinc names the other world in the flags.
BoincRecord(x, ref, world) ==
  IF world = "other" THEN [RecordOf(128, x, ref, world) EXCEPT ![2] = @ \union {"OTHER_WORLD"}]
  ELSE RecordOf(128, x, ref, world)
BoincEmit(check(_, _), x, ref) == BoincRecord(x, ref, FirstWorld(check, x))

Written(record) == record # << >>

\* A block, batch values at a time and the rest one by one; full is what
\* *result_size says of a block cut short, of the room and of what is written.
SearchOf(run(_), emit(_, _), start, amount, batch, room, full(_, _)) ==
  LET RECURSIVE From(_, _)
      From(i, records) ==
        LET width  == IF i + batch <= amount THEN batch ELSE 1
            filled == 5 * Len(records)
            codes  == run([n \in 1 .. width |-> DataAt(start, i + n - 1)])
        IN  CASE i >= amount -> [records |-> records, ran |-> i, size |-> filled]
              [] i < amount /\ room - filled < 5 * width ->
                   [records |-> records, ran |-> i, size |-> full(room, filled)]
              [] i < amount /\ room - filled >= 5 * width ->
                   From(i + width,
                        records \o SelectSeq([n \in 1 .. width |-> emit(codes[n], i + n - 1)], Written))
  IN  From(0, << >>)
SaysRoom(room, filled)   == room
SaysFilled(room, filled) == filled

\* A kernel's codes: expanded, and run through the schedule one by one.
EachRun(expand(_, _), all_maps(_, _), key, data, schedule) ==
  [n \in DOMAIN data |-> all_maps(expand(key, data[n]), schedule)]

(***************************************************************************)
(* tm_8.                                                                   *)
(***************************************************************************)
tm_8_emit_NoReload(x, ref) ==  \* mutant: the other world is tried on the code decrypted for carnival
  LET check(y, world) == CheckWorld(IF world = "other" THEN XorV(y, WorldData("carnival")) ELSE y, world)
  IN  Emit(check, 0, x, ref)
tm_8_emit(x, ref) == Emit(CheckWorld, 0, x, ref)
tm_8_run_bruteforce_data(key, start, schedule, amount, room) ==
  LET run(data) == EachRun(ExpandCode, AllMaps, key, data, schedule)
  IN  SearchOf(run, tm_8_emit, start, amount, 1, room, SaysRoom)

\* The codes of a batch take each step together; each has a seed of its own.
expand_into(key, data) == ExpandCode(key, data)
n_run_alg(id, x, seed) == Alg(id, x, seed)
n_run_one_map(states, entry) ==
  LET RECURSIVE From(_, _, _)
      From(i, xs, seeds) ==
        CASE i = 16 -> xs
          [] i < 16 /\ xs \in [DOMAIN xs -> Image128] /\ seeds \in [DOMAIN xs -> 0 .. 65535] ->
               LET id(b) == AlgId(xs[b][i], NibbleAt(entry, i))
               IN  From(i + 1, [b \in DOMAIN xs |-> n_run_alg(id(b), xs[b], seeds[b])],
                               [b \in DOMAIN xs |-> SeedAfter(id(b), seeds[b])])
  IN  From(0, states, [b \in DOMAIN states |-> EntrySeed(entry)])
tm_8_run_bruteforce_data_nway(key, start, schedule, amount, room) ==
  LET run(data) ==
        IF Len(data) = NWAY_BATCH
        THEN MapsWith(n_run_one_map, [b \in DOMAIN data |-> expand_into(key, data[b])], schedule)
        ELSE EachRun(ExpandCode, AllMaps, key, data, schedule)
  IN  SearchOf(run, tm_8_emit, start, amount, NWAY_BATCH, room, SaysRoom)

(***************************************************************************)
(* The shuffled kernels, whose codes are unshuffled before their machine   *)
(* code is judged.                                                         *)
(***************************************************************************)
r128s_all_maps(x, schedule) == MapsWith(r128s_map, x, schedule)
r128s_run_bruteforce_data(key, start, schedule, amount, room) ==
  LET run(data)    == EachRun(r128s_expand, r128s_all_maps, key, data, schedule)
      emit(x, ref) == Emit(r128s_check, 128, x, DataAt(start, ref))
  IN  SearchOf(run, emit, start, amount, 1, room, SaysRoom)
r128s_run_bruteforce_boinc(key, start, schedule, amount, room) ==
  LET run(data)    == EachRun(r128s_expand, r128s_all_maps, key, data, schedule)
      emit(x, ref) == BoincEmit(r128s_check, x, DataAt(start, ref))
  IN  SearchOf(run, emit, start, amount, 1, room, SaysRoom)

\* The flags of one code in each world, whatever its checksums.
ChallengeFlags(x, world) == check_machine_code(Unshuffle(r128s_decrypt(x, world), 128), world)
BothFlags(x) ==
  [carnival |-> ChallengeFlags(x, "carnival"), other |-> ChallengeFlags(x, "other") \union {"OTHER_WORLD"}]
r128s_compute_challenge_flags(key, data, schedule) ==
  BothFlags(r128s_all_maps(r128s_expand(key, data), schedule))

\* Map 1 of a key and a data value; it reads its code bytes as _run_all_maps does.
r128s_run_first_map(key, data, schedule) == r128s_map(r128s_expand(key, data), schedule[1])

r256s_all_maps(x, schedule) == MapsWith(r256s_map, x, schedule)
r256s_run_bruteforce_data(key, start, schedule, amount, room) ==
  LET run(data)    == EachRun(r256s_expand, r256s_all_maps, key, data, schedule)
      emit(x, ref) == Emit(r256s_check, 256, x, ref)
  IN  SearchOf(run, emit, start, amount, 1, room, SaysRoom)
avx2_r256s_all_maps(x, schedule) == MapsWith(avx2_r256s_map, x, schedule)
avx2_r256s_run_bruteforce_data(key, start, schedule, amount, room) ==
  LET run(data)    == EachRun(avx2_r256s_expand, avx2_r256s_all_maps, key, data, schedule)
      emit(x, ref) == Emit(avx2_r256s_check, 256, x, ref)
  IN  SearchOf(run, emit, start, amount, 1, room, SaysRoom)

(***************************************************************************)
(* The map kernels; their interleaved calls run a batch as one range.      *)
(***************************************************************************)
r512_map_screen_emit(x, ref) == Emit(r512_map_check, 0, x, ref)
r512_map_run_bruteforce_data(key, start, schedule, amount, room) ==
  LET run(data) == EachRun(r512_map_expand, r512_map_all_maps, key, data, schedule)
  IN  SearchOf(run, r512_map_screen_emit, start, amount, 1, room, SaysRoom)
r512_map_run_bruteforce_data_il(key, start, schedule, amount, room) ==
  LET run(data) ==
        IF Len(data) = 4
        THEN r512_map_range_x4([n \in 1 .. 4 |-> r512_map_expand(key, data[n])], schedule, 0, Len(schedule))
        ELSE EachRun(r512_map_expand, r512_map_all_maps, key, data, schedule)
  IN  SearchOf(run, r512_map_screen_emit, start, amount, 4, room, SaysFilled)

r512s_map_screen_emit(x, ref) == Emit(r512s_map_check, 512, x, ref)
r512s_map_run_bruteforce_data(key, start, schedule, amount, room) ==
  LET run(data) == EachRun(r512s_map_expand, r512s_map_all_maps, key, data, schedule)
  IN  SearchOf(run, r512s_map_screen_emit, start, amount, 1, room, SaysRoom)
r512s_map_run_bruteforce_data_il(key, start, schedule, amount, room) ==
  LET run(data) ==
        IF Len(data) = 4
        THEN r512s_map_range_x4([n \in 1 .. 4 |-> r512s_map_expand(key, data[n])], schedule, 0, Len(schedule))
        ELSE EachRun(r512s_map_expand, r512s_map_all_maps, key, data, schedule)
  IN  SearchOf(run, r512s_map_screen_emit, start, amount, 4, room, SaysFilled)

r256_map_screen_emit(x, ref) == Emit(r256_map_check, 0, x, ref)
r256_map_run_bruteforce_data(key, start, schedule, amount, room) ==
  LET run(data) == EachRun(r256_map_expand, r256_map_all_maps, key, data, schedule)
  IN  SearchOf(run, r256_map_screen_emit, start, amount, 1, room, SaysRoom)
r256_map_run_bruteforce_data_il(key, start, schedule, amount, room) ==
  LET run(data) ==
        IF Len(data) = 2
        THEN r256_map_range_x2([n \in 1 .. 2 |-> r256_map_expand(key, data[n])], schedule, 0, Len(schedule))
        ELSE EachRun(r256_map_expand, r256_map_all_maps, key, data, schedule)
  IN  SearchOf(run, r256_map_screen_emit, start, amount, 2, room, SaysFilled)
=============================================================================
