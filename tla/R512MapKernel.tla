--------------------------- MODULE R512MapKernel ---------------------------
(***************************************************************************)
(* tm_avx512_r512_map_8: the map kernel on two 512-bit registers and its   *)
(* interleaved runs.  An entry operator runs one map of every code, a      *)
(* range operator the maps begin .. end-1 of a schedule.                   *)
(***************************************************************************)
EXTENDS Routing

r512_map_alg_2(t, x, pos) == MapAlg2(64, t, x, pos)
r512_map_alg_5(t, x, pos) == MapAlg5(64, t, x, pos)

\* A step: the single-code run, and the ways the interleaved runs dispatch it.
r512_map_run_alg(t, id, x, pos) ==
  CASE id = 2 -> r512_map_alg_2(t, x, pos)
    [] id = 5 -> r512_map_alg_5(t, x, pos)
    [] OTHER  -> MapAlg(64, t, id, x, pos)
r512_map_dispatch(t, id, x, pos)            == MapAlg(64, t, id, x, pos)
r512_map_dispatch_blarith(t, id, x, pos)    == BlarithAlg(64, t, id, x, pos)
r512_map_dispatch_blmerge(t, id, x, pos)    == BlmergeAlg(64, t, id, x, pos)
r512_map_dispatch_blmerge_rm(t, id, x, pos) == BlmergeAlg(64, t, id, x, pos)
r512_map_dispatch_blall(t, id, x, pos)      == BlallAlg(64, t, id, x, pos)

\* One code.
r512_map_expand(key, data)       == NaturalExpand(key, data)
r512_map_one_map(x, entry)       == MapEntry(r512_map_run_alg, InPlace, x, entry).code
r512_map_all_maps(x, schedule)   == MapsWith(r512_map_one_map, x, schedule)
r512_map_range(lanes, schedule, begin, end) ==
  LET step(xs, entry) == Lockstep(r512_map_one_map, xs, entry)
  IN  RangeOf(step, lanes, schedule, begin, end)

\* A map of one code by each dispatch.
r512_map_branched(x, entry)   == MapEntry(r512_map_dispatch, InPlace, x, entry)
r512_map_blarith(x, entry)    == MapEntry(r512_map_dispatch_blarith, InPlace, x, entry)
r512_map_blmerge(x, entry)    == MapEntry(r512_map_dispatch_blmerge, InPlace, x, entry)
r512_map_blmerge_rm(x, entry) == MapEntry(r512_map_dispatch_blmerge_rm, InPlace, x, entry)
r512_map_blall(x, entry)      == MapEntry(r512_map_dispatch_blall, InPlace, x, entry)

(***************************************************************************)
(* One map of all codes.  The entries that score also give, for each code, *)
(* what its algorithms were.                                               *)
(***************************************************************************)
r512_map_entry_x4(lanes, entry)  == Codes(Lockstep(r512_map_branched, lanes, entry))
r512_map_entry_x8(lanes, entry)  == Codes(Lockstep(r512_map_branched, lanes, entry))
r512_map_entry_x10(lanes, entry) == Codes(Lockstep(r512_map_branched, lanes, entry))
r512_map_entry_x12(lanes, entry) == Codes(Lockstep(r512_map_branched, lanes, entry))
r512_map_entry_x14(lanes, entry) == Codes(Lockstep(r512_map_branched, lanes, entry))

r512_map_entry_x4_blarith(lanes, entry)  == Codes(Lockstep(r512_map_blarith, lanes, entry))
r512_map_entry_x8_blarith(lanes, entry)  == Codes(Lockstep(r512_map_blarith, lanes, entry))
r512_map_entry_x8_blmerge(lanes, entry)  == Codes(Lockstep(r512_map_blmerge, lanes, entry))
r512_map_entry_x10_blmerge(lanes, entry) == Codes(Lockstep(r512_map_blmerge, lanes, entry))
r512_map_entry_x12_blmerge(lanes, entry) == Codes(Lockstep(r512_map_blmerge_rm, lanes, entry))
r512_map_entry_x8_blall(lanes, entry)    == Codes(Lockstep(r512_map_blall, lanes, entry))

\* What a scored entry tells of one code: the taint score, the count of
\* alg_0, the tail.
Scored(done, score(_)) == [codes |-> Codes(done), scores |-> [n \in DOMAIN done |-> score(done[n].ops)]]
r512_map_entry_x8_scores(lanes, entry) ==
  Scored(Lockstep(r512_map_branched, lanes, entry), shed_proxy_map1)
r512_map_entry_x4_alg0count(lanes, entry) ==
  Scored(Lockstep(r512_map_branched, lanes, entry), Alg0Count)
r512_map_entry_x8_alg0count(lanes, entry) ==
  Scored(Lockstep(r512_map_branched, lanes, entry), Alg0Count)
r512_map_entry_x12_alg0count(lanes, entry) ==
  Scored(Lockstep(r512_map_branched, lanes, entry), Alg0Count)
TailAndCount(ops) == [tail |-> OpTail(ops), count |-> Alg0Count(ops)]
r512_map_entry_x8_optail(lanes, entry) ==
  Scored(Lockstep(r512_map_branched, lanes, entry), TailAndCount)

(***************************************************************************)
(* Ranges of maps.  The _arr runs take their codes from one array.         *)
(***************************************************************************)
r512_map_range_x1(lanes, schedule, begin, end, mode) ==
  LET one(xs, entry) ==
        Codes(CASE mode = 1 -> Lockstep(r512_map_blarith, xs, entry)
                [] mode = 2 -> Lockstep(r512_map_blmerge, xs, entry)
                [] mode = 3 -> Lockstep(r512_map_blall, xs, entry)
                [] OTHER    -> Lockstep(r512_map_branched, xs, entry))
  IN  RangeOf(one, lanes, schedule, begin, end)
r512_map_range_x4(lanes, schedule, begin, end)  == RangeOf(r512_map_entry_x4, lanes, schedule, begin, end)
r512_map_range_x8(lanes, schedule, begin, end)  == RangeOf(r512_map_entry_x8, lanes, schedule, begin, end)
r512_map_range_x10(lanes, schedule, begin, end) == RangeOf(r512_map_entry_x10, lanes, schedule, begin, end)
r512_map_range_x12(lanes, schedule, begin, end) == RangeOf(r512_map_entry_x12, lanes, schedule, begin, end)
r512_map_range_x14(lanes, schedule, begin, end) == RangeOf(r512_map_entry_x14, lanes, schedule, begin, end)
r512_map_range_x10_arr(lanes, schedule, begin, end) == RangeOf(r512_map_entry_x10, lanes, schedule, begin, end)
r512_map_range_x12_arr(lanes, schedule, begin, end) == RangeOf(r512_map_entry_x12, lanes, schedule, begin, end)
r512_map_range_x14_arr(lanes, schedule, begin, end) == RangeOf(r512_map_entry_x14, lanes, schedule, begin, end)
r512_map_range_x4_blarith(lanes, schedule, begin, end) ==
  RangeOf(r512_map_entry_x4_blarith, lanes, schedule, begin, end)
r512_map_range_x8_blarith(lanes, schedule, begin, end) ==
  RangeOf(r512_map_entry_x8_blarith, lanes, schedule, begin, end)
r512_map_range_x8_blmerge(lanes, schedule, begin, end) ==
  RangeOf(r512_map_entry_x8_blmerge, lanes, schedule, begin, end)
r512_map_range_x8_blall(lanes, schedule, begin, end) ==
  RangeOf(r512_map_entry_x8_blall, lanes, schedule, begin, end)
r512_map_range_x10_blmerge_arr(lanes, schedule, begin, end) ==
  RangeOf(r512_map_entry_x10_blmerge, lanes, schedule, begin, end)
r512_map_range_x12_blmerge_arr(lanes, schedule, begin, end) ==
  RangeOf(r512_map_entry_x12_blmerge, lanes, schedule, begin, end)

\* Map 1 alone, with its taint scores.
r512_map_map1_x8_scores(lanes, schedule) == r512_map_entry_x8_scores(lanes, schedule[1])

\* A range whose first map is counted.
DeepScored(counted(_, _), plain(_, _), lanes, schedule, begin, end) ==
  IF begin >= end THEN [codes |-> lanes, scores |-> [n \in DOMAIN lanes |-> 0]]
  ELSE [counted(lanes, schedule[begin + 1]) EXCEPT !.codes = RangeOf(plain, @, schedule, begin + 1, end)]
r512_map_range_x4_dscore(lanes, schedule, begin, end) ==
  DeepScored(r512_map_entry_x4_alg0count, r512_map_entry_x4, lanes, schedule, begin, end)
r512_map_range_x8_dscore(lanes, schedule, begin, end) ==
  DeepScored(r512_map_entry_x8_alg0count, r512_map_entry_x8, lanes, schedule, begin, end)
r512_map_range_x12_dscore(lanes, schedule, begin, end) ==
  DeepScored(r512_map_entry_x12_alg0count, r512_map_entry_x12, lanes, schedule, begin, end)

\* A range whose last map leaves its tail and its count.
r512_map_range_x8_optail(lanes, schedule, begin, end) ==
  IF begin >= end
  THEN [codes |-> lanes, scores |-> [n \in DOMAIN lanes |-> [tail |-> 0, count |-> 0]]]
  ELSE r512_map_entry_x8_optail(RangeOf(r512_map_entry_x8, lanes, schedule, begin, end - 1), schedule[end])

\* A range that remembers, for each code, whether some map of it ran alg_0
\* alg0_tau times, and leaves the last map's tail.
r512_map_range_x8_route(lanes, schedule, begin, end, alg0_tau) ==
  LET run(m, xs) ==
        IF m + 1 = end THEN r512_map_entry_x8_optail(xs, schedule[m + 1])
        ELSE r512_map_entry_x8_alg0count(xs, schedule[m + 1])
      RECURSIVE From(_, _, _)
      From(m, done, sticky) ==
        IF m + 1 = end
        THEN [done EXCEPT !.scores =
                [n \in DOMAIN @ |->
                   [tail |-> @[n].tail, sticky |-> sticky[n] \/ @[n].count >= alg0_tau]]]
        ELSE From(m + 1, run(m + 1, done.codes),
                  [n \in DOMAIN sticky |-> sticky[n] \/ done.scores[n] >= alg0_tau])
  IN  IF begin >= end
      THEN [codes |-> lanes, scores |-> [n \in DOMAIN lanes |-> [tail |-> 0, sticky |-> FALSE]]]
      ELSE From(begin, run(begin, lanes), [n \in DOMAIN lanes |-> FALSE])

(***************************************************************************)
(* The screen of a finished code.                                          *)
(***************************************************************************)
r512_map_masked_checksum(x, world) == MaskedChecksum(x, ChecksumMask(world))
r512_map_fetch_checksum_value(x, world) ==
  LET length == CodeLength(world) - 2 IN 256 * x[127 - (length + 1)] + x[127 - length]
r512_map_check(x, world) ==
  LET right(code) == r512_map_masked_checksum(code, world) = r512_map_fetch_checksum_value(code, world)
  IN  right(XorV(x, WorldData(world)))
=============================================================================
