--------------------------- MODULE R256MapKernel ---------------------------
(***************************************************************************)
(* tm_avx2_r256_map_8: the map kernel on four 256-bit registers.  A run of *)
(* eight codes is four sweeps of two or two sweeps of four (the build's    *)
(* AVX2_RACEWAY_W); a sweep carries its codes through the whole range.     *)
(***************************************************************************)
EXTENDS R512MapKernel

r256_map_run_alg(t, id, x, pos) == MapAlg(32, t, id, x, pos)
r256_map_dispatch_blmerge(t, id, x, pos) == BlmergeAlg(32, t, id, x, pos)

r256_map_expand(key, data)     == NaturalExpand(key, data)
r256_map_one_map(x, entry)     == MapEntry(r256_map_run_alg, InPlace, x, entry).code
r256_map_all_maps(x, schedule) == MapsWith(r256_map_one_map, x, schedule)
r256_map_range(lanes, schedule, begin, end) ==
  LET step(xs, entry) == Lockstep(r256_map_one_map, xs, entry)
  IN  RangeOf(step, lanes, schedule, begin, end)

r256_map_branched(x, entry) == MapEntry(r256_map_run_alg, InPlace, x, entry)
r256_map_blmerge(x, entry)  == MapEntry(r256_map_dispatch_blmerge, InPlace, x, entry)

r256_map_entry_x2(lanes, entry)         == Codes(Lockstep(r256_map_branched, lanes, entry))
r256_map_entry_x4(lanes, entry)         == Codes(Lockstep(r256_map_branched, lanes, entry))
r256_map_entry_x2_blmerge(lanes, entry) == Codes(Lockstep(r256_map_blmerge, lanes, entry))
r256_map_entry_x4_blmerge(lanes, entry) == Codes(Lockstep(r256_map_blmerge, lanes, entry))

r256_map_range_x2(lanes, schedule, begin, end) == RangeOf(r256_map_entry_x2, lanes, schedule, begin, end)
r256_map_sweep_x2(lanes, schedule, begin, end) == RangeOf(r256_map_entry_x2, lanes, schedule, begin, end)
r256_map_sweep_x4(lanes, schedule, begin, end) == RangeOf(r256_map_entry_x4, lanes, schedule, begin, end)
r256_map_sweep_x2_blmerge(lanes, schedule, begin, end) ==
  RangeOf(r256_map_entry_x2_blmerge, lanes, schedule, begin, end)
r256_map_sweep_x4_blmerge(lanes, schedule, begin, end) ==
  RangeOf(r256_map_entry_x4_blmerge, lanes, schedule, begin, end)

\* The codes of a run, width at a time; the last sweep takes what is left.
Sweeps(sweep(_, _, _, _), width, lanes, schedule, begin, end) ==
  LET Upto(n) == IF n < Len(lanes) THEN n ELSE Len(lanes)
      done == [s \in 0 .. (Len(lanes) - 1) \div width |->
                 sweep(SubSeq(lanes, s * width + 1, Upto((s + 1) * width)), schedule, begin, end)]
  IN  [n \in 1 .. Len(lanes) |-> done[(n - 1) \div width][((n - 1) % width) + 1]]
r256_map_range_x4(lanes, schedule, begin, end) ==
  Sweeps(r256_map_sweep_x4, 4, lanes, schedule, begin, end)
r256_map_range_x8(lanes, schedule, begin, end, width) ==
  IF width = 4 THEN Sweeps(r256_map_sweep_x4, 4, lanes, schedule, begin, end)
  ELSE Sweeps(r256_map_sweep_x2, 2, lanes, schedule, begin, end)
r256_map_range_x8_blmerge(lanes, schedule, begin, end, width) ==
  IF width = 4 THEN Sweeps(r256_map_sweep_x4_blmerge, 4, lanes, schedule, begin, end)
  ELSE Sweeps(r256_map_sweep_x2_blmerge, 2, lanes, schedule, begin, end)

\* Map 1 with its taint scores.
r256_map_map1_x8_scores(lanes, schedule) ==
  Scored(Lockstep(r256_map_branched, lanes, schedule[1]), shed_proxy_map1)

r256_map_masked_checksum(x, world) == MaskedChecksum(x, ChecksumMask(world))
r256_map_check(x, world) ==
  LET code   == XorV(x, WorldData(world))
      length == CodeLength(world) - 2
  IN  r256_map_masked_checksum(code, world) = 256 * code[127 - (length + 1)] + code[127 - length]
=============================================================================
