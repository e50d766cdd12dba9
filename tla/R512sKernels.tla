---------------------------- MODULE R512sKernels ----------------------------
(***************************************************************************)
(* The AVX-512 kernels of the shuffled layout, two registers, even bytes   *)
(* and odd bytes: tm_avx512_r512s_8, which reads the tables of all seeds,  *)
(* and tm_avx512_r512s_map_8, which splits the natural rows of a map into  *)
(* even and odd bytes as it reads them; with their interleaved runs.       *)
(***************************************************************************)
EXTENDS R256MapKernel

\* Byte i of the code, as a shuffled image of 512-bit registers holds it.
At512(x, i) == x[shuffle_8(i, 512)]

(***************************************************************************)
(* tm_avx512_r512s_8.                                                      *)
(***************************************************************************)
r512s_expand(key, data)  == ShuffledExpand(512, key, data)
r512s_alg(id, x, seed)   == ShuffledAlg("permute", 512, id, x, seed)
r512s_one_map(x, entry)  == MapWith(r512s_alg, At512, x, entry)
r512s_all_maps(x, schedule) == MapsWith(r512s_one_map, x, schedule)

\* The step of a range run, and its merged dispatches: the first reads three
\* tables, the second only the one its algorithm needs.
r512s_dispatch(id, x, seed) == ShuffledAlg("permute", 512, id, x, seed)
MergedRows(id, x, sh, add, xor) ==
  LET shift == IF id = 6 THEN HalfV(x) ELSE TwiceV(x)
      flip  == [i \in 0 .. 127 |-> IF id = 7 THEN 255 ELSE xor[i]]
  IN  IF id \in {3, 7} THEN XorV(x, flip) ELSE IF id \in {1, 4} THEN AddV(x, add) ELSE OrV(shift, sh)
r512s_dispatch_blmerge(id, x, seed) ==
  IF id \in {2, 5} THEN ShuffledSweep(id, "permute", 512, x, seed)
  ELSE MergedRows(id, x, IF id = 6 THEN alg6_values(seed, 512) ELSE alg0_values(seed, 512),
         IF id = 4 THEN alg4_values(seed, 512) ELSE regular_rng_values(seed, 512),
         regular_rng_values(seed, 512))
r512s_dispatch_blmerge2(id, x, seed) ==
  LET tbl == CASE id = 0 -> alg0_values(seed, 512)
               [] id = 6 -> alg6_values(seed, 512)
               [] id = 4 -> alg4_values(seed, 512)
               [] OTHER  -> regular_rng_values(seed, 512)
  IN  IF id \in {2, 5} THEN ShuffledSweep(id, "permute", 512, x, seed)
      ELSE MergedRows(id, x, tbl, tbl, tbl)

r512s_map_entry(x, entry)  == MapWith(r512s_dispatch, At512, x, entry)
r512s_blmerge(x, entry)    == MapWith(r512s_dispatch_blmerge, At512, x, entry)
r512s_blmerge2(x, entry)   == MapWith(r512s_dispatch_blmerge2, At512, x, entry)
r512s_range(lanes, schedule, begin, end) ==
  LET step(xs, entry) == Lockstep(r512s_map_entry, xs, entry)
  IN  RangeOf(step, lanes, schedule, begin, end)

r512s_entry_x4(lanes, entry)  == Lockstep(r512s_map_entry, lanes, entry)
r512s_entry_x6(lanes, entry)  == Lockstep(r512s_map_entry, lanes, entry)
r512s_entry_x8(lanes, entry)  == Lockstep(r512s_map_entry, lanes, entry)
r512s_entry_x10(lanes, entry) == Lockstep(r512s_map_entry, lanes, entry)
r512s_entry_x12(lanes, entry) == Lockstep(r512s_map_entry, lanes, entry)
r512s_entry_x14(lanes, entry) == Lockstep(r512s_map_entry, lanes, entry)
r512s_entry_x8_blmerge(lanes, entry)  == Lockstep(r512s_blmerge, lanes, entry)
r512s_entry_x8_blmerge2(lanes, entry) == Lockstep(r512s_blmerge2, lanes, entry)

r512s_range_x4(lanes, schedule, begin, end)  == RangeOf(r512s_entry_x4, lanes, schedule, begin, end)
r512s_range_x6(lanes, schedule, begin, end)  == RangeOf(r512s_entry_x6, lanes, schedule, begin, end)
r512s_range_x8(lanes, schedule, begin, end)  == RangeOf(r512s_entry_x8, lanes, schedule, begin, end)
r512s_range_x10(lanes, schedule, begin, end) == RangeOf(r512s_entry_x10, lanes, schedule, begin, end)
r512s_range_x12(lanes, schedule, begin, end) == RangeOf(r512s_entry_x12, lanes, schedule, begin, end)
r512s_range_x14(lanes, schedule, begin, end) == RangeOf(r512s_entry_x14, lanes, schedule, begin, end)
r512s_range_x8_blmerge(lanes, schedule, begin, end) ==
  RangeOf(r512s_entry_x8_blmerge, lanes, schedule, begin, end)
r512s_range_x8_blmerge2(lanes, schedule, begin, end) ==
  RangeOf(r512s_entry_x8_blmerge2, lanes, schedule, begin, end)

r512s_check(x, world) == ShuffledCheck(512, x, world)

(***************************************************************************)
(* tm_avx512_r512s_map_8.                                                  *)
(***************************************************************************)

\* The even bytes of a block, then its odd bytes.
load_deinterleave(block) == [k \in 0 .. 127 |-> block[2 * (k % 64) + (k \div 64)]]

\* A drawn bit enters at the top of the odd register.
r512s_map_alg_2(t, x, pos) ==
  LET done == Alg2Sub("align", Register(x, 64, 0), Register(x, 64, 1), TopLane(64, t.reg[pos] \div 128))
  IN  Image([r \in 0 .. 1 |-> IF r = 0 THEN done.a ELSE done.b], 64)
r512s_map_alg_5(t, x, pos) ==
  LET done == Alg5Sub("align", Register(x, 64, 0), Register(x, 64, 1), TopLane(64, HiBit(t.reg[pos])))
  IN  Image([r \in 0 .. 1 |-> IF r = 0 THEN done.a ELSE done.b], 64)
r512s_map_run_alg(t, id, x, pos) ==
  CASE id = 0 -> OrV(TwiceV(x), load_deinterleave(Alg0Block(t, pos)))
    [] id = 1 -> AddV(x, load_deinterleave(RegBlock(t, pos)))
    [] id = 2 -> r512s_map_alg_2(t, x, pos)
    [] id = 3 -> XorV(x, load_deinterleave(RegBlock(t, pos)))
    [] id = 4 -> SubRow(x, load_deinterleave(RegBlock(t, pos)))
    [] id = 5 -> r512s_map_alg_5(t, x, pos)
    [] id = 6 -> OrV(HalfV(x), load_deinterleave(Alg6Block(t, pos)))
    [] id = 7 -> NotV(x)

r512s_map_expand(key, data)     == ShuffledExpand(512, key, data)
r512s_map_branched(x, entry)    == MapEntry(r512s_map_run_alg, At512, x, entry)
r512s_map_one_map(x, entry)     == r512s_map_branched(x, entry).code
r512s_map_all_maps(x, schedule) == MapsWith(r512s_map_one_map, x, schedule)
r512s_map_range(lanes, schedule, begin, end) ==
  LET step(xs, entry) == Lockstep(r512s_map_one_map, xs, entry)
  IN  RangeOf(step, lanes, schedule, begin, end)
r512s_map_entry_x4(lanes, entry) == Codes(Lockstep(r512s_map_branched, lanes, entry))
r512s_map_range_x4(lanes, schedule, begin, end) ==
  RangeOf(r512s_map_entry_x4, lanes, schedule, begin, end)
r512s_map_check(x, world) == ShuffledCheck(512, x, world)
=============================================================================
