------------------------------ MODULE CudaWarp ------------------------------
(***************************************************************************)
(* The CUDA kernels that screen data values (tm_cuda_primitives.cuh,       *)
(* tm_cuda_screen.cuh) and the host code around them (main.cpp).  A warp   *)
(* of 32 lanes holds a code, lane l its bytes 4l .. 4l+3; lanes speak by   *)
(* shuffles.  What an algorithm draws comes from one of four memories: the *)
(* tables of all seeds, an offset stream (for each position of a map the   *)
(* rows of the seed there), the same stream kept map by map, or the map's  *)
(* 2048 drawn bytes.  Each of them is walked from position 0 up.           *)
(***************************************************************************)
EXTENDS Blocks, SequencesExt

CONSTANT BATCH_SIZE  \* values one launch of the host takes

(***************************************************************************)
(* A step of a warp.                                                       *)
(***************************************************************************)
Word(x, lane)  == Register(x, 4, lane)
CodeByte(x, i) == Word(x, i \div 4)[i % 4]

\* What __shfl_down_sync gives a lane: the last lane gets its own value.
ShflDown(v, lane, offset) == v[IF lane + offset > 31 THEN lane ELSE lane + offset]

\* alg_2 and alg_5: a lane's top byte takes one bit, given by top.
EndBit(id, b) == IF id = 2 THEN LoBit(b) ELSE HiBit(b)
Rotate(id, x, top(_)) ==
  LET step(w, c) == IF id = 2 THEN Alg2Lanes(w, LaneDown(w, 0), TopLane(4, c))
                    ELSE Alg5Lanes(w, LaneDown(w, 0), TopLane(4, c))
  IN  Image([lane \in 0 .. 31 |-> step(Word(x, lane), top(lane))], 4)
NextBit(id, x, lane) == EndBit(id, ShflDown([l \in 0 .. 31 |-> x[4 * l]], lane, 1))

\* A step with the row it draws, if it draws one, and the last lane's bit.
TableOf(id) == CASE id = 0 -> "alg0" [] id = 6 -> "alg6" [] OTHER -> "regular"
WarpAlg(id, x, row, carry) ==
  LET top(lane) == IF lane = 31 THEN carry ELSE NextBit(id, x, lane)
  IN  CASE id = 0 -> OrV(TwiceV(x), row)
        [] id = 1 -> AddV(x, row)
        [] id = 3 -> XorV(x, row)
        [] id = 4 -> SubRow(x, row)
        [] id = 6 -> OrV(HalfV(x), row)
        [] id = 7 -> NotV(x)
        [] id \in {2, 5} -> Rotate(id, x, top)

(***************************************************************************)
(* The tables of all seeds.                                                *)
(***************************************************************************)
load_u32(table, seed) ==
  CASE table = "regular" -> regular_rng_values(seed, 0)
    [] table = "alg0" -> alg0_values(seed, 0)
    [] table = "alg6" -> alg6_values(seed, 0)
CarryWord(id, seed) == (IF id = 2 THEN alg2_values(seed, 4, FALSE) ELSE alg5_values(seed, 4, FALSE))[3]

run_alg(id, x, seed) == WarpAlg(id, x, load_u32(TableOf(id), seed), CarryWord(id, seed))

\* Even lanes start from the key, odd ones from the data, high byte first.
initialize_working_word(key, data) ==
  AddV(Image([lane \in 0 .. 31 |-> LET four == IF lane % 2 = 0 THEN key ELSE data IN [b \in 0 .. 3 |-> four[b + 1]]], 4),
       expansion_values(256 * key[1] + key[2], 0))

run_schedule_t(x, entry)          == MapWith(run_alg, CodeByte, x, entry)
run_schedule_quad_t(quad, entry)  == Lockstep(run_schedule_t, quad, entry)

(***************************************************************************)
(* The offset streams.                                                     *)
(***************************************************************************)

\* The seed at each position of a map; a stream holds that seed's rows.
OffsetStream(seed) == << seed >> \o DrawSeeds(16, << seed >>)
load_offset_u32(stream, table, pos)     == load_u32(table, stream[pos + 1])
load_offset_u32_ldg(stream, table, pos) == load_u32(table, stream[pos + 1])
OffsetCarry(stream, id, pos)            == CarryWord(id, stream[pos + 1])

OffsetAfter(id, pos) == CASE id \in {2, 5} -> pos + 1 [] id = 7 -> pos [] OTHER -> pos + 128

run_alg_offset(stream, id, x, pos) ==
  WarpAlg(id, x, load_offset_u32(stream, TableOf(id), pos), OffsetCarry(stream, id, pos))
run_alg_offset_ldg(stream, id, x, pos) ==
  WarpAlg(id, x, load_offset_u32_ldg(stream, TableOf(id), pos), OffsetCarry(stream, id, pos))

\* Both bits are read and one is selected.
run_alg_offset_carry_select(stream, id, x, pos) ==
  LET lane_carry(lane)  == NextBit(id, x, lane)
      table_carry(lane) == IF lane = 31 THEN OffsetCarry(stream, id, pos) ELSE 0
      top(lane)         == IF lane = 31 THEN table_carry(lane) ELSE lane_carry(lane)
  IN  IF id \in {2, 5} THEN Rotate(id, x, top) ELSE run_alg_offset(stream, id, x, pos)

\* The row is loaded before the step, whatever the step does with it.
apply_alg_with_prefetched(id, x, prefetched, carry) == WarpAlg(id, x, prefetched, carry)
prefetch_step(stream, id, x, pos) ==
  apply_alg_with_prefetched(id, x, load_offset_u32(stream, TableOf(id), pos), OffsetCarry(stream, id, pos))

\* A map's streams in one stretch, told apart by their number.
InterleavedStream(seed) ==
  LET seeds == OffsetStream(seed)
  IN  [stream |-> [s \in 0 .. 2 |-> [pos \in 0 .. 2047 |-> load_u32(<< "regular", "alg0", "alg6" >>[s + 1], seeds[pos + 1])]],
       carry  |-> [c \in 0 .. 1 |-> [pos \in 0 .. 2047 |-> CarryWord(<< 2, 5 >>[c + 1], seeds[pos + 1])]]]
load_offset_interleaved_u32(t, stream_index, pos)  == t.stream[stream_index][pos]
load_offset_interleaved_carry(t, carry_index, pos) == t.carry[carry_index][pos]
run_alg_offset_interleaved(t, id, x, pos) ==
  WarpAlg(id, x, load_offset_interleaved_u32(t, CASE id = 0 -> 1 [] id = 6 -> 2 [] OTHER -> 0, pos),
          load_offset_interleaved_carry(t, IF id = 2 THEN 0 ELSE 1, pos))

(***************************************************************************)
(* The drawn bytes.                                                        *)
(***************************************************************************)
MapRng(seed) ==
  LET seeds == DrawSeeds(16, << seed >>) IN [k \in 0 .. 2047 |-> Drawn(seeds, k)]
maprng_pack_raw(mr, pos)        == [i \in 0 .. 127 |-> mr[pos + 127 - i]]
maprng_pack_msb_lo(mr, pos)     == [i \in 0 .. 127 |-> mr[pos + 127 - i] \div 128]
maprng_pack_msb_hi_fwd(mr, pos) == [i \in 0 .. 127 |-> HiBit(mr[pos + i])]
CarryByte(id, b) == IF id = 2 THEN b \div 128 ELSE HiBit(b)
run_alg_maprng(mr, id, x, pos) ==
  LET row == CASE id = 0 -> maprng_pack_msb_lo(mr, pos)
               [] id = 6 -> maprng_pack_msb_hi_fwd(mr, pos)
               [] OTHER -> maprng_pack_raw(mr, pos)
  IN  WarpAlg(id, x, row, CarryByte(id, mr[pos]))

\* The bits of alg_0 and of alg_6 taken out by the host, in streams of their own.
MapRngPreext(seed) ==
  LET mr == MapRng(seed)
  IN  [raw |-> mr, alg0 |-> [k \in 0 .. 2047 |-> mr[k] \div 128], alg6 |-> [k \in 0 .. 2047 |-> HiBit(mr[k])]]
preext_inline_run(t, id, x, pos) ==
  LET row == CASE id = 0 -> maprng_pack_raw(t.alg0, pos)
               [] id = 6 -> [i \in 0 .. 127 |-> t.alg6[pos + i]]
               [] OTHER -> maprng_pack_raw(t.raw, pos)
  IN  WarpAlg(id, x, row, CarryByte(id, t.raw[pos]))

\* The three streams with the segments of the first two reversed, so that a
\* lane reads its word at once; a position inside a segment is read byte by byte.
coalesced_offset(k) == 128 * (k \div 128) + 127 - (k % 128)
MapRngCoalesced(seed) ==
  LET mr      == MapRng(seed)
      back(k) == mr[coalesced_offset(k)]
  IN  [raw |-> [k \in 0 .. 2047 |-> back(k)], alg0 |-> [k \in 0 .. 2047 |-> back(k) \div 128],
       alg6 |-> [k \in 0 .. 2047 |-> HiBit(mr[k])]]
coalesced_inline_run(t, id, x, pos) ==
  LET at(k) == IF pos % 128 = 0 THEN k ELSE coalesced_offset(k)
      base  == CASE id = 0 -> t.alg0 [] id = 6 -> t.alg6 [] OTHER -> t.raw
  IN  WarpAlg(id, x, [i \in 0 .. 127 |-> base[at(pos + i)]], CarryByte(id, t.raw[coalesced_offset(pos)]))

(***************************************************************************)
(* The runners of a schedule.  Each code of a warp walks its own position, *)
(* so the codes of a warp never mix.  An algorithm is named by a shift of  *)
(* the word, or by two fixed shifts of which one is selected.              *)
(***************************************************************************)
ShiftId(byte, nibble)   == (byte \div 2^(1 + 4 * nibble)) % 8
extract_algorithm_id_fixed_shift(byte, high_nibble) ==
  LET low_algorithm_id  == (byte \div 2) % 8
      high_algorithm_id == (byte \div 32) % 8
  IN  IF high_nibble THEN high_algorithm_id ELSE low_algorithm_id
FixedId(byte, nibble) == extract_algorithm_id_fixed_shift(byte, nibble = 1)

\* A map of one code over a memory built from the entry's seed.
WarpMap(memory(_), id(_, _), step(_, _, _, _), x, entry) ==
  LET t == memory(EntrySeed(entry))
      RECURSIVE From(_, _, _)
      From(i, code, pos) ==
        CASE i = 16 -> code
          [] i < 16 /\ code \in Image128 ->
               LET d == id(CodeByte(code, i), NibbleAt(entry, i))
               IN  From(i + 1, step(t, d, code, pos), OffsetAfter(d, pos))
  IN  From(0, x, 0)

quad_offset(x, entry)      == WarpMap(OffsetStream, AlgId, run_alg_offset, x, entry)
ilp(x, entry)              == WarpMap(OffsetStream, ShiftId, run_alg_offset, x, entry)
ilp_fixed(x, entry)        == WarpMap(OffsetStream, FixedId, run_alg_offset, x, entry)
ilp_carry_select(x, entry) == WarpMap(OffsetStream, ShiftId, run_alg_offset_carry_select, x, entry)
ilp_ldg(x, entry)          == WarpMap(OffsetStream, ShiftId, run_alg_offset_ldg, x, entry)
ilp_prefetch(x, entry)     == WarpMap(OffsetStream, ShiftId, prefetch_step, x, entry)
quad_interleaved(x, entry) == WarpMap(InterleavedStream, ShiftId, run_alg_offset_interleaved, x, entry)
quad_maprng(x, entry)      == WarpMap(MapRng, AlgId, run_alg_maprng, x, entry)
quad_preext(x, entry)      == WarpMap(MapRngPreext, AlgId, preext_inline_run, x, entry)
quad_coalesced(x, entry)   == WarpMap(MapRngCoalesced, AlgId, coalesced_inline_run, x, entry)

CudaRunners == {"quad", "quad_offset", "ilp", "ilp_fixed", "ilp_carry_select", "ilp_ldg", "ilp_prefetch",
                "quad_interleaved", "quad_maprng", "quad_preext"}
CudaMap(runner, x, entry) ==
  CASE runner = "quad"             -> run_schedule_t(x, entry)
    [] runner = "quad_offset"      -> quad_offset(x, entry)
    [] runner = "ilp"              -> ilp(x, entry)
    [] runner = "ilp_fixed"        -> ilp_fixed(x, entry)
    [] runner = "ilp_carry_select" -> ilp_carry_select(x, entry)
    [] runner = "ilp_ldg"          -> ilp_ldg(x, entry)
    [] runner = "ilp_prefetch"     -> ilp_prefetch(x, entry)
    [] runner = "quad_interleaved" -> quad_interleaved(x, entry)
    [] runner = "quad_maprng"      -> quad_maprng(x, entry)
    [] runner = "quad_preext"      -> quad_preext(x, entry)
CudaRange(runner, lanes, schedule, begin, end) ==
  LET map(x, entry)    == CudaMap(runner, x, entry)
      step(xs, entry)  == Lockstep(map, xs, entry)
  IN  RangeOf(step, lanes, schedule, begin, end)

(***************************************************************************)
(* The screen of a code.                                                   *)
(***************************************************************************)

\* A lane's bytes of a code under a world's mask, added down to lane 0.
kCarnivalWorldChecksumMask == [i \in 0 .. 127 |-> IF i < 16 THEN 0 ELSE 255]
kOtherWorldChecksumMask    == [i \in 0 .. 127 |-> IF i < 47 THEN 0 ELSE 255]
masked_sum_word(x, mask, lane) ==
  LET w == Word(AndV(x, mask), lane) IN w[0] + w[1] + w[2] + w[3]
LaneSums(x, mask) ==
  LET added(sums, offset) == [lane \in 0 .. 31 |-> sums[lane] + ShflDown(sums, lane, offset)]
  IN  FoldLeft(added, [lane \in 0 .. 31 |-> masked_sum_word(x, mask, lane)], << 16, 8, 4, 2, 1 >>)

\* CHECKSUM_SENTINEL, OTHER_WORLD and DUAL_PASS are bits 8, 1 and 2.
screen_candidate(x) ==
  LET carnival    == XorV(x, WorldData("carnival"))
      other       == XorV(x, WorldData("other"))
      carnival_ok == LaneSums(carnival, kCarnivalWorldChecksumMask)[0] % 65536 = 256 * Word(carnival, 3)[2] + Word(carnival, 3)[3]
      other_ok    == LaneSums(other, kOtherWorldChecksumMask)[0] % 65536 = 256 * Word(other, 11)[1] + Word(other, 11)[2]
  IN  CASE other_ok /\ carnival_ok  -> {"CHECKSUM_SENTINEL", "OTHER_WORLD", "DUAL_PASS"}
        [] other_ok /\ ~carnival_ok -> {"CHECKSUM_SENTINEL", "OTHER_WORLD"}
        [] carnival_ok /\ ~other_ok -> {"CHECKSUM_SENTINEL"}
        [] OTHER                    -> {}

(***************************************************************************)
(* A launch.  A block has four warps, and a warp takes width values in a   *)
(* row; a warp past the last value leaves at once.  What a warp stores of  *)
(* its flags is a set of numbers below width.                              *)
(***************************************************************************)
kCudaWarpsPerBlock == 4
grid_x(count, width) == (count + kCudaWarpsPerBlock * width - 1) \div (kCudaWarpsPerBlock * width)

ByteStore(base, count, width) == {0} \union {j \in 1 .. width - 1 : base + j < count}
PackedStore(base, count, width) ==
  IF base + 4 <= count THEN 0 .. 3 ELSE {0} \union {j \in 1 .. 2 : base + j < count}
GroupStore(base, count, j) ==
  IF base + j + 4 <= count THEN j .. j + 3 ELSE {k \in j .. j + 3 : base + k < count}
IlpStore(base, count, width) ==
  CASE width = 1 -> {0}
    [] width = 2 -> IF base + 2 <= count THEN {0, 1} ELSE {0}
    [] OTHER     -> UNION {GroupStore(base, count, 4 * g) : g \in 0 .. width \div 4 - 1}
store_screen_flags_ilp(base, count, width) ==
  IF width % 4 = 0 THEN UNION {GroupStore(base, count, 4 * g) : g \in 0 .. width \div 4 - 1}
  ELSE {j \in 0 .. width - 1 : base + j < count}

\* A screen kernel is its runner, the width of a warp, and its store.
ScreenKernel(runner, width, store) == [runner |-> runner, width |-> width, store |-> store]
checksum_screen           == ScreenKernel("quad", 4, "byte")
packed_store_screen       == ScreenKernel("quad", 4, "packed")
offset_store_screen       == ScreenKernel("quad_offset", 4, "packed")
interleaved_store_screen  == ScreenKernel("quad_interleaved", 4, "packed")
maprng_screen             == ScreenKernel("quad_maprng", 4, "byte")
maprng_preext_screen      == ScreenKernel("quad_preext", 4, "packed")
offset_store_ilp_screens  == {ScreenKernel("ilp", width, "ilp") : width \in {1, 2, 8, 12, 16}}
fixed_screens             == {ScreenKernel("ilp_fixed", 8, "flags")}
preids_screens            == {ScreenKernel("ilp", width, "flags") : width \in {8, 12, 16}}
small_preids_screens      == {ScreenKernel("ilp", width, "flags") : width \in {5, 6, 8}}
carry_select_screens      == {ScreenKernel("ilp_carry_select", 8, "flags")}
prefetch_screens          == {ScreenKernel("ilp_prefetch", width, "flags") : width \in {5, 6, 8}}
ldg_screens               == {ScreenKernel("ilp_ldg", width, "flags") : width \in {6, 8}}
ScreenKernels ==
  {checksum_screen, packed_store_screen, offset_store_screen, interleaved_store_screen, maprng_screen, maprng_preext_screen}
    \union offset_store_ilp_screens \union fixed_screens \union preids_screens \union small_preids_screens
    \union carry_select_screens \union prefetch_screens \union ldg_screens

Stored(s, base, count) ==
  CASE s.store = "byte"   -> ByteStore(base, count, s.width)
    [] s.store = "packed" -> PackedStore(base, count, s.width)
    [] s.store = "ilp"    -> IlpStore(base, count, s.width)
    [] s.store = "flags"  -> store_screen_flags_ilp(base, count, s.width)

\* The positions a launch writes.
ActiveBases(count, width) ==
  {base \in {width * w : w \in 0 .. kCudaWarpsPerBlock * grid_x(count, width) - 1} : base < count}
WrittenAt(s, count) == UNION {{base + j : j \in Stored(s, base, count)} : base \in ActiveBases(count, s.width)}

\* The codes a launch computes, at their positions, and what a screen leaves.
WarpCode(map(_, _), key, data, schedule) == MapsWith(map, initialize_working_word(key, data), schedule)
CodesAt(map(_, _), at, key, start, schedule) ==
  {<< p, WarpCode(map, key, DataAt(start, p), schedule) >> : p \in at}
FlagsOf(codes) == {<< c[1], screen_candidate(c[2]) >> : c \in codes}
Launch(s, key, start, count, schedule) ==
  LET map(x, entry) == CudaMap(s.runner, x, entry) IN FlagsOf(CodesAt(map, WrittenAt(s, count), key, start, schedule))

\* The screen that also counts the distinct codes hashes the first code of a
\* warp and the others that are among the values.
screen_and_hll(key, start, count, schedule) ==
  LET codes == CodesAt(run_schedule_t, WrittenAt(checksum_screen, count), key, start, schedule)
  IN  [flags |-> FlagsOf(codes), hashed |-> {c[2] : c \in codes}]

\* One code per warp, written out.
dump_state(key, start, count, schedule) == CodesAt(run_schedule_t, ActiveBases(count, 1), key, start, schedule)

\* A survivor is run again and decrypted for the world its flags name.
materialize_survivor(survivor, key, schedule) ==
  XorV(WarpCode(run_schedule_t, key, survivor.data, schedule),
       WorldData(IF "OTHER_WORLD" \notin survivor.flags THEN "carnival" ELSE "other"))

(***************************************************************************)
(* The host.                                                               *)
(***************************************************************************)

\* Its own algorithms, for the parity test: one carry runs down the code.
RECURSIVE CarrySweep(_, _, _, _)
CarrySweep(id, x, i, carry) ==
  IF i < 0 THEN x
  ELSE CarrySweep(id,
         [x EXCEPT ![i - 1] = IF id = 2 THEN Or(Half(@), HiBit(x[i])) ELSE Or(Twice(@), LoBit(x[i])),
                   ![i] = Or(IF id = 2 THEN Twice(@) ELSE Half(@), carry)],
         i - 2, EndBit(id, x[i - 1]))
cpu_run_alg(id, x, seed) ==
  CASE id = 0 -> OrV(TwiceV(x), alg0_values(seed, 0))
    [] id = 1 -> AddV(x, regular_rng_values(seed, 0))
    [] id = 3 -> XorV(x, regular_rng_values(seed, 0))
    [] id = 4 -> SubRow(x, regular_rng_values(seed, 0))
    [] id = 6 -> OrV(HalfV(x), alg6_values(seed, 0))
    [] id = 7 -> NotV(x)
    [] id \in {2, 5} -> CarrySweep(id, x, 127, CarryWord(id, seed))
cpu_expand(key, data) ==
  AddV([i \in 0 .. 127 |-> IF i % 8 < 4 THEN key[(i % 8) + 1] ELSE data[(i % 8) - 3]],
       expansion_values(256 * key[1] + key[2], 0))
cpu_forward(x, entry) == MapWith(cpu_run_alg, InPlace, x, entry)

\* The screen the command line picks.
ActiveScreens == {"interleaved", "offsets", "preext", "maprng", "hll", "plain"}
active_screen(option) ==
  CASE option = "interleaved" -> interleaved_store_screen
    [] option = "offsets"     -> ScreenKernel("ilp", 8, "flags")
    [] option = "preext"      -> maprng_preext_screen
    [] option = "maprng"      -> maprng_screen
    [] OTHER                  -> checksum_screen

\* The values with a flag, launch by launch, in order; then each is
\* materialized and its machine code judged.
SurvivorsOf(results, start, count) ==
  LET flags(i) == (CHOOSE r \in results : r[1] = i)[2]
      all      == [i \in 1 .. count |-> [data |-> DataAt(start, i - 1), flags |-> flags(i - 1)]]
      hit(s)   == "CHECKSUM_SENTINEL" \in s.flags
  IN  SelectSeq(all, hit)
RECURSIVE Survivors(_, _, _, _, _, _)
Survivors(s, key, start, amount, schedule, offset) ==
  IF offset >= amount THEN << >>
  ELSE LET chunk == IF amount - offset > BATCH_SIZE THEN BATCH_SIZE ELSE amount - offset
           first == DataAt(start, offset)
       IN  SurvivorsOf(Launch(s, key, first, chunk, schedule), first, chunk)
             \o Survivors(s, key, start, amount, schedule, offset + BATCH_SIZE)
Judge(survivor, key, schedule) ==
  LET other == "OTHER_WORLD" \in survivor.flags
      code  == materialize_survivor(survivor, key, schedule)
  IN  << survivor.data, check_machine_code(code, IF other THEN "other" ELSE "carnival")
                          \union (IF other THEN {"OTHER_WORLD"} ELSE {}) >>
cuda_search(option, key, start, amount, schedule) ==
  LET survivors == Survivors(active_screen(option), key, start, amount, schedule, 0)
  IN  [n \in DOMAIN survivors |-> Judge(survivors[n], key, schedule)]
=============================================================================
