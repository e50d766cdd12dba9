-------------------------- MODULE ShuffledKernels --------------------------
(***************************************************************************)
(* The kernels that shuffle the code: in every pair of registers one holds *)
(* the even bytes (register a) and the next the odd bytes (register b), so *)
(* that a step moves all bytes of a register the same way.  The lanes of   *)
(* an image are in the order of memory, shuffle_8 says which byte a lane   *)
(* is.  bits is the width of a register.                                   *)
(***************************************************************************)
EXTENDS NaturalKernels, FiniteSets

\* A register of even bytes moved one lane down.  The 128-bit kernels shift
\* the register; the AVX kernel moves two 128-bit halves; the AVX2 kernel
\* aligns each 128-bit part with the part above it, a permute that leaves
\* nothing above the last; the AVX-512 kernel permutes all bytes and clears
\* the top one.
AlignDown(v) ==
  LET mask == [l \in DOMAIN v |-> IF l + 16 \in DOMAIN v THEN v[l + 16] ELSE 0]
  IN  [l \in DOMAIN v |-> IF l % 16 = 15 THEN mask[l - 15] ELSE v[l + 1]]
PermuteDown(v) ==
  [l \in DOMAIN v |-> IF l = Cardinality(DOMAIN v) - 1 THEN 0 ELSE v[l + 1]]

EvenDown(how, v) ==
  CASE how = "shift"   -> LaneDown(v, 0)
    [] how = "halves"  -> HalvesDown([l \in 1 .. Cardinality(DOMAIN v) |-> v[l - 1]])
    [] how = "align"   -> AlignDown(v)
    [] how = "permute" -> PermuteDown(v)

\* alg_2_sub and alg_5_sub of a pair: what one step leaves in a and in b, and
\* the carry for the pair below, from register a as it was.
Alg2Sub(how, a, b, carry) ==
  [a     |-> OrV(HalfV(a), HiBitV(b)),
   b     |-> OrV(OrV(TwiceV(b), EvenDown(how, LoBitV(a))), carry),
   carry |-> TopLane(Cardinality(DOMAIN a), LoBit(a[0]))]
Alg5Sub(how, a, b, carry) ==
  [a     |-> OrV(TwiceV(a), LoBitV(b)),
   b     |-> OrV(OrV(HalfV(b), EvenDown(how, HiBitV(a))), carry),
   carry |-> TopLane(Cardinality(DOMAIN a), HiBit(a[0]))]

\* The pairs of an image, last to first; regs collects what is done.
PairSub(alg, how, a, b, carry) ==
  IF alg = 2 THEN Alg2Sub(how, a, b, carry) ELSE Alg5Sub(how, a, b, carry)
PairStored(regs, p, pair) ==
  [regs |-> [regs EXCEPT ![2 * p] = pair.a, ![2 * p + 1] = pair.b], carry |-> pair.carry]
RECURSIVE Pairs(_, _, _, _, _, _)
Pairs(alg, how, width, x, p, done) ==
  IF p < 0 THEN Image(done.regs, width)
  ELSE Pairs(alg, how, width, x, p - 1,
         PairStored(done.regs, p,
           PairSub(alg, how, Register(x, width, 2 * p), Register(x, width, 2 * p + 1), done.carry)))

ShuffledSweep(alg, how, bits, x, seed) ==
  LET width == bits \div 8
      last  == 64 \div width - 1
      first == IF alg = 2 THEN alg2_values(seed, width, FALSE) ELSE alg5_values(seed, width, FALSE)
  IN  Pairs(alg, how, width, x, last,
        [regs |-> [r \in 0 .. 2 * last + 1 |-> << >>], carry |-> first])

ShuffledAlg(how, bits, id, x, seed) ==
  CASE id = 0 -> OrV(TwiceV(x), alg0_values(seed, bits))
    [] id = 1 -> AddV(x, regular_rng_values(seed, bits))
    [] id \in {2, 5} -> ShuffledSweep(id, how, bits, x, seed)
    [] id = 3 -> XorV(x, regular_rng_values(seed, bits))
    [] id = 4 -> AddV(x, alg4_values(seed, bits))
    [] id = 6 -> OrV(HalfV(x), alg6_values(seed, bits))
    [] id = 7 -> NotV(x)

ShuffledExpand(bits, key, data) ==
  LET tile == [i \in 0 .. 127 |-> IF i % 8 < 4 THEN key[(i % 8) + 1] ELSE data[(i % 8) - 3]]
  IN  AddV(Shuffle(tile, bits), expansion_values(256 * key[1] + key[2], bits))

\* The checksum of a decrypted image: a byte sum needs no order, so the mask
\* is shuffled; the code's own two bytes are looked up by their place.
ShuffledDecrypt(bits, x, world)  == XorV(x, Shuffle(WorldData(world), bits))
ShuffledChecksum_PlainMask(bits, x, world) == MaskedChecksum(x, ChecksumMask(world))
ShuffledChecksum(bits, x, world) == MaskedChecksum(x, Shuffle(ChecksumMask(world), bits))
ShuffledValue(bits, x, world) ==
  LET length == CodeLength(world) - 2
  IN  256 * x[shuffle_8(127 - (length + 1), bits)] + x[shuffle_8(127 - length, bits)]
SumsRight(bits, code, world) == ShuffledChecksum(bits, code, world) = ShuffledValue(bits, code, world)
ShuffledCheck(bits, x, world) == SumsRight(bits, ShuffledDecrypt(bits, x, world), world)

(***************************************************************************)
(* The kernels: tm_sse2_m128s_8 in memory, tm_avx_r128s_8 with all eight   *)
(* registers held, tm_avx_r256s_8 and tm_avx2_r256s_8 with all four.       *)
(***************************************************************************)
At128(x, i) == x[shuffle_8(i, 128)]
At256(x, i) == x[shuffle_8(i, 256)]

m128s_expand(key, data) == ShuffledExpand(128, key, data)
m128s_alg(id, x, seed)  == ShuffledAlg("shift", 128, id, x, seed)
m128s_map(x, entry)     == MapWith(m128s_alg, At128, x, entry)
\* run_one_map reads byte i of memory, unshuffled.
m128s_one_map(x, entry) == MapWith(m128s_alg, InPlace, x, entry)

r128s_expand(key, data)  == ShuffledExpand(128, key, data)
r128s_sweep(id, x, seed) == ShuffledSweep(id, "shift", 128, x, seed)
r128s_alg(id, x, seed) ==
  IF id \in {2, 5} THEN r128s_sweep(id, x, seed) ELSE ShuffledAlg("shift", 128, id, x, seed)
r128s_map(x, entry)      == MapWith(r128s_alg, At128, x, entry)
r128s_decrypt(x, world)  == ShuffledDecrypt(128, x, world)
r128s_checksum(x, world) == ShuffledChecksum(128, x, world)
r128s_value(x, world)    == ShuffledValue(128, x, world)
r128s_check(x, world) ==
  LET right(code) == r128s_checksum(code, world) = r128s_value(code, world) IN right(r128s_decrypt(x, world))

r256s_expand(key, data)  == ShuffledExpand(256, key, data)
r256s_sweep(id, x, seed) == ShuffledSweep(id, "halves", 256, x, seed)
r256s_alg(id, x, seed) ==
  IF id \in {2, 5} THEN r256s_sweep(id, x, seed) ELSE ShuffledAlg("halves", 256, id, x, seed)
r256s_map(x, entry)      == MapWith(r256s_alg, At256, x, entry)
r256s_decrypt(x, world)  == ShuffledDecrypt(256, x, world)
r256s_checksum(x, world) == ShuffledChecksum(256, x, world)
r256s_value(x, world)    == ShuffledValue(256, x, world)
r256s_check(x, world) ==
  LET right(code) == r256s_checksum(code, world) = r256s_value(code, world) IN right(r256s_decrypt(x, world))

\* The AVX2 kernel subtracts the regular row in a map where run_alg adds the
\* alg_4 row, and runs two codes in lockstep.
avx2_r256s_expand(key, data)  == ShuffledExpand(256, key, data)
avx2_r256s_sweep(id, x, seed) == ShuffledSweep(id, "align", 256, x, seed)
avx2_r256s_alg(id, x, seed) ==
  IF id \in {2, 5} THEN avx2_r256s_sweep(id, x, seed) ELSE ShuffledAlg("align", 256, id, x, seed)
SubRow(x, row) == [l \in DOMAIN x |-> (x[l] - row[l]) % 256]
avx2_r256s_map_alg(id, x, seed) ==
  IF id = 4 THEN SubRow(x, regular_rng_values(seed, 256)) ELSE avx2_r256s_alg(id, x, seed)
avx2_r256s_map(x, entry)     == MapWith(avx2_r256s_map_alg, At256, x, entry)
avx2_r256s_map_x2(lanes, entry) == [n \in DOMAIN lanes |-> avx2_r256s_map(lanes[n], entry)]
avx2_r256s_range_x2(lanes, schedule) == MapsWith(avx2_r256s_map_x2, lanes, schedule)
avx2_r256s_decrypt(x, world) == ShuffledDecrypt(256, x, world)
avx2_r256s_check(x, world) == SumsRight(256, avx2_r256s_decrypt(x, world), world)
=============================================================================
