-------------------------- MODULE NaturalKernels --------------------------
(***************************************************************************)
(* The kernels of src/bruteforce/cpu that keep the code in natural order,  *)
(* in registers of 4 to 32 lanes.  A kernel is a record of what its        *)
(* constructor settles: the width of a register in lanes, whether a lane   *)
(* is a 16-bit word (packing_16; every step masks it back to a byte, so a  *)
(* step and its mask are one operation here), whether a register is moved  *)
(* in two 128-bit halves, and whether additions go through split rows.     *)
(***************************************************************************)
EXTENDS Tm8

Kernel(width, packing_16, halves, split) ==
  [width |-> width, packing_16 |-> packing_16, halves |-> halves, split |-> split]

tm_32_8       == Kernel(4, FALSE, FALSE, TRUE)
tm_64_8       == Kernel(8, FALSE, FALSE, TRUE)
tm_mmx_m64_8  == Kernel(8, FALSE, FALSE, FALSE)
tm_sse2_m128_8  == Kernel(16, FALSE, FALSE, TRUE)
tm_avx_m256_8   == Kernel(32, FALSE, TRUE, TRUE)
tm_avx_r256_8   == Kernel(32, FALSE, TRUE, TRUE)
tm_32_16      == Kernel(2, TRUE, FALSE, FALSE)
tm_64_16      == Kernel(4, TRUE, FALSE, FALSE)
tm_sse2_m128_16 == Kernel(8, TRUE, FALSE, FALSE)
tm_avx_m256_16  == Kernel(16, TRUE, TRUE, FALSE)
tm_avx_r256_16  == Kernel(16, TRUE, TRUE, FALSE)

(***************************************************************************)
(* One register.                                                           *)
(***************************************************************************)

\* A 256-bit register moved one lane down as two 128-bit halves: the low
\* half's top lane is the high half's lane 0.
HalvesDown(v) ==
  LET h    == Len(v) \div 2
      low  == OrV(LaneDown([l \in 0 .. h - 1 |-> v[l + 1]], 0), TopLane(h, v[h + 1]))
      high == LaneDown([l \in 0 .. h - 1 |-> v[h + l + 1]], 0)
  IN  [l \in 0 .. 2 * h - 1 |-> IF l < h THEN low[l] ELSE high[l - h]]

Down(k, v) ==
  IF k.halves THEN HalvesDown([l \in 1 .. k.width |-> v[l - 1]]) ELSE LaneDown(v, 0)

\* alg_2 and alg_5 of a register: even lanes move one way and odd lanes the
\* other, each takes an end bit of the lane above it, and the top lane takes
\* the carry.
Alg2Lanes(v, down, carry) ==
  [l \in DOMAIN v |->
     IF l % 2 = 0 THEN Or(Half(v[l]), HiBit(down[l])) ELSE Or(Twice(v[l]), Or(LoBit(down[l]), carry[l]))]
Alg5Lanes(v, down, carry) ==
  [l \in DOMAIN v |->
     IF l % 2 = 0 THEN Or(Twice(v[l]), LoBit(down[l])) ELSE Or(Half(v[l]), Or(HiBit(down[l]), carry[l]))]
Alg2Step(k, v, carry) == Alg2Lanes(v, Down(k, v), carry)
Alg5Step(k, v, carry) == Alg5Lanes(v, Down(k, v), carry)

(***************************************************************************)
(* The image.                                                              *)
(***************************************************************************)

\* A register of bytes as the kernel's lanes.
Lanes(k, v) ==
  IF k.packing_16 THEN [l \in 0 .. k.width - 1 |-> v[2 * l] + 256 * v[2 * l + 1]] ELSE v
RegisterBytes(k) == IF k.packing_16 THEN 2 * k.width ELSE k.width

\* The sweep from the last register to the first.  A register's carry is read
\* from the register above it before that one is rewritten.
NaturalAlg2(k, x, seed) ==
  LET last     == 128 \div k.width - 1
      carry(r) == IF r = last
                  THEN Lanes(k, alg2_values(seed, RegisterBytes(k), k.packing_16))
                  ELSE TopLane(k.width, LoBit(x[k.width * (r + 1)]))
  IN  Image([r \in 0 .. last |-> Alg2Step(k, Register(x, k.width, r), carry(r))], k.width)
NaturalAlg5(k, x, seed) ==
  LET last     == 128 \div k.width - 1
      carry(r) == IF r = last
                  THEN Lanes(k, alg5_values(seed, RegisterBytes(k), k.packing_16))
                  ELSE TopLane(k.width, HiBit(x[k.width * (r + 1)]))
  IN  Image([r \in 0 .. last |-> Alg5Step(k, Register(x, k.width, r), carry(r))], k.width)

\* Bytes added two at a time as 16-bit words: the odd bytes from the lo row,
\* the even bytes from the hi row, each masked so that no sum leaves its byte.
AddSplit(x, lo, hi) ==
  [i \in 0 .. 127 |-> (x[i] + IF i % 2 = 0 THEN hi[i] ELSE lo[i]) % 256]
AddRow(k, x, row) ==
  IF k.split THEN AddSplit(x, Split(row, FALSE), Split(row, TRUE)) ELSE AddV(x, row)

NaturalAlg(k, id, x, seed) ==
  CASE id = 0 -> OrV(TwiceV(x), alg0_values(seed, 0))
    [] id = 1 -> AddRow(k, x, regular_rng_values(seed, 0))
    [] id = 2 -> NaturalAlg2(k, x, seed)
    [] id = 3 -> XorV(x, regular_rng_values(seed, 0))
    [] id = 4 -> AddRow(k, x, alg4_values(seed, 0))
    [] id = 5 -> NaturalAlg5(k, x, seed)
    [] id = 6 -> OrV(HalfV(x), alg6_values(seed, 0))
    [] id = 7 -> NotV(x)

\* The eight bytes of key and data over and over, under the key's mask.
NaturalExpand(key, data) ==
  LET tile == [i \in 0 .. 127 |-> IF i % 8 < 4 THEN key[(i % 8) + 1] ELSE data[(i % 8) - 3]]
  IN  AddV(tile, expansion_values(256 * key[1] + key[2], 0))

(***************************************************************************)
(* The kernels' own code: their algorithms, and their expand, load_data    *)
(* and fetch_data (bytes are copied, a 16-bit kernel widens and narrows).  *)
(***************************************************************************)
tm_32_8_alg(id, x, seed)         == NaturalAlg(tm_32_8, id, x, seed)
tm_64_8_alg(id, x, seed)         == NaturalAlg(tm_64_8, id, x, seed)
tm_mmx_m64_8_alg(id, x, seed)    == NaturalAlg(tm_mmx_m64_8, id, x, seed)
tm_sse2_m128_8_alg(id, x, seed)  == NaturalAlg(tm_sse2_m128_8, id, x, seed)
tm_32_16_alg(id, x, seed)        == NaturalAlg(tm_32_16, id, x, seed)
tm_64_16_alg(id, x, seed)        == NaturalAlg(tm_64_16, id, x, seed)
tm_sse2_m128_16_alg(id, x, seed) == NaturalAlg(tm_sse2_m128_16, id, x, seed)

tm_avx_m256_8_alg_2(x, seed)  == NaturalAlg2(tm_avx_m256_8, x, seed)
tm_avx_m256_8_alg_5(x, seed)  == NaturalAlg5(tm_avx_m256_8, x, seed)
tm_avx_m256_8_alg(id, x, seed) ==
  CASE id = 2 -> tm_avx_m256_8_alg_2(x, seed)
    [] id = 5 -> tm_avx_m256_8_alg_5(x, seed)
    [] OTHER  -> NaturalAlg(tm_avx_m256_8, id, x, seed)

tm_avx_m256_16_alg_2(x, seed) == NaturalAlg2(tm_avx_m256_16, x, seed)
tm_avx_m256_16_alg_5(x, seed) == NaturalAlg5(tm_avx_m256_16, x, seed)
tm_avx_m256_16_alg(id, x, seed) ==
  CASE id = 2 -> tm_avx_m256_16_alg_2(x, seed)
    [] id = 5 -> tm_avx_m256_16_alg_5(x, seed)
    [] OTHER  -> NaturalAlg(tm_avx_m256_16, id, x, seed)

\* The kernels that hold the whole code in registers write every register's
\* step out.
tm_avx_r256_8_alg_2(x, seed) == NaturalAlg2(tm_avx_r256_8, x, seed)
tm_avx_r256_8_alg_5(x, seed) == NaturalAlg5(tm_avx_r256_8, x, seed)
tm_avx_r256_8_alg_6(x, seed) == OrV(HalfV(x), alg6_values(seed, 0))
tm_avx_r256_8_add_alg(x, lo, hi) == AddSplit(x, lo, hi)
tm_avx_r256_8_alg(id, x, seed) ==
  CASE id = 1 -> tm_avx_r256_8_add_alg(x, Split(regular_rng_values(seed, 0), FALSE),
                                          Split(regular_rng_values(seed, 0), TRUE))
    [] id = 2 -> tm_avx_r256_8_alg_2(x, seed)
    [] id = 4 -> tm_avx_r256_8_add_alg(x, Split(alg4_values(seed, 0), FALSE),
                                          Split(alg4_values(seed, 0), TRUE))
    [] id = 5 -> tm_avx_r256_8_alg_5(x, seed)
    [] id = 6 -> tm_avx_r256_8_alg_6(x, seed)
    [] OTHER  -> NaturalAlg(tm_avx_r256_8, id, x, seed)

tm_avx_r256_16_alg_0(x, seed) == OrV(TwiceV(x), alg0_values(seed, 0))
tm_avx_r256_16_alg_1(x, seed) == AddV(x, regular_rng_values(seed, 0))
tm_avx_r256_16_alg_2(x, seed) == NaturalAlg2(tm_avx_r256_16, x, seed)
tm_avx_r256_16_alg_4(x, seed) == AddV(x, alg4_values(seed, 0))
tm_avx_r256_16_alg_5(x, seed) == NaturalAlg5(tm_avx_r256_16, x, seed)
tm_avx_r256_16_alg_6(x, seed) == OrV(HalfV(x), alg6_values(seed, 0))
tm_avx_r256_16_alg(id, x, seed) ==
  CASE id = 0 -> tm_avx_r256_16_alg_0(x, seed)
    [] id = 1 -> tm_avx_r256_16_alg_1(x, seed)
    [] id = 2 -> tm_avx_r256_16_alg_2(x, seed)
    [] id = 4 -> tm_avx_r256_16_alg_4(x, seed)
    [] id = 5 -> tm_avx_r256_16_alg_5(x, seed)
    [] id = 6 -> tm_avx_r256_16_alg_6(x, seed)
    [] OTHER  -> NaturalAlg(tm_avx_r256_16, id, x, seed)

tm_32_8_expand(key, data)         == NaturalExpand(key, data)
tm_64_8_expand(key, data)         == NaturalExpand(key, data)
tm_mmx_m64_8_expand(key, data)    == NaturalExpand(key, data)
tm_sse2_m128_8_expand(key, data)  == NaturalExpand(key, data)
tm_avx_m256_8_expand(key, data)   == NaturalExpand(key, data)
tm_avx_r256_8_expand(key, data)   == NaturalExpand(key, data)
tm_32_16_expand(key, data)        == NaturalExpand(key, data)
tm_64_16_expand(key, data)        == NaturalExpand(key, data)
tm_sse2_m128_16_expand(key, data) == NaturalExpand(key, data)
tm_avx_m256_16_expand(key, data)  == NaturalExpand(key, data)
tm_avx_r256_16_expand(key, data)  == NaturalExpand(key, data)

(***************************************************************************)
(* Their maps.  run_all_maps reads the code bytes in place; run_one_map,   *)
(* where it is a loop of its own, is the same, but the AVX kernel of       *)
(* 16-bit lanes reads byte i of its packed memory there, which is byte     *)
(* i/2 of the code or the zero above it.                                   *)
(***************************************************************************)
tm_32_8_map(x, entry) == MapWith(tm_32_8_alg, InPlace, x, entry)
tm_64_8_map(x, entry) == MapWith(tm_64_8_alg, InPlace, x, entry)
tm_mmx_m64_8_map(x, entry) == MapWith(tm_mmx_m64_8_alg, InPlace, x, entry)
tm_sse2_m128_8_map(x, entry) == MapWith(tm_sse2_m128_8_alg, InPlace, x, entry)
tm_avx_m256_8_map(x, entry) == MapWith(tm_avx_m256_8_alg, InPlace, x, entry)
tm_avx_r256_8_map(x, entry) == MapWith(tm_avx_r256_8_alg, InPlace, x, entry)
tm_32_16_map(x, entry) == MapWith(tm_32_16_alg, InPlace, x, entry)
tm_64_16_map(x, entry) == MapWith(tm_64_16_alg, InPlace, x, entry)
tm_sse2_m128_16_map(x, entry) == MapWith(tm_sse2_m128_16_alg, InPlace, x, entry)
tm_avx_m256_16_map(x, entry) == MapWith(tm_avx_m256_16_alg, InPlace, x, entry)
tm_avx_r256_16_map(x, entry) == MapWith(tm_avx_r256_16_alg, InPlace, x, entry)

PackedAt(x, i) == IF i % 2 = 0 THEN x[i \div 2] ELSE 0
tm_avx_r256_16_one_map(x, entry) == MapWith(tm_avx_r256_16_alg, PackedAt, x, entry)
=============================================================================
