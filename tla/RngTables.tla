----------------------------- MODULE RngTables -----------------------------
(***************************************************************************)
(* The generator of the game and the tables the kernels read instead of    *)
(* running it (src/common/rng_obj.cpp).  A table of the source holds one   *)
(* row for each of the 65536 seeds; here a table is an operator from the   *)
(* seed to its row, a function from 0 .. 127 to bytes.                     *)
(***************************************************************************)
EXTENDS TmLanes

\* The seed that follows: two bytes through three additions with carry.
rng_table(seed) ==
  LET a1 == (seed \div 256) + 137
      b1 == (((seed \div 256) + seed) % 256) + 42 + (a1 \div 256)
      a2 == (a1 % 256) + 33 + (b1 \div 256)
      b2 == (b1 % 256) + 67 + (a2 \div 256)
  IN  256 * (a2 % 256) + (b2 % 256)

\* The byte drawn when the generator arrives at a seed.
RngValue(seed) == Xor(seed \div 256, seed % 256)

\* The seeds of a walk of n: the first seed, then those that follow it.
RECURSIVE Walk(_, _)
Walk(n, seeds) ==
  IF Len(seeds) = n THEN seeds ELSE Walk(n, Append(seeds, rng_table(seeds[Len(seeds)])))

\* The n bytes drawn from a seed on.
Draws(seed, n) ==
  LET seeds == Walk(n + 1, << seed >>) IN [j \in 0 .. n - 1 |-> RngValue(seeds[j + 2])]

seed_forward_1(seed)   == rng_table(seed)
seed_forward_128(seed) == Walk(129, << seed >>)[129]

\* Where the shuffled layouts put byte offset: each group of bits/4 bytes is
\* its even bytes, then its odd bytes.
shuffle_8(offset, bits) ==
  (offset \div (bits \div 4)) * (bits \div 4) + (offset % 2) * (bits \div 8)
    + ((offset \div 2) % (bits \div 8))

\* The byte of the code each place of a shuffled image holds.
UnshuffledAt ==
  [bits \in {128, 256, 512} |->
     [k \in 0 .. 127 |-> CHOOSE i \in 0 .. 127 : shuffle_8(i, bits) = k]]

\* shuffle_mem and unshuffle_mem; the width 0 is the natural layout.
Shuffle(row, bits) ==
  IF bits = 0 THEN row ELSE [k \in 0 .. 127 |-> row[UnshuffledAt[bits][k]]]
Unshuffle(image, bits) ==
  IF bits = 0 THEN image ELSE [i \in 0 .. 127 |-> image[shuffle_8(i, bits)]]

\* The rows.  All but alg_6's run the generator from the last byte down.
regular_rng_values(seed, bits) ==
  LET draw == Draws(seed, 128) IN Shuffle([i \in 0 .. 127 |-> draw[127 - i]], bits)
alg0_values(seed, bits) ==
  LET draw == Draws(seed, 128)
  IN  Shuffle([i \in 0 .. 127 |-> draw[127 - i] \div 128], bits)
alg4_values(seed, bits) ==
  LET draw == Draws(seed, 128)
  IN  Shuffle([i \in 0 .. 127 |-> (Xor(draw[127 - i], 255) + 1) % 256], bits)
alg6_values(seed, bits) ==
  LET draw == Draws(seed, 128) IN Shuffle([i \in 0 .. 127 |-> HiBit(draw[i])], bits)

\* The combined row of alg_0's low bits and alg_6's high bits.
alg06_values(seed, bits) ==
  LET draw == Draws(seed, 128)
  IN  Shuffle([i \in 0 .. 127 |-> Or(draw[127 - i] \div 128, HiBit(draw[i]))], bits)

\* The bit rows the GPU tables and the certifier share: 16 bytes, bit o % 8
\* of byte o \div 8 for place o.
Packed(bit) ==
  [b \in 0 .. 15 |->
     bit[8*b] + 2 * bit[8*b+1] + 4 * bit[8*b+2] + 8 * bit[8*b+3] + 16 * bit[8*b+4]
       + 32 * bit[8*b+5] + 64 * bit[8*b+6] + 128 * bit[8*b+7]]
alg0_bits_8(seed) == Packed(alg0_values(seed, 0))
alg6_bits_8(seed) == LET draw == Draws(seed, 128) IN Packed([i \in 0 .. 127 |-> draw[i] \div 128])

\* A row with every second byte cleared: _split leaves the odd places to the
\* "lo" tables and the even places to the "hi" tables.
Split(row, hi) ==
  [i \in 0 .. 127 |-> IF (i % 2 = 0) = hi THEN row[i] ELSE 0]

\* The seed's one carry bit, in the top place of a register of width bytes
\* (the top 16-bit lane's low byte when a lane holds one byte in 16 bits).
alg2_values(seed, width, packing_16) ==
  [l \in 0 .. width - 1 |->
     IF l = width - (IF packing_16 THEN 2 ELSE 1)
     THEN RngValue(rng_table(seed)) \div 128 ELSE 0]
alg5_values(seed, width, packing_16) ==
  [l \in 0 .. width - 1 |->
     IF l = width - (IF packing_16 THEN 2 ELSE 1)
     THEN HiBit(RngValue(rng_table(seed))) ELSE 0]

\* The mask the key leaves on the expanded code: eight running sums.
RECURSIVE ExpansionRows(_, _, _)
ExpansionRows(draw, row, rows) ==
  IF row = 16 THEN rows
  ELSE ExpansionRows(draw, row + 1,
         Append(rows, [k \in 0 .. 7 |-> (rows[row][k] + draw[8 * (row - 1) + k]) % 256]))
expansion_values(seed, bits) ==
  LET rows == ExpansionRows(Draws(seed, 120), 1, << [k \in 0 .. 7 |-> 0] >>)
  IN  Shuffle([i \in 0 .. 127 |-> rows[(i \div 8) + 1][i % 8]], bits)
=============================================================================
