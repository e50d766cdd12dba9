-------------------------------- MODULE Tm8 --------------------------------
(***************************************************************************)
(* The scalar kernel (src/bruteforce/cpu/tm_8.cpp) as operators: 128 bytes *)
(* in natural order, one byte at a time; and what every kernel shares with *)
(* it, the reading of a schedule entry and the test of a finished code.    *)
(***************************************************************************)
EXTENDS RngTables

(***************************************************************************)
(* The eight algorithms.                                                   *)
(***************************************************************************)
alg_0(x, seed) == LET row == alg0_values(seed, 0) IN [i \in 0 .. 127 |-> Or(Twice(x[i]), row[i])]
alg_1(x, seed) == AddV(x, regular_rng_values(seed, 0))
alg_2(x, seed) ==
  [i \in 0 .. 127 |->
     IF i % 2 = 0 THEN Or(Half(x[i]), HiBit(x[i + 1]))
     ELSE Or(Twice(x[i]),
             IF i = 127 THEN LoBit(alg2_values(seed, 1, FALSE)[0]) ELSE LoBit(x[i + 1]))]
alg_3(x, seed) == XorV(x, regular_rng_values(seed, 0))
alg_4(x, seed) ==
  LET row == regular_rng_values(seed, 0) IN [i \in 0 .. 127 |-> (x[i] - row[i]) % 256]
alg_5(x, seed) ==
  [i \in 0 .. 127 |->
     IF i % 2 = 0 THEN Or(Twice(x[i]), LoBit(x[i + 1]))
     ELSE Or(Half(x[i]),
             IF i = 127 THEN alg5_values(seed, 1, FALSE)[0] ELSE HiBit(x[i + 1]))]
alg_6(x, seed) == LET row == alg6_values(seed, 0) IN [i \in 0 .. 127 |-> Or(Half(x[i]), row[i])]
alg_7(x) == NotV(x)

Alg(id, x, seed) ==
  CASE id = 0 -> alg_0(x, seed)
    [] id = 1 -> alg_1(x, seed)
    [] id = 2 -> alg_2(x, seed)
    [] id = 3 -> alg_3(x, seed)
    [] id = 4 -> alg_4(x, seed)
    [] id = 5 -> alg_5(x, seed)
    [] id = 6 -> alg_6(x, seed)
    [] id = 7 -> alg_7(x)

\* How far an algorithm moves the seed.
SeedAfter(id, seed) ==
  CASE id \in {2, 5} -> seed_forward_1(seed)
    [] id = 7        -> seed
    [] OTHER         -> seed_forward_128(seed)

(***************************************************************************)
(* One map: sixteen algorithms, each named by three bits of one of the     *)
(* first sixteen bytes; the nibble selector, one bit a step from the top,  *)
(* says which half of the byte to read.                                    *)
(***************************************************************************)
EntrySeed(entry) == 256 * entry.rng1 + entry.rng2
NibbleAt(entry, i) == (entry.nibble_selector \div 2^(15 - i)) % 2
AlgId(byte, nibble) == ((IF nibble = 1 THEN byte \div 16 ELSE byte) \div 2) % 8

\* A map by a kernel's own algorithms alg, reading its code bytes by at; and a
\* schedule of maps.
MapWith(alg(_, _, _), at(_, _), x, entry) ==
  LET RECURSIVE From(_, _, _)
      From(i, code, seed) ==
        CASE i = 16 -> code
          [] i < 16 /\ code \in Image128 ->
               LET id == AlgId(at(code, i), NibbleAt(entry, i))
               IN  From(i + 1, alg(id, code, seed), SeedAfter(id, seed))
  IN  From(0, x, EntrySeed(entry))
MapsWith(map(_, _), x, schedule) ==
  LET RECURSIVE From(_, _)
      From(code, entries) ==
        IF entries = << >> THEN code ELSE From(map(code, Head(entries)), Tail(entries))
  IN  From(x, schedule)

InPlace(x, i) == x[i]
OneMap(x, entry)      == MapWith(Alg, InPlace, x, entry)
AllMaps(x, schedule)  == MapsWith(OneMap, x, schedule)

\* The key and the data, eight bytes over and over, under the key's mask.
ExpandCode(key, data) ==
  LET mask == expansion_values(256 * key[1] + key[2], 0)
  IN  [i \in 0 .. 127 |->
         ((IF i % 8 < 4 THEN key[(i % 8) + 1] ELSE data[(i % 8) - 3]) + mask[i]) % 256]

(***************************************************************************)
(* The two worlds and the test a finished code must pass for one of them.  *)
(***************************************************************************)
carnival_world_data ==
  << 0, 0, 0, 0, 0, 0, 0, 0, 0, 0, 0, 0, 0, 0, 61, 94,
     161, 166, 200, 35, 215, 110, 63, 124, 210, 70, 27, 159, 171, 210, 92, 155,
     50, 67, 103, 48, 160, 164, 35, 243, 39, 191, 234, 33, 15, 19, 49, 26,
     21, 161, 57, 52, 228, 210, 82, 110, 166, 247, 246, 67, 209, 40, 65, 216,
     220, 85, 225, 197, 73, 245, 212, 132, 82, 31, 144, 171, 38, 228, 42, 195,
     194, 89, 172, 129, 88, 53, 122, 195, 81, 154, 1, 4, 245, 226, 251, 167,
     174, 139, 70, 154, 39, 65, 250, 221, 99, 114, 35, 126, 27, 68, 90, 11,
     42, 60, 9, 250, 163, 89, 60, 161, 240, 144, 79, 70, 158, 209, 215, 244 >>
other_world_data ==
  << 0, 0, 0, 0, 0, 0, 0, 0, 0, 0, 0, 0, 0, 0, 0, 0,
     0, 0, 0, 0, 0, 0, 0, 0, 0, 0, 0, 0, 0, 0, 0, 0,
     0, 0, 0, 0, 0, 0, 0, 0, 0, 0, 0, 0, 0, 202, 104, 193,
     102, 68, 210, 4, 11, 144, 129, 134, 199, 244, 210, 226, 241, 34, 227, 12,
     217, 84, 251, 255, 10, 207, 129, 114, 10, 148, 154, 152, 211, 255, 171, 128,
     154, 229, 183, 69, 110, 143, 210, 240, 103, 255, 179, 174, 73, 187, 156, 6,
     18, 64, 73, 163, 154, 219, 50, 123, 88, 161, 90, 185, 43, 43, 45, 110,
     54, 147, 28, 26, 82, 3, 24, 228, 94, 177, 193, 189, 68, 251, 241, 80 >>

Worlds == {"carnival", "other"}
WorldData(world) ==
  LET data == IF world = "carnival" THEN carnival_world_data ELSE other_world_data
  IN  [i \in 0 .. 127 |-> data[i + 1]]
CodeLength(world) == IF world = "carnival" THEN 114 ELSE 83

\* The bytes the checksum covers lie above the code's own two checksum bytes.
ChecksumMask(world) ==
  [i \in 0 .. 127 |-> IF i >= 130 - CodeLength(world) THEN 255 ELSE 0]

RECURSIVE SumTo(_, _)
SumTo(x, i) == IF i < 0 THEN 0 ELSE x[i] + SumTo(x, i - 1)

MaskedChecksum(x, mask) == SumTo(AndV(x, mask), 127) % 65536
ChecksumValue(x, length) == 256 * x[127 - (length - 1)] + x[127 - (length - 2)]
ChecksumRight(code, world) ==
  MaskedChecksum(code, ChecksumMask(world)) = ChecksumValue(code, CodeLength(world))
CheckWorld(x, world) == ChecksumRight(XorV(x, WorldData(world)), world)
=============================================================================
