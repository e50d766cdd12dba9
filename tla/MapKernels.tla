----------------------------- MODULE MapKernels -----------------------------
(***************************************************************************)
(* The kernels that prepare a schedule before they run it.  For each map   *)
(* they keep three rows of 2048 bytes, all a map can draw, and walk them   *)
(* with a position that starts at the last byte: a step that draws a block *)
(* reads the 128 bytes that end at the position, a step that draws one bit *)
(* reads the byte there.  Several codes are run in lockstep, each with its *)
(* own position, and the dispatch of a step is written in several ways.    *)
(***************************************************************************)
EXTENDS ShuffledKernels

(***************************************************************************)
(* The rows of a map, and the reading of them.                             *)
(***************************************************************************)

\* The seeds of the 2048 bytes a map may draw, block after block.
RECURSIVE DrawSeeds(_, _)
DrawSeeds(blocks, seeds) ==
  IF blocks = 0 THEN Tail(seeds) ELSE DrawSeeds(blocks - 1, Walk(Len(seeds) + 128, seeds))
Drawn(seeds, j) == RngValue(seeds[j + 1])

regular_rng_values_for_seed_8(seeds) == [k \in 0 .. 2047 |-> Drawn(seeds, 2047 - k)]
alg0_values_for_seed_8(seeds)        == [k \in 0 .. 2047 |-> Drawn(seeds, 2047 - k) \div 128]
alg6_values_for_seed_8(seeds)        == [k \in 0 .. 2047 |-> HiBit(Drawn(seeds, k))]

RowsOf(seeds) ==
  [reg  |-> regular_rng_values_for_seed_8(seeds),
   alg0 |-> alg0_values_for_seed_8(seeds),
   alg6 |-> alg6_values_for_seed_8(seeds)]
Tables(seed) == RowsOf(DrawSeeds(16, << seed >>))

Block(row, start) == [i \in 0 .. 127 |-> row[start + i]]

\* Mutant: the folded alg_7 moves the position as its merged partner does.
PosAfter_MovesOnFlip(id, pos) == IF id \in {2, 5} THEN (pos - 1) % 65536 ELSE (pos - 128) % 65536
\* Where a step leaves the position (16 bits).
PosAfter(id, pos) ==
  CASE id \in {2, 5} -> (pos - 1) % 65536
    [] id = 7        -> pos
    [] OTHER         -> (pos - 128) % 65536

(***************************************************************************)
(* The natural layout: alg_2 and alg_5 take each byte's neighbour above;   *)
(* the last byte of a register takes the next register's first byte, the   *)
(* last register's takes the drawn byte.                                   *)
(***************************************************************************)
Neighbor(width, x, carry) ==
  LET next(r) == IF r = 128 \div width - 1 THEN carry ELSE x[width * (r + 1)]
  IN  Image([r \in 0 .. 128 \div width - 1 |-> LaneDown(Register(x, width, r), next(r))], width)
Butterfly(srli_first, x, neighbor) ==
  [i \in 0 .. 127 |->
     IF (i % 2 = 0) = srli_first
     THEN Or(Half(x[i]), HiBit(neighbor[i])) ELSE Or(Twice(x[i]), LoBit(neighbor[i]))]

MapAlg2(width, t, x, pos) == Butterfly(TRUE, x, Neighbor(width, x, t.reg[pos] \div 128))
MapAlg5(width, t, x, pos) == Butterfly(FALSE, x, Neighbor(width, x, HiBit(t.reg[pos])))

\* The blocks a step at pos may read.
RegBlock(t, pos)  == Block(t.reg, pos - 127)
Alg0Block(t, pos) == Block(t.alg0, pos - 127)
Alg6Block(t, pos) == Block(t.alg6, 2047 - pos)

\* A step, one branch for each algorithm.
MapAlg(width, t, id, x, pos) ==
  CASE id = 0 -> OrV(TwiceV(x), Alg0Block(t, pos))
    [] id = 1 -> AddV(x, RegBlock(t, pos))
    [] id = 2 -> MapAlg2(width, t, x, pos)
    [] id = 3 -> XorV(x, RegBlock(t, pos))
    [] id = 4 -> SubRow(x, RegBlock(t, pos))
    [] id = 5 -> MapAlg5(width, t, x, pos)
    [] id = 6 -> OrV(HalfV(x), Alg6Block(t, pos))
    [] id = 7 -> NotV(x)

\* A step whose arithmetic candidates are all computed and one is selected.
BlarithAlg(width, t, id, x, pos) ==
  IF id \in {2, 5, 7} THEN MapAlg(width, t, id, x, pos)
  ELSE LET candidate == [c \in {0, 1, 3, 4, 6} |-> MapAlg(width, t, c, x, pos)] IN candidate[id]

\* A step whose candidates are merged in pairs: {0, 6} differ in the shift,
\* {1, 4} in the sign of the row, {3, 7} in what the code is xored with.
MergedStep(id, x, reg, alg0, alg6) ==
  LET shift   == IF id = 6 THEN OrV(HalfV(x), alg6) ELSE OrV(TwiceV(x), alg0)
      operand == [i \in 0 .. 127 |-> IF id = 4 THEN (0 - reg[i]) % 256 ELSE reg[i]]
      flip    == [i \in 0 .. 127 |-> IF id = 7 THEN 255 ELSE reg[i]]
  IN  IF id \in {3, 7} THEN XorV(x, flip) ELSE IF id \in {1, 4} THEN AddV(x, operand) ELSE shift
BlmergeAlg(width, t, id, x, pos) ==
  IF id \in {2, 5} THEN MapAlg(width, t, id, x, pos)
  ELSE MergedStep(id, x, RegBlock(t, pos), Alg0Block(t, pos), Alg6Block(t, pos))

\* A step with no branch: everything is computed, at a position held inside
\* the rows, and blended.
BlallAlg(width, t, id, x, pos) ==
  LET sp     == IF pos < 127 THEN 127 ELSE IF pos > 2047 THEN 2047 ELSE pos
      cp     == IF pos > 2047 THEN 2047 ELSE pos
      merged == MergedStep(id, x, RegBlock(t, sp), Alg0Block(t, sp), Alg6Block(t, sp))
      bf2    == MapAlg2(width, t, x, cp)
      bf5    == MapAlg5(width, t, x, cp)
  IN  IF id = 5 THEN bf5 ELSE IF id = 2 THEN bf2 ELSE merged

(***************************************************************************)
(* A map over prepared rows.  alg is a kernel's step, at its reading of a  *)
(* code byte; the result is the code and the sixteen algorithms it ran.    *)
(***************************************************************************)
MapEntry(alg(_, _, _, _), at(_, _), x, entry) ==
  LET t == Tables(EntrySeed(entry))
      RECURSIVE From(_, _, _)
      From(code, pos, ops) ==
        CASE Len(ops) = 16 -> [code |-> code, ops |-> ops]
          [] Len(ops) < 16 /\ code \in Image128 ->
               LET id == AlgId(at(code, Len(ops)), NibbleAt(entry, Len(ops)))
               IN  From(alg(t, id, code, pos), PosAfter(id, pos), Append(ops, id))
  IN  From(x, 2047, << >>)

\* The count of alg_0, the route score of a map, and its tail, the last eight
\* algorithms as one number.
Alg0Count(ops) == Cardinality({i \in DOMAIN ops : ops[i] = 0})
OpTail_OneEarly(ops) ==
  LET tail == SubSeq(ops, Len(ops) - 8, Len(ops) - 1)
  IN  8 * (8 * (8 * (8 * (8 * (8 * (8 * tail[1] + tail[2]) + tail[3]) + tail[4])
        + tail[5]) + tail[6]) + tail[7]) + tail[8]
OpTail(ops) ==
  LET tail == SubSeq(ops, Len(ops) - 7, Len(ops))
  IN  8 * (8 * (8 * (8 * (8 * (8 * (8 * tail[1] + tail[2]) + tail[3]) + tail[4])
        + tail[5]) + tail[6]) + tail[7]) + tail[8]

\* Codes in lockstep: a map of each, and a range of maps of each.  They never
\* mix, so the order in which a step takes them is left out.
Lockstep(map(_, _), lanes, entry) == [n \in DOMAIN lanes |-> map(lanes[n], entry)]
Codes(done) == [n \in DOMAIN done |-> done[n].code]

RangeOf(step(_, _), lanes, schedule, begin, end) ==
  LET stop == IF end > Len(schedule) THEN Len(schedule) ELSE end
  IN  IF begin >= stop THEN lanes ELSE MapsWith(step, lanes, SubSeq(schedule, begin + 1, stop))
=============================================================================
