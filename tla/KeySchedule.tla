---------------------------- MODULE KeySchedule ----------------------------
(***************************************************************************)
(* From a key to its schedule (src/common/key_schedule.cpp): a sequence of *)
(* entries, one for each map of a list of maps and one more for map 0x22.  *)
(* Four bytes of state start as the key; each entry is read off them after *)
(* one of eight algorithms has stirred a map number in.                    *)
(***************************************************************************)
EXTENDS TmLanes

SKIP_CAR == << 0, 2, 5, 4, 3, 29, 28, 30, 27, 7, 8, 9, 12, 32, 33, 34, 35, 36, 37, 38, 14, 15, 16, 18, 17 >>
ALL_MAPS == SubSeq(SKIP_CAR, 1, 11) \o << 6 >> \o SubSeq(SKIP_CAR, 12, 25)

\* Sums that run from the last byte to the first, each with the carry of the one before.
RollingSums(d, start, carry) ==
  LET s4 == start + d[4] + carry
      s3 == (s4 % 256) + d[3] + (s4 \div 256)
      s2 == (s3 % 256) + d[2] + (s3 \div 256)
      s1 == (s2 % 256) + d[1] + (s2 \div 256)
  IN  << s1 % 256, s2 % 256, s3 % 256, s4 % 256 >>

algorithm_0(d, map) ==
  LET sum  == Xor(map, d[2]) + d[1]
      left == (sum % 256) - d[3] - (1 - (sum \div 256))
  IN  RollingSums(d, left % 256, IF left < 0 THEN 0 ELSE 1)
algorithm_1(d, map) == RollingSums(d, map, 1)
algorithm_2(d, map) == << d[4], d[3], d[2], (d[1] + map) % 256 >>
algorithm_3(d, map) == algorithm_1(algorithm_2(d, map), map)
algorithm_4(d, map) == algorithm_0(algorithm_2(d, map), map)
algorithm_5(d, map) == << ((255 - Twice(map)) + d[1] - map) % 256, d[4], d[2], d[3] >>
algorithm_6(d, map) == algorithm_1(algorithm_5(d, map), map)
algorithm_7(d, map) == algorithm_0(algorithm_5(d, map), map)

Stirred(d, map, algorithm) ==
  CASE algorithm = 0 -> algorithm_0(d, map)
    [] algorithm = 1 -> algorithm_1(d, map)
    [] algorithm = 2 -> algorithm_2(d, map)
    [] algorithm = 3 -> algorithm_3(d, map)
    [] algorithm = 4 -> algorithm_4(d, map)
    [] algorithm = 5 -> algorithm_5(d, map)
    [] algorithm = 6 -> algorithm_6(d, map)
    [] algorithm = 7 -> algorithm_7(d, map)

\* Map 0x1B is stirred in twice, first by algorithm 6; map 0x06 always by
\* algorithm 0; otherwise a byte of the state says by which.
SelectorOf(d, map) == IF map = 6 THEN 0 ELSE (d[((map \div 16) % 4) + 1] \div 4) % 8
Chosen(d, map) == Stirred(d, map, SelectorOf(d, map))
generate_schedule_entry(d, map) == Chosen(IF map = 27 THEN algorithm_6(d, map) ELSE d, map)

EntryOf(d) == [rng1 |-> d[1], rng2 |-> d[2], nibble_selector |-> 256 * d[4] + d[3]]

\* A map adds the state it leaves; map 0x22 leaves a second one by algorithm 4.
After(states, d, map) ==
  states \o << d >> \o (IF map = 34 THEN << algorithm_4(d, map) >> ELSE << >>)
RECURSIVE States(_, _)
States(states, map_list) ==
  IF map_list = << >> THEN states
  ELSE States(After(states, generate_schedule_entry(states[Len(states)], Head(map_list)), Head(map_list)),
              Tail(map_list))

\* The schedule of a key, four bytes.
Entries(states) == [n \in DOMAIN states |-> EntryOf(states[n])]
ScheduleOf(key, map_list) == Entries(Tail(States(<< key >>, map_list)))
=============================================================================
