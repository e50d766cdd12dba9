--------------------------- MODULE SourceClasses ---------------------------
(***************************************************************************)
(* The page analysis of the prefilter (src/common/state_dedup.h).  A page  *)
(* is 256 data values that differ in their low byte alone.  Map 1 is run   *)
(* on all of them at once, on a code whose bits are known or depend on     *)
(* bits of that byte, the offset.  Offsets that agree in every bit some    *)
(* bit of the code still depends on leave map 1 with the same code, so one *)
(* of them is run for all.  map_source_classes with max_classes = 1 keeps  *)
(* only whether a bit depends on the offset, not on which of its bits.     *)
(*                                                                         *)
(* A class is a record [representative_offset, multiplicity]; an analysis  *)
(* that fails yields no class, and its page is run offset by offset.       *)
(***************************************************************************)
EXTENDS Routing, FiniteSetsExt

BitOf(b, k) == (b \div 2^k) % 2

\* Bytes of a page's code: the key and the three high data bytes are known.
PageByte(key, page, mask, i) ==
  ((IF i % 8 < 4 THEN key[(i % 8) + 1] ELSE page[(i % 8) - 3]) + mask[i]) % 256

\* The bits that select the algorithm of a step.
FirstBit(entry, step) == IF NibbleAt(entry, step) = 1 THEN 5 ELSE 1

(***************************************************************************)
(* Bits with their sources: known, or unknown with the offset bits it may  *)
(* depend on.                                                              *)
(***************************************************************************)
SourceBits == [value : {"Zero", "One", "Dep"}, src : Byte]
SourceStates == [0 .. 127 -> [0 .. 7 -> SourceBits]]

source_const(one)   == [value |-> IF one THEN "One" ELSE "Zero", src |-> 0]
source_unknown(src) == [value |-> "Dep", src |-> src]
source_not(a) == IF a.src = 0 THEN source_const(a.value # "One") ELSE a
source_xor(a, b) ==
  CASE a.src = 0 /\ b.src = 0 -> source_const(a.value # b.value)
    [] a.src = 0 /\ b.src # 0 -> IF a.value = "One" THEN source_not(b) ELSE b
    [] a.src # 0 /\ b.src = 0 -> IF b.value = "One" THEN source_not(a) ELSE a
    [] OTHER -> source_unknown(Or(a.src, b.src))

\* AND and OR, as one: a known bit that decides the result (the absorbing value)
\* wins over an unknown one, the other known value gives way to it.
source_op(absorbing, a, b) ==
  CASE absorbing \in {a.value, b.value} -> source_const(absorbing = "One")
    [] a.src = 0 -> b
    [] a.src # 0 /\ b.src = 0 -> a
    [] OTHER -> source_unknown(Or(a.src, b.src))
source_and(a, b) == source_op("Zero", a, b)
source_or(a, b)  == source_op("One", a, b)

\* The sum of a byte and a known one: the carry is the AND or the OR of the bit
\* and the carry before, as the bit added is 0 or 1.
add_source_constant_byte(byte, addend) ==
  LET RECURSIVE From(_, _, _)
      From(bit, carry, out) ==
        CASE bit = 8 -> [k \in 0 .. 7 |-> out[k + 1]]
          [] bit < 8 /\ carry \in SourceBits ->
               LET one == BitOf(addend, bit) = 1
               IN  From(bit + 1,
                     IF one THEN source_or(byte[bit], carry) ELSE source_and(byte[bit], carry),
                     Append(out, source_xor(source_xor(byte[bit], source_const(one)), carry)))
  IN  From(0, source_const(FALSE), << >>)

set_source_constant_byte(value) == [k \in 0 .. 7 |-> source_const(BitOf(value, k) = 1)]
set_source_variable_plus_const_byte(addend) ==
  add_source_constant_byte([k \in 0 .. 7 |-> source_unknown(2^k)], addend)
init_source_expanded_state(key, page) ==
  LET mask == expansion_values(256 * key[1] + key[2], 0)
  IN  [i \in 0 .. 127 |->
         IF i % 8 = 7 THEN set_source_variable_plus_const_byte((page[4] + mask[i]) % 256)
         ELSE set_source_constant_byte(PageByte(key, page, mask, i))]

\* Shifts of a byte that let a bit in.
UpBy(byte, in)   == [k \in 0 .. 7 |-> IF k = 0 THEN in ELSE byte[k - 1]]
DownBy(byte, in) == [k \in 0 .. 7 |-> IF k = 7 THEN in ELSE byte[k + 1]]

source_alg0(s, seed) ==
  LET row == alg0_values(seed, 0) IN [i \in 0 .. 127 |-> UpBy(s[i], source_const(row[i] % 2 = 1))]
source_alg1(s, seed) ==
  LET row == regular_rng_values(seed, 0) IN [i \in 0 .. 127 |-> add_source_constant_byte(s[i], row[i])]
source_alg2(s, seed) ==
  LET drawn == source_const(LoBit(alg2_values(seed, 1, FALSE)[0]) = 1)
  IN  [i \in 0 .. 127 |-> IF i % 2 = 0 THEN DownBy(s[i], s[i + 1][7])
                          ELSE UpBy(s[i], IF i = 127 THEN drawn ELSE s[i + 1][0])]
source_alg3(s, seed) ==
  LET row == regular_rng_values(seed, 0)
  IN  [i \in 0 .. 127 |-> [k \in 0 .. 7 |-> IF BitOf(row[i], k) = 1 THEN source_not(s[i][k]) ELSE s[i][k]]]
source_alg4(s, seed) ==
  LET row == regular_rng_values(seed, 0)
  IN  [i \in 0 .. 127 |-> add_source_constant_byte(s[i], (256 - row[i]) % 256)]
source_alg5(s, seed) ==
  LET drawn == source_const(alg5_values(seed, 1, FALSE)[0] >= 128)
  IN  [i \in 0 .. 127 |-> IF i % 2 = 0 THEN UpBy(s[i], s[i + 1][0])
                          ELSE DownBy(s[i], IF i = 127 THEN drawn ELSE s[i + 1][7])]
source_alg6(s, seed) ==
  LET row == alg6_values(seed, 0) IN [i \in 0 .. 127 |-> DownBy(s[i], source_const(row[i] >= 128))]
source_alg7(s) == [i \in 0 .. 127 |-> [k \in 0 .. 7 |-> source_not(s[i][k])]]

run_source_algorithm(s, id, seed) ==
  CASE id = 0 -> source_alg0(s, seed)
    [] id = 1 -> source_alg1(s, seed)
    [] id = 2 -> source_alg2(s, seed)
    [] id = 3 -> source_alg3(s, seed)
    [] id = 4 -> source_alg4(s, seed)
    [] id = 5 -> source_alg5(s, seed)
    [] id = 6 -> source_alg6(s, seed)
    [] id = 7 -> source_alg7(s)

\* What map 1 leaves of a page; nothing if the offset chooses an algorithm.
SourceMap1(key, page, entry) ==
  LET RECURSIVE From(_, _, _)
      From(step, s, seed) ==
        CASE step = 16 -> << s >>
          [] step < 16 /\ s \in SourceStates ->
               LET bit(k) == s[step][FirstBit(entry, step) + k]
                   one(k) == IF bit(k).value = "One" THEN 2^k ELSE 0
                   id     == one(0) + one(1) + one(2)
               IN  IF \E k \in 0 .. 2 : bit(k).src # 0 THEN << >>
                   ELSE From(step + 1, run_source_algorithm(s, id, seed), SeedAfter(id, seed))
  IN  From(0, init_source_expanded_state(key, page), EntrySeed(entry))

(***************************************************************************)
(* The same with one bit of dependence: value is 0 where dep is set by a   *)
(* sum, and whatever the shifts and flips make of it elsewhere.            *)
(***************************************************************************)
MaskStates == [value : Image128, dep : Image128]

mask_bit(b, k) == IF BitOf(b.dep, k) = 1 THEN "Dep" ELSE IF BitOf(b.value, k) = 1 THEN "One" ELSE "Zero"
tri_xor(a, b) == IF "Dep" \in {a, b} THEN "Dep" ELSE IF a # b THEN "One" ELSE "Zero"
tri_op(absorbing, a, b) == IF absorbing \in {a, b} THEN absorbing ELSE IF a = b THEN a ELSE "Dep"
tri_and(a, b) == tri_op("Zero", a, b)
tri_or(a, b)  == tri_op("One", a, b)

\* Bit k of byte b becomes x.
store_mask_bit(b, k, x) ==
  [value |-> b.value + (IF x = "One" THEN 2^k ELSE 0), dep |-> b.dep + (IF x = "Dep" THEN 2^k ELSE 0)]
add_mask_constant_byte(b, addend) ==
  LET RECURSIVE From(_, _, _)
      From(bit, carry, out) ==
        IF bit = 8 THEN out
        ELSE LET x == mask_bit(b, bit)
                 c == IF BitOf(addend, bit) = 1 THEN "One" ELSE "Zero"
             IN  From(bit + 1, IF c = "One" THEN tri_or(x, carry) ELSE tri_and(x, carry),
                      store_mask_bit(out, bit, tri_xor(tri_xor(x, c), carry)))
  IN  CASE b.dep = 0   -> [b EXCEPT !.value = (@ + addend) % 256]
        [] b.dep = 255 -> [b EXCEPT !.value = 0]
        [] OTHER       -> From(0, "Zero", [value |-> 0, dep |-> 0])

init_mask_expanded_state(key, page) ==
  LET mask == expansion_values(256 * key[1] + key[2], 0)
  IN  [value |-> [i \in 0 .. 127 |-> IF i % 8 = 7 THEN 0 ELSE PageByte(key, page, mask, i)],
       dep   |-> [i \in 0 .. 127 |-> IF i % 8 = 7 THEN 255 ELSE 0]]

\* The sums, byte by byte; the shifts move the dependences as they move the bits.
mask_sum(m, row) ==
  LET sum(i) == add_mask_constant_byte([value |-> m.value[i], dep |-> m.dep[i]], row[i])
  IN  [value |-> [i \in 0 .. 127 |-> sum(i).value], dep |-> [i \in 0 .. 127 |-> sum(i).dep]]
run_mask_algorithm(m, id, seed) ==
  CASE id = 1 -> mask_sum(m, regular_rng_values(seed, 0))
    [] id = 4 -> mask_sum(m, LET row == regular_rng_values(seed, 0) IN [i \in 0 .. 127 |-> (256 - row[i]) % 256])
    [] id \in {3, 7} -> [m EXCEPT !.value = Alg(id, @, seed)]
    [] id \in {0, 2, 5, 6} -> [value |-> Alg(id, m.value, seed), dep |-> apply_mask(id, m.dep)]

MaskMap1(key, page, entry) ==
  LET RECURSIVE From(_, _, _)
      From(step, m, seed) ==
        CASE step = 16 -> << m >>
          [] step < 16 /\ m \in MaskStates ->
               LET id == (m.value[step] \div 2^FirstBit(entry, step)) % 8
               IN  IF And(m.dep[step], 7 * 2^FirstBit(entry, step)) # 0 THEN << >>
                   ELSE From(step + 1, run_mask_algorithm(m, id, seed), SeedAfter(id, seed))
  IN  From(0, init_mask_expanded_state(key, page), EntrySeed(entry))

(***************************************************************************)
(* The classes of a page.                                                  *)
(***************************************************************************)
NotAPage(page, schedule) == schedule = << >> \/ page[4] # 0
WholePage(left) ==
  IF left = << >> \/ \E i \in 0 .. 127 : left[1].dep[i] # 0 THEN {}
  ELSE {[representative_offset |-> 0, multiplicity |-> 256]}
map1_full_collapse_class(key, page, schedule) ==
  IF NotAPage(page, schedule) THEN {} ELSE WholePage(MaskMap1(key, page, schedule[1]))

\* The offset bits the codes still depend on after map 1; all if it failed.
SourceMask(left) ==
  {k \in 0 .. 7 : left = << >> \/ \E i \in 0 .. 127, j \in 0 .. 7 : BitOf(left[1][i][j].src, k) = 1}

\* The first offset of a class stands for it.
ClassesOf(mask, max_classes) ==
  LET reps == {o \in 0 .. 255 : \A k \in (0 .. 7) \ mask : BitOf(o, k) = 0}
      like(o) == {p \in 0 .. 255 : \A k \in mask : BitOf(p, k) = BitOf(o, k)}
  IN  IF mask = 0 .. 7 \/ Cardinality(reps) > max_classes THEN {}
      ELSE {[representative_offset |-> o, multiplicity |-> Cardinality(like(o))] : o \in reps}
map1_source_classes(key, page, schedule, max_classes) ==
  CASE max_classes = 1 -> map1_full_collapse_class(key, page, schedule)
    [] max_classes # 1 /\ NotAPage(page, schedule) -> {}
    [] OTHER -> ClassesOf(SourceMask(SourceMap1(key, page, schedule[1])), max_classes)
=============================================================================
