----------------------------- MODULE Certifier -----------------------------
(***************************************************************************)
(* The certificate of map 1 (src/common/map1_certifier.h): the data bits a *)
(* key's first map loses whatever the data.  The map is traced on the code *)
(* of data 0; as long as no step of it was chosen by a byte the data may   *)
(* have reached, every code of the key takes the same steps, and a data    *)
(* bit whose every trace those steps shift out is shed.                    *)
(***************************************************************************)
EXTENDS Routing

selector_bits(high_nibble) == IF high_nibble THEN 224 ELSE 14

\* The algorithms map 1 runs on a code.
RunTrace(x, entry) ==
  LET RECURSIVE From(_, _, _)
      From(code, seed, ops) ==
        CASE Len(ops) = 16 -> ops
          [] Len(ops) < 16 /\ code \in Image128 ->
               LET id == AlgId(code[Len(ops)], NibbleAt(entry, Len(ops)))
               IN  From(Alg(id, code, seed), SeedAfter(id, seed), Append(ops, id))
  IN  From(x, EntrySeed(entry), << >>)

\* What the first n algorithms of a trace make of a mask.
MaskAfter(ops, mask, n) ==
  LET RECURSIVE From(_, _)
      From(s, m) ==
        CASE s = n -> m
          [] s < n /\ m \in Image128 -> From(s + 1, apply_mask(ops[s + 1], m))
  IN  From(0, mask)

TracePrefix_Whole(ops, entry) == 16  \* mutant: data that selects a step is let pass
\* The steps before the first one that tainted bits select.
TracePrefix(ops, entry) ==
  LET selected(i) == And(MaskAfter(ops, DataColumns, i)[i], selector_bits(NibbleAt(entry, i) = 1)) # 0
  IN  IF \E i \in 0 .. 15 : selected(i)
      THEN CHOOSE i \in 0 .. 15 : selected(i) /\ \A j \in 0 .. i - 1 : ~selected(j)
      ELSE 16

\* A data bit's traces: its column's bytes, with every carry its sum may start.
BitColumn(db) == [i \in 0 .. 127 |-> IF i % 8 = 7 - (db \div 8) THEN smear_up(2^(db % 8)) ELSE 0]

\* The shed mask, as the set of its data bits.
ShedBy(ops, prefix) == {db \in 0 .. 31 : \A i \in 0 .. 127 : MaskAfter(ops, BitColumn(db), prefix)[i] = 0}
ShedBits(ops, entry) == ShedBy(ops, TracePrefix(ops, entry))
certified_shed_mask(key, schedule) ==
  ShedBits(RunTrace(ExpandCode(key, << 0, 0, 0, 0 >>), schedule[1]), schedule[1])
=============================================================================
