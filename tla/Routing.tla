------------------------------ MODULE Routing ------------------------------
(***************************************************************************)
(* What routes a code through a search: where its data may have spread     *)
(* (src/common/routing.h), read off the algorithms alone.  A mask is an    *)
(* image whose set bits may depend on the data.                            *)
(***************************************************************************)
EXTENDS MapKernels

smear_up_OneBit(m) == Or(m, Twice(m))  \* mutant: a carry that goes one bit
\* An addition carries upwards: every bit from the lowest set one on.
smear_up(m) ==
  IF m = 0 THEN 0
  ELSE LET low == CHOOSE b \in 0 .. 7 : (m \div 2^b) % 2 = 1 /\ m % 2^b = 0 IN 256 - 2^low

apply_mask(a, m) ==
  CASE a = 0 -> TwiceV(m)
    [] a = 6 -> HalfV(m)
    [] a \in {1, 4} -> [i \in 0 .. 127 |-> smear_up(m[i])]
    [] a \in {3, 7} -> m
    [] a = 2 -> Butterfly(TRUE, m, LaneDown(m, 0))
    [] a = 5 -> Butterfly(FALSE, m, LaneDown(m, 0))

\* Every bit of the four data columns of an expanded code.
DataColumns == [i \in 0 .. 127 |-> IF i % 8 >= 4 THEN 255 ELSE 0]

\* The score of map 1: how many tainted bits its shifts drop, in 64ths.
DroppedBits(a, m) ==
  CASE a = 0 -> Cardinality({i \in 0 .. 127 : HiBit(m[i]) # 0})
    [] a = 6 -> Cardinality({i \in 0 .. 127 : LoBit(m[i]) # 0})
    [] OTHER -> 0
shed_proxy_map1(ops) ==
  LET RECURSIVE From(_, _, _)
      From(s, m, cnt) ==
        CASE s = 17 -> cnt
          [] s < 17 /\ m \in Image128 ->
               From(s + 1, apply_mask(ops[s], m), cnt + DroppedBits(ops[s], m))
  IN  From(1, DataColumns, 0)
=============================================================================
