---------------------------- MODULE WindowPolicy ----------------------------
(***************************************************************************)
(* src/common/window_policy.h: which bit positions of the 32-bit data      *)
(* value a window of 2^n values runs over.  A mask is a set of positions,  *)
(* and so is a data value.                                                 *)
(***************************************************************************)
EXTENDS Integers, FiniteSets, Sequences

Positions == 0 .. 31

\* The orders in which bits are taken out of each of the four bytes.
Orders ==
  [backfill  |-> <<7, 6, 5, 4, 3, 2, 1, 0>>,
   squeeze   |-> <<7, 0, 6, 1, 5, 2, 4, 3>>,
   backfavor |-> <<7, 6, 0, 5, 4, 1, 3, 2>>]

\* order_mask: bit order[1] of byte 0, 1, 2, 3, then bit order[2] of each, ...
order_mask(order, n) == {8 * (m % 4) + order[m \div 4 + 1] : m \in 0 .. n - 1}

OmitBit == [omitbyte0 |-> 0, omitbyte1 |-> 1, omitbyte2 |-> 2, omitbyte3 |-> 3,
            omitbyte4 |-> 4, omitbyte5 |-> 5, omitbyte6 |-> 6, omitbyte7 |-> 7]
omit_byte_mask(bit) == Positions \ {8 * byte + bit : byte \in 0 .. 3}

\* make_bit_mask throws for n outside 1 .. 32, and for an omitted bit unless n = 28.
HasMask(policy, n) ==
  /\ n \in 1 .. 32
  /\ policy \in DOMAIN OmitBit => n = 28
make_bit_mask(policy, n) ==
  CASE policy \in DOMAIN OmitBit   -> omit_byte_mask(OmitBit[policy])
    [] policy = "lowbits"          -> 0 .. n - 1
    [] policy = "highbits"         -> 32 - n .. 31
    [] policy = "auto"             -> order_mask(Orders.squeeze, n)
    [] policy \in DOMAIN Orders    -> order_mask(Orders[policy], n)

\* deposit_bits32: bit k of an index goes to the k-th lowest position of the mask.
\* Indices below 2^MaxIndexBits are all a model deposits.
MaxIndexBits == 30
Rank(p, mask) == Cardinality({q \in mask : q < p})
deposit_bits32(index, mask) ==
  {p \in mask : Rank(p, mask) < MaxIndexBits /\ (index \div 2^Rank(p, mask)) % 2 = 1}
=============================================================================
