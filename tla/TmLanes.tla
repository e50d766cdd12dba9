------------------------------ MODULE TmLanes ------------------------------
(***************************************************************************)
(* Bytes and registers for the models of the search kernels.               *)
(*                                                                         *)
(* A register, a memory image and a table row are all functions from       *)
(* 0 .. n-1 to bytes: a lane is an index.  The x86 shifts work on 16-bit   *)
(* lanes, and every kernel masks what crosses a byte boundary, so a shift  *)
(* and its mask are one operation on bytes here.                           *)
(***************************************************************************)
EXTENDS Integers, Sequences

Byte == 0 .. 255
Image128 == [0 .. 127 -> Byte]

\* Bitwise AND, by nibbles.
AndNibble ==
  [a \in 0 .. 15 |-> [b \in 0 .. 15 |->
     LET Bit(k) == k * ((a \div k) % 2) * ((b \div k) % 2) IN Bit(1) + Bit(2) + Bit(4) + Bit(8)]]
And(a, b) == 16 * AndNibble[a \div 16][b \div 16] + AndNibble[a % 16][b % 16]
Or(a, b)  == a + b - And(a, b)
Xor(a, b) == a + b - 2 * And(a, b)

\* One-bit shifts inside a byte, and its two end bits in place.
Twice(b)  == (2 * b) % 256
Half(b)   == b \div 2
HiBit(b)  == 128 * (b \div 128)
LoBit(b)  == b % 2

\* The same, lane by lane.
AndV(x, y) == [l \in DOMAIN x |-> And(x[l], y[l])]
OrV(x, y)  == [l \in DOMAIN x |-> Or(x[l], y[l])]
XorV(x, y) == [l \in DOMAIN x |-> Xor(x[l], y[l])]
AddV(x, y) == [l \in DOMAIN x |-> (x[l] + y[l]) % 256]
NotV(x)    == [l \in DOMAIN x |-> 255 - x[l]]
TwiceV(x)  == [l \in DOMAIN x |-> Twice(x[l])]
HalfV(x)   == [l \in DOMAIN x |-> Half(x[l])]
HiBitV(x)  == [l \in DOMAIN x |-> HiBit(x[l])]
LoBitV(x)  == [l \in DOMAIN x |-> LoBit(x[l])]

\* Bytewise shift of a register towards lane 0; fill enters at the top lane.
LaneDown(x, fill) ==
  [l \in DOMAIN x |-> IF l + 1 \in DOMAIN x THEN x[l + 1] ELSE fill]

\* A register that is zero but for its top lane.
TopLane(width, b) == [l \in 0 .. width - 1 |-> IF l = width - 1 THEN b ELSE 0]

\* Register r of an image kept in registers of width lanes, and the image of
\* a function from register numbers to registers.
Register(x, width, r) == [l \in 0 .. width - 1 |-> x[width * r + l]]
Image(regs, width)    == [i \in 0 .. 127 |-> regs[i \div width][i % width]]
=============================================================================
