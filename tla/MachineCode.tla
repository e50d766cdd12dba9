---------------------------- MODULE MachineCode ----------------------------
(***************************************************************************)
(* What a decrypted code is worth as 6502 machine code (check_machine_code *)
(* of src/common/tm_base.cpp).  A world's code is entered at some of its   *)
(* bytes; it is walked from the first one, opcode by opcode, and an entry  *)
(* that the walk meets is valid when a jump follows before the walk stops. *)
(* The flag byte is a set of names.                                        *)
(***************************************************************************)
EXTENDS Tm8

\* The kinds of opcodes, by their numbers.
High(op) == op \div 16
Low(op)  == op % 16
OP_JAM     == {op \in Byte : Low(op) = 2 /\ (High(op) % 2 = 1 \/ High(op) \in {0, 2, 4, 6})}
OP_ILLEGAL == {op \in Byte : Low(op) % 4 = 3} \union {156, 158}
OP_NOP     == {234}
OP_NOP2    == {4, 12, 20, 26, 28, 52, 58, 60, 68, 84, 90, 92, 100, 116, 122, 124,
               128, 130, 137, 194, 212, 218, 220, 226, 244, 250, 252}
OP_JUMP    == {op \in Byte : Low(op) = 0 /\ High(op) % 2 = 1} \union {32, 64, 96, 76, 108}

\* How many bytes an opcode takes; the walk stops at a jam or an illegal one.
opcode_bytes_used(op) ==
  CASE Low(op) \in {8, 10} \/ op \in {0, 64, 96} -> 1
    [] Low(op) \in {13, 14} \/ op = 32 -> 3
    [] Low(op) = 9 /\ High(op) % 2 = 1 -> 3
    [] Low(op) = 12 /\ op \notin {28, 60, 92, 124, 220, 252} -> 3
    [] OTHER -> 2

EntryAddrs(world) == IF world = "carnival" THEN << 0, 43, 51, 62 >> ELSE << 0, 5, 10, 40, 64, 80 >>

\* What the walk knows at byte i: how many entries it has come to (last), the
\* ones it came to exactly (hit), the ones waiting for a jump (active), the
\* valid ones, and flags.
Flags == {"FIRST_ENTRY_VALID", "ALL_ENTRIES_VALID", "USES_NOP", "USES_UNOFFICIAL_NOPS",
          "USES_ILLEGAL_OPCODES", "USES_JAM", "OTHER_WORLD"}
WalkStates ==
  [last : 0 .. 6, hit : SUBSET (1 .. 6), active : SUBSET (1 .. 6), valid : SUBSET (1 .. 6), flags : SUBSET Flags]

Reached(s, addrs, i) ==
  LET next == IF s.last < Len(addrs) THEN addrs[s.last + 1] ELSE 255
      e    == s.last + 1
  IN  CASE i = next -> [s EXCEPT !.last = e, !.hit = @ \union {e}, !.active = @ \union {e}]
        [] i > next -> [s EXCEPT !.last = e]
        [] OTHER    -> s
Read(s, op) ==
  CASE op \in OP_JAM     -> [s EXCEPT !.flags = @ \union {"USES_JAM"}]
    [] op \in OP_ILLEGAL -> [s EXCEPT !.flags = @ \union {"USES_ILLEGAL_OPCODES"}]
    [] op \in OP_NOP2    -> [s EXCEPT !.flags = @ \union {"USES_UNOFFICIAL_NOPS"}]
    [] op \in OP_NOP     -> [s EXCEPT !.flags = @ \union {"USES_NOP"}]
    [] op \in OP_JUMP    -> [s EXCEPT !.valid = @ \union s.active, !.active = {}]
    [] OTHER             -> s

RECURSIVE WalkFrom(_, _, _, _)
WalkFrom(code, world, i, s) ==
  CASE i >= CodeLength(world) - 2 -> s
    [] i < CodeLength(world) - 2 /\ s \in WalkStates ->
         LET op   == code[127 - i]
             read == Read(Reached(s, EntryAddrs(world), i), op)
         IN  IF op \in OP_JAM \union OP_ILLEGAL THEN read
             ELSE WalkFrom(code, world, i + opcode_bytes_used(op), read)

\* The code from an entry the walk passed over reaches a jump or the end.
RECURSIVE RunsOn(_, _, _)
RunsOn(code, world, i) ==
  i >= CodeLength(world) - 2 \/
  LET op == code[127 - i]
  IN  /\ op \notin OP_JAM \union OP_ILLEGAL
      /\ op \in OP_JUMP \/ RunsOn(code, world, i + opcode_bytes_used(op))

Judged(code, addrs, world, s) ==
  LET all == \A e \in DOMAIN addrs : IF e \in s.hit THEN e \in s.valid ELSE RunsOn(code, world, addrs[e])
  IN  s.flags \union (IF all THEN {"ALL_ENTRIES_VALID"} ELSE {})
              \union (IF 1 \in s.valid THEN {"FIRST_ENTRY_VALID"} ELSE {})
check_machine_code(code, world) ==
  Judged(code, EntryAddrs(world), world,
    WalkFrom(code, world, 0, [last |-> 0, hit |-> {}, active |-> {}, valid |-> {}, flags |-> {}]))
=============================================================================
