----------------------------- MODULE FlatTable -----------------------------
(***************************************************************************)
(* The tables of state_dedup.h and state_dedup_origins.h: open addressing  *)
(* with linear probing over a pool of entries.  Slots and front-cache      *)
(* entries are emptied by raising the table's epoch, of which they keep    *)
(* the low bits as a tag; a slot is free when its tag is not the table's.  *)
(* A state is any value; fingerprints may collide.                         *)
(***************************************************************************)
EXTENDS Integers, SequencesExt, FiniteSetsExt

CONSTANTS
  StateFingerprint(_),  \* FlatTable::fingerprint
  Word,            \* 2^32: sizes and multiplicities
  Tags,            \* 2^16: epoch tags and fingerprint tags
  SlotFloor,       \* the smallest static table (16 slots)
  DynFloor,        \* kDynSlotFloor
  HeapRepeats      \* memory behind the end of a pool holds the very state compared with it

ASSUME TableAssumption ==
  /\ Word \in Nat \ {0} /\ Tags \in Nat /\ Tags > 1
  /\ SlotFloor \in Nat \ {0} /\ DynFloor \in Nat \ {0}

Epoch0(size) == [s \in 0 .. size - 1 |-> [tag |-> 0, fp |-> 0, at |-> 0]]

\* A FlatTable, of whose slots the first size = mask + 1 are in use; cache is the
\* number of front-cache entries, 0 for none.
NewTable(dyn, cache) ==
  [slots |-> << >>, size |-> 0, fc |-> Epoch0(cache), pool |-> << >>, epoch |-> 0, dyn |-> dyn]
NSlots(t) == Cardinality(DOMAIN t.slots)
FcIndex(t, fp) == (fp \div 2) % Cardinality(DOMAIN t.fc)

\* reset: a new generation.  expected * 2 is computed in 32 bits.
StaticSize(expected) ==
  CHOOSE n \in {SlotFloor * 2^k : k \in 0 .. 16} :
    n >= (expected * 2) % Word /\ (n = SlotFloor \/ n \div 2 < (expected * 2) % Word)
Restale(entries) == [s \in DOMAIN entries |-> [entries[s] EXCEPT !.tag = 0]]
SizeFor(t, expected) == IF t.dyn THEN Max({NSlots(t), DynFloor}) ELSE StaticSize(expected)
Reset_NoRestale(t, expected) ==  \* mutant: the tag wraps into old generations
  LET size == SizeFor(t, expected)
  IN  IF NSlots(t) < size
      THEN [t EXCEPT !.slots = Epoch0(size), !.size = size, !.epoch = 1, !.pool = << >>]
      ELSE [t EXCEPT !.size = size, !.epoch = Max({(@ + 1) % Tags, 1}), !.pool = << >>]
Reset(t, expected) ==
  LET size == SizeFor(t, expected)
      begun == [t EXCEPT !.size = size, !.pool = << >>]
  IN  CASE NSlots(t) < size -> [begun EXCEPT !.slots = Epoch0(size), !.epoch = 1]
        [] NSlots(t) >= size /\ (t.epoch + 1) % Tags = 0 ->
             [begun EXCEPT !.slots = Restale(@), !.fc = Restale(@), !.epoch = 1]
        [] NSlots(t) >= size /\ (t.epoch + 1) % Tags # 0 -> [begun EXCEPT !.epoch = @ + 1]

\* reset_pool_only, of the path that probes no slot.
ResetPoolOnly(t) == [t EXCEPT !.size = 1, !.pool = << >>]

\* grow_and_rehash: twice the slots, every entry of the pool placed again.
Free(slots, epoch, fp) ==
  LET size == Cardinality(DOMAIN slots)
      to(j) == (fp + j) % size
      j == CHOOSE k \in 0 .. size - 1 : slots[to(k)].tag # epoch /\ \A i \in 0 .. k - 1 : slots[to(i)].tag = epoch
  IN  to(j)
GrowAndRehash(t) ==
  LET place(slots, n) ==
        LET fp == StateFingerprint(t.pool[n].state)
        IN  [slots EXCEPT ![Free(slots, t.epoch, fp)] = [tag |-> t.epoch, fp |-> fp % Tags, at |-> n]]
  IN  [t EXCEPT !.slots = FoldLeft(place, Epoch0(2 * t.size), [n \in 1 .. Len(t.pool) |-> n]),
                !.size = 2 * t.size]

\* memcmp against an entry; behind the pool's end is whatever the heap holds.
Holds(t, at, state) == IF at \in DOMAIN t.pool THEN t.pool[at].state = state ELSE HeapRepeats
AddTo(t, at, mult) ==
  IF at \in DOMAIN t.pool THEN [t EXCEPT !.pool[at].mult = (@ + mult) % Word] ELSE t

\* append_pool_state, and the appends of the path that skips the last merge.
AppendPoolState(t, state, mult) == [t EXCEPT !.pool = Append(@, [state |-> state, mult |-> mult])]

\* insert_fp_result: the front cache, then the slots from the fingerprint's on.
InsertSlots(t, state, mult) ==
  LET fp == StateFingerprint(state)
      to(j) == (fp + j) % t.size
      free(j) == t.slots[to(j)].tag # t.epoch
      same(j) == ~free(j) /\ t.slots[to(j)].fp = fp % Tags /\ Holds(t, t.slots[to(j)].at, state)
      j == CHOOSE k \in 0 .. t.size - 1 : (free(k) \/ same(k)) /\ \A i \in 0 .. k - 1 : ~free(i) /\ ~same(i)
      at == IF free(j) THEN Len(t.pool) + 1 ELSE t.slots[to(j)].at
      kept == IF DOMAIN t.fc = {} THEN t ELSE [t EXCEPT !.fc[FcIndex(t, fp)] = [tag |-> t.epoch, fp |-> fp, at |-> at]]
  IN  IF free(j)
      THEN AppendPoolState([kept EXCEPT !.slots[to(j)] = [tag |-> t.epoch, fp |-> fp % Tags, at |-> at]], state, mult)
      ELSE AddTo(kept, at, mult)
FrontHit(t, state) ==
  /\ DOMAIN t.fc # {}
  /\ LET fp == StateFingerprint(state)
         f == t.fc[FcIndex(t, fp)]
     IN  f.tag = t.epoch /\ f.fp = fp /\ Holds(t, f.at, state)
Insert(t, state, mult) ==
  CASE FrontHit(t, state) -> AddTo(t, t.fc[FcIndex(t, StateFingerprint(state))].at, mult)
    [] ~FrontHit(t, state) /\ t.dyn /\ 2 * Len(t.pool) >= t.size -> InsertSlots(GrowAndRehash(t), state, mult)
    [] ~FrontHit(t, state) /\ ~(t.dyn /\ 2 * Len(t.pool) >= t.size) -> InsertSlots(t, state, mult)

\* A run of inserts of [state, mult], in order.
InsertAll(t, entries) == FoldLeft(LAMBDA u, e : Insert(u, e.state, e.mult), t, entries)
AppendAll(t, entries) == FoldLeft(LAMBDA u, e : AppendPoolState(u, e.state, e.mult), t, entries)

-----------------------------------------------------------------------------
(* FpSet: fingerprints only, no pool; two fingerprints of a state as one.   *)

FpEmpty == [slots |-> [s \in 0 .. DynFloor - 1 |-> 0], count |-> 0]
FpPlace(slots, fp) ==
  LET size == Cardinality(DOMAIN slots)
      to(j) == (fp + j) % size
      j == CHOOSE k \in 0 .. size - 1 : slots[to(k)] \in {0, fp} /\ \A i \in 0 .. k - 1 : slots[to(i)] \notin {0, fp}
  IN  to(j)
FpGrow(set) ==
  LET old == set.slots
      more == [s \in 0 .. 2 * Cardinality(DOMAIN old) - 1 |-> 0]
      place(slots, s) == IF old[s] = 0 THEN slots ELSE [slots EXCEPT ![FpPlace(slots, old[s])] = old[s]]
  IN  [set EXCEPT !.slots = FoldLeft(place, more, [n \in 1 .. Cardinality(DOMAIN old) |-> n - 1])]
FpInsert(set, fingerprint) ==
  LET fp == IF fingerprint = 0 THEN 1 ELSE fingerprint
      room == IF 2 * set.count >= Cardinality(DOMAIN set.slots) THEN FpGrow(set) ELSE set
      to == FpPlace(room.slots, fp)
  IN  IF room.slots[to] = fp THEN room
      ELSE [room EXCEPT !.slots[to] = fp, !.count = @ + 1]

-----------------------------------------------------------------------------
(* OriginTable: each entry heads a list of the data offsets it stands for;  *)
(* node 0 ends a list.  Its slots are cleared by reset and never grow.      *)

OriginReset(expected) ==
  [slots |-> [s \in 0 .. StaticSize(expected) - 1 |-> [fp |-> 0, at |-> 0]], pool |-> << >>, origins |-> << >>]
FindOrCreate(t, state) ==
  LET fp == IF StateFingerprint(state) = 0 THEN 1 ELSE StateFingerprint(state)
      size == Cardinality(DOMAIN t.slots)
      to(j) == (fp + j) % size
      free(j) == t.slots[to(j)].fp = 0
      same(j) == ~free(j) /\ t.slots[to(j)].fp = fp /\ t.pool[t.slots[to(j)].at].state = state
      j == CHOOSE k \in 0 .. size - 1 : (free(k) \/ same(k)) /\ \A i \in 0 .. k - 1 : ~free(i) /\ ~same(i)
  IN  IF same(j) THEN [table |-> t, at |-> t.slots[to(j)].at]
      ELSE [table |-> [t EXCEPT !.slots[to(j)] = [fp |-> fp, at |-> Len(t.pool) + 1],
                                !.pool = Append(@, [state |-> state, mult |-> 0, head |-> 0])],
            at |-> Len(t.pool) + 1]

\* The origins a list holds, from its head on.
OriginsFrom(nodes, head) ==
  LET List[n \in 0 .. Len(nodes)] == IF n = 0 THEN << >> ELSE <<nodes[n].origin>> \o List[nodes[n].next]
  IN  List[head]
\* push_origin, and copy_origins_from, which pushes the nodes of another list one by one.
PushOrigin(t, at, origin) ==
  [t EXCEPT !.origins = Append(@, [origin |-> origin, next |-> t.pool[at].head]),
            !.pool[at].head = Len(t.origins) + 1]
CopyOriginsFrom(t, at, nodes, head) ==
  FoldLeft(LAMBDA u, origin : PushOrigin(u, at, origin), t, OriginsFrom(nodes, head))
InsertSingleOrigin(t, state, origin) ==
  LET found == FindOrCreate(t, state)
  IN  PushOrigin([found.table EXCEPT !.pool[found.at].mult = (@ + 1) % Word], found.at, origin)
InsertOriginList(t, state, mult, nodes, head) ==
  LET found == FindOrCreate(t, state)
  IN  CopyOriginsFrom([found.table EXCEPT !.pool[found.at].mult = (@ + mult) % Word], found.at, nodes, head)
=============================================================================
