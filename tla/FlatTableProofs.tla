-------------------------- MODULE FlatTableProofs ---------------------------
(***************************************************************************)
(* The tables merge: an insert does to the pool what Merge says, whatever  *)
(* the fingerprints, the front cache, the tags and the growth of the       *)
(* slots.  Stands is what a run of slots has to satisfy for the probes to  *)
(* find the first m entries of a pool and no other: every slot in use is   *)
(* of an entry, no two of the same, and each entry is reached from its     *)
(* fingerprint over slots in use.                                          *)
(***************************************************************************)
EXTENDS FlatTable, TLAPS, FiniteSetTheorems, SequenceTheorems, WellFoundedInduction

\* What is promised of an insert: a state met before counts for more.
Merge(pool, state, mult) ==
  IF \E n \in DOMAIN pool : pool[n].state = state
  THEN [pool EXCEPT ![CHOOSE n \in DOMAIN pool : pool[n].state = state].mult = (@ + mult) % Word]
  ELSE Append(pool, [state |-> state, mult |-> mult])

Fp(pool, n) == StateFingerprint(pool[n].state)
States(pool) == {pool[n].state : n \in DOMAIN pool}
PoolOK(pool) ==
  /\ pool \in Seq([state : States(pool), mult : Nat])
  /\ \A n, k \in DOMAIN pool : pool[n].state = pool[k].state => n = k
  /\ \A n \in DOMAIN pool : Fp(pool, n) \in Nat

Slot == [tag : Nat, fp : Nat, at : Nat]
Size(entries) == Cardinality(DOMAIN entries)
ArrayOK(entries) == Size(entries) \in Nat /\ entries \in [0 .. Size(entries) - 1 -> Slot]
\* Entry n is j slots behind its fingerprint's, over slots in use.
Reached(slots, size, epoch, fp, j, n) ==
  /\ slots[(fp + j) % size].tag = epoch /\ slots[(fp + j) % size].at = n
  /\ \A i \in 0 .. j - 1 : slots[(fp + i) % size].tag = epoch
Stands(slots, size, epoch, pool, m) ==
  /\ ArrayOK(slots) /\ size <= Size(slots)
  /\ \A s \in 0 .. size - 1 : slots[s].tag = epoch =>
       /\ slots[s].at \in 1 .. m /\ slots[s].fp = Fp(pool, slots[s].at) % Tags
       /\ \A r \in 0 .. size - 1 : slots[r].tag = epoch /\ slots[r].at = slots[s].at => r = s
  /\ \A n \in 1 .. m : \E j \in 0 .. size - 1 : Reached(slots, size, epoch, Fp(pool, n), j, n)

\* No tag is ahead of the table's, and the front cache points into the pool.
TagsOK(t) ==
  /\ \A s \in DOMAIN t.slots : t.slots[s].tag <= t.epoch
  /\ ArrayOK(t.fc)
  /\ \A f \in DOMAIN t.fc : t.fc[f].tag <= t.epoch
TableOK(t) ==
  /\ t = [slots |-> t.slots, size |-> t.size, fc |-> t.fc, pool |-> t.pool, epoch |-> t.epoch, dyn |-> t.dyn]
  /\ t.size \in Nat \ {0} /\ t.epoch \in 1 .. Tags - 1 /\ t.dyn \in BOOLEAN
  /\ PoolOK(t.pool) /\ Stands(t.slots, t.size, t.epoch, t.pool, Len(t.pool)) /\ TagsOK(t)
  /\ \A f \in DOMAIN t.fc : t.fc[f].tag = t.epoch => t.fc[f].at \in DOMAIN t.pool
\* A table that grows always has room.
HasRoom(t) == t.dyn \/ Len(t.pool) < t.size

-----------------------------------------------------------------------------
(* Numbers.                                                                *)

LEMMA LeastElement ==
  ASSUME NEW S \in SUBSET Nat, S # {}
  PROVE  \E n \in S : \A k \in 0 .. n - 1 : k \notin S
<1> DEFINE R == OpToRel(<, Nat)
<1>1. IsWellFoundedOn(R, Nat)
  BY NatLessThanWellFounded
<1>2. \A x, y \in Nat : x < y => <<x, y>> \in R
  BY DEF OpToRel
<1> HIDE DEF R
<1>3. PICK n \in S : \A y \in Nat : <<y, n>> \in R => y \notin S
  BY <1>1, WFMin
<1>4. ASSUME NEW k \in 0 .. n - 1 PROVE k \notin S
  <2>1. k \in Nat /\ n \in Nat /\ k < n
    OBVIOUS
  <2>2. <<k, n>> \in R
    BY <1>2, <2>1
  <2>3. QED
    BY <1>3, <2>1, <2>2
<1>5. QED
  BY <1>4

LEMMA QuotientIs ==
  ASSUME NEW x \in Nat, NEW m \in Nat \ {0}
  PROVE  x \div m \in Nat /\ x % m \in 0 .. m - 1 /\ x = m * (x \div m) + (x % m)
<1> DEFINE q == x \div m
           r == x % m
<1>1. q \in Int /\ r \in 0 .. m - 1 /\ x = m * q + r
  OBVIOUS
<1> HIDE DEF q, r
<1>2. q >= 0
  <2>1. SUFFICES ASSUME q < 0 PROVE FALSE
    BY <1>1
  <2>2. m * q <= m * (0 - 1)
    BY <1>1, <2>1
  <2>3. QED
    BY <1>1, <2>2
<1>3. QED
  BY <1>1, <1>2 DEF q, r

LEMMA RemainderIs ==
  ASSUME NEW n \in Nat \ {0}, NEW q \in Nat, NEW r \in 0 .. n - 1
  PROVE  (n * q + r) % n = r
<1> DEFINE a == n * q + r
           p == a \div n
           s == a % n
<1>1. n * q \in Nat /\ a \in Nat /\ r \in Nat
  OBVIOUS
<1>2. p \in Nat /\ a = n * p + s /\ s \in 0 .. n - 1
  BY <1>1, QuotientIs
<1> HIDE DEF p, s
<1>3. n * (p - q) = r - s /\ n * (q - p) = s - r
  <2>1. n * (p - q) = n * p - n * q /\ n * (q - p) = n * q - n * p
    BY <1>2
  <2>2. QED
    BY <1>1, <1>2, <2>1
<1>4. ~(p - q > 0) /\ ~(q - p > 0)
  <2>1. \A x \in Int : x > 0 => n * x >= n
    OBVIOUS
  <2>2. p - q \in Int /\ q - p \in Int
    BY <1>2
  <2> HIDE DEF a
  <2>3. QED
    BY <1>1, <1>2, <1>3, <2>1, <2>2
<1>5. p = q
  BY <1>2, <1>4
<1>6. s = r
  <2>1. n * q + s = n * q + r /\ s \in Int
    BY <1>2, <1>5
  <2> DEFINE x == n * q
  <2>2. x \in Int
    BY <1>1
  <2> HIDE DEF x
  <2>3. QED
    BY <1>1, <2>1, <2>2 DEF x
<1>7. QED
  BY <1>6 DEF s

LEMMA ProbeIs ==
  ASSUME NEW size \in Nat \ {0}, NEW fp \in Nat, NEW j \in Nat
  PROVE  (fp + j) % size \in 0 .. size - 1 /\ fp % size \in Nat
<1>1. fp + j \in Nat /\ size \in Nat /\ \A r \in 0 .. size - 1 : r \in Nat
  OBVIOUS
<1>2. (fp + j) % size \in 0 .. size - 1 /\ fp % size \in 0 .. size - 1
  BY <1>1, QuotientIs
<1>3. QED
  BY <1>1, <1>2

LEMMA IntervalIs ==
  ASSUME NEW n \in Nat
  PROVE  /\ IsFiniteSet(0 .. n - 1) /\ Cardinality(0 .. n - 1) = n
         /\ IsFiniteSet(1 .. n) /\ Cardinality(1 .. n) = n
<1>1. 0 \in Int /\ 1 \in Int /\ n \in Int /\ n - 1 \in Int
  OBVIOUS
<1>2. IsFiniteSet(0 .. n - 1) /\ Cardinality(0 .. n - 1) = IF 0 > n - 1 THEN 0 ELSE n - 1 - 0 + 1
  BY <1>1, FS_Interval
<1>3. IsFiniteSet(1 .. n) /\ Cardinality(1 .. n) = IF 1 > n THEN 0 ELSE n - 1 + 1
  BY <1>1, FS_Interval
<1>4. QED
  BY <1>2, <1>3

\* Probing on from anywhere comes by every slot.
ComesBy(size, fp, s) == \E j \in 0 .. size - 1 : (fp + j) % size = s

LEMMA ProbesReach ==
  ASSUME NEW size \in Nat \ {0}, NEW fp \in Nat, NEW s \in 0 .. size - 1
  PROVE  ComesBy(size, fp, s)
<1> DEFINE r == fp % size
           q == fp \div size
<1>1. r \in 0 .. size - 1 /\ q \in Nat /\ fp = size * q + r /\ size * q \in Nat
  <2>1. fp \div size \in Nat /\ fp % size \in 0 .. size - 1 /\ fp = size * (fp \div size) + (fp % size)
    BY QuotientIs
  <2>2. \A x \in Nat : size * x \in Nat
    OBVIOUS
  <2>3. QED
    BY <2>1, <2>2
<1> HIDE DEF r, q
<1>2. CASE s >= r
  <2> DEFINE k == s - r
  <2>1. k \in 0 .. size - 1 /\ fp + k = size * q + s
    BY <1>1, <1>2
  <2>2. (size * q + s) % size = s
    BY <1>1, RemainderIs
  <2> HIDE DEF k
  <2>3. k \in 0 .. size - 1 /\ (fp + k) % size = s
    BY <2>1, <2>2
  <2>4. QED
    BY Zenon, <2>3 DEF ComesBy
<1>3. CASE s < r
  <2> DEFINE k == s - r + size
  <2>1. k \in 0 .. size - 1 /\ fp + k = size * q + size + s
    BY <1>1, <1>3
  <2>2. size * (q + 1) = size * q + size /\ q + 1 \in Nat
    BY <1>1
  <2>3. fp + k = size * (q + 1) + s
    BY <2>1, <2>2
  <2>4. (size * (q + 1) + s) % size = s
    BY <2>2, RemainderIs
  <2> HIDE DEF k
  <2>5. k \in 0 .. size - 1 /\ (fp + k) % size = s
    BY <2>1, <2>3, <2>4
  <2>6. QED
    BY Zenon, <2>5 DEF ComesBy
<1>4. QED
  BY <1>1, <1>2, <1>3

-----------------------------------------------------------------------------
(* Slots.                                                                  *)

\* Fewer entries than slots leave one free.
LEMMA SomeSlotIsFree ==
  ASSUME NEW slots, NEW size \in Nat \ {0}, NEW epoch, NEW pool, NEW m \in Nat, m < size,
         Stands(slots, size, epoch, pool, m)
  PROVE  \E s \in 0 .. size - 1 : slots[s].tag # epoch
<1> DEFINE S == 0 .. size - 1
           T == 1 .. m
           f == [s \in S |-> slots[s].at]
<1>1. SUFFICES ASSUME \A s \in S : slots[s].tag = epoch PROVE FALSE
  OBVIOUS
<1>2. IsFiniteSet(S) /\ Cardinality(S) = size /\ IsFiniteSet(T) /\ Cardinality(T) = m
  BY IntervalIs
<1>3. f \in Injection(S, T)
  <2>1. \A s \in S : slots[s].at \in T /\ \A r \in S : slots[r].at = slots[s].at => r = s
    <3>1. ASSUME NEW s \in S PROVE slots[s].at \in T /\ \A r \in S : slots[r].at = slots[s].at => r = s
      <4>1. slots[s].tag = epoch /\ \A r \in S : slots[r].tag = epoch
        BY <1>1
      <4>2. QED
        BY <4>1 DEF Stands
    <3>2. QED
      BY <3>1
  <2>2. f \in [S -> T] /\ \A s, r \in S : f[s] = f[r] => s = r
    BY <2>1
  <2> HIDE DEF f, S, T
  <2>3. QED
    BY <2>2 DEF Injection, IsInjective
<1>4. Cardinality(S) <= Cardinality(T)
  <2> HIDE DEF f, S, T
  <2>1. QED
    BY <1>2, <1>3, FS_Injection
<1>5. QED
  BY <1>2, <1>4

\* The next entry, put into the first free slot from its fingerprint on.
LEMMA PlaceStands ==
  ASSUME NEW slots, NEW size \in Nat \ {0}, NEW epoch \in Nat, NEW pool, NEW m \in Nat,
         Stands(slots, size, epoch, pool, m),
         NEW more, \A n \in 1 .. m : more[n].state = pool[n].state,
         \A n \in 1 .. m + 1 : Fp(more, n) \in Nat,
         NEW j \in 0 .. size - 1, NEW to, to = (Fp(more, m + 1) + j) % size, slots[to].tag # epoch,
         \A i \in 0 .. j - 1 : slots[(Fp(more, m + 1) + i) % size].tag = epoch
  PROVE  Stands([slots EXCEPT ![to] = [tag |-> epoch, fp |-> Fp(more, m + 1) % Tags, at |-> m + 1]], size, epoch, more, m + 1)
<1> DEFINE entry == [tag |-> epoch, fp |-> Fp(more, m + 1) % Tags, at |-> m + 1]
           new == [slots EXCEPT ![to] = entry]
<1>1. to \in 0 .. size - 1
  <2>1. Fp(more, m + 1) \in Nat /\ j \in Nat
    OBVIOUS
  <2>2. QED
    BY <2>1, ProbeIs
<1>2. ArrayOK(slots) /\ size <= Size(slots)
  BY DEF Stands
<1>3. /\ to \in 0 .. Size(slots) - 1 /\ DOMAIN new = DOMAIN slots /\ DOMAIN slots = 0 .. Size(slots) - 1
      /\ new[to] = entry /\ \A s \in DOMAIN slots : s # to => new[s] = slots[s]
  BY <1>1, <1>2 DEF ArrayOK
<1>4. entry \in Slot
  <2>1. Fp(more, m + 1) \in Nat /\ Tags \in Nat \ {0}
    BY TableAssumption
  <2>2. Fp(more, m + 1) % Tags \in Nat
    BY <2>1, ProbeIs
  <2>3. QED
    BY <2>2 DEF Slot
<1>5. ArrayOK(new) /\ size <= Size(new)
  <2>1. new \in [0 .. Size(slots) - 1 -> Slot] /\ Size(new) = Size(slots)
    BY <1>2, <1>3, <1>4 DEF ArrayOK, Size
  <2>2. QED
    BY <1>2, <2>1 DEF ArrayOK
<1>6. \A s \in 0 .. size - 1 : s \in DOMAIN slots
  BY <1>2, <1>3 DEF ArrayOK
<1> HIDE DEF new
<1>7. ASSUME NEW s \in 0 .. size - 1, new[s].tag = epoch
      PROVE  /\ new[s].at \in 1 .. m + 1 /\ new[s].fp = Fp(more, new[s].at) % Tags
             /\ \A r \in 0 .. size - 1 : new[r].tag = epoch /\ new[r].at = new[s].at => r = s
  <2>1. \A r \in 0 .. size - 1 : r # to /\ new[r].tag = epoch =>
          /\ slots[r].tag = epoch /\ new[r] = slots[r] /\ slots[r].at \in 1 .. m
    BY <1>3, <1>6 DEF Stands
  <2>2. CASE s = to
    <3>1. new[s].at = m + 1 /\ new[s].fp = Fp(more, m + 1) % Tags
      BY <1>3, <2>2
    <3>2. \A r \in 0 .. size - 1 : r # to /\ new[r].tag = epoch => new[r].at # m + 1
      BY <2>1
    <3>3. QED
      BY <2>2, <3>1, <3>2
  <2>3. CASE s # to
    <3>1. slots[s].tag = epoch /\ new[s] = slots[s] /\ slots[s].at \in 1 .. m
      BY <1>7, <2>1, <2>3
    <3>2. slots[s].fp = Fp(pool, slots[s].at) % Tags /\ Fp(pool, slots[s].at) = Fp(more, slots[s].at)
      BY <3>1 DEF Stands, Fp
    <3>3. ASSUME NEW r \in 0 .. size - 1, new[r].tag = epoch, new[r].at = new[s].at PROVE r = s
      <4>1. r # to
        BY <1>3, <3>1, <3>3
      <4>2. slots[r].tag = epoch /\ slots[r].at = slots[s].at
        BY <2>1, <3>1, <3>3, <4>1
      <4>3. QED
        BY <3>1, <4>2 DEF Stands
    <3>4. QED
      BY <3>1, <3>2, <3>3
  <2>4. QED
    BY <2>2, <2>3
<1>8. \A f \in Nat, i \in Nat : (f + i) % size \in 0 .. size - 1
  BY ProbeIs
<1>9. \A s \in 0 .. size - 1 : slots[s].tag = epoch => s # to /\ new[s] = slots[s]
  BY <1>3, <1>6
<1>10. ASSUME NEW n \in 1 .. m + 1
       PROVE  \E k \in 0 .. size - 1 : Reached(new, size, epoch, Fp(more, n), k, n)
  <2>1. CASE n = m + 1
    <3>1. \A i \in 0 .. j - 1 : new[(Fp(more, n) + i) % size].tag = epoch
      <4>1. ASSUME NEW i \in 0 .. j - 1 PROVE new[(Fp(more, n) + i) % size].tag = epoch
        <5>1. (Fp(more, n) + i) % size \in 0 .. size - 1
          BY <1>8
        <5>2. slots[(Fp(more, n) + i) % size].tag = epoch
          BY <2>1
        <5>3. QED
          BY <1>9, <5>1, <5>2
      <4>2. QED
        BY <4>1
    <3>2. Reached(new, size, epoch, Fp(more, n), j, n)
      BY <1>3, <2>1, <3>1 DEF Reached
    <3>3. QED
      BY <3>2
  <2>2. CASE n \in 1 .. m
    <3>1. Fp(more, n) = Fp(pool, n) /\ Fp(more, n) \in Nat
      BY <2>2 DEF Fp
    <3>2. PICK k \in 0 .. size - 1 : Reached(slots, size, epoch, Fp(pool, n), k, n)
      BY <2>2 DEF Stands
    <3>3. ASSUME NEW i \in 0 .. k PROVE (Fp(more, n) + i) % size \in 0 .. size - 1
      <4>1. i \in Nat
        OBVIOUS
      <4>2. QED
        BY <1>8, <3>1, <4>1
    <3>4. Reached(new, size, epoch, Fp(more, n), k, n)
      <4>1. \A i \in 0 .. k - 1 : new[(Fp(more, n) + i) % size].tag = epoch
        BY <1>9, <3>1, <3>2, <3>3 DEF Reached
      <4>2. k \in 0 .. k
        OBVIOUS
      <4>3. new[(Fp(more, n) + k) % size] = slots[(Fp(more, n) + k) % size]
        BY <1>9, <3>1, <3>2, <3>3, <4>2 DEF Reached
      <4>4. QED
        BY <3>1, <3>2, <4>1, <4>3 DEF Reached
    <3>5. QED
      BY <3>4
  <2>3. n = m + 1 \/ n \in 1 .. m
    OBVIOUS
  <2>4. QED
    BY <2>1, <2>2, <2>3
<1>11. QED
  BY <1>5, <1>7, <1>10 DEF Stands, new

\* Multiplicities do not matter to it.
LEMMA SameStands ==
  ASSUME NEW slots, NEW size \in Nat \ {0}, NEW epoch, NEW pool, NEW m \in Nat,
         Stands(slots, size, epoch, pool, m),
         NEW more, \A n \in 1 .. m : more[n].state = pool[n].state
  PROVE  Stands(slots, size, epoch, more, m)
<1>1. \A n \in 1 .. m : Fp(more, n) = Fp(pool, n)
  BY DEF Fp
<1>2. \A n \in 1 .. m : \E j \in 0 .. size - 1 : Reached(slots, size, epoch, Fp(more, n), j, n)
  BY <1>1 DEF Stands
<1>3. \A s \in 0 .. size - 1 : slots[s].tag = epoch =>
        /\ slots[s].at \in 1 .. m /\ slots[s].fp = Fp(more, slots[s].at) % Tags
        /\ \A r \in 0 .. size - 1 : slots[r].tag = epoch /\ slots[r].at = slots[s].at => r = s
  BY <1>1 DEF Stands
<1>4. QED
  BY <1>2, <1>3 DEF Stands

-----------------------------------------------------------------------------
(* Pools.                                                                  *)

LEMMA SequenceIs ==
  ASSUME NEW E, NEW s \in Seq(E)
  PROVE  Len(s) \in Nat /\ DOMAIN s = 1 .. Len(s) /\ s \in [1 .. Len(s) -> E]
OBVIOUS

LEMMA SequenceOf ==
  ASSUME NEW E, NEW n \in Nat, NEW f \in [1 .. n -> E]
  PROVE  f \in Seq(E) /\ Len(f) = n
OBVIOUS

LEMMA PoolIs ==
  ASSUME NEW pool, PoolOK(pool)
  PROVE  /\ Len(pool) \in Nat /\ DOMAIN pool = 1 .. Len(pool)
         /\ pool \in [1 .. Len(pool) -> [state : States(pool), mult : Nat]]
<1> DEFINE E == [state : States(pool), mult : Nat]
<1>1. pool \in Seq(E)
  BY DEF PoolOK
<1> HIDE DEF E
<1>2. Len(pool) \in Nat /\ DOMAIN pool = 1 .. Len(pool) /\ pool \in [1 .. Len(pool) -> E]
  BY <1>1, SequenceIs
<1>3. QED
  BY <1>2 DEF E

LEMMA AppendedPool ==
  ASSUME NEW pool, PoolOK(pool), NEW state, NEW mult \in Nat, StateFingerprint(state) \in Nat,
         \A n \in DOMAIN pool : pool[n].state # state
  PROVE  LET more == Append(pool, [state |-> state, mult |-> mult])
         IN  /\ PoolOK(more) /\ Len(more) = Len(pool) + 1
             /\ \A n \in DOMAIN pool : more[n] = pool[n]
             /\ more[Len(pool) + 1].state = state
<1> DEFINE e == [state |-> state, mult |-> mult]
           more == Append(pool, e)
           S == States(pool) \union {state}
<1>1. pool \in Seq([state : S, mult : Nat]) /\ e \in [state : S, mult : Nat]
  <2>1. pool \in Seq([state : States(pool), mult : Nat])
    BY DEF PoolOK
  <2>2. [state : States(pool), mult : Nat] \subseteq [state : S, mult : Nat]
    OBVIOUS
  <2>3. \A A, B : A \subseteq B /\ pool \in Seq(A) => pool \in Seq(B)
    <3>1. ASSUME NEW A, NEW B, A \subseteq B, pool \in Seq(A) PROVE pool \in Seq(B)
      <4>1. Len(pool) \in Nat /\ pool \in [1 .. Len(pool) -> A]
        BY <3>1, SequenceIs
      <4>2. pool \in [1 .. Len(pool) -> B]
        BY <3>1, <4>1
      <4>3. QED
        BY <4>1, <4>2, SequenceOf
    <3>2. QED
      BY <3>1
  <2> HIDE DEF S
  <2>4. pool \in Seq([state : S, mult : Nat])
    BY <2>1, <2>2, <2>3
  <2>5. state \in S
    BY DEF S
  <2>6. QED
    BY <2>4, <2>5
<1> HIDE DEF e
<1>2. /\ more \in Seq([state : S, mult : Nat]) /\ Len(more) = Len(pool) + 1 /\ Len(pool) \in Nat
      /\ DOMAIN pool = 1 .. Len(pool) /\ DOMAIN more = 1 .. Len(pool) + 1
      /\ \A n \in 1 .. Len(pool) : more[n] = pool[n]
      /\ more[Len(pool) + 1] = e
  BY <1>1
<1> HIDE DEF more
<1>3. e.state = state /\ more[Len(pool) + 1].state = state
  BY <1>2 DEF e
<1>4. States(more) = S
  <2>1. \A n \in DOMAIN more : n \in DOMAIN pool \/ n = Len(pool) + 1
    BY <1>2
  <2>2. \A n \in DOMAIN pool : n \in DOMAIN more /\ more[n].state = pool[n].state
    BY <1>2
  <2>3. Len(pool) + 1 \in DOMAIN more
    BY <1>2
  <2>4. QED
    BY <1>3, <2>1, <2>2, <2>3 DEF States
<1>5. ASSUME NEW n \in DOMAIN more
      PROVE  /\ Fp(more, n) \in Nat
             /\ \A k \in DOMAIN more : more[n].state = more[k].state => n = k
  <2>1. \A k \in DOMAIN more : (k \in DOMAIN pool /\ more[k].state = pool[k].state) \/ (k = Len(pool) + 1 /\ more[k].state = state)
    BY <1>2, <1>3
  <2>2. QED
    BY <2>1 DEF PoolOK, Fp
<1>6. PoolOK(more)
  BY <1>2, <1>4, <1>5 DEF PoolOK
<1>7. QED
  BY <1>2, <1>3, <1>6 DEF more, e

LEMMA CountedPool ==
  ASSUME NEW pool, PoolOK(pool), NEW at \in DOMAIN pool, NEW mult \in Nat
  PROVE  LET more == [pool EXCEPT ![at].mult = (@ + mult) % Word]
         IN  PoolOK(more) /\ Len(more) = Len(pool) /\ DOMAIN more = DOMAIN pool /\ \A n \in DOMAIN pool : more[n].state = pool[n].state
<1> DEFINE S == States(pool)
           E == [state : S, mult : Nat]
           more == [pool EXCEPT ![at].mult = (@ + mult) % Word]
<1>1. Len(pool) \in Nat /\ DOMAIN pool = 1 .. Len(pool) /\ pool \in [1 .. Len(pool) -> E] /\ at \in 1 .. Len(pool)
  BY PoolIs
<1>2. pool[at] \in E /\ pool[at].mult \in Nat /\ Word \in Nat \ {0}
  BY <1>1, TableAssumption
<1>3. (pool[at].mult + mult) % Word \in Nat
  <2>1. (pool[at].mult + mult) % Word \in 0 .. Word - 1
    BY <1>2, ProbeIs
  <2>2. QED
    BY <1>2, <2>1
<1>4. /\ DOMAIN more = 1 .. Len(pool)
      /\ \A n \in 1 .. Len(pool) : n # at => more[n] = pool[n]
      /\ more[at] = [pool[at] EXCEPT !.mult = (pool[at].mult + mult) % Word]
  BY <1>1
<1>5. more[at] \in E /\ more[at].state = pool[at].state
  BY <1>2, <1>3, <1>4
<1>6. more \in [1 .. Len(pool) -> E] /\ \A n \in 1 .. Len(pool) : more[n].state = pool[n].state
  <2>1. more \in [1 .. Len(pool) -> E]
    BY <1>1, <1>5
  <2>2. QED
    BY <1>4, <1>5, <2>1
<1>7. Len(more) = Len(pool) /\ more \in Seq(E)
  <2> HIDE DEF E, more
  <2>1. QED
    BY <1>1, <1>6, SequenceOf
<1> HIDE DEF more
<1>8. States(more) = S
  BY <1>1, <1>4, <1>6 DEF States
<1>9. \A n \in 1 .. Len(pool) : Fp(more, n) \in Nat /\ \A k \in 1 .. Len(pool) : more[n].state = more[k].state => n = k
  BY <1>1, <1>6 DEF PoolOK, Fp
<1>10. PoolOK(more)
  BY <1>4, <1>7, <1>8, <1>9 DEF PoolOK
<1>11. QED
  BY <1>1, <1>4, <1>6, <1>7, <1>10 DEF more

-----------------------------------------------------------------------------
(* Where a probe stops.                                                    *)

To(t, state, j) == (StateFingerprint(state) + j) % t.size
IsFree(t, state, j) == t.slots[To(t, state, j)].tag # t.epoch
IsSame(t, state, j) ==
  /\ ~IsFree(t, state, j) /\ t.slots[To(t, state, j)].fp = StateFingerprint(state) % Tags
  /\ Holds(t, t.slots[To(t, state, j)].at, state)
StopsAt(t, state, k) ==
  (IsFree(t, state, k) \/ IsSame(t, state, k)) /\ \A i \in 0 .. k - 1 : ~IsFree(t, state, i) /\ ~IsSame(t, state, i)
Stop(t, state) == CHOOSE k \in 0 .. t.size - 1 : StopsAt(t, state, k)

LEMMA StopIs ==
  ASSUME NEW t, TableOK(t), Len(t.pool) < t.size, NEW state, StateFingerprint(state) \in Nat
  PROVE  Stop(t, state) \in 0 .. t.size - 1 /\ StopsAt(t, state, Stop(t, state))
<1> DEFINE S == {k \in Nat : k < t.size /\ (IsFree(t, state, k) \/ IsSame(t, state, k))}
<1>1. t.size \in Nat \ {0} /\ Len(t.pool) \in Nat /\ Stands(t.slots, t.size, t.epoch, t.pool, Len(t.pool))
  <2>1. t.size \in Nat \ {0} /\ PoolOK(t.pool) /\ Stands(t.slots, t.size, t.epoch, t.pool, Len(t.pool))
    BY DEF TableOK
  <2>2. QED
    BY <2>1, PoolIs
<1>2. PICK j \in 0 .. t.size - 1 : t.slots[(StateFingerprint(state) + j) % t.size].tag # t.epoch
  <2> DEFINE fp == StateFingerprint(state)
             m == Len(t.pool)
             size == t.size
             slots == t.slots
             epoch == t.epoch
             pool == t.pool
  <2>1. size \in Nat \ {0} /\ m \in Nat /\ m < size /\ fp \in Nat /\ Stands(slots, size, epoch, pool, m)
    BY <1>1
  <2> HIDE DEF fp, m, size, slots, epoch, pool
  <2>2. PICK s \in 0 .. size - 1 : slots[s].tag # epoch
    BY <2>1, SomeSlotIsFree
  <2>3. PICK k \in 0 .. size - 1 : (fp + k) % size = s
    <3>1. ComesBy(size, fp, s)
      BY <2>1, ProbesReach
    <3>2. QED
      BY Zenon, <3>1 DEF ComesBy
  <2>4. QED
    BY Zenon, <2>2, <2>3 DEF fp, size, slots, epoch
<1>3. j \in S
  <2>1. j \in Nat /\ j < t.size
    BY <1>1
  <2>2. IsFree(t, state, j)
    BY <1>2 DEF IsFree, To
  <2>3. QED
    BY <2>1, <2>2
<1>4. PICK k \in S : \A i \in 0 .. k - 1 : i \notin S
  BY <1>3, LeastElement
<1>5. k \in 0 .. t.size - 1
  BY <1>1, <1>4
<1>6. \A i \in 0 .. k - 1 : ~IsFree(t, state, i) /\ ~IsSame(t, state, i)
  <2>1. ASSUME NEW i \in 0 .. k - 1 PROVE ~IsFree(t, state, i) /\ ~IsSame(t, state, i)
    <3>1. i \in Nat /\ i < t.size
      BY <1>1, <1>5
    <3>2. QED
      BY <1>4, <3>1
  <2>2. QED
    BY <2>1
<1>7. StopsAt(t, state, k)
  BY <1>4, <1>6 DEF StopsAt
<1>8. QED
  BY <1>5, <1>7 DEF Stop

\* A probe that stops at a free slot has not missed the state.
LEMMA StopTells ==
  ASSUME NEW t, TableOK(t), Len(t.pool) < t.size, NEW state, StateFingerprint(state) \in Nat
  PROVE  LET j == Stop(t, state)
             at == t.slots[To(t, state, j)].at
         IN  /\ To(t, state, j) \in 0 .. t.size - 1
             /\ IsFree(t, state, j) => \A n \in DOMAIN t.pool : t.pool[n].state # state
             /\ ~IsFree(t, state, j) => at \in DOMAIN t.pool /\ t.pool[at].state = state
<1> DEFINE j == Stop(t, state)
           to == To(t, state, j)
<1>1. t.size \in Nat \ {0} /\ Len(t.pool) \in Nat /\ DOMAIN t.pool = 1 .. Len(t.pool)
  BY PoolIs DEF TableOK
<1>2. j \in 0 .. t.size - 1 /\ StopsAt(t, state, j)
  BY StopIs
<1>3. \A i \in 0 .. t.size - 1 : To(t, state, i) \in 0 .. t.size - 1
  <2>1. ASSUME NEW i \in 0 .. t.size - 1 PROVE To(t, state, i) \in 0 .. t.size - 1
    <3>1. i \in Nat
      BY <1>1
    <3>2. QED
      BY <1>1, <3>1, ProbeIs DEF To
  <2>2. QED
    BY <2>1
<1>4. \A s \in 0 .. t.size - 1 : t.slots[s].tag = t.epoch =>
        t.slots[s].at \in DOMAIN t.pool /\ t.slots[s].fp = Fp(t.pool, t.slots[s].at) % Tags
  BY <1>1 DEF TableOK, Stands
<1> HIDE DEF j
<1>5. ASSUME IsFree(t, state, j), NEW n \in DOMAIN t.pool, t.pool[n].state = state PROVE FALSE
  <2>1. Fp(t.pool, n) = StateFingerprint(state)
    BY <1>5 DEF Fp
  <2>2. PICK k \in 0 .. t.size - 1 : Reached(t.slots, t.size, t.epoch, StateFingerprint(state), k, n)
    BY <1>1, <2>1 DEF TableOK, Stands
  <2>3. ~IsFree(t, state, k) /\ t.slots[To(t, state, k)].at = n /\ \A i \in 0 .. k - 1 : ~IsFree(t, state, i)
    BY <2>2 DEF Reached, IsFree, To
  <2>4. t.slots[To(t, state, k)].fp = StateFingerprint(state) % Tags
    BY <1>3, <1>4, <2>1, <2>3 DEF IsFree
  <2>5. IsSame(t, state, k)
    BY <1>5, <2>3, <2>4 DEF IsSame, Holds
  <2>6. ~(k < j)
    <3>1. k < j => k \in 0 .. j - 1
      BY <1>1, <1>2
    <3>2. QED
      BY <1>2, <2>5, <3>1 DEF StopsAt
  <2>7. ~(j < k)
    <3>1. j < k => j \in 0 .. k - 1
      BY <1>1, <1>2
    <3>2. QED
      BY <1>5, <2>3, <3>1
  <2>8. j = k
    BY <1>1, <1>2, <2>6, <2>7
  <2>9. QED
    BY <1>5, <2>3, <2>8
<1>6. ASSUME ~IsFree(t, state, j)
      PROVE  t.slots[to].at \in DOMAIN t.pool /\ t.pool[t.slots[to].at].state = state
  <2>1. IsSame(t, state, j)
    BY <1>2, <1>6 DEF StopsAt
  <2>2. t.slots[to].at \in DOMAIN t.pool
    BY <1>2, <1>3, <1>4, <1>6 DEF IsFree
  <2>3. QED
    BY <2>1, <2>2 DEF IsSame, Holds
<1>7. QED
  BY <1>2, <1>3, <1>5, <1>6 DEF j

-----------------------------------------------------------------------------
(* Inserts.                                                                *)

Kept(t, state, at) ==
  IF DOMAIN t.fc = {} THEN t
  ELSE [t EXCEPT !.fc[FcIndex(t, StateFingerprint(state))] = [tag |-> t.epoch, fp |-> StateFingerprint(state), at |-> at]]

LEMMA InsertSlotsIs ==
  ASSUME NEW t, NEW state, NEW mult
  PROVE  LET j == Stop(t, state)
             to == To(t, state, j)
             n == Len(t.pool) + 1
         IN  InsertSlots(t, state, mult) =
               IF IsFree(t, state, j)
               THEN AppendPoolState([Kept(t, state, n) EXCEPT !.slots[to] =
                                       [tag |-> t.epoch, fp |-> StateFingerprint(state) % Tags, at |-> n]], state, mult)
               ELSE AddTo(Kept(t, state, t.slots[to].at), t.slots[to].at, mult)
<1> DEFINE j == Stop(t, state)
           to == To(t, state, j)
           at == IF IsFree(t, state, j) THEN Len(t.pool) + 1 ELSE t.slots[to].at
<1>1. InsertSlots(t, state, mult) =
        IF IsFree(t, state, j)
        THEN AppendPoolState([Kept(t, state, at) EXCEPT !.slots[to] =
                                [tag |-> t.epoch, fp |-> StateFingerprint(state) % Tags, at |-> at]], state, mult)
        ELSE AddTo(Kept(t, state, at), at, mult)
  BY Zenon DEF InsertSlots, Stop, StopsAt, IsSame, IsFree, To, Kept
<1> HIDE DEF j, to
<1>2. QED
  BY <1>1 DEF j, to

\* A table put together from parts of another one.
LEMMA TableFrom ==
  ASSUME NEW t, TableOK(t), NEW slots, NEW size \in Nat \ {0}, NEW fc, NEW pool, PoolOK(pool),
         Stands(slots, size, t.epoch, pool, Len(pool)), \A s \in DOMAIN slots : slots[s].tag <= t.epoch,
         ArrayOK(fc), \A f \in DOMAIN fc : fc[f].tag <= t.epoch,
         \A f \in DOMAIN fc : fc[f].tag = t.epoch => fc[f].at \in DOMAIN pool
  PROVE  TableOK([slots |-> slots, size |-> size, fc |-> fc, pool |-> pool, epoch |-> t.epoch, dyn |-> t.dyn])
<1> DEFINE u == [slots |-> slots, size |-> size, fc |-> fc, pool |-> pool, epoch |-> t.epoch, dyn |-> t.dyn]
<1>1. u.slots = slots /\ u.size = size /\ u.fc = fc /\ u.pool = pool /\ u.epoch = t.epoch /\ u.dyn = t.dyn
  OBVIOUS
<1>2. u = [slots |-> u.slots, size |-> u.size, fc |-> u.fc, pool |-> u.pool, epoch |-> u.epoch, dyn |-> u.dyn]
  OBVIOUS
<1>3. t.epoch \in 1 .. Tags - 1 /\ t.dyn \in BOOLEAN
  BY DEF TableOK
<1> HIDE DEF u
<1>4. TagsOK(u)
  BY <1>1 DEF TagsOK
<1>5. TableOK(u)
  BY <1>1, <1>2, <1>3, <1>4 DEF TableOK
<1>6. QED
  BY <1>5 DEF u

\* What the front cache keeps of an insert.
KeptFc(t, state, at) ==
  IF DOMAIN t.fc = {} THEN t.fc
  ELSE [t.fc EXCEPT ![FcIndex(t, StateFingerprint(state))] = [tag |-> t.epoch, fp |-> StateFingerprint(state), at |-> at]]

LEMMA KeptIs ==
  ASSUME NEW t, TableOK(t), NEW state, StateFingerprint(state) \in Nat, NEW at \in Nat
  PROVE  LET fc == KeptFc(t, state, at)
         IN  /\ Kept(t, state, at) = [slots |-> t.slots, size |-> t.size, fc |-> fc, pool |-> t.pool,
                                      epoch |-> t.epoch, dyn |-> t.dyn]
             /\ ArrayOK(fc) /\ \A f \in DOMAIN fc : fc[f].tag <= t.epoch
             /\ \A f \in DOMAIN fc : fc[f].tag = t.epoch => fc[f].at = at \/ fc[f].at \in DOMAIN t.pool
<1> DEFINE fp == StateFingerprint(state)
           entry == [tag |-> t.epoch, fp |-> fp, at |-> at]
           fc == KeptFc(t, state, at)
<1>1. /\ ArrayOK(t.fc) /\ \A f \in DOMAIN t.fc : t.fc[f].tag <= t.epoch
      /\ \A f \in DOMAIN t.fc : t.fc[f].tag = t.epoch => t.fc[f].at \in DOMAIN t.pool
      /\ t.epoch \in Nat
  <2>1. t.epoch \in 1 .. Tags - 1
    BY DEF TableOK
  <2>2. QED
    BY <2>1 DEF TableOK, TagsOK
<1>2. t = [slots |-> t.slots, size |-> t.size, fc |-> t.fc, pool |-> t.pool, epoch |-> t.epoch, dyn |-> t.dyn]
  BY DEF TableOK
<1>3. CASE DOMAIN t.fc = {}
  <2>1. fc = t.fc /\ Kept(t, state, at) = t
    BY <1>3 DEF KeptFc, Kept
  <2>2. QED
    BY <1>1, <1>2, <2>1
<1>4. CASE DOMAIN t.fc # {}
  <2> DEFINE f0 == FcIndex(t, fp)
             size == Size(t.fc)
  <2>1. size \in Nat /\ DOMAIN t.fc = 0 .. size - 1 /\ t.fc \in [0 .. size - 1 -> Slot]
    BY <1>1 DEF ArrayOK
  <2>2. size \in Nat \ {0}
    BY <1>4, <2>1
  <2>3. f0 \in 0 .. size - 1
    <3>1. fp \div 2 \in Nat
      BY QuotientIs
    <3> DEFINE x == fp \div 2
    <3>2. x \in Nat
      BY <3>1
    <3> HIDE DEF x
    <3>3. x % size \in 0 .. size - 1
      BY <2>2, <3>2, QuotientIs
    <3>4. QED
      BY <3>3 DEF x, FcIndex, Size
  <2>4. entry \in Slot
    BY <1>1 DEF Slot
  <2> HIDE DEF f0, entry
  <2>5. fc = [t.fc EXCEPT ![f0] = entry]
    BY <1>4 DEF KeptFc, f0, entry
  <2>6. fc \in [0 .. size - 1 -> Slot] /\ DOMAIN fc = DOMAIN t.fc /\ fc[f0] = entry /\ \A f \in DOMAIN t.fc : f # f0 => fc[f] = t.fc[f]
    <3> HIDE DEF fc, size
    <3>1. QED
      BY <2>1, <2>3, <2>4, <2>5
  <2>7. ArrayOK(fc)
    <3>1. Size(fc) = size
      BY <2>6 DEF Size
    <3>2. QED
      BY <2>1, <2>6, <3>1 DEF ArrayOK
  <2>8. Kept(t, state, at) = [t EXCEPT !.fc = fc]
    BY Zenon, <1>4 DEF Kept, KeptFc
  <2>9. entry.tag = t.epoch /\ entry.at = at
    BY DEF entry
  <2> HIDE DEF fc
  <2>10. Kept(t, state, at) = [slots |-> t.slots, size |-> t.size, fc |-> fc, pool |-> t.pool, epoch |-> t.epoch, dyn |-> t.dyn]
    BY <1>2, <2>8
  <2>11. ASSUME NEW f \in DOMAIN fc PROVE fc[f].tag <= t.epoch /\ (fc[f].tag = t.epoch => fc[f].at = at \/ fc[f].at \in DOMAIN t.pool)
    <3>1. CASE f = f0
      BY <1>1, <2>6, <2>9, <3>1
    <3>2. CASE f # f0
      BY <1>1, <2>6, <3>2
    <3>3. QED
      BY <3>1, <3>2
  <2>12. QED
    BY <2>7, <2>10, <2>11 DEF fc
<1>5. QED
  BY <1>3, <1>4

\* Entries of a pool are told apart by their states.
LEMMA MergeCounts ==
  ASSUME NEW pool, PoolOK(pool), NEW at \in DOMAIN pool, NEW mult
  PROVE  Merge(pool, pool[at].state, mult) = [pool EXCEPT ![at].mult = (@ + mult) % Word]
<1> DEFINE state == pool[at].state
           n == CHOOSE k \in DOMAIN pool : pool[k].state = state
<1>1. \E k \in DOMAIN pool : pool[k].state = state
  OBVIOUS
<1>2. n \in DOMAIN pool /\ pool[n].state = state
  BY <1>1
<1>3. n = at
  <2> HIDE DEF n
  <2>1. QED
    BY <1>2 DEF PoolOK
<1>4. Merge(pool, state, mult) = [pool EXCEPT ![n].mult = (@ + mult) % Word]
  BY Zenon, <1>1 DEF Merge
<1> HIDE DEF n
<1>5. QED
  BY <1>3, <1>4

\* A count raised.
LEMMA AddedTo ==
  ASSUME NEW t, TableOK(t), NEW at \in DOMAIN t.pool, NEW mult \in Nat
  PROVE  LET u == AddTo(t, at, mult)
         IN  TableOK(u) /\ u.pool = Merge(t.pool, t.pool[at].state, mult) /\ u.size = t.size /\ u.epoch = t.epoch /\ u.dyn = t.dyn
<1> DEFINE u == AddTo(t, at, mult)
           more == [t.pool EXCEPT ![at].mult = (@ + mult) % Word]
<1>1. t = [slots |-> t.slots, size |-> t.size, fc |-> t.fc, pool |-> t.pool, epoch |-> t.epoch, dyn |-> t.dyn]
  BY DEF TableOK
<1>2. /\ PoolOK(t.pool) /\ t.size \in Nat \ {0} /\ Stands(t.slots, t.size, t.epoch, t.pool, Len(t.pool))
      /\ TagsOK(t) /\ \A f \in DOMAIN t.fc : t.fc[f].tag = t.epoch => t.fc[f].at \in DOMAIN t.pool
  BY DEF TableOK
<1>3. u = [t EXCEPT !.pool = more]
  BY Zenon DEF AddTo
<1>4. PoolOK(more) /\ Len(more) = Len(t.pool) /\ DOMAIN more = DOMAIN t.pool /\ \A n \in DOMAIN t.pool : more[n].state = t.pool[n].state
  BY <1>2, CountedPool
<1>5. more = Merge(t.pool, t.pool[at].state, mult)
  BY <1>2, MergeCounts
<1> HIDE DEF more, u
<1>6. u = [slots |-> t.slots, size |-> t.size, fc |-> t.fc, pool |-> more, epoch |-> t.epoch, dyn |-> t.dyn]
  BY <1>1, <1>3
<1>7. Stands(t.slots, t.size, t.epoch, more, Len(more))
  <2>1. Len(t.pool) \in Nat /\ \A n \in 1 .. Len(t.pool) : more[n].state = t.pool[n].state
    BY <1>2, <1>4, PoolIs
  <2>2. QED
    BY <1>2, <1>4, <2>1, SameStands
<1>8. TableOK(u)
  BY <1>2, <1>4, <1>6, <1>7, TableFrom DEF TagsOK
<1>9. QED
  BY <1>5, <1>6, <1>8 DEF u

LEMMA InsertSlotsMerges ==
  ASSUME NEW t, TableOK(t), Len(t.pool) < t.size, NEW state, StateFingerprint(state) \in Nat, NEW mult \in Nat
  PROVE  LET u == InsertSlots(t, state, mult)
         IN  TableOK(u) /\ u.pool = Merge(t.pool, state, mult) /\ u.size = t.size /\ u.epoch = t.epoch /\ u.dyn = t.dyn
<1> DEFINE j == Stop(t, state)
           to == To(t, state, j)
           at == t.slots[to].at
           next == Len(t.pool) + 1
           u == InsertSlots(t, state, mult)
<1>1. /\ to \in 0 .. t.size - 1
      /\ IsFree(t, state, j) => \A n \in DOMAIN t.pool : t.pool[n].state # state
      /\ ~IsFree(t, state, j) => at \in DOMAIN t.pool /\ t.pool[at].state = state
  BY StopTells
<1>2. j \in 0 .. t.size - 1 /\ StopsAt(t, state, j)
  BY StopIs
<1>3. /\ PoolOK(t.pool) /\ t.size \in Nat \ {0} /\ Stands(t.slots, t.size, t.epoch, t.pool, Len(t.pool))
      /\ TagsOK(t) /\ t.epoch \in 1 .. Tags - 1
      /\ \A f \in DOMAIN t.fc : t.fc[f].tag = t.epoch => t.fc[f].at \in DOMAIN t.pool
  BY DEF TableOK
<1>4. Len(t.pool) \in Nat /\ DOMAIN t.pool = 1 .. Len(t.pool) /\ t.epoch \in Nat
  BY <1>3, PoolIs
<1>5. u = IF IsFree(t, state, j)
          THEN AppendPoolState([Kept(t, state, next) EXCEPT !.slots[to] =
                                  [tag |-> t.epoch, fp |-> StateFingerprint(state) % Tags, at |-> next]], state, mult)
          ELSE AddTo(Kept(t, state, at), at, mult)
  BY Zenon, InsertSlotsIs
<1>6. CASE ~IsFree(t, state, j)
  <2> DEFINE kept == Kept(t, state, at)
             fc == KeptFc(t, state, at)
  <2>1. at \in DOMAIN t.pool /\ t.pool[at].state = state /\ at \in Nat /\ u = AddTo(kept, at, mult)
    BY <1>1, <1>4, <1>5, <1>6
  <2> HIDE DEF at
  <2>2. /\ kept = [slots |-> t.slots, size |-> t.size, fc |-> fc, pool |-> t.pool, epoch |-> t.epoch, dyn |-> t.dyn]
        /\ ArrayOK(fc) /\ \A f \in DOMAIN fc : fc[f].tag <= t.epoch
        /\ \A f \in DOMAIN fc : fc[f].tag = t.epoch => fc[f].at = at \/ fc[f].at \in DOMAIN t.pool
    BY <2>1, KeptIs
  <2> HIDE DEF kept, fc, j, to
  <2>3. TableOK(kept)
    <3>1. \A f \in DOMAIN fc : fc[f].tag = t.epoch => fc[f].at \in DOMAIN t.pool
      BY <2>1, <2>2
    <3>2. \A s \in DOMAIN t.slots : t.slots[s].tag <= t.epoch
      BY <1>3 DEF TagsOK
    <3>3. QED
      BY <1>3, <2>2, <3>1, <3>2, TableFrom
  <2>4. kept.pool = t.pool /\ kept.size = t.size /\ kept.epoch = t.epoch /\ kept.dyn = t.dyn
    BY <2>2
  <2>5. TableOK(u) /\ u.pool = Merge(kept.pool, kept.pool[at].state, mult) /\ u.size = kept.size /\ u.epoch = kept.epoch /\ u.dyn = kept.dyn
    BY <2>1, <2>3, <2>4, AddedTo
  <2>6. QED
    BY <2>1, <2>4, <2>5
<1>7. CASE IsFree(t, state, j)
  <2> DEFINE e == [state |-> state, mult |-> mult]
             more == Append(t.pool, e)
             entry == [tag |-> t.epoch, fp |-> StateFingerprint(state) % Tags, at |-> next]
             slots == [t.slots EXCEPT ![to] = entry]
             kept == Kept(t, state, next)
             fc == KeptFc(t, state, next)
  <2>1. \A n \in DOMAIN t.pool : t.pool[n].state # state
    BY <1>1, <1>7
  <2>2. more = Merge(t.pool, state, mult)
    BY <2>1 DEF Merge
  <2>3. PoolOK(more) /\ Len(more) = next /\ (\A n \in DOMAIN t.pool : more[n] = t.pool[n]) /\ more[next].state = state
    BY <1>3, <2>1, AppendedPool
  <2>4. /\ kept = [slots |-> t.slots, size |-> t.size, fc |-> fc, pool |-> t.pool, epoch |-> t.epoch, dyn |-> t.dyn]
        /\ ArrayOK(fc) /\ \A f \in DOMAIN fc : fc[f].tag <= t.epoch
        /\ \A f \in DOMAIN fc : fc[f].tag = t.epoch => fc[f].at = next \/ fc[f].at \in DOMAIN t.pool
    <3>1. next \in Nat
      BY <1>4
    <3> HIDE DEF next
    <3>2. QED
      BY <3>1, KeptIs
  <2>5. u = [[kept EXCEPT !.slots[to] = entry] EXCEPT !.pool = Append(@, e)]
    BY Zenon, <1>5, <1>7 DEF AppendPoolState
  <2>6. Fp(more, next) = StateFingerprint(state)
    BY <2>3 DEF Fp
  <2>7. DOMAIN more = 1 .. next /\ next = Len(t.pool) + 1
    <3> HIDE DEF more
    <3>1. QED
      BY <2>3, PoolIs
  <2> HIDE DEF kept, fc, more, e
  <2>8. u = [slots |-> slots, size |-> t.size, fc |-> fc, pool |-> more, epoch |-> t.epoch, dyn |-> t.dyn]
    <3>1. kept.slots = t.slots /\ kept.pool = t.pool
      BY <2>4
    <3>2. u = [[kept EXCEPT !.slots = slots] EXCEPT !.pool = more]
      BY <2>5, <3>1 DEF more
    <3> HIDE DEF slots
    <3>3. QED
      BY <2>4, <3>2
  <2>9. entry = [tag |-> t.epoch, fp |-> Fp(more, next) % Tags, at |-> next] /\ entry.tag = t.epoch
    BY <2>6
  <2>10. Stands(slots, t.size, t.epoch, more, next)
    <3>1. \A n \in 1 .. Len(t.pool) : more[n].state = t.pool[n].state
      BY <1>4, <2>3
    <3>2. \A n \in 1 .. Len(t.pool) + 1 : Fp(more, n) \in Nat
      BY <2>3, <2>7 DEF PoolOK
    <3>3. to = (Fp(more, next) + j) % t.size
      BY <2>6 DEF To
    <3>4. t.slots[to].tag # t.epoch
      BY <1>7 DEF IsFree
    <3>5. \A i \in 0 .. j - 1 : t.slots[(Fp(more, next) + i) % t.size].tag = t.epoch
      BY <1>2, <2>6 DEF StopsAt, IsFree, To
    <3> DEFINE k == j
               m == Len(t.pool)
    <3>6. m \in Nat /\ m < t.size /\ k \in 0 .. t.size - 1 /\ next = m + 1
      BY <1>2, <1>4
    <3> HIDE DEF j, to, entry, m, next
    <3>7. Stands([t.slots EXCEPT ![to] = entry], t.size, t.epoch, more, next)
      BY <1>2, <1>3, <1>4, <2>9, <3>1, <3>2, <3>3, <3>4, <3>5, <3>6, PlaceStands DEF m
    <3>8. QED
      BY <3>7
  <2>11. \A s \in DOMAIN slots : slots[s].tag <= t.epoch
    BY <1>3, <1>4, <2>9 DEF TagsOK
  <2>12. \A f \in DOMAIN fc : fc[f].tag = t.epoch => fc[f].at \in DOMAIN more
    BY <1>4, <2>4, <2>7
  <2> HIDE DEF slots, next, j, to, u
  <2>13. TableOK(u)
    BY <1>3, <2>3, <2>4, <2>8, <2>10, <2>11, <2>12, TableFrom
  <2>14. QED
    BY <2>2, <2>8, <2>13 DEF u
<1>8. QED
  BY <1>6, <1>7

-----------------------------------------------------------------------------
(* Growth.                                                                 *)

\* A table of free slots only.
LEMMA Epoch0Is ==
  ASSUME NEW size \in Nat, NEW epoch \in Nat \ {0}, NEW pool
  PROVE  /\ ArrayOK(Epoch0(size)) /\ Size(Epoch0(size)) = size /\ Stands(Epoch0(size), size, epoch, pool, 0)
         /\ \A s \in DOMAIN Epoch0(size) : Epoch0(size)[s].tag = 0
<1> DEFINE slots == Epoch0(size)
<1>1. DOMAIN slots = 0 .. size - 1 /\ slots \in [0 .. size - 1 -> Slot] /\ \A s \in 0 .. size - 1 : slots[s].tag = 0
  BY DEF Epoch0, Slot
<1> HIDE DEF slots
<1>2. Size(slots) = size
  BY <1>1, IntervalIs DEF Size
<1>3. ArrayOK(slots)
  BY <1>1, <1>2 DEF ArrayOK
<1>4. size <= Size(slots)
  BY <1>2
<1>5. Stands(slots, size, epoch, pool, 0)
  BY <1>1, <1>3, <1>4 DEF Stands
<1>6. QED
  BY <1>1, <1>2, <1>3, <1>5 DEF slots

FreeAt(slots, size, epoch, fp, j) ==
  /\ Free(slots, epoch, fp) = (fp + j) % size /\ slots[(fp + j) % size].tag # epoch
  /\ \A i \in 0 .. j - 1 : slots[(fp + i) % size].tag = epoch

LEMMA FreeIs ==
  ASSUME NEW slots, NEW size \in Nat \ {0}, NEW epoch, NEW pool, NEW m \in Nat, m < size, Size(slots) = size,
         Stands(slots, size, epoch, pool, m), NEW fp \in Nat
  PROVE  \E j \in 0 .. size - 1 : FreeAt(slots, size, epoch, fp, j)
<1> DEFINE Ends(k) == slots[(fp + k) % size].tag # epoch /\ \A i \in 0 .. k - 1 : slots[(fp + i) % size].tag = epoch
           j == CHOOSE k \in 0 .. size - 1 : Ends(k)
           S == {k \in Nat : k < size /\ slots[(fp + k) % size].tag # epoch}
<1>1. Free(slots, epoch, fp) = (fp + j) % size
  BY Zenon DEF Free, Size
<1>2. PICK x \in 0 .. size - 1 : slots[(fp + x) % size].tag # epoch
  <2>1. PICK s \in 0 .. size - 1 : slots[s].tag # epoch
    BY SomeSlotIsFree
  <2>2. PICK k \in 0 .. size - 1 : (fp + k) % size = s
    <3>1. ComesBy(size, fp, s)
      BY ProbesReach
    <3>2. QED
      BY Zenon, <3>1 DEF ComesBy
  <2>3. QED
    BY Zenon, <2>1, <2>2
<1>3. x \in S
  BY <1>2
<1>4. PICK k \in S : \A i \in 0 .. k - 1 : i \notin S
  BY <1>3, LeastElement
<1>5. k \in 0 .. size - 1
  BY <1>4
<1>6. \A i \in 0 .. k - 1 : slots[(fp + i) % size].tag = epoch
  <2>1. ASSUME NEW i \in 0 .. k - 1 PROVE slots[(fp + i) % size].tag = epoch
    <3>1. i \in Nat /\ i < size
      BY <1>5
    <3>2. QED
      BY <1>4, <3>1
  <2>2. QED
    BY <2>1
<1>7. Ends(k)
  BY <1>4, <1>6
<1> HIDE DEF Ends
<1>8. j \in 0 .. size - 1 /\ Ends(j)
  BY <1>5, <1>7
<1> HIDE DEF j
<1>9. QED
  BY <1>1, <1>8 DEF Ends, FreeAt

\* One step of the rehash.
Placed(slots, epoch, pool, n) ==
  [slots EXCEPT ![Free(slots, epoch, Fp(pool, n))] = [tag |-> epoch, fp |-> Fp(pool, n) % Tags, at |-> n]]
GrownTo(slots, size, epoch, pool, m) ==
  /\ Stands(slots, size, epoch, pool, m) /\ Size(slots) = size
  /\ \A s \in DOMAIN slots : slots[s].tag <= epoch

LEMMA PlacedGrows ==
  ASSUME NEW slots, NEW size \in Nat \ {0}, NEW epoch \in Nat, NEW pool, NEW m \in Nat, m < size,
         GrownTo(slots, size, epoch, pool, m), \A n \in 1 .. m + 1 : Fp(pool, n) \in Nat
  PROVE  GrownTo(Placed(slots, epoch, pool, m + 1), size, epoch, pool, m + 1)
<1> DEFINE fp == Fp(pool, m + 1)
           to == Free(slots, epoch, fp)
           entry == [tag |-> epoch, fp |-> Fp(pool, m + 1) % Tags, at |-> m + 1]
           new == [slots EXCEPT ![to] = entry]
<1>1. fp \in Nat
  OBVIOUS
<1>2. PICK j \in 0 .. size - 1 :
        /\ to = (fp + j) % size /\ slots[(fp + j) % size].tag # epoch
        /\ \A i \in 0 .. j - 1 : slots[(fp + i) % size].tag = epoch
  <2> HIDE DEF fp
  <2>1. PICK j \in 0 .. size - 1 : FreeAt(slots, size, epoch, fp, j)
    BY <1>1, FreeIs DEF GrownTo
  <2>2. QED
    BY <2>1 DEF FreeAt
<1> HIDE DEF to
<1>3. Stands(new, size, epoch, pool, m + 1)
  BY <1>2, PlaceStands DEF GrownTo
<1>4. DOMAIN new = DOMAIN slots /\ entry.tag = epoch
  OBVIOUS
<1>5. \A s \in DOMAIN slots : new[s].tag <= epoch
  <2> HIDE DEF entry
  <2>1. ASSUME NEW s \in DOMAIN slots PROVE new[s].tag <= epoch
    <3>1. new[s] = entry \/ new[s] = slots[s]
      OBVIOUS
    <3>2. epoch <= epoch
      OBVIOUS
    <3>3. QED
      BY <1>4, <3>1, <3>2 DEF GrownTo
  <2>2. QED
    BY <2>1
<1>6. new = Placed(slots, epoch, pool, m + 1)
  BY Zenon DEF Placed, to
<1> HIDE DEF new
<1>7. Size(new) = size
  BY <1>4 DEF Size, GrownTo
<1>8. QED
  BY <1>3, <1>4, <1>5, <1>6, <1>7 DEF GrownTo

\* The rehash, over the entries of every set of entries.
Numbered(t) == [n \in 1 .. Len(t.pool) |-> n]
Rehashing(t, f, sets) ==
  f = [s \in sets |-> IF s = {} THEN Epoch0(2 * t.size)
                      ELSE Placed(f[s \ {Max(s)}], t.epoch, t.pool, Numbered(t)[Max(s)])]

LEMMA GrowIs ==
  ASSUME NEW t
  PROVE  GrowAndRehash(t) =
           [t EXCEPT !.slots = (CHOOSE f : Rehashing(t, f, SUBSET DOMAIN Numbered(t)))[DOMAIN Numbered(t)],
                     !.size = 2 * t.size]
BY Zenon DEF GrowAndRehash, FoldLeft, MapThenFoldSet, Rehashing, Placed, Numbered, Fp

LEMMA GreatestIs ==
  ASSUME NEW n \in Nat \ {0}, NEW s \in SUBSET (1 .. n), n \in s
  PROVE  Max(s) = n
<1>1. \A y \in s : n >= y
  OBVIOUS
<1>2. \A x \in s : x >= n => x = n
  OBVIOUS
<1>3. Max(s) \in s /\ Max(s) >= n
  BY <1>1 DEF Max
<1>4. QED
  BY <1>2, <1>3

LEMMA RehashingExists ==
  ASSUME NEW t
  PROVE  \A n \in Nat : \E f : Rehashing(t, f, SUBSET (1 .. n))
<1> DEFINE S == {n \in Nat : ~ \E f : Rehashing(t, f, SUBSET (1 .. n))}
           To1(slots, n) == Placed(slots, t.epoch, t.pool, Numbered(t)[n])
<1>1. SUFFICES ASSUME S # {} PROVE FALSE
  OBVIOUS
<1>2. PICK n \in S : \A k \in 0 .. n - 1 : k \notin S
  BY <1>1, LeastElement
<1>3. CASE n = 0
  <2> DEFINE f == [s \in SUBSET (1 .. 0) |-> Epoch0(2 * t.size)]
  <2>1. \A s \in SUBSET (1 .. 0) : s = {}
    OBVIOUS
  <2>2. Rehashing(t, f, SUBSET (1 .. 0))
    BY <2>1 DEF Rehashing
  <2>3. QED
    BY <1>2, <1>3, <2>2
<1>4. CASE n # 0
  <2> DEFINE A == 1 .. n - 1
             B == 1 .. n
  <2>1. n \in Nat \ {0} /\ n - 1 \in Nat /\ n - 1 \in 0 .. n - 1
    BY <1>2, <1>4
  <2>2. PICK f : Rehashing(t, f, SUBSET A)
    BY <1>2, <2>1
  <2> DEFINE g == [s \in SUBSET B |-> IF s \in SUBSET A THEN f[s] ELSE To1(f[s \ {n}], n)]
  <2>3. A \subseteq B /\ \A s \in SUBSET B : s \notin SUBSET A => n \in s /\ s # {} /\ s \ {n} \in SUBSET A
    BY <2>1
  <2>4. ASSUME NEW s \in SUBSET B
        PROVE  g[s] = IF s = {} THEN Epoch0(2 * t.size) ELSE To1(g[s \ {Max(s)}], Max(s))
    <3>1. CASE s \in SUBSET A
      <4>1. g[s] = f[s] /\ g[s \ {Max(s)}] = f[s \ {Max(s)}]
        BY <2>3, <3>1
      <4>2. f[s] = IF s = {} THEN Epoch0(2 * t.size) ELSE To1(f[s \ {Max(s)}], Max(s))
        BY <2>2, <3>1 DEF Rehashing
      <4> HIDE DEF g, To1
      <4>3. QED
        BY <4>1, <4>2
    <3>2. CASE s \notin SUBSET A
      <4>1. n \in s /\ s # {} /\ s \ {n} \in SUBSET A
        BY <2>3, <3>2
      <4>2. Max(s) = n
        BY <2>1, <4>1, GreatestIs
      <4>3. g[s] = To1(f[s \ {n}], n) /\ g[s \ {n}] = f[s \ {n}]
        <5> HIDE DEF To1
        <5>1. QED
          BY <2>3, <3>2, <4>1
      <4> HIDE DEF g, To1
      <4>4. QED
        BY <4>1, <4>2, <4>3
    <3>3. QED
      BY <3>1, <3>2
  <2>5. g = [s \in SUBSET B |-> g[s]]
    OBVIOUS
  <2> HIDE DEF g
  <2>6. Rehashing(t, g, SUBSET B)
    BY <2>4, <2>5 DEF Rehashing
  <2>7. QED
    BY <1>2, <2>6
<1>5. QED
  BY <1>3, <1>4

\* No table holds more entries than it has slots.
LEMMA PoolFits ==
  ASSUME NEW slots, NEW size \in Nat \ {0}, NEW epoch, NEW pool, NEW m \in Nat, Stands(slots, size, epoch, pool, m),
         \A n \in 1 .. m : Fp(pool, n) \in Nat
  PROVE  m <= size
<1> DEFINE S == 0 .. size - 1
           N == 1 .. m
           Of(n) == CHOOSE s \in S : slots[s].at = n
           f == [n \in N |-> Of(n)]
<1>1. IsFiniteSet(S) /\ Cardinality(S) = size /\ IsFiniteSet(N) /\ Cardinality(N) = m
  BY IntervalIs
<1>2. ASSUME NEW n \in N PROVE Of(n) \in S /\ slots[Of(n)].at = n
  <2>1. PICK j \in 0 .. size - 1 : Reached(slots, size, epoch, Fp(pool, n), j, n)
    BY DEF Stands
  <2>2. j \in Nat /\ Fp(pool, n) \in Nat
    OBVIOUS
  <2>3. (Fp(pool, n) + j) % size \in S
    BY <2>2, ProbeIs
  <2>4. slots[(Fp(pool, n) + j) % size].at = n
    BY <2>1 DEF Reached
  <2>5. \E s \in S : slots[s].at = n
    BY <2>3, <2>4
  <2>6. QED
    BY <2>5
<1> HIDE DEF Of
<1>3. f \in Injection(N, S)
  <2>1. f \in [N -> S] /\ \A n, k \in N : f[n] = f[k] => n = k
    <3>1. ASSUME NEW n \in N, NEW k \in N, f[n] = f[k] PROVE n = k
      <4>1. slots[f[n]].at = n /\ slots[f[k]].at = k
        BY <1>2
      <4>2. QED
        BY <3>1, <4>1
    <3>2. QED
      BY <1>2, <3>1
  <2> HIDE DEF f, S, N
  <2>2. QED
    BY <2>1 DEF Injection, IsInjective
<1>4. Cardinality(N) <= Cardinality(S)
  <2> HIDE DEF f, S, N
  <2>1. QED
    BY <1>1, <1>3, FS_Injection
<1>5. QED
  BY <1>1, <1>4

LEMMA GrowStands ==
  ASSUME NEW t, TableOK(t)
  PROVE  LET u == GrowAndRehash(t)
         IN  TableOK(u) /\ u.pool = t.pool /\ u.size = 2 * t.size /\ u.epoch = t.epoch /\ u.dyn = t.dyn /\ Len(u.pool) < u.size
<1> DEFINE N == Len(t.pool)
           size == 2 * t.size
           f == CHOOSE g : Rehashing(t, g, SUBSET (1 .. N))
           Done(k) == GrownTo(f[1 .. k], size, t.epoch, t.pool, k)
           S == {k \in Nat : k <= N /\ ~Done(k)}
           u == GrowAndRehash(t)
<1>1. /\ PoolOK(t.pool) /\ t.size \in Nat \ {0} /\ Stands(t.slots, t.size, t.epoch, t.pool, Len(t.pool))
      /\ TagsOK(t) /\ t.epoch \in Nat \ {0}
      /\ \A i \in DOMAIN t.fc : t.fc[i].tag = t.epoch => t.fc[i].at \in DOMAIN t.pool
  <2>1. t.epoch \in 1 .. Tags - 1 /\ Tags \in Nat
    BY TableAssumption DEF TableOK
  <2>2. QED
    BY <2>1 DEF TableOK
<1>2. N \in Nat /\ DOMAIN t.pool = 1 .. N /\ \A n \in 1 .. N : Fp(t.pool, n) \in Nat
  <2>1. N \in Nat /\ DOMAIN t.pool = 1 .. N
    BY <1>1, PoolIs
  <2> HIDE DEF N
  <2>2. QED
    BY <1>1, <2>1 DEF PoolOK
<1>3. N <= t.size
  <2> HIDE DEF N
  <2>1. Stands(t.slots, t.size, t.epoch, t.pool, N)
    BY <1>1 DEF N
  <2>2. QED
    BY <1>1, <1>2, <2>1, PoolFits
<1>4. size \in Nat \ {0} /\ N < size
  <2> HIDE DEF N
  <2>1. QED
    BY <1>1, <1>2, <1>3
<1>5. DOMAIN Numbered(t) = 1 .. N /\ \A n \in 1 .. N : Numbered(t)[n] = n
  BY DEF Numbered
<1>6. u = [t EXCEPT !.slots = f[1 .. N], !.size = size]
  BY Zenon, <1>5, GrowIs
<1>7. Rehashing(t, f, SUBSET (1 .. N))
  BY <1>2, RehashingExists
<1> HIDE DEF f, N, size, u
<1>8. Done(0)
  <2>1. 1 .. 0 = {} /\ {} \in SUBSET (1 .. N)
    OBVIOUS
  <2>2. f[1 .. 0] = Epoch0(size)
    BY <1>7, <2>1 DEF Rehashing, size
  <2>3. \A s \in DOMAIN Epoch0(size) : Epoch0(size)[s].tag <= t.epoch
    BY <1>1, <1>4, Epoch0Is
  <2>4. Stands(Epoch0(size), size, t.epoch, t.pool, 0) /\ Size(Epoch0(size)) = size
    BY <1>1, <1>4, Epoch0Is
  <2>5. QED
    BY <2>2, <2>3, <2>4 DEF GrownTo
<1>9. ASSUME NEW k \in Nat, k < N, Done(k) PROVE Done(k + 1)
  <2> DEFINE a == 1 .. k + 1
  <2>1. a \in SUBSET (1 .. N) /\ a # {} /\ k + 1 \in Nat \ {0} /\ k + 1 \in a /\ a \in SUBSET (1 .. k + 1) /\ a \ {k + 1} = 1 .. k /\ k + 1 \in 1 .. N
    <3>1. k + 1 \in Nat \ {0} /\ k + 1 \in 1 .. N /\ k + 1 \in a
      BY <1>2, <1>9
    <3>2. a \subseteq 1 .. N
      BY <1>2, <1>9
    <3>3. a \ {k + 1} = 1 .. k
      OBVIOUS
    <3> HIDE DEF a
    <3>4. a \in SUBSET (1 .. N) /\ a # {}
      BY <3>1, <3>2
    <3>5. a \in SUBSET (1 .. k + 1)
      BY DEF a
    <3>6. QED
      BY <3>1, <3>3, <3>4, <3>5
  <2>2. Max(a) = k + 1
    <3> HIDE DEF a
    <3>1. QED
      BY <2>1, GreatestIs
  <2>3. f[a] = Placed(f[a \ {Max(a)}], t.epoch, t.pool, Numbered(t)[Max(a)])
    <3> HIDE DEF a
    <3>1. QED
      BY <1>7, <2>1 DEF Rehashing
  <2>4. f[1 .. k + 1] = Placed(f[1 .. k], t.epoch, t.pool, k + 1)
    <3>1. Numbered(t)[k + 1] = k + 1
      BY <1>5, <2>1
    <3> HIDE DEF a
    <3>2. a \ {Max(a)} = 1 .. k /\ Numbered(t)[Max(a)] = k + 1
      BY <2>1, <2>2, <3>1
    <3>3. f[a] = Placed(f[1 .. k], t.epoch, t.pool, k + 1)
      BY Zenon, <2>3, <3>2
    <3>4. QED
      BY Zenon, <3>3 DEF a
  <2>5. \A n \in 1 .. k + 1 : Fp(t.pool, n) \in Nat
    BY <1>2, <1>9
  <2>6. k < size
    BY <1>2, <1>4, <1>9
  <2>7. GrownTo(Placed(f[1 .. k], t.epoch, t.pool, k + 1), size, t.epoch, t.pool, k + 1)
    BY <1>1, <1>4, <1>9, <2>5, <2>6, PlacedGrows
  <2>8. QED
    BY <2>4, <2>7
<1>10. Done(N)
  <2> HIDE DEF Done
  <2>1. SUFFICES ASSUME ~Done(N) PROVE FALSE
    OBVIOUS
  <2>2. N \in S
    BY <1>2, <2>1
  <2>3. PICK k \in S : \A i \in 0 .. k - 1 : i \notin S
    BY <2>2, LeastElement
  <2>4. k # 0
    BY <1>8, <2>3
  <2>5. k - 1 \in Nat /\ k - 1 < N /\ k - 1 \in 0 .. k - 1 /\ k - 1 <= N /\ (k - 1) + 1 = k
    BY <1>2, <2>3, <2>4
  <2>6. Done(k - 1)
    BY <2>3, <2>5
  <2>7. Done((k - 1) + 1)
    BY <1>9, <2>5, <2>6
  <2>8. QED
    BY <2>3, <2>5, <2>7
<1> DEFINE slots == f[1 .. N]
<1>11. u = [slots |-> slots, size |-> size, fc |-> t.fc, pool |-> t.pool, epoch |-> t.epoch, dyn |-> t.dyn]
  <2>1. t = [slots |-> t.slots, size |-> t.size, fc |-> t.fc, pool |-> t.pool, epoch |-> t.epoch, dyn |-> t.dyn]
    BY DEF TableOK
  <2> HIDE DEF slots
  <2>2. u = [t EXCEPT !.slots = slots, !.size = size]
    BY <1>6 DEF slots
  <2>3. QED
    BY <2>1, <2>2
<1>12. Stands(slots, size, t.epoch, t.pool, Len(t.pool)) /\ \A s \in DOMAIN slots : slots[s].tag <= t.epoch
  BY <1>10 DEF GrownTo, N
<1> HIDE DEF slots
<1>13. TableOK(u)
  BY <1>1, <1>4, <1>11, <1>12, TableFrom DEF TagsOK
<1>14. u.pool = t.pool /\ u.size = size /\ u.epoch = t.epoch /\ u.dyn = t.dyn
  BY <1>11
<1>15. QED
  BY <1>4, <1>13, <1>14 DEF size, u, N

\* A front-cache entry of this generation tells the truth.
LEMMA FrontHitMerges ==
  ASSUME NEW t, TableOK(t), NEW state, StateFingerprint(state) \in Nat, NEW mult \in Nat, FrontHit(t, state)
  PROVE  LET u == AddTo(t, t.fc[FcIndex(t, StateFingerprint(state))].at, mult)
         IN  TableOK(u) /\ u.pool = Merge(t.pool, state, mult) /\ u.size = t.size /\ u.epoch = t.epoch /\ u.dyn = t.dyn
<1> DEFINE fp == StateFingerprint(state)
           f0 == FcIndex(t, fp)
           at == t.fc[f0].at
           size == Size(t.fc)
<1>1. DOMAIN t.fc # {} /\ t.fc[f0].tag = t.epoch /\ Holds(t, at, state)
  BY DEF FrontHit
<1>2. ArrayOK(t.fc) /\ \A f \in DOMAIN t.fc : t.fc[f].tag = t.epoch => t.fc[f].at \in DOMAIN t.pool
  BY DEF TableOK, TagsOK
<1>3. size \in Nat \ {0} /\ DOMAIN t.fc = 0 .. size - 1
  <2>1. size \in Nat /\ DOMAIN t.fc = 0 .. size - 1
    BY <1>2 DEF ArrayOK
  <2>2. QED
    BY <1>1, <2>1
<1>4. f0 \in DOMAIN t.fc
  <2> DEFINE x == fp \div 2
  <2>1. x \in Nat
    BY QuotientIs
  <2> HIDE DEF x
  <2>2. x % size \in 0 .. size - 1
    BY <1>3, <2>1, QuotientIs
  <2>3. QED
    BY <1>3, <2>2 DEF x, FcIndex, Size
<1> HIDE DEF f0
<1>5. at \in DOMAIN t.pool
  BY <1>1, <1>2, <1>4
<1>6. t.pool[at].state = state
  BY <1>1, <1>5 DEF Holds
<1> HIDE DEF at
<1>7. QED
  BY <1>5, <1>6, AddedTo DEF at, f0

-----------------------------------------------------------------------------
(* What the tables promise.                                                *)

\* An insert into a table in use -- insert_fp_result, with its front cache, its
\* probes and its growth -- does to the pool exactly what a search of the whole
\* pool for the state would: the multiplicity of the entry with that state is
\* raised, or the state is appended, and the table can be used as before.
\* Fingerprints may collide and their tags may be equal; a table that does not
\* grow needs a free slot.
THEOREM InsertMerges ==
  ASSUME NEW t, TableOK(t), HasRoom(t), NEW state, StateFingerprint(state) \in Nat, NEW mult \in Nat
  PROVE  /\ TableOK(Insert(t, state, mult))
         /\ Insert(t, state, mult).pool = Merge(t.pool, state, mult)
         /\ Insert(t, state, mult).epoch = t.epoch /\ Insert(t, state, mult).dyn = t.dyn
         /\ ~t.dyn => Insert(t, state, mult).size = t.size
<1> DEFINE full == t.dyn /\ 2 * Len(t.pool) >= t.size
<1>1. CASE FrontHit(t, state)
  <2>1. Insert(t, state, mult) = AddTo(t, t.fc[FcIndex(t, StateFingerprint(state))].at, mult)
    BY Zenon, <1>1 DEF Insert
  <2>2. QED
    BY <1>1, <2>1, FrontHitMerges
<1>2. CASE ~FrontHit(t, state) /\ full
  <2> DEFINE u == GrowAndRehash(t)
  <2>1. Insert(t, state, mult) = InsertSlots(u, state, mult)
    BY Zenon, <1>2 DEF Insert
  <2>2. TableOK(u) /\ u.pool = t.pool /\ u.epoch = t.epoch /\ u.dyn = t.dyn /\ Len(u.pool) < u.size
    BY GrowStands
  <2> HIDE DEF u
  <2> DEFINE v == InsertSlots(u, state, mult)
  <2>3. TableOK(v) /\ v.pool = Merge(u.pool, state, mult) /\ v.epoch = u.epoch /\ v.dyn = u.dyn
    BY <2>2, InsertSlotsMerges
  <2>4. QED
    BY <1>2, <2>1, <2>2, <2>3
<1>3. CASE ~FrontHit(t, state) /\ ~full
  <2>1. Insert(t, state, mult) = InsertSlots(t, state, mult)
    BY Zenon, <1>3 DEF Insert
  <2>2. Len(t.pool) < t.size
    <3>1. t.size \in Nat /\ Len(t.pool) \in Nat /\ t.dyn \in BOOLEAN
      BY PoolIs DEF TableOK
    <3>2. QED
      BY <1>3, <3>1 DEF HasRoom
  <2>3. QED
    BY <2>1, <2>2, InsertSlotsMerges
<1>4. QED
  BY <1>1, <1>2, <1>3

\* A table between two generations: what has been put into it, in this one and in
\* those before, left no tag ahead of the table's.
Resettable(t) ==
  /\ t = [slots |-> t.slots, size |-> t.size, fc |-> t.fc, pool |-> t.pool, epoch |-> t.epoch, dyn |-> t.dyn]
  /\ ArrayOK(t.slots) /\ t.epoch \in 0 .. Tags - 1 /\ t.dyn \in BOOLEAN /\ TagsOK(t)

LEMMA UsedIsResettable ==
  ASSUME NEW t, TableOK(t)
  PROVE  Resettable(t)
<1>1. t.epoch \in 0 .. Tags - 1
  <2>1. t.epoch \in 1 .. Tags - 1 /\ Tags \in Nat
    BY TableAssumption DEF TableOK
  <2>2. QED
    BY <2>1
<1>2. ArrayOK(t.slots)
  BY DEF TableOK, Stands
<1>3. QED
  BY <1>1, <1>2 DEF TableOK, Resettable

LEMMA NewIsResettable ==
  ASSUME NEW dyn \in BOOLEAN, NEW cache \in Nat
  PROVE  Resettable(NewTable(dyn, cache)) /\ NewTable(dyn, cache).epoch = 0
<1> DEFINE t == NewTable(dyn, cache)
<1>1. t = [slots |-> << >>, size |-> 0, fc |-> Epoch0(cache), pool |-> << >>, epoch |-> 0, dyn |-> dyn]
  BY DEF NewTable
<1> HIDE DEF t
<1>2. t.slots = << >> /\ t.size = 0 /\ t.fc = Epoch0(cache) /\ t.pool = << >> /\ t.epoch = 0 /\ t.dyn = dyn
  BY <1>1
<1>3. DOMAIN t.slots = {} /\ t.slots \in [0 .. 0 - 1 -> Slot]
  <2>1. 0 .. 0 - 1 = {} /\ DOMAIN << >> = {}
    OBVIOUS
  <2>2. \A f : DOMAIN f = {} /\ f = << >> => f \in [{} -> Slot]
    OBVIOUS
  <2>3. QED
    BY <1>2, <2>1, <2>2
<1>4. ArrayOK(t.slots)
  <2>1. Size(t.slots) = 0
    BY <1>3, FS_EmptySet DEF Size
  <2>2. QED
    BY <1>3, <2>1 DEF ArrayOK
<1>5. TagsOK(t)
  <2>1. ArrayOK(Epoch0(cache)) /\ \A f \in DOMAIN Epoch0(cache) : Epoch0(cache)[f].tag = 0
    <3>1. 1 \in Nat \ {0}
      OBVIOUS
    <3>2. QED
      BY <3>1, Epoch0Is
  <2>2. \A f \in DOMAIN t.fc : t.fc[f].tag <= t.epoch
    BY <1>2, <2>1
  <2>3. QED
    BY <1>2, <1>3, <2>1, <2>2 DEF TagsOK
<1>6. t.epoch \in 0 .. Tags - 1
  BY <1>2, TableAssumption
<1>7. QED
  BY <1>1, <1>2, <1>4, <1>5, <1>6 DEF Resettable, t

LEMMA RestaleIs ==
  ASSUME NEW entries, ArrayOK(entries)
  PROVE  /\ ArrayOK(Restale(entries)) /\ Size(Restale(entries)) = Size(entries)
         /\ \A s \in DOMAIN Restale(entries) : Restale(entries)[s].tag = 0
<1> DEFINE new == Restale(entries)
<1>1. DOMAIN new = DOMAIN entries /\ \A s \in DOMAIN entries : new[s] = [entries[s] EXCEPT !.tag = 0]
  BY DEF Restale
<1>2. new = [s \in DOMAIN entries |-> new[s]]
  BY DEF Restale
<1>3. DOMAIN entries = 0 .. Size(entries) - 1 /\ \A s \in DOMAIN entries : entries[s] \in Slot
  BY DEF ArrayOK
<1> HIDE DEF new
<1>4. \A s \in DOMAIN entries : new[s] \in Slot /\ new[s].tag = 0
  BY <1>1, <1>3 DEF Slot
<1>5. Size(new) = Size(entries)
  BY <1>1 DEF Size
<1>6. new \in [0 .. Size(entries) - 1 -> Slot]
  BY <1>2, <1>3, <1>4
<1>7. ArrayOK(new)
  BY <1>5, <1>6 DEF ArrayOK
<1>8. QED
  BY <1>1, <1>4, <1>5, <1>7 DEF new

\* Slots all of which are free.
LEMMA FreshTable ==
  ASSUME NEW t, NEW slots, NEW size \in Nat \ {0}, NEW fc, NEW epoch \in 1 .. Tags - 1, NEW dyn \in BOOLEAN,
         ArrayOK(slots), size <= Size(slots), \A s \in DOMAIN slots : slots[s].tag < epoch,
         ArrayOK(fc), \A f \in DOMAIN fc : fc[f].tag < epoch,
         t = [slots |-> slots, size |-> size, fc |-> fc, pool |-> << >>, epoch |-> epoch, dyn |-> dyn]
  PROVE  TableOK(t) /\ t.pool = << >> /\ t.size = size /\ t.dyn = dyn
<1>1. t.slots = slots /\ t.size = size /\ t.fc = fc /\ t.pool = << >> /\ t.epoch = epoch /\ t.dyn = dyn
  OBVIOUS
<1>2. t = [slots |-> t.slots, size |-> t.size, fc |-> t.fc, pool |-> t.pool, epoch |-> t.epoch, dyn |-> t.dyn]
  BY <1>1
<1>3. epoch \in Nat
  BY TableAssumption
<1>4. (\A s \in DOMAIN slots : slots[s].tag \in Nat) /\ DOMAIN slots = 0 .. Size(slots) - 1 /\ \A f \in DOMAIN fc : fc[f].tag \in Nat
  BY DEF ArrayOK, Slot
<1>5. \A s \in 0 .. size - 1 : s \in DOMAIN slots
  BY <1>4 DEF ArrayOK
<1>6. (\A s \in DOMAIN slots : slots[s].tag <= epoch /\ slots[s].tag # epoch)
      /\ \A f \in DOMAIN fc : fc[f].tag <= epoch /\ fc[f].tag # epoch
  BY <1>3, <1>4
<1>7. Stands(slots, size, epoch, << >>, 0)
  BY <1>5, <1>6 DEF Stands
<1>8. PoolOK(<< >>) /\ Len(<< >>) = 0
  BY DEF PoolOK
<1>9. TagsOK(t)
  BY <1>1, <1>6 DEF TagsOK
<1>10. QED
  BY <1>1, <1>2, <1>6, <1>7, <1>8, <1>9 DEF TableOK

\* Resetting a table -- FlatTable::reset -- makes it a table in use that holds
\* nothing, however many generations its slots have been through and however its
\* 16-bit tags wrapped: no slot and no front-cache entry of an earlier generation
\* passes for one of this.  It takes for granted that the reset does not rebuild
\* the slots of a table whose front cache has been in use: the rebuild sets the
\* epoch back to 1 and leaves the front cache alone.
THEOREM ResetIsFresh ==
  ASSUME NEW t, Resettable(t), NEW expected, t.dyn \/ StaticSize(expected) \in Nat \ {0},
         DOMAIN t.fc = {} \/ t.epoch = 0 \/ SizeFor(t, expected) <= NSlots(t)
  PROVE  /\ TableOK(Reset(t, expected)) /\ Reset(t, expected).pool = << >>
         /\ Reset(t, expected).size = SizeFor(t, expected) /\ Reset(t, expected).dyn = t.dyn
<1> DEFINE size == SizeFor(t, expected)
           n == NSlots(t)
           u == Reset(t, expected)
<1>1. /\ t = [slots |-> t.slots, size |-> t.size, fc |-> t.fc, pool |-> t.pool, epoch |-> t.epoch, dyn |-> t.dyn]
      /\ ArrayOK(t.slots) /\ t.epoch \in 0 .. Tags - 1 /\ t.dyn \in BOOLEAN /\ ArrayOK(t.fc)
      /\ \A s \in DOMAIN t.slots : t.slots[s].tag <= t.epoch
      /\ \A f \in DOMAIN t.fc : t.fc[f].tag <= t.epoch
  BY DEF Resettable, TagsOK
<1>2. n \in Nat /\ n = Size(t.slots)
  BY <1>1 DEF NSlots, Size, ArrayOK
<1>3. size \in Nat \ {0}
  <2>1. CASE t.dyn
    <3> DEFINE M == {n, DynFloor}
    <3>1. \E x \in M : \A y \in M : x >= y
      BY <1>2, TableAssumption
    <3>2. Max(M) \in M /\ \A y \in M : Max(M) >= y
      BY <3>1 DEF Max
    <3>3. size = Max(M)
      BY <2>1 DEF SizeFor
    <3> HIDE DEF size
    <3>4. size \in {n, DynFloor} /\ size >= DynFloor
      BY <3>2, <3>3
    <3>5. QED
      BY <1>2, <3>4, TableAssumption
  <2>2. CASE ~t.dyn
    BY <2>2 DEF SizeFor
  <2>3. QED
    BY <1>1, <2>1, <2>2
<1>4. (t.epoch + 1) % Tags = IF t.epoch = Tags - 1 THEN 0 ELSE t.epoch + 1
  <2>1. Tags \in Nat \ {0} /\ 0 \in Nat /\ 1 \in Nat
    BY TableAssumption
  <2>2. CASE t.epoch = Tags - 1
    <3>1. (Tags * 1 + 0) % Tags = 0
      BY <2>1, RemainderIs
    <3>2. Tags * 1 + 0 = t.epoch + 1
      BY <2>1, <2>2
    <3>3. QED
      BY <2>2, <3>1, <3>2
  <2>3. CASE t.epoch # Tags - 1
    <3> DEFINE e == t.epoch + 1
    <3>1. e \in 0 .. Tags - 1
      BY <1>1, <2>1, <2>3
    <3>2. (Tags * 0 + e) % Tags = e
      <4> HIDE DEF e
      <4>1. QED
        BY <2>1, <3>1, RemainderIs
    <3>3. Tags * 0 + e = e
      BY <2>1, <3>1
    <3>4. QED
      BY <2>3, <3>2, <3>3
  <2>4. QED
    BY <2>2, <2>3
<1>5. \A s \in DOMAIN t.slots : t.slots[s].tag \in Nat
  BY <1>1 DEF ArrayOK, Slot
<1>6. \A f \in DOMAIN t.fc : t.fc[f].tag \in Nat
  BY <1>1 DEF ArrayOK, Slot
<1>7. 1 \in 1 .. Tags - 1 /\ Tags \in Nat /\ t.epoch \in Nat
  BY <1>1, TableAssumption
<1> HIDE DEF size, n
<1>8. CASE n < size
  <2> DEFINE slots == Epoch0(size)
  <2>1. u = [[t EXCEPT !.size = size, !.pool = << >>] EXCEPT !.slots = slots, !.epoch = 1]
    <3>1. ~(n >= size)
      BY <1>2, <1>3, <1>8
    <3>2. QED
      BY Zenon, <1>8, <3>1 DEF Reset, size, n
  <2>2. ArrayOK(slots) /\ Size(slots) = size /\ \A s \in DOMAIN slots : slots[s].tag = 0
    <3>1. size \in Nat /\ 1 \in Nat \ {0}
      BY <1>3
    <3>2. ArrayOK(Epoch0(size)) /\ Size(Epoch0(size)) = size /\ \A s \in DOMAIN Epoch0(size) : Epoch0(size)[s].tag = 0
      BY ONLY <3>1, Epoch0Is
    <3>3. QED
      BY Zenon, <3>2
  <2> HIDE DEF slots, u
  <2>3. u = [slots |-> slots, size |-> size, fc |-> t.fc, pool |-> << >>, epoch |-> 1, dyn |-> t.dyn]
    BY <1>1, <2>1
  <2>4. \A f \in DOMAIN t.fc : t.fc[f].tag < 1
    <3>1. DOMAIN t.fc = {} \/ t.epoch = 0
      BY <1>2, <1>3, <1>8 DEF size, n
    <3>2. QED
      BY <1>1, <1>6, <3>1
  <2>5. \A s \in DOMAIN slots : slots[s].tag < 1
    BY <2>2
  <2>6. size <= Size(slots)
    <3>1. size <= size /\ Size(slots) = size
      BY <1>3, <2>2
    <3>2. QED
      BY Zenon, <3>1
  <2>7. QED
    BY <1>1, <1>3, <1>7, <2>2, <2>3, <2>4, <2>5, <2>6, FreshTable DEF u, size
<1>9. CASE n >= size /\ (t.epoch + 1) % Tags = 0
  <2> DEFINE slots == Restale(t.slots)
             fc == Restale(t.fc)
  <2>1. ~(n < size)
    BY <1>2, <1>3, <1>9
  <2>2. u = [[t EXCEPT !.size = size, !.pool = << >>] EXCEPT !.slots = Restale(@), !.fc = Restale(@), !.epoch = 1]
    BY Zenon, <1>9, <2>1 DEF Reset, size, n
  <2>3. ArrayOK(slots) /\ Size(slots) = n /\ \A s \in DOMAIN slots : slots[s].tag = 0
    BY <1>1, <1>2, RestaleIs
  <2>4. ArrayOK(fc) /\ \A f \in DOMAIN fc : fc[f].tag = 0
    BY <1>1, RestaleIs
  <2>5. u = [[t EXCEPT !.size = size, !.pool = << >>] EXCEPT !.slots = slots, !.fc = fc, !.epoch = 1]
    BY <1>1, <2>2
  <2> HIDE DEF slots, fc, u
  <2>6. u = [slots |-> slots, size |-> size, fc |-> fc, pool |-> << >>, epoch |-> 1, dyn |-> t.dyn]
    BY <1>1, <2>5
  <2>7. (\A s \in DOMAIN slots : slots[s].tag < 1) /\ \A f \in DOMAIN fc : fc[f].tag < 1
    BY <2>3, <2>4
  <2>8. size <= Size(slots)
    BY <1>2, <1>3, <1>9, <2>3
  <2>9. QED
    BY <1>1, <1>3, <1>7, <2>3, <2>4, <2>6, <2>7, <2>8, FreshTable DEF u, size
<1>10. CASE n >= size /\ (t.epoch + 1) % Tags # 0
  <2> DEFINE epoch == t.epoch + 1
  <2>1. ~(n < size)
    BY <1>2, <1>3, <1>10
  <2>2. u = [[t EXCEPT !.size = size, !.pool = << >>] EXCEPT !.epoch = @ + 1]
    BY Zenon, <1>10, <2>1 DEF Reset, size, n
  <2>3. epoch \in 1 .. Tags - 1
    BY <1>1, <1>4, <1>7, <1>10
  <2>4. (\A s \in DOMAIN t.slots : t.slots[s].tag < epoch) /\ \A f \in DOMAIN t.fc : t.fc[f].tag < epoch
    BY <1>1, <1>5, <1>6, <1>7
  <2>5. u = [[t EXCEPT !.size = size, !.pool = << >>] EXCEPT !.epoch = epoch]
    BY <1>1, <2>2
  <2> HIDE DEF epoch, u
  <2>6. u = [slots |-> t.slots, size |-> size, fc |-> t.fc, pool |-> << >>, epoch |-> epoch, dyn |-> t.dyn]
    BY <1>1, <2>5
  <2>7. size <= Size(t.slots)
    BY <1>2, <1>3, <1>10
  <2>8. QED
    BY <1>1, <1>3, <2>3, <2>4, <2>6, <2>7, FreshTable DEF u, size
<1>11. n < size \/ n >= size
  BY <1>2, <1>3
<1>12. QED
  BY <1>8, <1>9, <1>10, <1>11

LEMMA AppendedIsResettable ==
  ASSUME NEW t, Resettable(t), NEW state, NEW mult
  PROVE  Resettable(AppendPoolState(t, state, mult)) /\ Resettable(ResetPoolOnly(t))
<1>1. t = [slots |-> t.slots, size |-> t.size, fc |-> t.fc, pool |-> t.pool, epoch |-> t.epoch, dyn |-> t.dyn]
  BY DEF Resettable
<1>2. ASSUME NEW u, NEW size, NEW pool,
             u = [slots |-> t.slots, size |-> size, fc |-> t.fc, pool |-> pool, epoch |-> t.epoch, dyn |-> t.dyn]
      PROVE  Resettable(u)
  <2>1. u.slots = t.slots /\ u.size = size /\ u.fc = t.fc /\ u.pool = pool /\ u.epoch = t.epoch /\ u.dyn = t.dyn
    BY <1>2
  <2>2. u = [slots |-> u.slots, size |-> u.size, fc |-> u.fc, pool |-> u.pool, epoch |-> u.epoch, dyn |-> u.dyn]
    BY <1>2, <2>1
  <2>3. QED
    BY <2>1, <2>2 DEF Resettable, TagsOK
<1>3. Resettable(AppendPoolState(t, state, mult))
  <2> DEFINE u == AppendPoolState(t, state, mult)
             pool == Append(t.pool, [state |-> state, mult |-> mult])
  <2>1. u = [t EXCEPT !.pool = pool]
    BY DEF AppendPoolState
  <2> HIDE DEF u, pool
  <2>2. u = [slots |-> t.slots, size |-> t.size, fc |-> t.fc, pool |-> pool, epoch |-> t.epoch, dyn |-> t.dyn]
    BY <1>1, <2>1
  <2>3. Resettable(u)
    BY <1>2, <2>2
  <2>4. QED
    BY <2>3 DEF u
<1>4. Resettable(ResetPoolOnly(t))
  <2> DEFINE u == ResetPoolOnly(t)
             pool == << >>
  <2>1. u = [t EXCEPT !.size = 1, !.pool = pool]
    BY DEF ResetPoolOnly
  <2> HIDE DEF u, pool
  <2>2. u = [slots |-> t.slots, size |-> 1, fc |-> t.fc, pool |-> pool, epoch |-> t.epoch, dyn |-> t.dyn]
    BY <1>1, <2>1
  <2>3. Resettable(u)
    BY <1>2, <2>2
  <2>4. QED
    BY <2>3 DEF u
<1>5. QED
  BY <1>3, <1>4

-----------------------------------------------------------------------------
(* Runs of inserts, of tables and of pools.                                *)

MergeAll(pool, entries) == FoldLeft(LAMBDA p, e : Merge(p, e.state, e.mult), pool, entries)

Step(table, acc, e) == IF table THEN Insert(acc, e.state, e.mult) ELSE Merge(acc, e.state, e.mult)
Folding(table, f, base, entries, sets) ==
  f = [s \in sets |-> IF s = {} THEN base ELSE Step(table, f[s \ {Max(s)}], entries[Max(s)])]
Inserting(f, base, entries, sets) ==
  f = [s \in sets |-> IF s = {} THEN base
                      ELSE Insert(f[s \ {Max(s)}], entries[Max(s)].state, entries[Max(s)].mult)]
Merging(f, base, entries, sets) ==
  f = [s \in sets |-> IF s = {} THEN base
                      ELSE Merge(f[s \ {Max(s)}], entries[Max(s)].state, entries[Max(s)].mult)]

LEMMA FoldingExists ==
  ASSUME NEW table, NEW base, NEW entries
  PROVE  \A n \in Nat : \E f : Folding(table, f, base, entries, SUBSET (1 .. n))
<1> DEFINE S == {n \in Nat : ~ \E f : Folding(table, f, base, entries, SUBSET (1 .. n))}
           On(acc, n) == Step(table, acc, entries[n])
<1>1. SUFFICES ASSUME S # {} PROVE FALSE
  OBVIOUS
<1>2. PICK n \in S : \A k \in 0 .. n - 1 : k \notin S
  BY <1>1, LeastElement
<1>3. CASE n = 0
  <2> DEFINE f == [s \in SUBSET (1 .. 0) |-> base]
  <2>1. \A s \in SUBSET (1 .. 0) : s = {}
    OBVIOUS
  <2>2. Folding(table, f, base, entries, SUBSET (1 .. 0))
    BY <2>1 DEF Folding
  <2>3. QED
    BY <1>2, <1>3, <2>2
<1>4. CASE n # 0
  <2> DEFINE A == 1 .. n - 1
             B == 1 .. n
  <2>1. n \in Nat \ {0} /\ n - 1 \in Nat /\ n - 1 \in 0 .. n - 1
    BY <1>2, <1>4
  <2>2. PICK f : Folding(table, f, base, entries, SUBSET A)
    BY <1>2, <2>1
  <2> DEFINE g == [s \in SUBSET B |-> IF s \in SUBSET A THEN f[s] ELSE On(f[s \ {n}], n)]
  <2>3. A \subseteq B /\ \A s \in SUBSET B : s \notin SUBSET A => n \in s /\ s # {} /\ s \ {n} \in SUBSET A
    BY <2>1
  <2>4. ASSUME NEW s \in SUBSET B
        PROVE  g[s] = IF s = {} THEN base ELSE On(g[s \ {Max(s)}], Max(s))
    <3>1. CASE s \in SUBSET A
      <4>1. g[s] = f[s] /\ g[s \ {Max(s)}] = f[s \ {Max(s)}]
        BY <2>3, <3>1
      <4>2. f[s] = IF s = {} THEN base ELSE On(f[s \ {Max(s)}], Max(s))
        BY <2>2, <3>1 DEF Folding
      <4> HIDE DEF g, On
      <4>3. QED
        BY <4>1, <4>2
    <3>2. CASE s \notin SUBSET A
      <4>1. n \in s /\ s # {} /\ s \ {n} \in SUBSET A
        BY <2>3, <3>2
      <4>2. Max(s) = n
        BY <2>1, <4>1, GreatestIs
      <4>3. g[s] = On(f[s \ {n}], n) /\ g[s \ {n}] = f[s \ {n}]
        <5> HIDE DEF On
        <5>1. QED
          BY <2>3, <3>2, <4>1
      <4> HIDE DEF g, On
      <4>4. QED
        BY <4>1, <4>2, <4>3
    <3>3. QED
      BY <3>1, <3>2
  <2>5. g = [s \in SUBSET B |-> g[s]]
    OBVIOUS
  <2> HIDE DEF g
  <2>6. Folding(table, g, base, entries, SUBSET B)
    BY <2>4, <2>5 DEF Folding
  <2>7. QED
    BY <1>2, <2>6
<1>5. QED
  BY <1>3, <1>4

\* The two folds, prefix by prefix.
Prefixed(table, f, base, entries, n) ==
  f[1 .. 0] = base /\ \A k \in 0 .. n - 1 : f[1 .. k + 1] = Step(table, f[1 .. k], entries[k + 1])

LEMMA PrefixIs ==
  ASSUME NEW table, NEW f, NEW base, NEW entries, NEW n \in Nat, Folding(table, f, base, entries, SUBSET (1 .. n))
  PROVE  Prefixed(table, f, base, entries, n)
<1>1. 1 .. 0 = {} /\ {} \in SUBSET (1 .. n)
  OBVIOUS
<1>2. f[1 .. 0] = base
  BY <1>1 DEF Folding
<1>3. ASSUME NEW k \in 0 .. n - 1 PROVE f[1 .. k + 1] = Step(table, f[1 .. k], entries[k + 1])
  <2> DEFINE a == 1 .. k + 1
  <2>1. k + 1 \in Nat \ {0} /\ k + 1 \in a
    OBVIOUS
  <2>2. a \ {k + 1} = 1 .. k
    OBVIOUS
  <2>3. a \in SUBSET (1 .. n) /\ a # {} /\ a \in SUBSET (1 .. k + 1)
    <3>1. a \subseteq 1 .. n
      OBVIOUS
    <3>2. QED
      BY <2>1, <3>1
  <2> HIDE DEF a
  <2>4. Max(a) = k + 1
    BY <2>1, <2>3, GreatestIs
  <2>5. f[a] = Step(table, f[a \ {Max(a)}], entries[Max(a)])
    BY <2>3 DEF Folding
  <2>6. f[a] = Step(table, f[1 .. k], entries[k + 1])
    BY Zenon, <2>2, <2>4, <2>5
  <2>7. QED
    BY Zenon, <2>6 DEF a
<1>4. QED
  BY <1>2, <1>3 DEF Prefixed

LEMMA InsertAllIs ==
  ASSUME NEW t, NEW entries, NEW n \in Nat, DOMAIN entries = 1 .. n
  PROVE  \E f : Folding(TRUE, f, t, entries, SUBSET (1 .. n)) /\ InsertAll(t, entries) = f[1 .. n]
<1> DEFINE f == CHOOSE g : Inserting(g, t, entries, SUBSET DOMAIN entries)
<1>1. InsertAll(t, entries) = f[DOMAIN entries]
  BY Zenon DEF InsertAll, FoldLeft, MapThenFoldSet, Inserting
<1>2. \A g : Inserting(g, t, entries, SUBSET (1 .. n)) <=> Folding(TRUE, g, t, entries, SUBSET (1 .. n))
  BY DEF Inserting, Folding, Step
<1>3. \E g : Inserting(g, t, entries, SUBSET (1 .. n))
  BY Zenon, <1>2, FoldingExists
<1>4. Inserting(f, t, entries, SUBSET DOMAIN entries)
  <2> DEFINE P(g) == Inserting(g, t, entries, SUBSET DOMAIN entries)
  <2>1. \E g : P(g)
    BY Zenon, <1>3
  <2> HIDE DEF P
  <2>2. P(CHOOSE g : P(g))
    BY Zenon, <2>1
  <2>3. QED
    BY Zenon, <2>2 DEF P
<1> HIDE DEF f
<1>5. Folding(TRUE, f, t, entries, SUBSET (1 .. n))
  BY Zenon, <1>2, <1>4
<1>6. QED
  BY Zenon, <1>1, <1>5

LEMMA MergeAllIs ==
  ASSUME NEW pool, NEW entries, NEW n \in Nat, DOMAIN entries = 1 .. n
  PROVE  \E f : Folding(FALSE, f, pool, entries, SUBSET (1 .. n)) /\ MergeAll(pool, entries) = f[1 .. n]
<1> DEFINE f == CHOOSE g : Merging(g, pool, entries, SUBSET DOMAIN entries)
<1>1. MergeAll(pool, entries) = f[DOMAIN entries]
  BY Zenon DEF MergeAll, FoldLeft, MapThenFoldSet, Merging
<1>2. \A g : Merging(g, pool, entries, SUBSET (1 .. n)) <=> Folding(FALSE, g, pool, entries, SUBSET (1 .. n))
  BY DEF Merging, Folding, Step
<1>3. \E g : Merging(g, pool, entries, SUBSET (1 .. n))
  BY Zenon, <1>2, FoldingExists
<1>4. Merging(f, pool, entries, SUBSET DOMAIN entries)
  <2> DEFINE P(g) == Merging(g, pool, entries, SUBSET DOMAIN entries)
  <2>1. \E g : P(g)
    BY Zenon, <1>3
  <2> HIDE DEF P
  <2>2. P(CHOOSE g : P(g))
    BY Zenon, <2>1
  <2>3. QED
    BY Zenon, <2>2 DEF P
<1> HIDE DEF f
<1>5. Folding(FALSE, f, pool, entries, SUBSET (1 .. n))
  BY Zenon, <1>2, <1>4
<1>6. QED
  BY Zenon, <1>1, <1>5

LEMMA MergedIs ==
  ASSUME NEW pool, PoolOK(pool), NEW state, StateFingerprint(state) \in Nat, NEW mult \in Nat
  PROVE  LET more == Merge(pool, state, mult)
         IN  Len(more) \in Nat /\ Len(more) <= Len(pool) + 1 /\ States(more) = States(pool) \union {state}
<1> DEFINE more == Merge(pool, state, mult)
<1>1. Len(pool) \in Nat /\ DOMAIN pool = 1 .. Len(pool)
  BY PoolIs
<1>2. CASE \E n \in DOMAIN pool : pool[n].state = state
  <2>1. PICK at \in DOMAIN pool : pool[at].state = state
    BY <1>2
  <2> DEFINE counted == [pool EXCEPT ![at].mult = (@ + mult) % Word]
  <2>2. more = counted
    <3>1. Merge(pool, pool[at].state, mult) = counted
      BY MergeCounts
    <3>2. QED
      BY Zenon, <2>1, <3>1
  <2>3. PoolOK(more) /\ Len(more) = Len(pool) /\ DOMAIN more = DOMAIN pool /\ \A n \in DOMAIN pool : more[n].state = pool[n].state
    <3>1. /\ PoolOK(counted) /\ Len(counted) = Len(pool) /\ DOMAIN counted = DOMAIN pool
          /\ \A n \in DOMAIN pool : counted[n].state = pool[n].state
      BY CountedPool
    <3> HIDE DEF counted, more
    <3>2. QED
      BY Zenon, <2>2, <3>1
  <2> HIDE DEF more
  <2>4. States(more) = States(pool)
    BY <2>3 DEF States
  <2>5. state \in States(pool)
    BY <2>1 DEF States
  <2>6. QED
    BY <1>1, <2>3, <2>4, <2>5 DEF more
<1>3. CASE ~ \E n \in DOMAIN pool : pool[n].state = state
  <2>1. more = Append(pool, [state |-> state, mult |-> mult])
    BY <1>3 DEF Merge
  <2>2. PoolOK(more) /\ Len(more) = Len(pool) + 1 /\ (\A n \in DOMAIN pool : more[n] = pool[n]) /\ more[Len(pool) + 1].state = state
    BY <1>3, <2>1, AppendedPool
  <2> HIDE DEF more
  <2>3. DOMAIN more = 1 .. Len(pool) + 1
    BY <2>2, PoolIs
  <2>4. \A n \in DOMAIN more : n \in DOMAIN pool \/ n = Len(pool) + 1
    BY <1>1, <2>3
  <2>5. (\A n \in DOMAIN pool : n \in DOMAIN more) /\ Len(pool) + 1 \in DOMAIN more
    BY <1>1, <2>3
  <2>6. States(more) = States(pool) \union {state}
    BY <2>2, <2>4, <2>5 DEF States
  <2>7. QED
    BY <1>1, <2>2, <2>6 DEF more
<1>4. QED
  BY <1>2, <1>3

\* A run of inserts -- the entries a stage feeds its table, from those it held on --
\* leaves the pool that merging them one by one leaves: every state that was held or
\* put in has an entry, no state has two, and the table can be used as before.  A
\* table that does not grow has to have a slot for each of them, as the tables of a
\* window have.
THEOREM InsertAllMerges ==
  ASSUME NEW t, TableOK(t), NEW entries, NEW n \in Nat, DOMAIN entries = 1 .. n,
         \A k \in 1 .. n : StateFingerprint(entries[k].state) \in Nat /\ entries[k].mult \in Nat,
         t.dyn \/ Len(t.pool) + n <= t.size
  PROVE  LET u == InsertAll(t, entries)
         IN  /\ TableOK(u) /\ u.pool = MergeAll(t.pool, entries)
             /\ States(u.pool) = States(t.pool) \union {entries[k].state : k \in 1 .. n}
<1>1. PICK f : Folding(TRUE, f, t, entries, SUBSET (1 .. n)) /\ InsertAll(t, entries) = f[1 .. n]
  BY InsertAllIs
<1>2. PICK g : Folding(FALSE, g, t.pool, entries, SUBSET (1 .. n)) /\ MergeAll(t.pool, entries) = g[1 .. n]
  BY MergeAllIs
<1> DEFINE Put(k) == {entries[i].state : i \in 1 .. k}
           L == Len(t.pool)
           Holding(k) ==
             /\ TableOK(f[1 .. k]) /\ f[1 .. k].pool = g[1 .. k] /\ f[1 .. k].dyn = t.dyn
             /\ ~t.dyn => f[1 .. k].size = t.size
             /\ Len(g[1 .. k]) <= L + k /\ States(g[1 .. k]) = States(t.pool) \union Put(k)
           S == {k \in Nat : k <= n /\ ~Holding(k)}
<1>3. t.size \in Nat /\ L \in Nat /\ t.dyn \in BOOLEAN
  BY PoolIs DEF TableOK
<1>4. f[1 .. 0] = t /\ \A k \in 0 .. n - 1 : f[1 .. k + 1] = Step(TRUE, f[1 .. k], entries[k + 1])
  <2>1. Prefixed(TRUE, f, t, entries, n)
    BY Zenon, <1>1, PrefixIs
  <2>2. QED
    BY Zenon, <2>1 DEF Prefixed
<1>5. g[1 .. 0] = t.pool /\ \A k \in 0 .. n - 1 : g[1 .. k + 1] = Step(FALSE, g[1 .. k], entries[k + 1])
  <2>1. Prefixed(FALSE, g, t.pool, entries, n)
    BY Zenon, <1>2, PrefixIs
  <2>2. QED
    BY Zenon, <2>1 DEF Prefixed
<1>6. Holding(0)
  <2>1. Put(0) = {}
    OBVIOUS
  <2>2. L <= L + 0
    BY <1>3
  <2> HIDE DEF Put
  <2>3. States(t.pool) = States(t.pool) \union Put(0)
    BY <2>1
  <2>4. QED
    BY Zenon, <1>4, <1>5, <2>2, <2>3 DEF L
<1>7. ASSUME NEW k \in 0 .. n - 1, Holding(k) PROVE Holding(k + 1)
  <2> DEFINE e == entries[k + 1]
             a == f[1 .. k]
             p == g[1 .. k]
             b == Insert(a, e.state, e.mult)
             q == Merge(p, e.state, e.mult)
  <2>1. k \in Nat /\ k + 1 \in 1 .. n /\ k < n
    OBVIOUS
  <2>2. f[1 .. k + 1] = b /\ g[1 .. k + 1] = q
    <3>1. f[1 .. k + 1] = Step(TRUE, f[1 .. k], entries[k + 1]) /\ g[1 .. k + 1] = Step(FALSE, g[1 .. k], entries[k + 1])
      BY <1>4, <1>5
    <3>2. QED
      BY Zenon, <3>1 DEF Step
  <2>3. StateFingerprint(e.state) \in Nat /\ e.mult \in Nat
    BY <2>1
  <2>4. /\ TableOK(a) /\ a.pool = p /\ a.dyn = t.dyn /\ (~t.dyn => a.size = t.size)
        /\ Len(p) <= L + k /\ States(p) = States(t.pool) \union Put(k)
    BY <1>7
  <2>5. Put(k + 1) = Put(k) \union {e.state}
    <3>1. \A i \in 1 .. k + 1 : i \in 1 .. k \/ i = k + 1
      BY <2>1
    <3>2. (\A i \in 1 .. k : i \in 1 .. k + 1) /\ k + 1 \in 1 .. k + 1
      BY <2>1
    <3>3. QED
      BY <3>1, <3>2
  <2> HIDE DEF e, a, p, Put
  <2>6. PoolOK(p) /\ Len(p) \in Nat
    <3>1. PoolOK(a.pool)
      BY <2>4 DEF TableOK
    <3>2. PoolOK(p)
      BY <2>4, <3>1
    <3>3. QED
      BY <3>2, PoolIs
  <2>7. HasRoom(a)
    <3>1. ~t.dyn => Len(p) < t.size
      BY <1>3, <2>1, <2>4, <2>6 DEF L
    <3>2. QED
      BY <2>4, <3>1 DEF HasRoom
  <2>8. TableOK(b) /\ b.pool = Merge(a.pool, e.state, e.mult) /\ b.dyn = a.dyn /\ (~a.dyn => b.size = a.size)
    BY <2>3, <2>4, <2>7, InsertMerges
  <2>9. Len(q) \in Nat /\ Len(q) <= Len(p) + 1 /\ States(q) = States(p) \union {e.state}
    BY <2>3, <2>6, MergedIs
  <2>10. b.pool = q
    BY Zenon, <2>4, <2>8
  <2> HIDE DEF b, q, L
  <2>11. Len(q) <= L + (k + 1)
    <3> DEFINE x == Len(q)
               y == Len(p)
    <3>1. x \in Nat /\ y \in Nat /\ x <= y + 1 /\ y <= L + k /\ L \in Nat /\ k \in Nat
      BY <1>3, <2>1, <2>4, <2>6, <2>9 DEF L
    <3> HIDE DEF x, y
    <3>2. x <= L + (k + 1)
      BY <3>1
    <3>3. QED
      BY <3>2 DEF x
  <2>12. States(q) = States(t.pool) \union Put(k + 1)
    BY <2>4, <2>5, <2>9
  <2>13. TableOK(b) /\ b.dyn = t.dyn /\ (~t.dyn => b.size = t.size)
    BY <2>4, <2>8
  <2>14. QED
    BY Zenon, <2>2, <2>10, <2>11, <2>12, <2>13
<1>8. Holding(n)
  <2> HIDE DEF Holding
  <2>1. SUFFICES ASSUME ~Holding(n) PROVE FALSE
    OBVIOUS
  <2>2. n \in S
    BY <2>1
  <2>3. PICK k \in S : \A i \in 0 .. k - 1 : i \notin S
    BY <2>2, LeastElement
  <2>4. k # 0
    BY <1>6, <2>3
  <2>5. k - 1 \in Nat /\ k - 1 \in 0 .. n - 1 /\ k - 1 \in 0 .. k - 1 /\ k - 1 <= n /\ (k - 1) + 1 = k
    BY <2>3, <2>4
  <2>6. Holding(k - 1)
    BY <2>3, <2>5
  <2>7. Holding((k - 1) + 1)
    BY <1>7, <2>5, <2>6
  <2>8. QED
    BY <2>3, <2>5, <2>7
<1>9. QED
  BY <1>1, <1>2, <1>8

\* A generation: whatever earlier ones left in the slots and in the front cache, what a
\* stage feeds a table it has just reset is what the pool holds at its end, merged, with
\* one entry to a state.  This is the promise that the pruning of a window rests on;
\* the assumption on the front cache is the one of ResetIsFresh.
THEOREM GenerationMerges ==
  ASSUME NEW t, Resettable(t), NEW expected, t.dyn \/ StaticSize(expected) \in Nat \ {0},
         DOMAIN t.fc = {} \/ t.epoch = 0 \/ SizeFor(t, expected) <= NSlots(t),
         NEW entries, NEW n \in Nat, DOMAIN entries = 1 .. n,
         \A k \in 1 .. n : StateFingerprint(entries[k].state) \in Nat /\ entries[k].mult \in Nat,
         t.dyn \/ n <= SizeFor(t, expected)
  PROVE  LET u == InsertAll(Reset(t, expected), entries)
         IN  /\ TableOK(u) /\ Resettable(u) /\ u.pool = MergeAll(<< >>, entries)
             /\ States(u.pool) = {entries[k].state : k \in 1 .. n}
<1> DEFINE begun == Reset(t, expected)
           size == SizeFor(t, expected)
           u == InsertAll(begun, entries)
<1>1. TableOK(begun) /\ begun.pool = << >> /\ begun.size = size /\ begun.dyn = t.dyn
  BY ResetIsFresh
<1> HIDE DEF begun
<1>2. Len(begun.pool) = 0 /\ States(begun.pool) = {}
  BY <1>1 DEF States
<1>3. begun.dyn \/ Len(begun.pool) + n <= begun.size
  <2>1. Len(begun.pool) + n = n
    BY <1>2
  <2>2. t.dyn \/ n <= size
    OBVIOUS
  <2> HIDE DEF size
  <2>3. QED
    BY <1>1, <2>1, <2>2
<1>4. TableOK(u) /\ u.pool = MergeAll(begun.pool, entries) /\ States(u.pool) = States(begun.pool) \union {entries[k].state : k \in 1 .. n}
  BY <1>1, <1>3, InsertAllMerges
<1> HIDE DEF u
<1>5. Resettable(u)
  BY <1>4, UsedIsResettable
<1>6. QED
  BY <1>1, <1>2, <1>4, <1>5 DEF u, begun

=============================================================================
