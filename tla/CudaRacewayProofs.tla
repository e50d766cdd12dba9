------------------------- MODULE CudaRacewayProofs --------------------------
(***************************************************************************)
(* The wave cadence loses no hit, for any warps, plans, batches, caps and  *)
(* window: whatever a load from a cap may return.  A lane is dropped for a *)
(* fingerprint somebody stored, and whoever stores one is bound to carry   *)
(* its state past that boundary (Carries).  What is carried past a         *)
(* boundary stays carried, or another position that ends alike is carried  *)
(* past the same boundary, or it was written as a hit.                     *)
(***************************************************************************)
EXTENDS CudaRaceway, TLAPS, FiniteSetTheorems, SequenceTheorems, WellFoundedInduction

InBatch == stage \notin {"batch", "done"}
BatchPositions == 0 .. cadence.batch - 1
\* Position p when it has been run to boundary b.
Reached(p, b) == [d |-> DataAt(p), m |-> Completed(b)]
FlagAt(p) == FlagOf(Ending(DataAt(p)))
Flags == {FlagOf(Ending(d)) : d \in Window(cadence)}

State == [d : SUBSET Positions, m : Nat]
Entry == [fp : Nat, by : Warps \union {Nobody}]
Warp == [at : {"take", "probe", "store", "end"}, base : Nat, drain : Nat, lane : Nat, way : Nat,
         vals : Seq(State), on : SUBSET Nat]

TypeOK ==
  /\ cadence \in Cadences
  /\ stage \in Kernels \union {"batch", "compact", "continue", "collect", "done"}
  /\ drain \in 1 .. Drains + 1
  /\ done \in 0 .. direct_total(cadence)
  /\ work \in Nat
  /\ alive \in [BatchPositions -> BOOLEAN]
  /\ live \in Seq(BatchPositions) /\ packed \in Seq(BatchPositions)
  /\ blocks \in SUBSET Nat
  /\ wstate \in [BatchPositions -> State]
  /\ flags \in [BatchPositions -> Flags \union {0}]
  /\ warp \in [Warps -> Warp]
  /\ table \in [1 .. Drains -> [CapSlots -> Seq(Entry) \ {<< >>}]]
  /\ IsFiniteSet(hits) /\ emitted = Cardinality(hits)

\* Which launch is at which boundary.
StageOK ==
  /\ stage = "first" => drain = 1
  /\ stage = "span" => drain \in 2 .. Drains /\ ~cadence.fused
  /\ stage = "fused" => drain = 2 /\ cadence.fused
  /\ stage = "compact" => drain \in 1 .. Drains /\ (cadence.fused => drain = 1)
  /\ stage = "continue" => drain > 1 /\ (drain <= Drains => live = << >>)
  /\ stage = "collect" => drain > 1

\* The live list of a batch past its first compaction, and the states kept for it.
LiveOK ==
  InBatch /\ drain > 1 =>
    \A n \in DOMAIN live :
      /\ live[n] \in 0 .. BatchN - 1
      /\ wstate[live[n]].d = DataAt(live[n])
      /\ \A k \in DOMAIN live : live[k] = live[n] => k = n

FlagsOK == InBatch => \A p \in 0 .. BatchN - 1 : flags[p] \in {0, FlagAt(p)}

StatesOK ==
  /\ stage \in Kernels /\ drain > 1 =>
       \A s \in work .. Count - 1 : wstate[Orig(s)] = Reached(Orig(s), drain - 1)
  /\ stage \in {"first", "span"} =>
       \A s \in 0 .. Count - 1 : s < work /\ ~InHand(s) /\ alive[s] => wstate[Orig(s)] = Reached(Orig(s), drain)
  /\ stage = "compact" =>
       \A s \in 0 .. Count - 1 : alive[s] => wstate[Orig(s)] = Reached(Orig(s), drain)
  /\ stage = "continue" =>
       \A n \in DOMAIN live : wstate[live[n]] = Reached(live[n], drain - 1)

LanesOf(w) ==
  /\ warp[w].vals # << >>
  /\ warp[w].base + Len(warp[w].vals) <= Count /\ warp[w].base + Len(warp[w].vals) <= work
  /\ warp[w].drain \in drain .. Drains /\ (stage # "fused" => warp[w].drain = drain)
  /\ \A k \in DOMAIN warp[w].vals : warp[w].vals[k] = Reached(Orig(warp[w].base + k - 1), warp[w].drain)
  /\ warp[w].on \subseteq DOMAIN warp[w].vals /\ warp[w].lane \in warp[w].on
  /\ warp[w].way \in 0 .. CapWays - 1
WarpsOK ==
  stage \in Kernels =>
    \A w \in Warps :
      /\ ~Busy(w) => warp[w].on = {}
      /\ warp[w].at = "end" => work >= Count
      /\ Busy(w) => LanesOf(w)
      /\ \A x \in Warps \ {w} : Busy(w) /\ Busy(x) => SlotsOf(w) \intersect SlotsOf(x) = {}

PackedOK ==
  stage = "compact" =>
    /\ \A n \in DOMAIN packed :
         /\ \E s \in 0 .. Count - 1 : alive[s] /\ s \div BlockSize \in blocks /\ packed[n] = Orig(s)
         /\ \A k \in DOMAIN packed : packed[k] = packed[n] => k = n
    /\ \A s \in 0 .. Count - 1 :
         alive[s] /\ s \div BlockSize \in blocks => \E n \in DOMAIN packed : packed[n] = Orig(s)

\* Hits are of the batches before, and true.
HitsOK ==
  \A h \in hits :
    /\ h.flag # 0 /\ h.flag = FlagOf(Ending(h.data))
    /\ \E n \in 0 .. done - 1 : h.data = DataOf(cadence, cadence.start + n)

Shape == TypeOK /\ StageOK /\ LiveOK /\ FlagsOK /\ StatesOK /\ WarpsOK /\ PackedOK /\ HitsOK

\* Data values begun are held, and so is what a cap remembers.
BegunAreHeld == \A d \in Begun : Counts(d, 0)
CapsAreHeld ==
  \A c \in 1 .. Drains : \A s \in CapSlots : \A n \in DOMAIN table[c][s] :
    table[c][s][n].fp # 0 =>
      \E d \in Window(cadence) : Counts(d, c) /\ table[c][s][n].fp = HashOf(StateAfter(cadence.plan[c], d))

\* A key ends with its whole window begun.
EndsWhole == stage = "done" => done = direct_total(cadence)

IInv == Shape /\ BegunAreHeld /\ CapsAreHeld /\ EndsWhole

-----------------------------------------------------------------------------
(* Numbers.                                                                *)

LEMMA LeastElement ==
  ASSUME NEW S \in SUBSET Nat, S # {}
  PROVE  \E n \in S : \A k \in S : n <= k
<1> DEFINE R == OpToRel(<, Nat)
<1>1. IsWellFoundedOn(R, Nat)
  BY NatLessThanWellFounded
<1>2. \A x, y \in Nat : x < y => <<x, y>> \in R
  BY DEF OpToRel
<1> HIDE DEF R
<1>3. PICK n \in S : \A y \in Nat : <<y, n>> \in R => y \notin S
  BY <1>1, WFMin
<1>4. ASSUME NEW k \in S PROVE n <= k
  <2>1. k \in Nat /\ n \in Nat /\ (k < n => <<k, n>> \in R)
    BY <1>2
  <2>2. ~(k < n)
    BY <1>3, <2>1
  <2>3. QED
    BY <2>1, <2>2
<1>5. QED
  BY <1>4

LEMMA MinIs ==
  ASSUME NEW S \in SUBSET Nat, S # {}
  PROVE  Min(S) \in S /\ \A k \in S : Min(S) <= k
BY LeastElement DEF Min

LEMMA MinOfTwo ==
  ASSUME NEW a \in Nat, NEW b \in Nat
  PROVE  Min({a, b}) = IF a <= b THEN a ELSE b
<1>1. Min({a, b}) \in {a, b} /\ \A k \in {a, b} : Min({a, b}) <= k
  BY MinIs
<1>2. QED
  BY <1>1

LEMMA PowerOfTwo ==
  ASSUME NEW S, IsFiniteSet(S)
  PROVE  2^Cardinality(S) \in Nat \ {0}
<1>1. IsFiniteSet(SUBSET S) /\ Cardinality(SUBSET S) = 2^Cardinality(S)
  BY FS_SUBSET
<1>2. {} \in SUBSET S
  OBVIOUS
<1>3. SUBSET S # {}
  BY <1>2
<1>4. Cardinality(SUBSET S) \in Nat /\ Cardinality(SUBSET S) # 0
  BY <1>1, <1>3, FS_CardinalityType, FS_EmptySet
<1>5. QED
  BY <1>1, <1>4

-----------------------------------------------------------------------------
(* A cadence, its window and its boundaries.                               *)

LEMMA ShapeType ==
  /\ CapBuckets \in Nat /\ CapBuckets > 0 /\ CapWays \in Nat /\ CapWays > 0
  /\ BlockSize \in Nat /\ BlockSize > 0
  /\ Maps \in Nat /\ Maps > 0 /\ PackedPositions \in Nat
  /\ IsFiniteSet(Positions) /\ IsFiniteSet(Shed) /\ Shed \subseteq Positions
<1>1. IsFiniteSet(Positions)
  <2>1. 0 \in Int /\ 31 \in Int
    OBVIOUS
  <2>2. IsFiniteSet(0 .. 31)
    BY <2>1, FS_Interval
  <2>3. QED
    BY <2>2 DEF Positions
<1>2. IsFiniteSet(Shed)
  BY <1>1, ShapeAssumption, FS_Subset
<1>3. QED
  BY <1>1, <1>2, ShapeAssumption

LEMMA CadenceType ==
  ASSUME NEW c \in Cadences
  PROVE  /\ c.ilp \in Nat /\ c.ilp > 0 /\ c.batch \in Nat /\ c.batch > 0
         /\ c.start \in Nat /\ c.window \in Nat /\ c.window > 0
         /\ c.plan \in Seq(1 .. Maps) /\ Len(c.plan) \in Nat /\ Len(c.plan) > 0
         /\ DOMAIN c.plan = 1 .. Len(c.plan)
         /\ c.async \in BOOLEAN /\ c.fused \in BOOLEAN /\ (c.fused => c.async)
         /\ \A b \in DOMAIN c.plan : /\ c.plan[b] \in 1 .. Maps - 1
                                     /\ \A a \in 1 .. b - 1 : c.plan[a] < c.plan[b]
         /\ Min({c.batch, direct_total(c)}) <= PackedPositions
<1>1. c \in Cadence
  BY CadenceAssumption
<1>2. /\ c.plan \in Seq(1 .. Maps) /\ c.plan # << >>
      /\ \A b \in DOMAIN c.plan : c.plan[b] < Maps /\ \A a \in 1 .. b - 1 : c.plan[a] < c.plan[b]
      /\ (c.fused => c.async) /\ Min({c.batch, direct_total(c)}) <= PackedPositions
  BY <1>1, CadenceAssumption DEF Cadence
<1>3. Len(c.plan) \in Nat /\ Len(c.plan) > 0 /\ DOMAIN c.plan = 1 .. Len(c.plan)
  BY <1>2
<1>4. \A b \in DOMAIN c.plan : c.plan[b] \in 1 .. Maps - 1
  <2>1. ASSUME NEW b \in DOMAIN c.plan PROVE c.plan[b] \in 1 .. Maps - 1
    <3>1. c.plan[b] \in 1 .. Maps /\ c.plan[b] < Maps
      BY <1>2, <1>3, ElementOfSeq
    <3>2. QED
      BY <3>1, ShapeType
  <2>2. QED
    BY <2>1
<1>5. QED
  BY <1>1, <1>2, <1>3, <1>4 DEF Cadence

LEMMA TotalType ==
  ASSUME NEW c \in Cadences
  PROVE  direct_total(c) \in Nat
<1>1. 2^Cardinality(Shed) \in Nat \ {0}
  BY ShapeType, PowerOfTwo
<1> DEFINE two == 2^Cardinality(Shed)
<1>2. direct_total(c) = IF PrecertUsed(c) THEN c.window \div two ELSE c.window
  BY DEF direct_total
<1>3. c.window \in Nat /\ two \in Nat /\ two > 0
  <2>1. c.window \in Nat
    BY CadenceType
  <2>2. QED
    BY <1>1, <2>1
<1> HIDE DEF two
<1>4. c.window \div two \in Nat
  BY <1>3
<1>5. QED
  BY <1>2, <1>3, <1>4

LEMMA BatchType ==
  ASSUME TypeOK
  PROVE  /\ cadence \in Cadences /\ done \in Nat /\ direct_total(cadence) \in Nat
         /\ BatchN \in Nat /\ BatchN <= cadence.batch /\ done + BatchN <= direct_total(cadence)
         /\ BatchN <= PackedPositions /\ PackedPositions \in Nat
         /\ cadence.batch \in Nat /\ 0 .. BatchN - 1 \subseteq BatchPositions
<1>1. cadence \in Cadences /\ done \in 0 .. direct_total(cadence)
  BY DEF TypeOK
<1>2. cadence.batch \in Nat /\ direct_total(cadence) \in Nat /\ Min({cadence.batch, direct_total(cadence)}) <= PackedPositions
  BY <1>1, CadenceType, TotalType
<1> DEFINE left == direct_total(cadence) - done
           all  == direct_total(cadence)
<1>3. left \in Nat /\ done \in Nat /\ left <= all /\ done + left = all
  BY <1>1, <1>2
<1>4. BatchN = Min({cadence.batch, left})
  BY DEF BatchN
<1> HIDE DEF left
<1>5. BatchN = IF cadence.batch <= left THEN cadence.batch ELSE left
  BY <1>2, <1>3, <1>4, MinOfTwo
<1>6. Min({cadence.batch, all}) = IF cadence.batch <= all THEN cadence.batch ELSE all
  BY <1>2, MinOfTwo
<1> HIDE DEF all
<1>7. BatchN \in Nat /\ BatchN <= cadence.batch /\ done + BatchN <= all /\ BatchN <= PackedPositions
  BY <1>2, <1>3, <1>5, <1>6, ShapeType DEF all
<1>8. 0 .. BatchN - 1 \subseteq BatchPositions
  BY <1>2, <1>7 DEF BatchPositions
<1>9. QED
  BY <1>1, <1>2, <1>3, <1>7, <1>8, ShapeType DEF all

LEMMA BoundaryType ==
  ASSUME TypeOK
  PROVE  /\ Drains \in Nat /\ Drains > 0 /\ DOMAIN cadence.plan = 1 .. Drains
         /\ \A b \in 0 .. Drains + 1 : Completed(b) \in 0 .. Maps
         /\ \A b \in 1 .. Drains : Completed(b) = cadence.plan[b]
         /\ Completed(0) = 0 /\ Completed(Drains + 1) = Maps /\ Maps \in Nat /\ Maps > 0
<1>1. cadence \in Cadences
  BY DEF TypeOK
<1>2. /\ Drains \in Nat /\ Drains > 0 /\ DOMAIN cadence.plan = 1 .. Drains
      /\ \A b \in DOMAIN cadence.plan : cadence.plan[b] \in 1 .. Maps - 1
  <2>1. Len(cadence.plan) \in Nat /\ Len(cadence.plan) > 0 /\ DOMAIN cadence.plan = 1 .. Len(cadence.plan)
    BY <1>1, CadenceType
  <2>2. \A b \in DOMAIN cadence.plan : cadence.plan[b] \in 1 .. Maps - 1
    BY <1>1, CadenceType
  <2>3. QED
    BY <2>1, <2>2 DEF Drains
<1>3. Maps \in Nat /\ Maps > 0
  BY ShapeType
<1>4. \A b \in 1 .. Drains : Completed(b) = cadence.plan[b]
  BY <1>2 DEF Completed
<1>5. Completed(0) = 0 /\ Completed(Drains + 1) = Maps
  BY <1>2 DEF Completed
<1>6. QED
  BY <1>2, <1>3, <1>4, <1>5

LEMMA DataType ==
  ASSUME NEW c \in Cadences
  PROVE  /\ Window(c) \in SUBSET (SUBSET Positions)
         /\ \A n \in 0 .. direct_total(c) - 1 : DataOf(c, c.start + n) \in Window(c)
<1>1. \A n : DataOf(c, n) \subseteq Positions
  BY DEF DataOf, deposit_bits32, Support
<1>2. QED
  BY <1>1 DEF Window

LEMMA DataAtIs ==
  ASSUME TypeOK, NEW p \in 0 .. BatchN - 1
  PROVE  /\ DataAt(p) = DataOf(cadence, cadence.start + (done + p)) /\ done + p \in 0 .. done + BatchN - 1
         /\ DataAt(p) \in Window(cadence) /\ DataAt(p) \in SUBSET Positions
         /\ p \in BatchPositions /\ PackedOrig(p) = p
<1>1. /\ cadence \in Cadences /\ done \in Nat /\ BatchN \in Nat /\ cadence.start \in Nat
      /\ done + BatchN <= direct_total(cadence) /\ direct_total(cadence) \in Nat
  BY BatchType, CadenceType
<1>2. DataAt(p) = DataOf(cadence, cadence.start + (done + p)) /\ done + p \in 0 .. direct_total(cadence) - 1
  <2>1. cadence.start + done + p = cadence.start + (done + p)
    BY <1>1
  <2>2. QED
    BY <1>1, <2>1 DEF DataAt
<1>3. PackedOrig(p) = p
  BY BatchType DEF PackedOrig
<1>4. QED
  BY <1>1, <1>2, <1>3, DataType, BatchType

-----------------------------------------------------------------------------
(* Positions, slots and states.                                            *)

LEMMA ReachedIs ==
  ASSUME TypeOK, NEW p \in 0 .. BatchN - 1, NEW b \in 0 .. Drains + 1
  PROVE  /\ Reached(p, b) \in State /\ Reached(p, b).d = DataAt(p) /\ Reached(p, b).m = Completed(b)
         /\ b > 0 => RunTo(Reached(p, b - 1), b) = Reached(p, b)
         /\ ScreenOf(Reached(p, Drains + 1)) = FlagAt(p) /\ FlagAt(p) \in Flags
<1>1. DataAt(p) \in SUBSET Positions /\ DataAt(p) \in Window(cadence)
  BY DataAtIs
<1>2. Drains \in Nat /\ Completed(b) \in Nat /\ Completed(Drains + 1) = Maps /\ (b > 0 => Completed(b - 1) \in Nat)
  <2>1. Drains \in Nat /\ Maps \in Nat /\ \A a \in 0 .. Drains + 1 : Completed(a) \in 0 .. Maps
    BY BoundaryType
  <2>2. b > 0 => b - 1 \in 0 .. Drains + 1
    BY <2>1
  <2>3. QED
    BY <2>1, <2>2, BoundaryType
<1>3. Reached(p, b) \in State /\ Reached(p, b).d = DataAt(p) /\ Reached(p, b).m = Completed(b)
  BY <1>1, <1>2 DEF Reached, State
<1>4. ASSUME b > 0 PROVE RunTo(Reached(p, b - 1), b) = Reached(p, b)
  <2> DEFINE m == Completed(b - 1)
             n == Completed(b)
             x == DataAt(p)
  <2>1. m \in Nat /\ n \in Nat
    BY <1>2, <1>4
  <2>2. RunTo(Reached(p, b - 1), b) = [[d |-> x, m |-> m] EXCEPT !.m = @ + n - m]
    BY DEF RunTo, Reached
  <2>3. Reached(p, b) = [d |-> x, m |-> n]
    BY DEF Reached
  <2> HIDE DEF m, n, x
  <2>4. m + n - m = n
    BY <2>1
  <2>5. QED
    BY <2>2, <2>3, <2>4
<1>5. ScreenOf(Reached(p, Drains + 1)) = FlagAt(p)
  BY <1>2 DEF ScreenOf, Reached, FlagAt, Ending
<1>6. FlagAt(p) \in Flags
  BY <1>1 DEF FlagAt, Flags
<1>7. QED
  BY <1>3, <1>4, <1>5, <1>6

LEMMA SlotsAre ==
  ASSUME TypeOK, LiveOK, InBatch
  PROVE  /\ Count \in Nat
         /\ \A s \in 0 .. Count - 1 :
              /\ Orig(s) \in 0 .. BatchN - 1
              /\ drain > 1 => wstate[Orig(s)].d = DataAt(Orig(s)) /\ s + 1 \in DOMAIN live /\ Orig(s) = live[s + 1]
              /\ \A t \in 0 .. Count - 1 : Orig(t) = Orig(s) => t = s
<1>1. drain \in Nat /\ drain > 0 /\ live \in Seq(BatchPositions) /\ BatchN \in Nat
  <2>1. Drains \in Nat /\ BatchN \in Nat
    BY BoundaryType, BatchType
  <2>2. QED
    BY <2>1 DEF TypeOK
<1>2. CASE drain = 1
  BY <1>1, <1>2 DEF Count, Orig
<1>3. CASE drain > 1
  <2>1. Count = Len(live) /\ Count \in Nat /\ DOMAIN live = 1 .. Count
    BY <1>1, <1>3 DEF Count
  <2>2. \A n \in DOMAIN live :
          /\ live[n] \in 0 .. BatchN - 1
          /\ wstate[live[n]].d = DataAt(live[n])
          /\ \A k \in DOMAIN live : live[k] = live[n] => k = n
    BY <1>3 DEF LiveOK
  <2>3. \A s \in 0 .. Count - 1 : Orig(s) = live[s + 1] /\ s + 1 \in DOMAIN live
    BY <1>3, <2>1 DEF Orig
  <2>4. ASSUME NEW s \in 0 .. Count - 1, NEW t \in 0 .. Count - 1, Orig(t) = Orig(s) PROVE t = s
    <3>1. s + 1 = t + 1
      BY <2>2, <2>3, <2>4
    <3>2. s \in Nat /\ t \in Nat
      BY <2>1
    <3>3. QED
      BY <3>1, <3>2
  <2>5. \A s \in 0 .. Count - 1 : Orig(s) \in 0 .. BatchN - 1 /\ wstate[Orig(s)].d = DataAt(Orig(s))
    BY <2>2, <2>3
  <2>6. QED
    BY <2>1, <2>3, <2>4, <2>5
<1>4. QED
  BY <1>1, <1>2, <1>3

LEMMA LoadedIs ==
  ASSUME TypeOK, StageOK, LiveOK, StatesOK, stage \in Kernels, NEW s \in work .. Count - 1
  PROVE  /\ s \in 0 .. Count - 1 /\ Orig(s) \in 0 .. BatchN - 1
         /\ Loaded(s) = Reached(Orig(s), drain)
         /\ drain > 1 => wstate[Orig(s)] = Reached(Orig(s), drain - 1)
<1>1. InBatch /\ work \in Nat
  BY DEF InBatch, Kernels, TypeOK
<1>2. s \in 0 .. Count - 1 /\ Orig(s) \in 0 .. BatchN - 1
  <2>1. Count \in Nat
    BY <1>1, SlotsAre
  <2>2. s \in 0 .. Count - 1
    BY <1>1, <2>1
  <2>3. QED
    BY <1>1, <2>2, SlotsAre
<1>3. drain \in 0 .. Drains + 1 /\ drain > 0 /\ drain \in Nat
  BY BoundaryType DEF TypeOK
<1>4. RunTo(Reached(Orig(s), drain - 1), drain) = Reached(Orig(s), drain)
  BY <1>2, <1>3, ReachedIs
<1>5. CASE drain = 1
  <2>1. Orig(s) = s /\ Loaded(s) = RunTo([d |-> DataAt(s), m |-> 0], 1)
    BY <1>5 DEF Orig, Loaded
  <2>2. Reached(s, 0) = [d |-> DataAt(s), m |-> 0]
    BY BoundaryType DEF Reached
  <2>3. QED
    BY <1>2, <1>4, <1>5, <2>1, <2>2
<1>6. CASE drain > 1
  <2>1. wstate[Orig(s)] = Reached(Orig(s), drain - 1)
    BY <1>6 DEF StatesOK
  <2>2. Loaded(s) = RunTo(wstate[Orig(s)], drain)
    BY <1>6 DEF Loaded
  <2>3. QED
    BY <1>2, <1>4, <2>1, <2>2
<1>7. QED
  BY <1>2, <1>3, <1>5, <1>6

-----------------------------------------------------------------------------
(* What is carried, position by position.                                  *)

LaneCarries(w, s, b) ==
  /\ Busy(w) /\ s \in SlotsOf(w)
  /\ s - warp[w].base + 1 \in warp[w].on /\ b <= PastOf(w, s - warp[w].base + 1)
SlotCarries(s, b) ==
  \/ s >= work /\ b <= drain - 1
  \/ \E w \in Warps : LaneCarries(w, s, b)
  \/ s < work /\ ~InHand(s) /\ stage = "fused" /\ flags[Orig(s)] # 0 /\ b <= Drains
  \/ s < work /\ ~InHand(s) /\ stage # "fused" /\ alive[s] /\ b <= drain
Carries(p, b) ==
  \/ stage \in Kernels /\ \E s \in 0 .. Count - 1 : p = Orig(s) /\ SlotCarries(s, b)
  \/ stage = "compact" /\ b <= drain /\ \E s \in 0 .. Count - 1 : p = Orig(s) /\ alive[s]
  \/ stage = "continue" /\ b <= Drains /\ \E n \in DOMAIN live : p = live[n]
  \/ stage = "collect" /\ b <= Drains /\ \E n \in DOMAIN live : p = live[n] /\ flags[live[n]] # 0

LEMMA BusyLanes ==
  ASSUME TypeOK, WarpsOK, stage \in Kernels, NEW w \in Warps, Busy(w)
  PROVE  /\ LanesOf(w) /\ warp[w].base \in Nat /\ Len(warp[w].vals) \in Nat /\ Len(warp[w].vals) > 0
         /\ DOMAIN warp[w].vals = 1 .. Len(warp[w].vals)
         /\ warp[w].drain \in 1 .. Drains /\ warp[w].lane \in Nat /\ warp[w].lane \in warp[w].on
         /\ \A k \in warp[w].on : k \in 1 .. Len(warp[w].vals) /\ warp[w].base + k - 1 \in SlotsOf(w)
         /\ \A s \in SlotsOf(w) : /\ s \in 0 .. Count - 1 /\ s < work
                                  /\ s - warp[w].base + 1 \in DOMAIN warp[w].vals
                                  /\ warp[w].vals[s - warp[w].base + 1] = Reached(Orig(s), warp[w].drain)
         /\ \A k \in DOMAIN warp[w].vals : /\ warp[w].base + k - 1 \in SlotsOf(w)
                                           /\ (warp[w].base + k - 1) - warp[w].base + 1 = k
<1>1. LanesOf(w) /\ warp[w] \in Warp
  BY DEF WarpsOK, TypeOK
<1>2. warp[w].base \in Nat /\ warp[w].vals \in Seq(State) /\ warp[w].lane \in Nat
  BY <1>1 DEF Warp
<1>3. Len(warp[w].vals) \in Nat /\ Len(warp[w].vals) > 0 /\ DOMAIN warp[w].vals = 1 .. Len(warp[w].vals)
  BY <1>1, <1>2 DEF LanesOf
<1>4. drain \in Nat /\ drain > 0 /\ work \in Nat /\ Drains \in Nat
  BY BoundaryType DEF TypeOK
<1>5. Count \in Nat
  <2>1. live \in Seq(BatchPositions) /\ BatchN \in Nat
    BY BatchType DEF TypeOK
  <2>2. QED
    BY <2>1 DEF Count
<1>6. warp[w].drain \in 1 .. Drains
  BY <1>1, <1>4 DEF LanesOf
<1>7. \A s \in SlotsOf(w) : /\ s \in 0 .. Count - 1 /\ s < work
                            /\ s - warp[w].base + 1 \in DOMAIN warp[w].vals
                            /\ warp[w].base + (s - warp[w].base + 1) - 1 = s
  <2> DEFINE base == warp[w].base
             n == Len(warp[w].vals)
             D == DOMAIN warp[w].vals
  <2>1. base + n <= Count /\ base + n <= work /\ SlotsOf(w) = base .. base + n - 1 /\ D = 1 .. n
    BY <1>1, <1>3 DEF LanesOf, SlotsOf
  <2>2. base \in Nat /\ n \in Nat
    BY <1>2, <1>3
  <2> HIDE DEF base, n, D
  <2>3. \A s \in SlotsOf(w) : s \in 0 .. Count - 1 /\ s < work /\ s - base + 1 \in D /\ base + (s - base + 1) - 1 = s
    BY <1>4, <1>5, <2>1, <2>2
  <2>4. QED
    BY <2>3 DEF base, D
<1>8. \A k \in DOMAIN warp[w].vals : /\ warp[w].base + k - 1 \in SlotsOf(w)
                                     /\ (warp[w].base + k - 1) - warp[w].base + 1 = k
  BY <1>2, <1>3 DEF SlotsOf
<1>9. \A k \in warp[w].on : k \in 1 .. Len(warp[w].vals) /\ warp[w].base + k - 1 \in SlotsOf(w)
  BY <1>1, <1>3, <1>8 DEF LanesOf
<1>10. \A s \in SlotsOf(w) : warp[w].vals[s - warp[w].base + 1] = Reached(Orig(s), warp[w].drain)
  <2>1. ASSUME NEW s \in SlotsOf(w)
        PROVE  warp[w].vals[s - warp[w].base + 1] = Reached(Orig(s), warp[w].drain)
    <3> DEFINE k == s - warp[w].base + 1
    <3>1. k \in DOMAIN warp[w].vals /\ warp[w].base + k - 1 = s
      BY <1>7
    <3>2. warp[w].vals[k] = Reached(Orig(warp[w].base + k - 1), warp[w].drain)
      BY <1>1, <3>1 DEF LanesOf
    <3>3. QED
      BY <3>1, <3>2
  <2>2. QED
    BY <2>1
<1>11. QED
  BY <1>1, <1>2, <1>3, <1>6, <1>7, <1>8, <1>9, <1>10 DEF LanesOf

LEMMA UnderwayIs ==
  /\ stage \in Kernels => Underway = Ahead \union InWarps \union Behind
  /\ stage = "compact" => Underway = PassedOf(Compacting, drain)
  /\ stage = "continue" => Underway = PassedOf(LivePositions, Drains)
  /\ stage = "collect" => Underway = ScreenedOf(LivePositions)
  /\ TypeOK /\ ~InBatch => Underway = {}
BY DEF Underway, Kernels, InBatch, TypeOK

HeldBy(x, b) ==
  \/ \E p \in 0 .. BatchN - 1 : Carries(p, b) /\ x = Ending(DataAt(p))
  \/ \E h \in hits : x = Ending(h.data)

LEMMA CarriedInKernel ==
  ASSUME Shape, stage \in Kernels, NEW b \in 0 .. Drains
  PROVE  /\ \A u \in Underway : u.past >= b => \E p \in 0 .. BatchN - 1 : Carries(p, b) /\ u.d = DataAt(p)
         /\ \A p : Carries(p, b) => p \in 0 .. BatchN - 1 /\ \E u \in Underway : u.past >= b /\ u.d = DataAt(p)
<1>1. TypeOK /\ StageOK /\ LiveOK /\ StatesOK /\ WarpsOK /\ InBatch
  BY DEF Shape, InBatch, Kernels
<1>2. Count \in Nat /\ work \in Nat /\ drain \in Nat /\ drain > 0 /\ Drains \in Nat
  <2>1. Count \in Nat
    BY <1>1, SlotsAre
  <2>2. QED
    BY <1>1, <2>1, BoundaryType DEF TypeOK
<1>3. \A s \in 0 .. Count - 1 :
        /\ Orig(s) \in 0 .. BatchN - 1
        /\ drain > 1 => wstate[Orig(s)].d = DataAt(Orig(s))
  BY <1>1, SlotsAre
<1>4. \A s \in work .. Count - 1 : s \in 0 .. Count - 1 /\ Loaded(s).d = DataAt(Orig(s))
  <2>1. ASSUME NEW s \in work .. Count - 1 PROVE s \in 0 .. Count - 1 /\ Loaded(s).d = DataAt(Orig(s))
    <3>1. s \in 0 .. Count - 1 /\ Loaded(s) = Reached(Orig(s), drain)
      BY <1>1, LoadedIs
    <3>2. QED
      BY <3>1 DEF Reached
  <2>2. QED
    BY <2>1
<1>5. \A s \in Finished : s \in 0 .. Count - 1 /\ (stage = "fused" \/ alive[s] => wstate[Orig(s)].d = DataAt(Orig(s)))
  <2>1. ASSUME NEW s \in Finished, stage = "fused" \/ alive[s]
        PROVE  wstate[Orig(s)].d = DataAt(Orig(s))
    <3>1. s \in 0 .. Count - 1 /\ s < work /\ ~InHand(s)
      BY DEF Finished
    <3>2. CASE stage = "fused"
      BY <1>1, <1>3, <3>1, <3>2 DEF StageOK
    <3>3. CASE stage # "fused"
      <4>1. stage \in {"first", "span"} /\ alive[s]
        BY <2>1, <3>3 DEF Kernels
      <4>2. wstate[Orig(s)] = Reached(Orig(s), drain)
        BY <1>1, <3>1, <4>1 DEF StatesOK
      <4>3. QED
        BY <4>2 DEF Reached
    <3>4. QED
      BY <3>2, <3>3
  <2>2. QED
    BY <2>1 DEF Finished
<1>6. ASSUME NEW u \in Underway, u.past >= b
      PROVE  \E p \in 0 .. BatchN - 1 : Carries(p, b) /\ u.d = DataAt(p)
  <2>1. SUFFICES \E s \in 0 .. Count - 1 : SlotCarries(s, b) /\ u.d = DataAt(Orig(s))
    BY <1>3 DEF Carries
  <2>2. u \in Ahead \/ u \in InWarps \/ u \in Behind
    BY UnderwayIs
  <2>3. CASE u \in Ahead
    <3>1. PICK s \in work .. Count - 1 : u = [d |-> Loaded(s).d, past |-> drain - 1]
      BY <2>3 DEF Ahead
    <3>2. u.d = DataAt(Orig(s)) /\ b <= drain - 1 /\ s >= work /\ s \in 0 .. Count - 1
      BY <1>2, <1>4, <1>6, <3>1
    <3>3. QED
      BY <3>2 DEF SlotCarries
  <2>4. CASE u \in InWarps
    <3>1. PICK w \in Warps : \E k \in warp[w].on : u = [d |-> warp[w].vals[k].d, past |-> PastOf(w, k)]
      BY <2>4 DEF InWarps
    <3>2. PICK k \in warp[w].on : u = [d |-> warp[w].vals[k].d, past |-> PastOf(w, k)]
      BY <3>1
    <3>3. Busy(w)
      <4>1. ~Busy(w) => warp[w].on = {}
        BY <1>1 DEF WarpsOK
      <4>2. QED
        BY <3>2, <4>1
    <3> DEFINE s == warp[w].base + k - 1
    <3>4. /\ k \in DOMAIN warp[w].vals /\ s \in SlotsOf(w) /\ s \in 0 .. Count - 1 /\ s - warp[w].base + 1 = k
          /\ warp[w].vals[k] = Reached(Orig(s), warp[w].drain)
      <4>1. k \in DOMAIN warp[w].vals
        BY <1>1, <3>2, <3>3, BusyLanes
      <4>2. s \in SlotsOf(w) /\ s - warp[w].base + 1 = k
        BY <1>1, <3>3, <4>1, BusyLanes
      <4> HIDE DEF s
      <4>3. s \in 0 .. Count - 1 /\ warp[w].vals[s - warp[w].base + 1] = Reached(Orig(s), warp[w].drain)
        BY <1>1, <3>3, <4>2, BusyLanes
      <4>4. QED
        BY <4>1, <4>2, <4>3
    <3>5. u.d = DataAt(Orig(s))
      BY <3>2, <3>4 DEF Reached
    <3>6. b <= PastOf(w, k)
      <4>1. warp[w].drain \in Nat /\ PastOf(w, k) \in Int
        BY <1>1, <3>3, BusyLanes DEF PastOf
      <4>2. QED
        BY <1>6, <3>2, <4>1
    <3> HIDE DEF s
    <3>7. LaneCarries(w, s, b)
      BY <3>2, <3>3, <3>4, <3>6 DEF LaneCarries
    <3>8. QED
      BY <3>4, <3>5, <3>7 DEF SlotCarries
  <2>5. CASE u \in Behind
    <3>1. PICK s \in Finished :
            /\ u.d = wstate[Orig(s)].d
            /\ IF stage = "fused" THEN u.past = Drains /\ flags[Orig(s)] # 0 ELSE u.past = drain /\ alive[s]
      BY <2>5 DEF Behind, ScreenedOf, PassedOf
    <3>2. s \in 0 .. Count - 1 /\ s < work /\ ~InHand(s) /\ u.d = DataAt(Orig(s))
      BY <1>5, <3>1 DEF Finished
    <3>3. SlotCarries(s, b)
      BY <1>2, <1>6, <3>1, <3>2 DEF SlotCarries
    <3>4. QED
      BY <3>2, <3>3
  <2>6. QED
    BY <2>2, <2>3, <2>4, <2>5
<1>7. ASSUME NEW p, Carries(p, b)
      PROVE  p \in 0 .. BatchN - 1 /\ \E u \in Underway : u.past >= b /\ u.d = DataAt(p)
  <2>1. PICK s \in 0 .. Count - 1 : p = Orig(s) /\ SlotCarries(s, b)
    BY <1>7 DEF Carries, Kernels
  <2>2. p \in 0 .. BatchN - 1
    BY <1>3, <2>1
  <2>3. CASE s >= work /\ b <= drain - 1
    <3> DEFINE u == [d |-> Loaded(s).d, past |-> drain - 1]
    <3>1. s \in work .. Count - 1
      BY <1>2, <2>3
    <3>2. u \in Ahead /\ u.d = DataAt(p) /\ u.past >= b
      BY <1>2, <1>4, <2>1, <2>3, <3>1 DEF Ahead
    <3>3. QED
      BY <2>2, <3>2, UnderwayIs
  <2>4. ASSUME NEW w \in Warps, LaneCarries(w, s, b)
        PROVE  \E u \in Underway : u.past >= b /\ u.d = DataAt(p)
    <3> DEFINE k == s - warp[w].base + 1
               u == [d |-> warp[w].vals[k].d, past |-> PastOf(w, k)]
    <3>1. Busy(w) /\ s \in SlotsOf(w) /\ k \in warp[w].on /\ b <= PastOf(w, k)
      BY <2>4 DEF LaneCarries
    <3>2. warp[w].vals[k] = Reached(Orig(s), warp[w].drain) /\ warp[w].drain \in Nat
      BY <1>1, <3>1, BusyLanes
    <3>3. u \in InWarps
      BY <3>1 DEF InWarps
    <3>4. u.d = DataAt(p) /\ u.past >= b
      <4>1. PastOf(w, k) \in Int
        BY <3>2 DEF PastOf
      <4>2. QED
        BY <2>1, <3>1, <3>2, <4>1 DEF Reached
    <3>5. QED
      BY <3>3, <3>4, UnderwayIs
  <2>5. CASE s < work /\ ~InHand(s) /\ (IF stage = "fused" THEN flags[Orig(s)] # 0 /\ b <= Drains ELSE alive[s] /\ b <= drain)
    <3> DEFINE u == [d |-> wstate[Orig(s)].d, past |-> IF stage = "fused" THEN Drains ELSE drain]
    <3>1. s \in Finished
      BY <2>5 DEF Finished
    <3>2. u \in Behind
      BY <2>5, <3>1 DEF Behind, ScreenedOf, PassedOf
    <3>3. u.d = DataAt(p) /\ u.past >= b
      BY <1>2, <1>5, <2>1, <2>5, <3>1
    <3>4. QED
      BY <2>2, <3>2, <3>3, UnderwayIs
  <2>6. QED
    BY <2>1, <2>2, <2>3, <2>4, <2>5 DEF SlotCarries
<1>8. QED
  BY <1>6, <1>7

LEMMA CarriedInCompact ==
  ASSUME Shape, stage = "compact", NEW b \in 0 .. Drains
  PROVE  /\ \A u \in Underway : u.past >= b => \E p \in 0 .. BatchN - 1 : Carries(p, b) /\ u.d = DataAt(p)
         /\ \A p : Carries(p, b) => p \in 0 .. BatchN - 1 /\ \E u \in Underway : u.past >= b /\ u.d = DataAt(p)
<1>1. TypeOK /\ LiveOK /\ StatesOK /\ PackedOK /\ InBatch /\ stage \notin Kernels
  BY DEF Shape, InBatch, Kernels
<1>2. Count \in Nat /\ drain \in Nat /\ (\A s \in 0 .. Count - 1 : Orig(s) \in 0 .. BatchN - 1)
  <2>1. Count \in Nat /\ \A s \in 0 .. Count - 1 : Orig(s) \in 0 .. BatchN - 1
    BY <1>1, SlotsAre
  <2>2. drain \in 1 .. Drains + 1 /\ Drains \in Nat
    BY <1>1, BoundaryType DEF TypeOK
  <2>3. QED
    BY <2>1, <2>2
<1>3. Underway = {[d |-> wstate[p].d, past |-> drain] : p \in Compacting}
  BY UnderwayIs DEF PassedOf
<1>4. \A p : p \in Compacting <=> \E s \in 0 .. Count - 1 : p = Orig(s) /\ alive[s]
  <2>1. ASSUME NEW p \in Compacting PROVE \E s \in 0 .. Count - 1 : p = Orig(s) /\ alive[s]
    <3>1. CASE p \in ToSet(packed)
      <4>1. PICK n \in DOMAIN packed : p = packed[n]
        BY <3>1 DEF ToSet
      <4>2. QED
        BY <1>1, <4>1 DEF PackedOK
    <3>2. CASE p \notin ToSet(packed)
      BY <3>2 DEF Compacting
    <3>3. QED
      BY <3>1, <3>2
  <2>2. ASSUME NEW s \in 0 .. Count - 1, alive[s] PROVE Orig(s) \in Compacting
    <3>1. CASE s \div BlockSize \in blocks
      <4>1. PICK n \in DOMAIN packed : packed[n] = Orig(s)
        BY <1>1, <2>2, <3>1 DEF PackedOK
      <4>2. QED
        BY <4>1 DEF Compacting, ToSet
    <3>2. CASE s \div BlockSize \notin blocks
      BY <2>2, <3>2 DEF Compacting
    <3>3. QED
      BY <3>1, <3>2
  <2>3. QED
    BY <2>1, <2>2
<1>5. \A s \in 0 .. Count - 1 : alive[s] => wstate[Orig(s)].d = DataAt(Orig(s))
  <2>1. \A s \in 0 .. Count - 1 : alive[s] => wstate[Orig(s)] = Reached(Orig(s), drain)
    BY <1>1 DEF StatesOK
  <2>2. \A p : Reached(p, drain).d = DataAt(p)
    BY DEF Reached
  <2>3. QED
    BY <2>1, <2>2
<1>6. \A p : Carries(p, b) <=> b <= drain /\ \E s \in 0 .. Count - 1 : p = Orig(s) /\ alive[s]
  BY <1>1 DEF Carries
<1>7. ASSUME NEW u \in Underway, u.past >= b
      PROVE  \E p \in 0 .. BatchN - 1 : Carries(p, b) /\ u.d = DataAt(p)
  <2>1. PICK s \in 0 .. Count - 1 : alive[s] /\ u = [d |-> wstate[Orig(s)].d, past |-> drain]
    BY <1>3, <1>4
  <2>2. b <= drain
    BY <1>2, <1>7, <2>1
  <2>3. QED
    BY <1>2, <1>5, <1>6, <2>1, <2>2
<1>8. ASSUME NEW p, Carries(p, b)
      PROVE  p \in 0 .. BatchN - 1 /\ \E u \in Underway : u.past >= b /\ u.d = DataAt(p)
  <2>1. PICK s \in 0 .. Count - 1 : p = Orig(s) /\ alive[s]
    BY <1>6, <1>8
  <2>2. [d |-> wstate[p].d, past |-> drain] \in Underway /\ b <= drain
    BY <1>3, <1>4, <1>6, <1>8
  <2>3. QED
    BY <1>2, <1>5, <2>1, <2>2
<1>9. QED
  BY <1>7, <1>8

LEMMA CarriedAtEnd ==
  ASSUME Shape, stage \in {"continue", "collect"}, NEW b \in 0 .. Drains
  PROVE  /\ \A u \in Underway : u.past >= b => \E p \in 0 .. BatchN - 1 : Carries(p, b) /\ u.d = DataAt(p)
         /\ \A p : Carries(p, b) => p \in 0 .. BatchN - 1 /\ \E u \in Underway : u.past >= b /\ u.d = DataAt(p)
<1>1. TypeOK /\ LiveOK /\ InBatch /\ stage \notin Kernels /\ drain > 1
  BY DEF Shape, InBatch, Kernels, StageOK
<1>2. \A n \in DOMAIN live : live[n] \in 0 .. BatchN - 1 /\ wstate[live[n]].d = DataAt(live[n])
  BY <1>1 DEF LiveOK
<1>3. LivePositions = {live[n] : n \in DOMAIN live}
  BY DEF LivePositions, ToSet
<1> DEFINE Kept(p) == \E n \in DOMAIN live : p = live[n] /\ (stage = "collect" => flags[p] # 0)
<1>4. Underway = {[d |-> wstate[p].d, past |-> Drains] : p \in {q \in LivePositions : Kept(q)}}
  <2>1. CASE stage = "continue"
    <3>1. LivePositions = {q \in LivePositions : Kept(q)}
      BY <1>3, <2>1
    <3> HIDE DEF Kept
    <3>2. QED
      BY <2>1, <3>1, UnderwayIs DEF PassedOf
  <2>2. CASE stage = "collect"
    <3>1. {q \in LivePositions : flags[q] # 0} = {q \in LivePositions : Kept(q)}
      BY <1>3, <2>2
    <3> HIDE DEF Kept
    <3>2. QED
      BY <2>2, <3>1, UnderwayIs DEF ScreenedOf, PassedOf
  <2>3. QED
    BY <2>1, <2>2
<1>5. \A p : Kept(p) => p \in LivePositions /\ p \in 0 .. BatchN - 1 /\ wstate[p].d = DataAt(p)
  BY <1>2, <1>3
<1>6. \A p : Carries(p, b) <=> Kept(p)
  <2>1. b <= Drains
    BY <1>1, BoundaryType
  <2>2. QED
    BY <1>1, <2>1 DEF Carries
<1> HIDE DEF Kept
<1>7. Drains >= b
  BY <1>1, BoundaryType
<1>8. ASSUME NEW u \in Underway, u.past >= b
      PROVE  \E p \in 0 .. BatchN - 1 : Carries(p, b) /\ u.d = DataAt(p)
  <2>1. PICK p \in {q \in LivePositions : Kept(q)} : u = [d |-> wstate[p].d, past |-> Drains]
    BY <1>4
  <2>2. QED
    BY <1>5, <1>6, <2>1
<1>9. ASSUME NEW p, Carries(p, b)
      PROVE  p \in 0 .. BatchN - 1 /\ \E u \in Underway : u.past >= b /\ u.d = DataAt(p)
  <2>1. Kept(p) /\ p \in LivePositions /\ p \in 0 .. BatchN - 1 /\ wstate[p].d = DataAt(p)
    BY <1>5, <1>6, <1>9
  <2>2. [d |-> wstate[p].d, past |-> Drains] \in Underway
    BY <1>4, <2>1
  <2>3. QED
    BY <1>7, <2>1, <2>2
<1>10. QED
  BY <1>8, <1>9

LEMMA HeldIs ==
  Shape => \A b \in 0 .. Drains : \A x : x \in HeldPast(b) <=> HeldBy(x, b)
<1>1. SUFFICES ASSUME Shape, NEW b \in 0 .. Drains, NEW x PROVE x \in HeldPast(b) <=> HeldBy(x, b)
  OBVIOUS
<1>2. TypeOK
  BY <1>1 DEF Shape
<1>3. /\ \A u \in Underway : u.past >= b => \E p \in 0 .. BatchN - 1 : Carries(p, b) /\ u.d = DataAt(p)
      /\ \A p : Carries(p, b) => p \in 0 .. BatchN - 1 /\ \E u \in Underway : u.past >= b /\ u.d = DataAt(p)
  <2>1. CASE stage \in Kernels
    BY <1>1, <2>1, CarriedInKernel
  <2>2. CASE stage = "compact"
    BY <1>1, <2>2, CarriedInCompact
  <2>3. CASE stage \in {"continue", "collect"}
    BY <1>1, <2>3, CarriedAtEnd
  <2>4. CASE ~InBatch
    <3>1. Underway = {} /\ (\A p : ~Carries(p, b))
      BY <1>2, <2>4, UnderwayIs DEF Carries, InBatch, Kernels
    <3>2. QED
      BY <3>1
  <2>5. QED
    BY <1>2, <2>1, <2>2, <2>3, <2>4 DEF TypeOK, InBatch
<1>4. x \in HeldPast(b) <=> (\E u \in Underway : u.past >= b /\ x = Ending(u.d)) \/ (\E h \in hits : x = Ending(h.data))
  BY DEF HeldPast
<1>5. QED
  BY <1>3, <1>4 DEF HeldBy

-----------------------------------------------------------------------------
(* Ranks in a finite set of numbers.                                       *)

LEMMA RankIs ==
  ASSUME NEW S \in SUBSET Nat, IsFiniteSet(S)
  PROVE  /\ Cardinality(S) \in Nat
         /\ \A p \in S : Rank(p, S) \in 0 .. Cardinality(S) - 1
         /\ \A p, q \in S : p < q => Rank(p, S) < Rank(q, S)
         /\ \A r \in 0 .. Cardinality(S) - 1 : \E p \in S : Rank(p, S) = r
<1> DEFINE n == Cardinality(S)
           Below(p) == {q \in S : q < p}
<1>1. n \in Nat
  BY FS_CardinalityType
<1>2. ASSUME NEW p \in S PROVE IsFiniteSet(Below(p)) /\ Rank(p, S) = Cardinality(Below(p)) /\ Rank(p, S) \in 0 .. n - 1
  <2>1. Below(p) \in SUBSET S /\ p \notin Below(p) /\ Below(p) # S
    OBVIOUS
  <2>2. IsFiniteSet(Below(p)) /\ Cardinality(Below(p)) <= n /\ (n = Cardinality(Below(p)) => S = Below(p))
    BY <2>1, FS_Subset
  <2>3. Cardinality(Below(p)) \in Nat
    BY <2>2, FS_CardinalityType
  <2>4. Rank(p, S) = Cardinality(Below(p))
    BY DEF Rank
  <2> HIDE DEF Below, n
  <2>5. QED
    BY <1>1, <2>1, <2>2, <2>3, <2>4
<1>3. ASSUME NEW p \in S, NEW q \in S, p < q PROVE Rank(p, S) < Rank(q, S)
  <2>1. Below(p) \in SUBSET Below(q) /\ p \in Below(q) /\ p \notin Below(p)
    <3>1. p \in Nat /\ q \in Nat /\ \A x \in S : x \in Nat
      OBVIOUS
    <3>2. \A x \in S : x < p => x < q
      BY <1>3, <3>1
    <3>3. ~(p < p)
      BY <3>1
    <3>4. QED
      BY <1>3, <3>2, <3>3
  <2>2. IsFiniteSet(Below(q)) /\ Rank(p, S) = Cardinality(Below(p)) /\ Rank(q, S) = Cardinality(Below(q))
        /\ Rank(p, S) \in 0 .. n - 1 /\ Rank(q, S) \in 0 .. n - 1
    BY <1>2
  <2> HIDE DEF Below, n
  <2>3. Cardinality(Below(p)) <= Cardinality(Below(q)) /\ (Cardinality(Below(q)) = Cardinality(Below(p)) => Below(q) = Below(p))
    BY <2>1, <2>2, FS_Subset
  <2>4. QED
    BY <1>1, <2>1, <2>2, <2>3
<1>4. \A r \in 0 .. n - 1 : \E p \in S : Rank(p, S) = r
  <2> DEFINE f == [p \in S |-> Rank(p, S)]
             T == 0 .. n - 1
  <2>1. IsFiniteSet(T) /\ Cardinality(T) = n
    <3>1. 0 \in Int /\ n - 1 \in Int
      BY <1>1
    <3>2. IsFiniteSet(0 .. n - 1) /\ Cardinality(0 .. n - 1) = IF 0 > n - 1 THEN 0 ELSE n - 1 - 0 + 1
      BY <3>1, FS_Interval
    <3> HIDE DEF n
    <3>3. QED
      BY <1>1, <3>2 DEF T
  <2>2. f \in Injection(S, T)
    <3>1. f \in [S -> T]
      BY <1>2
    <3>2. \A p, q \in S : f[p] = f[q] => p = q
      <4>1. ASSUME NEW p \in S, NEW q \in S, f[p] = f[q] PROVE p = q
        <5>1. p \in Nat /\ q \in Nat /\ Rank(p, S) = Rank(q, S) /\ Rank(p, S) \in 0 .. n - 1
          BY <1>2, <4>1
        <5>2. ~(p < q) /\ ~(q < p)
          BY <1>1, <1>3, <5>1
        <5>3. QED
          BY <5>1, <5>2
      <4>2. QED
        BY <4>1
    <3>3. QED
      BY <3>1, <3>2 DEF Injection, IsInjective
  <2>3. f \in Surjection(S, T)
    <3> HIDE DEF f, T
    <3>1. Cardinality(S) = Cardinality(T)
      BY <2>1
    <3>2. QED
      BY <2>1, <2>2, <3>1, FS_Injection
  <2>4. \A r \in T : \E p \in S : f[p] = r
    BY <2>3 DEF Surjection
  <2>5. QED
    BY <2>4
<1>5. QED
  BY <1>1, <1>2, <1>3, <1>4

LEMMA AscendingIs ==
  ASSUME NEW S \in SUBSET Nat, IsFiniteSet(S)
  PROVE  /\ Ascending(S) \in Seq(S)
         /\ \A s \in S : \E n \in DOMAIN Ascending(S) : Ascending(S)[n] = s
         /\ \A n, k \in DOMAIN Ascending(S) : Ascending(S)[n] = Ascending(S)[k] => n = k
<1> DEFINE n == Cardinality(S)
           Ordered(f) == \A i, j \in DOMAIN f : i < j => f[i] < f[j]
<1>1. n \in Nat /\ IsFiniteSet(1 .. n) /\ Cardinality(1 .. n) = n
  <2>1. n \in Nat
    BY FS_CardinalityType
  <2> HIDE DEF n
  <2>2. 1 \in Int /\ n \in Int
    BY <2>1
  <2>3. IsFiniteSet(1 .. n) /\ Cardinality(1 .. n) = IF 1 > n THEN 0 ELSE n - 1 + 1
    BY <2>2, FS_Interval
  <2>4. QED
    BY <2>1, <2>3
<1>2. \E f \in [1 .. n -> S] : Ordered(f)
  <2> DEFINE f == [i \in 1 .. n |-> CHOOSE p \in S : Rank(p, S) = i - 1]
  <2>1. ASSUME NEW i \in 1 .. n PROVE f[i] \in S /\ Rank(f[i], S) = i - 1
    <3>1. i - 1 \in 0 .. Cardinality(S) - 1
      BY <1>1
    <3>2. \E p \in S : Rank(p, S) = i - 1
      BY <3>1, RankIs
    <3>3. QED
      BY <3>2
  <2>2. f \in [1 .. n -> S]
    BY <2>1
  <2>3. ASSUME NEW i \in 1 .. n, NEW j \in 1 .. n, i < j PROVE f[i] < f[j]
    <3>1. f[i] \in S /\ f[j] \in S /\ Rank(f[i], S) = i - 1 /\ Rank(f[j], S) = j - 1
      BY <2>1
    <3> HIDE DEF f
    <3>2. f[j] < f[i] => Rank(f[j], S) < Rank(f[i], S)
      BY <3>1, RankIs
    <3>3. f[i] # f[j] /\ ~(f[j] < f[i])
      BY <1>1, <2>3, <3>1, <3>2
    <3>4. f[i] \in Nat /\ f[j] \in Nat
      BY <3>1
    <3>5. QED
      BY <3>3, <3>4
  <2>4. QED
    BY <2>2, <2>3
<1>3. Ascending(S) \in [1 .. n -> S] /\ Ordered(Ascending(S))
  BY <1>2 DEF Ascending
<1> DEFINE f == Ascending(S)
<1>4. \A i, j \in 1 .. n : i < j => f[i] < f[j]
  BY <1>3
<1> HIDE DEF f, n
<1>5. \A i, j \in 1 .. n : f[i] = f[j] => i = j
  <2>1. ASSUME NEW i \in 1 .. n, NEW j \in 1 .. n, f[i] = f[j] PROVE i = j
    <3>1. f[i] \in Nat /\ f[j] \in Nat
      BY <1>3 DEF f
    <3>2. ~(i < j) /\ ~(j < i)
      BY <1>4, <2>1, <3>1
    <3>3. QED
      BY <1>1, <3>2
  <2>2. QED
    BY <2>1
<1>6. f \in Injection(1 .. n, S)
  BY <1>3, <1>5 DEF Injection, IsInjective, f
<1>7. f \in Surjection(1 .. n, S)
  BY <1>1, <1>6, FS_Injection DEF n
<1>8. \A s \in S : \E i \in 1 .. n : f[i] = s
  BY <1>7 DEF Surjection
<1>9. f \in Seq(S) /\ DOMAIN f = 1 .. n
  BY <1>1, <1>3 DEF f
<1>10. QED
  BY <1>5, <1>8, <1>9 DEF f

-----------------------------------------------------------------------------
(* The shape is kept.                                                      *)

LEMMA SameBatch ==
  ASSUME cadence' = cadence, done' = done
  PROVE  /\ BatchN' = BatchN /\ Drains' = Drains /\ BatchPositions' = BatchPositions /\ Flags' = Flags
         /\ \A p : DataAt(p)' = DataAt(p) /\ FlagAt(p)' = FlagAt(p)
         /\ \A p, b : Reached(p, b)' = Reached(p, b)
BY DEF BatchN, Drains, BatchPositions, Flags, DataAt, FlagAt, Reached, Completed

LEMMA SameHits ==
  ASSUME HitsOK, UNCHANGED <<cadence, done, hits>>
  PROVE  HitsOK'
BY DEF HitsOK

LEMMA StartIs ==
  ASSUME TypeOK, NEW kernel, NEW b, StartKernel(kernel, b), cadence' = cadence
  PROVE  /\ stage' = kernel /\ drain' = b /\ work' = 0
         /\ warp' \in [Warps -> Warp] /\ table' \in [1 .. Drains -> [CapSlots -> Seq(Entry) \ {<< >>}]]
         /\ \A w \in Warps : warp'[w] = AtCounter /\ ~Busy(w)'
         /\ \A s : ~InHand(s)'
         /\ WarpsOK'
         /\ \A c \in 1 .. Drains, s \in CapSlots : \A n \in DOMAIN table'[c][s] :
              \E k \in DOMAIN table[c][s] : table'[c][s][n].fp = table[c][s][k].fp
<1>1. stage' = kernel /\ drain' = b /\ work' = 0 /\ warp' = [w \in Warps |-> AtCounter] /\ table' = Settled
  BY DEF StartKernel
<1>2. AtCounter \in Warp
  <2>1. << >> \in Seq(State)
    OBVIOUS
  <2>2. QED
    BY <2>1 DEF AtCounter, Warp
<1>3. \A w \in Warps : warp'[w] = AtCounter /\ ~Busy(w)'
  BY <1>1 DEF Busy, AtCounter
<1>4. \A s : ~InHand(s)'
  BY <1>3 DEF InHand
<1>5. WarpsOK'
  BY <1>3 DEF WarpsOK, AtCounter
<1>6. ASSUME NEW c \in 1 .. Drains, NEW s \in CapSlots
      PROVE  /\ table[c][s] \in Seq(Entry) /\ Len(table[c][s]) \in DOMAIN table[c][s]
             /\ Last(table[c][s]) = table[c][s][Len(table[c][s])]
             /\ Last(table[c][s]) \in Entry
             /\ [fp |-> Last(table[c][s]).fp, by |-> Nobody] \in Entry
  <2> DEFINE q == table[c][s]
  <2>1. q \in Seq(Entry) /\ q # << >>
    BY DEF TypeOK
  <2> HIDE DEF q
  <2>2. Len(q) \in 1 .. Len(q) /\ DOMAIN q = 1 .. Len(q)
    BY <2>1
  <2>3. Last(q) = q[Len(q)] /\ q[Len(q)] \in Entry
    BY <2>1, <2>2, ElementOfSeq DEF Last
  <2>4. [fp |-> Last(q).fp, by |-> Nobody] \in Entry
    BY <2>3 DEF Entry, Nobody
  <2>5. QED
    BY <2>1, <2>2, <2>3, <2>4 DEF q
<1>7. DOMAIN table = 1 .. Drains
  BY DEF TypeOK
<1>8. table' = [c \in 1 .. Drains |-> [s \in CapSlots |-> <<[fp |-> Last(table[c][s]).fp, by |-> Nobody]>>]]
  BY <1>1, <1>7 DEF Settled
<1>9. table' \in [1 .. Drains -> [CapSlots -> Seq(Entry) \ {<< >>}]]
  BY <1>6, <1>8
<1>10. ASSUME NEW c \in 1 .. Drains, NEW s \in CapSlots, NEW n \in DOMAIN table'[c][s]
       PROVE  \E k \in DOMAIN table[c][s] : table'[c][s][n].fp = table[c][s][k].fp
  <2>1. table'[c][s] = <<[fp |-> Last(table[c][s]).fp, by |-> Nobody]>>
    BY <1>8
  <2>2. n = 1 /\ table'[c][s][n].fp = Last(table[c][s]).fp
    BY <2>1
  <2>3. QED
    BY <1>6, <2>2
<1>11. QED
  BY <1>1, <1>2, <1>3, <1>4, <1>5, <1>9, <1>10

LEMMA ShapeAtInit ==
  CadenceInit => Shape
<1> SUFFICES ASSUME CadenceInit PROVE Shape
  OBVIOUS
<1>1. cadence \in Cadences /\ stage = "batch" /\ drain = 1 /\ done = 0 /\ work = 0 /\ live = << >> /\ packed = << >>
      /\ blocks = {} /\ hits = {} /\ emitted = 0
  BY DEF CadenceInit
<1>2. Drains \in Nat /\ Drains > 0
  BY <1>1, CadenceType DEF Drains
<1>3. direct_total(cadence) \in Nat
  BY <1>1, TotalType
<1>4. AtCounter \in Warp
  <2>1. << >> \in Seq(State)
    OBVIOUS
  <2>2. QED
    BY <2>1 DEF AtCounter, Warp
<1>5. table \in [1 .. Drains -> [CapSlots -> Seq(Entry) \ {<< >>}]]
  <2>1. [fp |-> 0, by |-> Nobody] \in Entry
    BY DEF Entry, Nobody
  <2>2. table = [c \in 1 .. Drains |-> [s \in CapSlots |-> <<[fp |-> 0, by |-> Nobody]>>]]
    BY DEF CadenceInit, Drains
  <2>3. QED
    BY <2>1, <2>2
<1>6. warp \in [Warps -> Warp]
  BY <1>4 DEF CadenceInit
<1>7. /\ alive \in [BatchPositions -> BOOLEAN] /\ wstate \in [BatchPositions -> State]
      /\ flags \in [BatchPositions -> Flags \union {0}]
  BY DEF CadenceInit, BatchPositions, State
<1>8. IsFiniteSet(hits) /\ emitted = Cardinality(hits)
  BY <1>1, FS_EmptySet
<1>9. TypeOK
  BY <1>1, <1>2, <1>3, <1>5, <1>6, <1>7, <1>8 DEF TypeOK
<1>10. StageOK /\ LiveOK /\ FlagsOK /\ StatesOK /\ WarpsOK /\ PackedOK /\ HitsOK
  BY <1>1 DEF StageOK, LiveOK, FlagsOK, StatesOK, WarpsOK, PackedOK, HitsOK, InBatch, Kernels
<1>11. QED
  BY <1>9, <1>10 DEF Shape

LEMMA BeginBatchKeepsShape ==
  ASSUME Shape, BeginBatch
  PROVE  Shape'
<1>1. TypeOK /\ HitsOK
  BY DEF Shape
<1>2. /\ flags' = [p \in DOMAIN flags |-> IF p < BatchN THEN 0 ELSE flags[p]]
      /\ StartKernel("first", 1)
      /\ UNCHANGED <<cadence, done, alive, live, packed, blocks, wstate, hits, emitted>>
  BY DEF BeginBatch
<1>3. /\ stage' = "first" /\ drain' = 1 /\ work' = 0 /\ warp' \in [Warps -> Warp]
      /\ table' \in [1 .. Drains -> [CapSlots -> Seq(Entry) \ {<< >>}]] /\ WarpsOK'
  BY <1>1, <1>2, StartIs
<1>4. BatchN' = BatchN /\ Drains' = Drains /\ BatchPositions' = BatchPositions /\ Flags' = Flags
  BY <1>2, SameBatch
<1>5. Drains \in Nat /\ 0 .. BatchN - 1 \subseteq BatchPositions /\ BatchN \in Nat
  BY <1>1, BoundaryType, BatchType
<1>6. flags' \in [BatchPositions -> Flags \union {0}] /\ \A p \in 0 .. BatchN - 1 : flags'[p] = 0
  <2>1. flags \in [BatchPositions -> Flags \union {0}]
    BY <1>1 DEF TypeOK
  <2>2. QED
    BY <1>2, <1>5, <2>1
<1>7. TypeOK'
  <2>1. drain' \in 1 .. Drains + 1
    BY <1>3, <1>5
  <2>2. QED
    BY <1>1, <1>2, <1>3, <1>4, <1>6, <2>1 DEF TypeOK, Kernels
<1>8. FlagsOK'
  BY <1>4, <1>6 DEF FlagsOK
<1>9. StatesOK'
  BY <1>3 DEF StatesOK
<1>10. StageOK' /\ LiveOK' /\ PackedOK'
  BY <1>3 DEF StageOK, LiveOK, PackedOK
<1>11. HitsOK'
  BY <1>1, <1>2, SameHits
<1>12. QED
  BY <1>3, <1>7, <1>8, <1>9, <1>10, <1>11 DEF Shape

LEMMA EndKeyKeepsShape ==
  ASSUME Shape, EndKey
  PROVE  Shape'
<1>1. TypeOK /\ HitsOK
  BY DEF Shape
<1>2. /\ stage' = "done"
      /\ UNCHANGED <<cadence, drain, done, work, alive, live, packed, blocks, wstate, flags, warp, table, hits, emitted>>
  BY DEF EndKey
<1>3. BatchN' = BatchN /\ Drains' = Drains /\ BatchPositions' = BatchPositions /\ Flags' = Flags
  BY <1>2, SameBatch
<1>4. TypeOK'
  BY <1>1, <1>2, <1>3 DEF TypeOK
<1>5. StageOK' /\ LiveOK' /\ FlagsOK' /\ StatesOK' /\ WarpsOK' /\ PackedOK'
  BY <1>2 DEF StageOK, LiveOK, FlagsOK, StatesOK, WarpsOK, PackedOK, InBatch, Kernels
<1>6. HitsOK'
  BY <1>1, <1>2, SameHits
<1>7. QED
  BY <1>4, <1>5, <1>6 DEF Shape

LEMMA CountFits ==
  ASSUME TypeOK, LiveOK, InBatch
  PROVE  Count \in Nat /\ Count <= BatchN /\ 0 .. Count - 1 \subseteq BatchPositions
<1> DEFINE n == Count
           m == BatchN
           S == 0 .. n - 1
           T == 0 .. m - 1
           f == [s \in S |-> Orig(s)]
<1>1. n \in Nat /\ m \in Nat /\ T \subseteq BatchPositions
  BY SlotsAre, BatchType
<1>2. \A s \in S : Orig(s) \in T /\ \A t \in S : Orig(t) = Orig(s) => t = s
  BY SlotsAre
<1>3. f \in Injection(S, T)
  BY <1>2 DEF Injection, IsInjective
<1> HIDE DEF f, n, m
<1>4. /\ IsFiniteSet(S) /\ Cardinality(S) = IF 0 > n - 1 THEN 0 ELSE n - 1 - 0 + 1
      /\ IsFiniteSet(T) /\ Cardinality(T) = IF 0 > m - 1 THEN 0 ELSE m - 1 - 0 + 1
  <2>1. 0 \in Int /\ n - 1 \in Int /\ m - 1 \in Int
    BY <1>1
  <2>2. QED
    BY <2>1, FS_Interval
<1>5. Cardinality(S) = n /\ Cardinality(T) = m
  BY <1>1, <1>4
<1>6. Cardinality(S) <= Cardinality(T)
  <2> HIDE DEF S, T
  <2>1. QED
    BY <1>3, <1>4, FS_Injection
<1>7. n <= m /\ 0 .. n - 1 \subseteq BatchPositions
  BY <1>1, <1>5, <1>6
<1>8. QED
  BY <1>1, <1>7 DEF n, m

LEMMA LaneAtIs ==
  ASSUME NEW base, NEW on, NEW p, \E k \in on : Orig(base + k - 1) = p
  PROVE  LaneAt(base, on, p) \in on /\ Orig(base + LaneAt(base, on, p) - 1) = p
BY DEF LaneAt

\* The slots of a warp that takes some.
LEMMA TakenSlots ==
  ASSUME TypeOK, LiveOK, stage \in Kernels, work < Count
  PROVE  /\ Min({cadence.ilp, Count - work}) \in Nat /\ Min({cadence.ilp, Count - work}) > 0
         /\ work + Min({cadence.ilp, Count - work}) <= Count
         /\ work + Min({cadence.ilp, Count - work}) <= work + cadence.ilp
         /\ \A s \in 0 .. Count - 1 : s < work + cadence.ilp => s < work + Min({cadence.ilp, Count - work})
         /\ cadence.ilp \in Nat /\ work \in Nat /\ Count \in Nat
<1>1. InBatch
  BY DEF InBatch, Kernels
<1>2. cadence.ilp \in Nat /\ cadence.ilp > 0 /\ work \in Nat /\ Count \in Nat
  BY <1>1, CadenceType, CountFits DEF TypeOK
<1> DEFINE i == cadence.ilp
           left == Count - work
           valid == Min({i, left})
<1>3. left \in Nat /\ left > 0 /\ work + left = Count
  BY <1>2
<1> HIDE DEF left, i
<1>4. valid = IF i <= left THEN i ELSE left
  BY <1>2, <1>3, MinOfTwo DEF i
<1> HIDE DEF valid
<1>5. valid \in Nat /\ valid > 0 /\ work + valid <= Count /\ work + valid <= work + i
      /\ \A s \in 0 .. Count - 1 : s < work + i => s < work + valid
  BY <1>2, <1>3, <1>4 DEF i
<1>6. QED
  BY <1>2, <1>5 DEF valid, i, left

\* What the screens of lanes run to the last boundary leave.
LEMMA ScreenedIs ==
  ASSUME TypeOK, LiveOK, InBatch, FlagsOK, NEW base \in Nat, NEW vals, NEW on, ScreenLanes(base, vals, on),
         \A k \in on : base + k - 1 \in 0 .. Count - 1 /\ vals[k] = Reached(Orig(base + k - 1), Drains)
  PROVE  /\ flags' \in [BatchPositions -> Flags \union {0}]
         /\ \A p \in BatchPositions :
              flags'[p] = IF \E k \in on : Orig(base + k - 1) = p THEN FlagAt(p) ELSE flags[p]
         /\ \A p \in 0 .. BatchN - 1 : flags'[p] \in {0, FlagAt(p)}
         /\ alive' = alive /\ wstate' = wstate
<1>1. Drains \in Nat /\ \A s \in 0 .. Count - 1 : Orig(s) \in 0 .. BatchN - 1
  BY SlotsAre, BoundaryType
<1>2. 0 .. BatchN - 1 \subseteq BatchPositions /\ flags \in [BatchPositions -> Flags \union {0}]
  BY BatchType DEF TypeOK
<1>3. ASSUME NEW p, \E k \in on : Orig(base + k - 1) = p
      PROVE  p \in 0 .. BatchN - 1 /\ FlagAt(p) \in Flags
             /\ ScreenOf(RunTo(vals[LaneAt(base, on, p)], Drains + 1)) = FlagAt(p)
  <2> DEFINE k == LaneAt(base, on, p)
  <2>1. k \in on /\ Orig(base + k - 1) = p
    BY <1>3, LaneAtIs
  <2>2. p \in 0 .. BatchN - 1 /\ vals[k] = Reached(p, Drains)
    BY <1>1, <2>1
  <2> DEFINE last == Drains + 1
  <2>3. last \in 0 .. Drains + 1 /\ last > 0 /\ last - 1 = Drains
    BY <1>1
  <2>4. ScreenOf(Reached(p, last)) = FlagAt(p) /\ FlagAt(p) \in Flags
    BY <2>2, <2>3, ReachedIs
  <2> HIDE DEF last
  <2>5. RunTo(Reached(p, last - 1), last) = Reached(p, last)
    BY <2>2, <2>3, ReachedIs
  <2>6. RunTo(vals[k], last) = Reached(p, last)
    BY <2>2, <2>3, <2>5
  <2>7. QED
    BY <2>2, <2>4, <2>6 DEF last
<1>4. /\ flags' = [p \in BatchPositions |-> IF \E k \in on : Orig(base + k - 1) = p
                                            THEN ScreenOf(RunTo(vals[LaneAt(base, on, p)], Drains + 1)) ELSE flags[p]]
      /\ alive' = alive /\ wstate' = wstate
  BY <1>2 DEF ScreenLanes
<1>5. \A p \in BatchPositions : flags'[p] = IF \E k \in on : Orig(base + k - 1) = p THEN FlagAt(p) ELSE flags[p]
  BY <1>3, <1>4
<1>6. flags' \in [BatchPositions -> Flags \union {0}]
  <2>1. \A p \in BatchPositions : flags'[p] \in Flags \union {0}
    BY <1>2, <1>3, <1>5
  <2>2. QED
    BY <1>4, <2>1
<1>7. ASSUME NEW p \in 0 .. BatchN - 1 PROVE flags'[p] \in {0, FlagAt(p)}
  <2>1. p \in BatchPositions /\ flags[p] \in {0, FlagAt(p)}
    BY <1>2, <1>7 DEF FlagsOK
  <2>2. QED
    BY <1>5, <2>1
<1>8. QED
  BY <1>4, <1>5, <1>6, <1>7

\* What lanes run to the boundary leave when they are stored.
LEMMA StoredIs ==
  ASSUME TypeOK, LiveOK, InBatch, NEW base \in Nat, NEW vals, NEW on, StoreLanes(base, vals, on),
         NEW b \in 0 .. Drains,
         \A k \in on : base + k - 1 \in 0 .. Count - 1 /\ vals[k] = Reached(Orig(base + k - 1), b)
  PROVE  /\ alive' \in [BatchPositions -> BOOLEAN] /\ wstate' \in [BatchPositions -> State] /\ flags' = flags
         /\ \A s \in BatchPositions : alive'[s] = IF s - base + 1 \in DOMAIN vals THEN s - base + 1 \in on ELSE alive[s]
         /\ \A p \in BatchPositions :
              wstate'[p] = IF \E k \in on : Orig(base + k - 1) = p THEN Reached(p, b) ELSE wstate[p]
<1>1. Drains \in Nat /\ b \in 0 .. Drains + 1 /\ \A s \in 0 .. Count - 1 : Orig(s) \in 0 .. BatchN - 1
  BY SlotsAre, BoundaryType
<1>2. alive \in [BatchPositions -> BOOLEAN] /\ wstate \in [BatchPositions -> State]
  BY DEF TypeOK
<1>3. ASSUME NEW p, \E k \in on : Orig(base + k - 1) = p
      PROVE  vals[LaneAt(base, on, p)] = Reached(p, b) /\ Reached(p, b) \in State
  <2> DEFINE k == LaneAt(base, on, p)
  <2>1. k \in on /\ Orig(base + k - 1) = p
    BY <1>3, LaneAtIs
  <2>2. p \in 0 .. BatchN - 1 /\ vals[k] = Reached(p, b)
    BY <1>1, <2>1
  <2>3. QED
    BY <1>1, <2>2, ReachedIs
<1>4. /\ alive' = [s \in BatchPositions |-> IF s - base + 1 \in DOMAIN vals THEN s - base + 1 \in on ELSE alive[s]]
      /\ wstate' = [p \in BatchPositions |-> IF \E k \in on : Orig(base + k - 1) = p
                                             THEN vals[LaneAt(base, on, p)] ELSE wstate[p]]
      /\ flags' = flags
  BY <1>2 DEF StoreLanes
<1>5. \A p \in BatchPositions : wstate'[p] = IF \E k \in on : Orig(base + k - 1) = p THEN Reached(p, b) ELSE wstate[p]
  BY <1>3, <1>4
<1>6. wstate' \in [BatchPositions -> State]
  <2>1. \A p \in BatchPositions : wstate'[p] \in State
    BY <1>2, <1>3, <1>5
  <2>2. QED
    BY <1>4, <2>1
<1>7. alive' \in [BatchPositions -> BOOLEAN]
  <2>1. \A s \in BatchPositions : alive[s] \in BOOLEAN
    BY <1>2
  <2>2. \A s \in BatchPositions : alive'[s] = IF s - base + 1 \in DOMAIN vals THEN s - base + 1 \in on ELSE alive[s]
    BY <1>4
  <2>3. ASSUME NEW s \in BatchPositions PROVE alive'[s] \in BOOLEAN
    <3>1. (s - base + 1 \in on) \in BOOLEAN
      OBVIOUS
    <3>2. CASE s - base + 1 \in DOMAIN vals
      <4>1. alive'[s] = (s - base + 1 \in on)
        BY <2>2, <3>2
      <4>2. QED
        BY <3>1, <4>1
    <3>3. CASE s - base + 1 \notin DOMAIN vals
      <4>1. alive'[s] = alive[s]
        BY <2>2, <3>3
      <4>2. QED
        BY <2>1, <4>1
    <3>4. QED
      BY <3>2, <3>3
  <2>4. QED
    BY <1>4, <2>3
<1>8. QED
  BY <1>4, <1>5, <1>6, <1>7

LEMMA SameSlots ==
  ASSUME cadence' = cadence, done' = done, drain' = drain, live' = live
  PROVE  Count' = Count /\ \A s : Orig(s)' = Orig(s)
<1>1. BatchN' = BatchN
  BY SameBatch
<1>2. QED
  BY <1>1 DEF Count, Orig

LEMMA SameWarp ==
  ASSUME NEW x, warp'[x] = warp[x]
  PROVE  /\ Busy(x)' = Busy(x) /\ SlotsOf(x)' = SlotsOf(x)
         /\ \A k : PastOf(x, k)' = PastOf(x, k)
         /\ \A s, b : LaneCarries(x, s, b)' = LaneCarries(x, s, b)
BY DEF Busy, SlotsOf, PastOf, LaneCarries

LEMMA LanesKept ==
  ASSUME TypeOK, LiveOK, stage \in Kernels, NEW x \in Warps, Busy(x), LanesOf(x), warp'[x] = warp[x],
         cadence' = cadence, done' = done, drain' = drain, live' = live, stage' = stage, work' \in Nat, work' >= work
  PROVE  LanesOf(x)'
<1>1. Count' = Count /\ (\A s : Orig(s)' = Orig(s)) /\ Drains' = Drains /\ \A p, b : Reached(p, b)' = Reached(p, b)
  BY SameSlots, SameBatch
<1>2. warp[x].base + Len(warp[x].vals) <= work'
  <2>1. warp[x].base \in Nat /\ warp[x].vals \in Seq(State) /\ work \in Nat
    BY DEF TypeOK, Warp
  <2>2. Len(warp[x].vals) \in Nat /\ warp[x].base + Len(warp[x].vals) <= work
    BY <2>1 DEF LanesOf
  <2>3. QED
    BY <2>1, <2>2
<1>3. QED
  BY <1>1, <1>2 DEF LanesOf

\* A step of one warp: the others keep their lanes.
LEMMA OneWarpMoves ==
  ASSUME Shape, stage \in Kernels, NEW w \in Warps,
         warp' \in [Warps -> Warp], \A x \in Warps \ {w} : warp'[x] = warp[x],
         cadence' = cadence, done' = done, drain' = drain, live' = live, stage' = stage, work' \in Nat, work' >= work,
         ~Busy(w)' => warp'[w].on = {},
         warp'[w].at = "end" => work' >= Count,
         Busy(w)' => LanesOf(w)' /\ \A x \in Warps \ {w} : Busy(x) => SlotsOf(w)' \intersect SlotsOf(x) = {}
  PROVE  WarpsOK'
<1>1. TypeOK /\ LiveOK /\ WarpsOK /\ Count' = Count /\ Count \in Nat /\ work \in Nat
  <2>1. TypeOK /\ LiveOK /\ WarpsOK /\ InBatch
    BY DEF Shape, InBatch, Kernels
  <2>2. QED
    BY <2>1, SameSlots, CountFits DEF TypeOK
<1>2. ASSUME NEW x \in Warps \ {w}
      PROVE  /\ ~Busy(x)' => warp'[x].on = {}
             /\ warp'[x].at = "end" => work' >= Count'
             /\ Busy(x)' => LanesOf(x)' /\ Busy(x)
             /\ Busy(x)' = Busy(x) /\ SlotsOf(x)' = SlotsOf(x)
  <2>1. warp'[x] = warp[x] /\ Busy(x)' = Busy(x) /\ SlotsOf(x)' = SlotsOf(x)
    BY SameWarp
  <2>2. (~Busy(x) => warp[x].on = {}) /\ (warp[x].at = "end" => work >= Count) /\ (Busy(x) => LanesOf(x))
    BY <1>1 DEF WarpsOK
  <2>3. Busy(x) => LanesOf(x)'
    BY <1>1, <2>1, <2>2, LanesKept
  <2>4. QED
    BY <1>1, <2>1, <2>2, <2>3
<1>3. ASSUME NEW x \in Warps, NEW y \in Warps \ {x}, Busy(x)', Busy(y)'
      PROVE  SlotsOf(x)' \intersect SlotsOf(y)' = {}
  <2>1. CASE x = w
    BY <1>2, <1>3, <2>1
  <2>2. CASE y = w
    BY <1>2, <1>3, <2>2
  <2>3. CASE x # w /\ y # w
    <3>1. SlotsOf(x) \intersect SlotsOf(y) = {}
      BY <1>1, <1>2, <1>3, <2>3 DEF WarpsOK
    <3>2. QED
      BY <1>2, <2>3, <3>1
  <2>4. QED
    BY <2>1, <2>2, <2>3
<1>4. ASSUME NEW x \in Warps
      PROVE  /\ ~Busy(x)' => warp'[x].on = {}
             /\ warp'[x].at = "end" => work' >= Count'
             /\ Busy(x)' => LanesOf(x)'
  BY <1>1, <1>2
<1>5. QED
  BY <1>3, <1>4 DEF WarpsOK

Valid == Min({cadence.ilp, Count - work})
TakesNone(w) == warp' = [warp EXCEPT ![w].at = "end"] /\ UNCHANGED <<alive, wstate, flags>>
TakesAndScreens == ScreenLanes(work, [k \in 1 .. Valid |-> wstate[Orig(work + k - 1)]], 1 .. Valid) /\ UNCHANGED warp
TakesSome(w) ==
  /\ warp' = [warp EXCEPT ![w] = [at |-> "probe", base |-> work, drain |-> drain, lane |-> 1, way |-> 0,
                                  vals |-> [k \in 1 .. Valid |-> Loaded(work + k - 1)], on |-> 1 .. Valid]]
  /\ UNCHANGED <<alive, wstate, flags>>

LEMMA TakeIs ==
  ASSUME Shape, NEW w \in Warps, Take(w)
  PROVE  /\ stage \in Kernels /\ warp[w].at = "take" /\ ~Busy(w) /\ work' = work + cadence.ilp /\ work' \in Nat /\ work' >= work
         /\ UNCHANGED <<cadence, stage, drain, done, live, packed, blocks, table, hits, emitted>>
         /\ \/ work >= Count /\ TakesNone(w)
            \/ work < Count /\ drain = Drains + 1 /\ stage = "fused" /\ TakesAndScreens
            \/ work < Count /\ drain <= Drains /\ TakesSome(w)
<1>1. TypeOK /\ StageOK /\ LiveOK /\ stage \in Kernels /\ InBatch
  BY DEF Take, Shape, InBatch, Kernels
<1>2. /\ Count \in Nat /\ work \in Nat /\ Drains \in Nat /\ drain \in 1 .. Drains + 1 /\ cadence.ilp \in Nat
  BY <1>1, CountFits, BoundaryType, CadenceType DEF TypeOK
<1>3. warp[w].at = "take" /\ ~Busy(w) /\ work' = work + cadence.ilp
      /\ UNCHANGED <<cadence, stage, drain, done, live, packed, blocks, table, hits, emitted>>
  BY DEF Take, Busy
<1>4. (CASE work >= Count -> TakesNone(w)
         [] work < Count /\ drain > Drains -> TakesAndScreens
         [] work < Count /\ drain <= Drains -> TakesSome(w))
  BY DEF Take, TakesNone, TakesAndScreens, TakesSome, Valid
<1>5. work < Count /\ drain > Drains => drain = Drains + 1 /\ stage = "fused"
  <2>1. (stage = "first" => drain = 1) /\ (stage = "span" => drain \in 2 .. Drains)
    BY <1>1 DEF StageOK
  <2>2. Drains > 0
    BY <1>1, BoundaryType
  <2>3. QED
    BY <1>1, <1>2, <2>1, <2>2 DEF Kernels
<1>6. \/ work >= Count /\ TakesNone(w)
      \/ work < Count /\ drain > Drains /\ TakesAndScreens
      \/ work < Count /\ drain <= Drains /\ TakesSome(w)
  <2>1. \/ work >= Count /\ ~(work < Count)
        \/ ~(work >= Count) /\ work < Count /\ drain > Drains /\ ~(drain <= Drains)
        \/ ~(work >= Count) /\ work < Count /\ ~(drain > Drains) /\ drain <= Drains
    BY <1>2
  <2>2. QED
    BY <1>4, <2>1, Zenon
<1>7. work' \in Nat /\ work' >= work
  BY <1>2, <1>3
<1>8. \/ work >= Count /\ TakesNone(w)
      \/ work < Count /\ drain = Drains + 1 /\ stage = "fused" /\ TakesAndScreens
      \/ work < Count /\ drain <= Drains /\ TakesSome(w)
  BY <1>5, <1>6
<1>9. QED
  BY <1>1, <1>3, <1>7, <1>8

LEMMA TakeKeepsShape ==
  ASSUME Shape, NEW w \in Warps, Take(w)
  PROVE  Shape'
<1>1. /\ TypeOK /\ StageOK /\ LiveOK /\ FlagsOK /\ StatesOK /\ WarpsOK /\ HitsOK
      /\ stage \in Kernels /\ InBatch /\ ~Busy(w) /\ work' = work + cadence.ilp /\ work' \in Nat /\ work' >= work
      /\ UNCHANGED <<cadence, stage, drain, done, live, packed, blocks, table, hits, emitted>>
  BY TakeIs DEF Shape, InBatch, Kernels
<1>2. /\ BatchN' = BatchN /\ Drains' = Drains /\ BatchPositions' = BatchPositions /\ Flags' = Flags
      /\ (\A p : DataAt(p)' = DataAt(p) /\ FlagAt(p)' = FlagAt(p)) /\ (\A p, b : Reached(p, b)' = Reached(p, b))
      /\ Count' = Count /\ (\A s : Orig(s)' = Orig(s)) /\ stage' = stage /\ drain' = drain
  BY <1>1, SameBatch, SameSlots
<1>3. /\ Count \in Nat /\ work \in Nat /\ Drains \in Nat /\ drain \in 1 .. Drains + 1 /\ warp \in [Warps -> Warp]
      /\ \A s \in 0 .. Count - 1 : Orig(s) \in 0 .. BatchN - 1
  BY <1>1, CountFits, SlotsAre, BoundaryType DEF TypeOK
<1>4. /\ warp[w].on = {} /\ \A x \in Warps : warp[x].at = "end" => work >= Count
      /\ \A x \in Warps : Busy(x) => LanesOf(x) /\ \A s \in SlotsOf(x) : s < work
  BY <1>1, BusyLanes DEF WarpsOK
<1>5. StageOK' /\ PackedOK' /\ HitsOK'
  <2>1. HitsOK'
    BY <1>1, SameHits
  <2>2. QED
    BY <1>1, <1>2, <2>1 DEF StageOK, PackedOK, Kernels
<1>6. SUFFICES /\ warp' \in [Warps -> Warp] /\ wstate' = wstate /\ alive' = alive
               /\ flags' \in [BatchPositions -> Flags \union {0}] /\ FlagsOK'
               /\ stage \in {"first", "span"} => \A s \in 0 .. Count - 1 : s < work' /\ ~InHand(s)' => s < work /\ ~InHand(s)
               /\ WarpsOK'
  <2>1. TypeOK'
    BY <1>1, <1>2, <1>6 DEF TypeOK
  <2>2. LiveOK'
    BY <1>1, <1>2, <1>6 DEF LiveOK, InBatch
  <2>3. StatesOK'
    <3>1. ASSUME NEW s \in work' .. Count' - 1, drain' > 1
          PROVE  wstate'[Orig(s)'] = Reached(Orig(s), drain - 1)'
      <4>1. s \in work .. Count - 1
        BY <1>1, <1>2, <1>3
      <4>2. wstate[Orig(s)] = Reached(Orig(s), drain - 1)
        BY <1>1, <1>2, <3>1, <4>1 DEF StatesOK
      <4>3. Reached(Orig(s), drain - 1)' = Reached(Orig(s), drain - 1)
        BY <1>1, <1>2 DEF Reached, DataAt, Completed
      <4>4. QED
        BY <1>2, <1>6, <4>2, <4>3
    <3>2. ASSUME NEW s \in 0 .. Count' - 1, stage' \in {"first", "span"}, s < work', ~InHand(s)', alive'[s]
          PROVE  wstate'[Orig(s)'] = Reached(Orig(s), drain)'
      <4>1. s \in 0 .. Count - 1 /\ s < work /\ ~InHand(s) /\ alive[s]
        BY <1>2, <1>6, <3>2
      <4>2. wstate[Orig(s)] = Reached(Orig(s), drain)
        BY <1>1, <1>2, <3>2, <4>1 DEF StatesOK
      <4>3. Reached(Orig(s), drain)' = Reached(Orig(s), drain)
        BY <1>1, <1>2 DEF Reached, DataAt, Completed
      <4>4. QED
        BY <1>2, <1>6, <4>2, <4>3
    <3>3. QED
      BY <1>1, <1>2, <3>1, <3>2 DEF StatesOK, Kernels
  <2>4. QED
    BY <1>5, <1>6, <2>1, <2>2, <2>3 DEF Shape
<1>7. CASE work >= Count /\ TakesNone(w)
  <2>1. /\ warp' = [warp EXCEPT ![w].at = "end"] /\ UNCHANGED <<alive, wstate, flags>>
    BY <1>7 DEF TakesNone
  <2>2. /\ warp' \in [Warps -> Warp] /\ warp'[w].at = "end" /\ warp'[w].on = {}
        /\ (\A x \in Warps \ {w} : warp'[x] = warp[x])
    BY <1>3, <1>4, <2>1 DEF Warp
  <2>3. ~Busy(w)' /\ \A x \in Warps \ {w} : Busy(x)' = Busy(x) /\ SlotsOf(x)' = SlotsOf(x)
    BY <2>2, SameWarp DEF Busy
  <2>4. WarpsOK'
    BY <1>1, <1>2, <1>3, <1>7, <2>2, <2>3, OneWarpMoves
  <2>5. \A s : InHand(s) => InHand(s)'
    BY <1>1, <2>3 DEF InHand
  <2>6. \A s \in 0 .. Count - 1 : s < work
    BY <1>3, <1>7
  <2>7. flags' \in [BatchPositions -> Flags \union {0}] /\ FlagsOK'
    BY <1>1, <1>2, <2>1 DEF TypeOK, FlagsOK, InBatch
  <2>8. QED
    BY <2>1, <2>2, <2>4, <2>5, <2>6, <2>7
<1>8. CASE work < Count /\ drain = Drains + 1 /\ stage = "fused" /\ TakesAndScreens
  <2>1. ScreenLanes(work, [k \in 1 .. Valid |-> wstate[Orig(work + k - 1)]], 1 .. Valid) /\ warp' = warp
    BY <1>8 DEF TakesAndScreens
  <2>2. \A k \in 1 .. Valid : work + k - 1 \in 0 .. Count - 1 /\ work + k - 1 \in work .. Count - 1
    <3>1. Valid \in Nat /\ work + Valid <= Count
      BY <1>1, <1>8, TakenSlots DEF Valid
    <3>2. QED
      BY <1>3, <3>1
  <2>3. \A k \in 1 .. Valid : wstate[Orig(work + k - 1)] = Reached(Orig(work + k - 1), Drains)
    <3>1. \A s \in work .. Count - 1 : wstate[Orig(s)] = Reached(Orig(s), drain - 1)
      <4>1. drain > 1
        BY <1>1, <1>3, <1>8, BoundaryType
      <4>2. QED
        BY <1>1, <4>1 DEF StatesOK
    <3>2. drain - 1 = Drains
      BY <1>3, <1>8
    <3>3. QED
      BY <2>2, <3>1, <3>2
  <2>4. /\ flags' \in [BatchPositions -> Flags \union {0}] /\ (\A p \in 0 .. BatchN - 1 : flags'[p] \in {0, FlagAt(p)})
        /\ alive' = alive /\ wstate' = wstate
    <3> DEFINE vals == [k \in 1 .. Valid |-> wstate[Orig(work + k - 1)]]
               on == 1 .. Valid
    <3>1. \A k \in on : work + k - 1 \in 0 .. Count - 1 /\ vals[k] = Reached(Orig(work + k - 1), Drains)
      BY <2>2, <2>3
    <3>2. ScreenLanes(work, vals, on)
      BY <2>1
    <3> HIDE DEF vals, on
    <3>3. QED
      BY <1>1, <1>3, <3>1, <3>2, ScreenedIs
  <2>5. FlagsOK'
    BY <1>2, <2>4 DEF FlagsOK
  <2>6. WarpsOK'
    <3>1. ~Busy(w)' /\ (\A x \in Warps \ {w} : warp'[x] = warp[x]) /\ warp' \in [Warps -> Warp]
      BY <1>1, <1>3, <2>1 DEF Busy
    <3>2. warp'[w].on = {} /\ (warp'[w].at = "end" => work' >= Count)
      BY <1>1, <1>3, <1>4, <2>1
    <3>3. QED
      BY <1>1, <1>2, <3>1, <3>2, OneWarpMoves
  <2>7. warp' \in [Warps -> Warp]
    BY <1>3, <2>1
  <2>8. QED
    BY <1>8, <2>4, <2>5, <2>6, <2>7
<1>9. CASE work < Count /\ drain <= Drains /\ TakesSome(w)
  <2> DEFINE r == [at |-> "probe", base |-> work, drain |-> drain, lane |-> 1, way |-> 0,
                   vals |-> [k \in 1 .. Valid |-> Loaded(work + k - 1)], on |-> 1 .. Valid]
  <2>1. warp' = [warp EXCEPT ![w] = r] /\ UNCHANGED <<alive, wstate, flags>>
    BY <1>9 DEF TakesSome
  <2>2. /\ Valid \in Nat /\ Valid > 0 /\ work + Valid <= Count /\ work + Valid <= work'
        /\ \A s \in 0 .. Count - 1 : s < work' => s < work + Valid
    BY <1>1, <1>9, TakenSlots DEF Valid
  <2>3. \A k \in 1 .. Valid : /\ work + k - 1 \in work .. Count - 1
                              /\ Loaded(work + k - 1) = Reached(Orig(work + k - 1), drain)
                              /\ Loaded(work + k - 1) \in State
    <3>1. \A k \in 1 .. Valid : work + k - 1 \in work .. Count - 1
      BY <1>3, <2>2
    <3>2. \A s \in work .. Count - 1 : Loaded(s) = Reached(Orig(s), drain) /\ Orig(s) \in 0 .. BatchN - 1
      BY <1>1, LoadedIs
    <3>3. drain \in 0 .. Drains + 1
      BY <1>3
    <3>4. \A s \in work .. Count - 1 : Loaded(s) \in State
      BY <1>1, <3>2, <3>3, ReachedIs
    <3>5. QED
      BY <3>1, <3>2, <3>4
  <2>4. r \in Warp /\ r.vals \in Seq(State) /\ Len(r.vals) = Valid /\ DOMAIN r.vals = 1 .. Valid
    <3>1. r.vals \in Seq(State) /\ Len(r.vals) = Valid /\ DOMAIN r.vals = 1 .. Valid
      BY <2>2, <2>3
    <3>2. drain \in Nat
      BY <1>3
    <3>3. QED
      BY <1>3, <2>2, <3>1, <3>2 DEF Warp
  <2>5. /\ warp' \in [Warps -> Warp] /\ warp'[w] = r /\ \A x \in Warps \ {w} : warp'[x] = warp[x]
    BY <1>3, <2>1, <2>4
  <2>6. Busy(w)' /\ SlotsOf(w)' = work .. work + Valid - 1
    <3>1. warp'[w].at = "probe" /\ warp'[w].base = work /\ Len(warp'[w].vals) = Valid
      <4>1. r.at = "probe" /\ r.base = work
        OBVIOUS
      <4> HIDE DEF r
      <4>2. QED
        BY <2>4, <2>5, <4>1
    <3>2. QED
      BY <3>1 DEF Busy, SlotsOf
  <2>7. LanesOf(w)'
    <3>1. r.vals # << >>
      BY <2>2, <2>4
    <3>2. r.on \subseteq DOMAIN r.vals /\ r.lane \in r.on
      BY <2>2, <2>4
    <3>3. r.base + Len(r.vals) <= Count /\ r.base + Len(r.vals) <= work'
      BY <2>2, <2>4
    <3>4. \A k \in DOMAIN r.vals : r.vals[k] = Reached(Orig(r.base + k - 1), r.drain)
      BY <2>3, <2>4
    <3>5. r.drain \in drain .. Drains /\ r.drain = drain /\ r.way \in 0 .. CapWays - 1
      BY <1>3, <1>9, ShapeType
    <3> HIDE DEF r
    <3>6. QED
      BY <1>2, <2>5, <3>1, <3>2, <3>3, <3>4, <3>5 DEF LanesOf
  <2>8. \A x \in Warps \ {w} : Busy(x) => SlotsOf(w)' \intersect SlotsOf(x) = {}
    BY <1>3, <1>4, <2>6
  <2>9. WarpsOK'
    <3>1. warp'[w].at # "end"
      BY <2>6 DEF Busy
    <3>2. QED
      BY <1>1, <1>2, <2>5, <2>6, <2>7, <2>8, <3>1, OneWarpMoves
  <2>10. ASSUME NEW s \in 0 .. Count - 1, s < work', ~InHand(s)' PROVE s < work /\ ~InHand(s)
    <3>1. s < work
      <4>1. s \notin SlotsOf(w)'
        BY <2>6, <2>10 DEF InHand
      <4>2. QED
        BY <1>3, <2>2, <2>6, <2>10, <4>1
    <3>2. ~InHand(s)
      <4>1. ASSUME NEW x \in Warps, Busy(x), s \in SlotsOf(x) PROVE FALSE
        <5>1. x # w
          BY <1>1, <4>1
        <5>2. Busy(x)' /\ s \in SlotsOf(x)'
          BY <2>5, <4>1, <5>1, SameWarp
        <5>3. QED
          BY <2>10, <5>2 DEF InHand
      <4>2. QED
        BY <4>1 DEF InHand
    <3>3. QED
      BY <3>1, <3>2
  <2>11. flags' \in [BatchPositions -> Flags \union {0}] /\ FlagsOK'
    BY <1>1, <1>2, <2>1 DEF TypeOK, FlagsOK, InBatch
  <2>12. QED
    BY <2>1, <2>5, <2>9, <2>10, <2>11
<1>10. QED
  BY <1>7, <1>8, <1>9, TakeIs

\* What becomes of a warp's lanes when one is judged.
Left(w, keep)  == IF keep THEN warp[w].on ELSE warp[w].on \ {warp[w].lane}
Later(w, keep) == {k \in Left(w, keep) : k > warp[w].lane}
ToNextLane(w, keep) ==
  /\ warp'[w].at = "probe" /\ warp'[w].base = warp[w].base /\ warp'[w].drain = warp[w].drain /\ warp'[w].vals = warp[w].vals
  /\ warp'[w].on = Left(w, keep) /\ warp'[w].way = 0
  /\ warp'[w].lane \in Later(w, keep) /\ \A k \in Later(w, keep) : warp'[w].lane <= k
  /\ UNCHANGED <<alive, wstate, flags>>
ToNextBoundary(w, keep) ==
  /\ Later(w, keep) = {} /\ stage = "fused" /\ warp[w].drain < Drains
  /\ warp'[w].at = "probe" /\ warp'[w].base = warp[w].base /\ warp'[w].drain = warp[w].drain + 1
  /\ warp'[w].vals = [k \in DOMAIN warp[w].vals |-> RunTo(warp[w].vals[k], warp[w].drain + 1)]
  /\ warp'[w].on = Left(w, keep) /\ warp'[w].way = 0
  /\ warp'[w].lane \in Left(w, keep) /\ \A k \in Left(w, keep) : warp'[w].lane <= k
  /\ UNCHANGED <<alive, wstate, flags>>
ToCounter(w, keep) ==
  /\ Later(w, keep) = {} /\ warp'[w] = AtCounter
  /\ \/ /\ stage = "fused" /\ (warp[w].drain = Drains \/ Left(w, keep) = {})
        /\ ScreenLanes(warp[w].base, warp[w].vals, Left(w, keep))
     \/ stage # "fused" /\ StoreLanes(warp[w].base, warp[w].vals, Left(w, keep))

LEMMA WarpFields ==
  ASSUME NEW v \in Warp, NEW on \in SUBSET Nat, NEW m \in Nat, NEW vals \in Seq(State), NEW d \in Nat
  PROVE  /\ [v EXCEPT !.at = "probe", !.on = on, !.lane = m, !.way = 0] \in Warp
         /\ [v EXCEPT !.at = "probe", !.on = on, !.lane = m, !.way = 0, !.vals = vals, !.drain = d] \in Warp
<1> DEFINE States == Seq(State)
<1>1. vals \in States /\ Warp = [at : {"take", "probe", "store", "end"}, base : Nat, drain : Nat, lane : Nat, way : Nat,
                                vals : States, on : SUBSET Nat]
  BY DEF Warp
<1> HIDE DEF States
<1> DEFINE v1 == [v EXCEPT !.at = "probe"]
           v2 == [v1 EXCEPT !.on = on]
           v3 == [v2 EXCEPT !.lane = m]
           v4 == [v3 EXCEPT !.way = 0]
           v5 == [v4 EXCEPT !.vals = vals]
           v6 == [v5 EXCEPT !.drain = d]
<1>2. /\ [v EXCEPT !.at = "probe", !.on = on, !.lane = m, !.way = 0] = v4
      /\ [v EXCEPT !.at = "probe", !.on = on, !.lane = m, !.way = 0, !.vals = vals, !.drain = d] = v6
  OBVIOUS
<1>3. v1 \in Warp
  BY <1>1
<1> HIDE DEF v1
<1>4. v2 \in Warp
  BY <1>1, <1>3
<1> HIDE DEF v2
<1>5. v3 \in Warp
  BY <1>1, <1>4
<1> HIDE DEF v3
<1>6. v4 \in Warp
  BY <1>1, <1>5
<1> HIDE DEF v4
<1>7. v5 \in Warp
  BY <1>1, <1>6
<1> HIDE DEF v5
<1>8. v6 \in Warp
  BY <1>1, <1>7
<1>9. QED
  BY <1>2, <1>6, <1>8

LEMMA JudgedIs ==
  ASSUME Shape, stage \in Kernels, NEW w \in Warps, Busy(w), NEW keep \in BOOLEAN, Judged(w, keep)
  PROVE  /\ warp' \in [Warps -> Warp] /\ \A x \in Warps \ {w} : warp'[x] = warp[x]
         /\ ToNextLane(w, keep) \/ ToNextBoundary(w, keep) \/ ToCounter(w, keep)
         /\ Left(w, keep) \subseteq warp[w].on /\ Left(w, keep) \in SUBSET Nat
<1> DEFINE on == Left(w, keep)
           later == Later(w, keep)
           onward == stage = "fused" /\ warp[w].drain < Drains /\ on # {}
           vals == [k \in DOMAIN warp[w].vals |-> RunTo(warp[w].vals[k], warp[w].drain + 1)]
           A == warp' = [warp EXCEPT ![w].at = "probe", ![w].on = on, ![w].lane = Min(later), ![w].way = 0]
                /\ UNCHANGED <<alive, wstate, flags>>
           B == warp' = [warp EXCEPT ![w].at = "probe", ![w].on = on, ![w].lane = Min(on), ![w].way = 0,
                                     ![w].vals = vals, ![w].drain = @ + 1]
                /\ UNCHANGED <<alive, wstate, flags>>
           C == warp' = [warp EXCEPT ![w] = AtCounter]
                /\ IF stage = "fused" THEN ScreenLanes(warp[w].base, warp[w].vals, on)
                                      ELSE StoreLanes(warp[w].base, warp[w].vals, on)
<1>1. (CASE later # {} -> A
         [] later = {} /\ onward -> B
         [] later = {} /\ ~onward -> C)
  BY DEF Judged, Left, Later
<1>2. (later # {} /\ A) \/ (later = {} /\ onward /\ B) \/ (later = {} /\ ~onward /\ C)
  <2> HIDE DEF A, B, C, later, onward
  <2>1. QED
    BY <1>1, Zenon
<1>3. TypeOK /\ WarpsOK /\ LiveOK /\ StageOK /\ warp \in [Warps -> Warp] /\ warp[w] \in Warp /\ LanesOf(w)
  BY BusyLanes DEF Shape, TypeOK
<1>4. /\ on \subseteq warp[w].on /\ on \in SUBSET Nat /\ later \subseteq on /\ later \in SUBSET Nat
  BY <1>3 DEF Left, Later, Warp
<1>5. warp[w].drain \in 1 .. Drains /\ Drains \in Nat
  BY <1>3, BusyLanes, BoundaryType
<1>6. CASE later # {} /\ A
  <2> DEFINE m == Min(later)
  <2>1. m \in later /\ (\A k \in later : m <= k) /\ m \in Nat
    BY <1>4, <1>6, MinIs
  <2> HIDE DEF m, on, later
  <2>2. warp' = [warp EXCEPT ![w].at = "probe", ![w].on = on, ![w].lane = m, ![w].way = 0] /\ UNCHANGED <<alive, wstate, flags>>
    BY <1>6 DEF m
  <2>3. warp'[w] = [warp[w] EXCEPT !.at = "probe", !.on = on, !.lane = m, !.way = 0]
        /\ \A x \in Warps \ {w} : warp'[x] = warp[x]
    BY <1>3, <2>2
  <2>4. warp'[w] \in Warp
    <3>1. warp[w].vals \in Seq(State) /\ warp[w].drain \in Nat
      BY <1>3 DEF Warp
    <3>2. [warp[w] EXCEPT !.at = "probe", !.on = on, !.lane = m, !.way = 0] \in Warp
      BY <1>3, <1>4, <2>1, <3>1, WarpFields, Zenon
    <3>3. QED
      BY <2>3, <3>2, Zenon
  <2>5. warp' \in [Warps -> Warp]
    BY <1>3, <2>2, <2>3, <2>4
  <2>6. /\ warp'[w].at = "probe" /\ warp'[w].base = warp[w].base /\ warp'[w].drain = warp[w].drain
        /\ warp'[w].vals = warp[w].vals /\ warp'[w].on = on /\ warp'[w].way = 0 /\ warp'[w].lane = m
    BY <1>3, <2>3 DEF Warp
  <2>7. ToNextLane(w, keep)
    BY <2>1, <2>2, <2>6 DEF ToNextLane, on, later
  <2>8. QED
    BY <1>4, <2>3, <2>5, <2>7 DEF on
<1>7. CASE later = {} /\ onward /\ B
  <2> DEFINE m == Min(on)
  <2>1. m \in on /\ (\A k \in on : m <= k) /\ m \in Nat
    BY <1>4, <1>7, MinIs
  <2>2. vals \in Seq(State) /\ warp[w].drain + 1 \in Nat
    <3>1. warp[w].vals \in Seq(State)
      BY <1>3 DEF Warp
    <3>2. \A k \in DOMAIN warp[w].vals : vals[k] \in State
      <4>1. ASSUME NEW k \in DOMAIN warp[w].vals PROVE RunTo(warp[w].vals[k], warp[w].drain + 1) \in State
        <5> DEFINE s == warp[w].base + k - 1
                   b == warp[w].drain + 1
        <5>1. s \in SlotsOf(w) /\ s \in 0 .. Count - 1 /\ warp[w].vals[k] = Reached(Orig(s), warp[w].drain)
          <6>1. s \in SlotsOf(w) /\ s - warp[w].base + 1 = k
            BY <1>3, BusyLanes
          <6> HIDE DEF s
          <6>2. s \in 0 .. Count - 1 /\ warp[w].vals[s - warp[w].base + 1] = Reached(Orig(s), warp[w].drain)
            BY <1>3, <6>1, BusyLanes
          <6>3. QED
            BY <6>1, <6>2
        <5>2. b \in 0 .. Drains + 1 /\ b > 0 /\ b - 1 = warp[w].drain
          BY <1>5
        <5>3. Orig(s) \in 0 .. BatchN - 1
          BY <1>3, <5>1, SlotsAre DEF InBatch, Kernels
        <5> HIDE DEF s, b
        <5>4. RunTo(Reached(Orig(s), b - 1), b) = Reached(Orig(s), b) /\ Reached(Orig(s), b) \in State
          BY <1>3, <5>2, <5>3, ReachedIs
        <5>5. QED
          BY <5>1, <5>2, <5>4 DEF b
      <4>2. QED
        BY <4>1
    <3>3. Len(warp[w].vals) \in Nat /\ DOMAIN warp[w].vals = 1 .. Len(warp[w].vals)
      BY <3>1
    <3>4. DOMAIN vals = 1 .. Len(warp[w].vals)
      BY <3>3
    <3> DEFINE n == Len(warp[w].vals)
    <3>5. vals = [k \in 1 .. n |-> RunTo(warp[w].vals[k], warp[w].drain + 1)]
      BY <3>3
    <3>6. vals \in [1 .. n -> State]
      BY <3>2, <3>4, <3>5
    <3> HIDE DEF vals, n
    <3>7. vals \in Seq(State)
      BY <3>3, <3>6 DEF n
    <3>8. QED
      BY <1>5, <3>7
  <2> DEFINE d == warp[w].drain + 1
  <2>3. d \in Nat
    BY <2>2
  <2> HIDE DEF m, on, later, vals, d
  <2>4. warp' = [warp EXCEPT ![w].at = "probe", ![w].on = on, ![w].lane = m, ![w].way = 0, ![w].vals = vals, ![w].drain = d]
        /\ UNCHANGED <<alive, wstate, flags>>
    BY <1>7 DEF m, d
  <2>5. warp'[w] = [warp[w] EXCEPT !.at = "probe", !.on = on, !.lane = m, !.way = 0, !.vals = vals, !.drain = d]
        /\ \A x \in Warps \ {w} : warp'[x] = warp[x]
    BY <1>3, <2>4
  <2>6. warp'[w] \in Warp
    <3>1. [warp[w] EXCEPT !.at = "probe", !.on = on, !.lane = m, !.way = 0, !.vals = vals, !.drain = d] \in Warp
      BY <1>3, <1>4, <2>1, <2>2, <2>3, WarpFields, Zenon
    <3>2. QED
      BY <2>5, <3>1, Zenon
  <2>7. warp' \in [Warps -> Warp]
    BY <1>3, <2>4, <2>5, <2>6
  <2>8. /\ warp'[w].at = "probe" /\ warp'[w].base = warp[w].base /\ warp'[w].drain = d
        /\ warp'[w].vals = vals /\ warp'[w].on = on /\ warp'[w].way = 0 /\ warp'[w].lane = m
    BY <1>3, <2>5 DEF Warp
  <2>9. ToNextBoundary(w, keep)
    BY <1>7, <2>1, <2>4, <2>8 DEF ToNextBoundary, on, later, vals, d
  <2>10. QED
    BY <1>4, <2>5, <2>7, <2>9 DEF on
<1>8. CASE later = {} /\ ~onward /\ C
  <2>1. AtCounter \in Warp
    <3>1. << >> \in Seq(State)
      OBVIOUS
    <3>2. QED
      BY <3>1 DEF AtCounter, Warp
  <2>2. warp'[w] = AtCounter /\ (\A x \in Warps \ {w} : warp'[x] = warp[x]) /\ warp' \in [Warps -> Warp]
    BY <1>3, <1>8, <2>1
  <2>3. stage = "fused" => warp[w].drain = Drains \/ on = {}
    BY <1>5, <1>8
  <2>4. ToCounter(w, keep)
    BY <1>8, <2>2, <2>3 DEF ToCounter
  <2>5. QED
    BY <1>4, <2>2, <2>4
<1>9. QED
  BY <1>2, <1>6, <1>7, <1>8

LEMMA JudgedSlots ==
  ASSUME Shape, stage \in Kernels, NEW w \in Warps, Busy(w), NEW keep \in BOOLEAN,
         \A x \in Warps \ {w} : warp'[x] = warp[x]
  PROVE  /\ ToNextLane(w, keep) \/ ToNextBoundary(w, keep) =>
              /\ Busy(w)' /\ SlotsOf(w)' = SlotsOf(w) /\ DOMAIN warp'[w].vals = DOMAIN warp[w].vals
              /\ \A s : InHand(s)' <=> InHand(s)
         /\ ToCounter(w, keep) => ~Busy(w)' /\ \A s : InHand(s)' <=> InHand(s) /\ s \notin SlotsOf(w)
<1>1. TypeOK /\ WarpsOK /\ LanesOf(w) /\ DOMAIN warp[w].vals = 1 .. Len(warp[w].vals) /\ Len(warp[w].vals) \in Nat
  BY BusyLanes DEF Shape
<1>2. \A x \in Warps \ {w} : Busy(x)' = Busy(x) /\ SlotsOf(x)' = SlotsOf(x)
  BY SameWarp
<1>3. ASSUME ToNextLane(w, keep) \/ ToNextBoundary(w, keep)
      PROVE  /\ Busy(w)' /\ SlotsOf(w)' = SlotsOf(w) /\ DOMAIN warp'[w].vals = DOMAIN warp[w].vals
             /\ \A s : InHand(s)' <=> InHand(s)
  <2>1. warp'[w].at = "probe" /\ warp'[w].base = warp[w].base
    BY <1>3 DEF ToNextLane, ToNextBoundary
  <2>2. DOMAIN warp'[w].vals = DOMAIN warp[w].vals /\ Len(warp'[w].vals) = Len(warp[w].vals)
    <3>1. CASE ToNextLane(w, keep)
      BY <3>1 DEF ToNextLane
    <3>2. CASE ToNextBoundary(w, keep)
      <4> DEFINE v == [k \in DOMAIN warp[w].vals |-> RunTo(warp[w].vals[k], warp[w].drain + 1)]
                 n == Len(warp[w].vals)
      <4>1. warp'[w].vals = v
        BY <3>2 DEF ToNextBoundary
      <4>2. DOMAIN v = 1 .. n /\ n \in Nat
        BY <1>1
      <4> HIDE DEF v, n
      <4>3. Len(v) = n
        BY <4>2
      <4>4. QED
        BY <1>1, <4>1, <4>2, <4>3 DEF n
    <3>3. QED
      BY <1>3, <3>1, <3>2
  <2>3. Busy(w)' /\ SlotsOf(w)' = SlotsOf(w)
    BY <2>1, <2>2 DEF Busy, SlotsOf
  <2>4. \A x \in Warps : (Busy(x)' <=> Busy(x)) /\ SlotsOf(x)' = SlotsOf(x)
    BY <1>2, <2>3
  <2>5. QED
    BY <2>2, <2>3, <2>4 DEF InHand
<1>4. ASSUME ToCounter(w, keep)
      PROVE  ~Busy(w)' /\ \A s : InHand(s)' <=> InHand(s) /\ s \notin SlotsOf(w)
  <2>1. ~Busy(w)'
    BY <1>4 DEF ToCounter, AtCounter, Busy
  <2>2. \A x \in Warps \ {w} : Busy(x) => SlotsOf(x) \intersect SlotsOf(w) = {}
    BY <1>1 DEF WarpsOK
  <2>3. ASSUME NEW s PROVE InHand(s)' <=> InHand(s) /\ s \notin SlotsOf(w)
    <3>1. InHand(s)' <=> \E x \in Warps \ {w} : Busy(x) /\ s \in SlotsOf(x)
      BY <1>2, <2>1 DEF InHand
    <3>2. InHand(s) <=> \E x \in Warps : Busy(x) /\ s \in SlotsOf(x)
      BY DEF InHand
    <3>3. QED
      BY <2>2, <3>1, <3>2
  <2>4. QED
    BY <2>1, <2>3
<1>5. QED
  BY <1>3, <1>4

LEMMA JudgedKeepsShape ==
  ASSUME Shape, stage \in Kernels, NEW w \in Warps, Busy(w), NEW keep \in BOOLEAN, Judged(w, keep),
         UNCHANGED <<cadence, stage, drain, done, work, live, packed, blocks, hits, emitted>>,
         table' \in [1 .. Drains -> [CapSlots -> Seq(Entry) \ {<< >>}]]
  PROVE  Shape'
<1>1. /\ TypeOK /\ StageOK /\ LiveOK /\ FlagsOK /\ StatesOK /\ WarpsOK /\ HitsOK /\ InBatch
      /\ stage' = stage /\ drain' = drain /\ work' = work /\ live' = live /\ cadence' = cadence /\ done' = done
  BY DEF Shape, InBatch, Kernels
<1>2. /\ BatchN' = BatchN /\ Drains' = Drains /\ BatchPositions' = BatchPositions /\ Flags' = Flags
      /\ (\A p : DataAt(p)' = DataAt(p) /\ FlagAt(p)' = FlagAt(p)) /\ (\A p, b : Reached(p, b)' = Reached(p, b))
      /\ Count' = Count /\ (\A s : Orig(s)' = Orig(s))
  BY <1>1, SameBatch, SameSlots
<1>3. /\ Count \in Nat /\ work \in Nat /\ Drains \in Nat /\ drain \in 1 .. Drains + 1 /\ 0 .. Count - 1 \subseteq BatchPositions
      /\ 0 .. BatchN - 1 \subseteq BatchPositions
      /\ \A s \in 0 .. Count - 1 : /\ Orig(s) \in 0 .. BatchN - 1
                                   /\ \A t \in 0 .. Count - 1 : Orig(t) = Orig(s) => t = s
  BY <1>1, CountFits, SlotsAre, BoundaryType, BatchType DEF TypeOK
<1>4. /\ warp' \in [Warps -> Warp] /\ (\A x \in Warps \ {w} : warp'[x] = warp[x])
      /\ Left(w, keep) \subseteq warp[w].on /\ Left(w, keep) \in SUBSET Nat
  BY JudgedIs
<1>5. LanesOf(w)
  BY <1>1, BusyLanes
<1>6. /\ warp[w].base \in Nat /\ Len(warp[w].vals) \in Nat /\ DOMAIN warp[w].vals = 1 .. Len(warp[w].vals)
      /\ warp[w].drain \in 1 .. Drains /\ warp[w].drain \in drain .. Drains
  BY <1>1, <1>5, BusyLanes DEF LanesOf
<1>7. \A k \in DOMAIN warp[w].vals : /\ warp[w].base + k - 1 \in SlotsOf(w) /\ warp[w].base + k - 1 \in 0 .. Count - 1
                                     /\ warp[w].base + k - 1 < work
                                     /\ warp[w].vals[k] = Reached(Orig(warp[w].base + k - 1), warp[w].drain)
  <2>1. ASSUME NEW k \in DOMAIN warp[w].vals
        PROVE  warp[w].base + k - 1 \in SlotsOf(w)
    BY <1>1, BusyLanes
  <2>2. \A s \in SlotsOf(w) : s \in 0 .. Count - 1 /\ s < work
    BY <1>1, BusyLanes
  <2>3. \A k \in DOMAIN warp[w].vals : warp[w].vals[k] = Reached(Orig(warp[w].base + k - 1), warp[w].drain)
    BY <1>5 DEF LanesOf
  <2>4. QED
    BY <2>1, <2>2, <2>3
<1>8. StageOK' /\ PackedOK' /\ HitsOK'
  <2>1. HitsOK'
    BY <1>1, SameHits
  <2>2. QED
    BY <1>1, <1>2, <2>1 DEF StageOK, PackedOK, Kernels
<1>9. SUFFICES /\ WarpsOK' /\ alive' \in [BatchPositions -> BOOLEAN] /\ wstate' \in [BatchPositions -> State]
               /\ flags' \in [BatchPositions -> Flags \union {0}] /\ FlagsOK' /\ LiveOK' /\ StatesOK'
  <2>1. TypeOK'
    BY <1>1, <1>2, <1>4, <1>9 DEF TypeOK
  <2>2. QED
    BY <1>8, <1>9, <2>1 DEF Shape
<1>10. CASE ToNextLane(w, keep) \/ ToNextBoundary(w, keep)
  <2>1. UNCHANGED <<alive, wstate, flags>>
    BY <1>10 DEF ToNextLane, ToNextBoundary
  <2>2. /\ Busy(w)' /\ SlotsOf(w)' = SlotsOf(w) /\ DOMAIN warp'[w].vals = DOMAIN warp[w].vals /\ \A s : InHand(s)' <=> InHand(s)
    BY <1>4, <1>10, JudgedSlots
  <2>3. LanesOf(w)'
    <3>1. /\ warp'[w].base = warp[w].base /\ warp'[w].on = Left(w, keep) /\ warp'[w].way = 0 /\ warp'[w].lane \in Left(w, keep)
      BY <1>10 DEF ToNextLane, ToNextBoundary, Later
    <3>2. /\ warp'[w].drain \in drain .. Drains /\ (stage # "fused" => warp'[w].drain = drain)
          /\ \A k \in DOMAIN warp'[w].vals : warp'[w].vals[k] = Reached(Orig(warp[w].base + k - 1), warp'[w].drain)
      <4>1. CASE ToNextLane(w, keep)
        BY <1>5, <1>6, <1>7, <4>1 DEF ToNextLane, LanesOf
      <4>2. CASE ToNextBoundary(w, keep)
        <5>1. /\ stage = "fused" /\ warp[w].drain < Drains /\ warp'[w].drain = warp[w].drain + 1
              /\ warp'[w].vals = [k \in DOMAIN warp[w].vals |-> RunTo(warp[w].vals[k], warp[w].drain + 1)]
          BY <4>2 DEF ToNextBoundary
        <5>2. warp'[w].drain \in drain .. Drains
          BY <1>3, <1>6, <5>1
        <5>3. ASSUME NEW k \in DOMAIN warp[w].vals
              PROVE  RunTo(warp[w].vals[k], warp[w].drain + 1) = Reached(Orig(warp[w].base + k - 1), warp[w].drain + 1)
          <6> DEFINE p == Orig(warp[w].base + k - 1)
                     b == warp[w].drain + 1
          <6>1. p \in 0 .. BatchN - 1 /\ warp[w].vals[k] = Reached(p, warp[w].drain)
            BY <1>3, <1>7
          <6>2. b \in 0 .. Drains + 1 /\ b > 0 /\ b - 1 = warp[w].drain
            BY <1>3, <1>6
          <6> HIDE DEF p, b
          <6>3. RunTo(Reached(p, b - 1), b) = Reached(p, b)
            BY <1>1, <6>1, <6>2, ReachedIs
          <6>4. QED
            BY <6>1, <6>2, <6>3 DEF p, b
        <5>4. QED
          BY <5>1, <5>2, <5>3
      <4>3. QED
        BY <1>10, <4>1, <4>2
    <3>3. /\ warp'[w].base + Len(warp'[w].vals) <= Count /\ warp'[w].base + Len(warp'[w].vals) <= work' /\ warp'[w].vals # << >>
      <4>1. Len(warp'[w].vals) = Len(warp[w].vals)
        <5>1. warp'[w].vals \in Seq(State) /\ warp[w].vals \in Seq(State)
          BY <1>1, <1>4 DEF TypeOK, Warp
        <5>2. DOMAIN warp'[w].vals = 1 .. Len(warp'[w].vals) /\ Len(warp'[w].vals) \in Nat
          BY <5>1
        <5>3. QED
          BY <1>6, <2>2, <5>2
      <4>2. Len(warp[w].vals) > 0 /\ warp[w].base + Len(warp[w].vals) <= Count /\ warp[w].base + Len(warp[w].vals) <= work
        BY <1>1, <1>5, BusyLanes DEF LanesOf
      <4>3. QED
        BY <1>1, <3>1, <4>1, <4>2
    <3>4. Left(w, keep) \subseteq DOMAIN warp'[w].vals
      BY <1>4, <1>5, <2>2 DEF LanesOf
    <3>5. 0 \in 0 .. CapWays - 1
      BY ShapeType
    <3>6. QED
      BY <1>1, <1>2, <3>1, <3>2, <3>3, <3>4, <3>5 DEF LanesOf
  <2>4. WarpsOK'
    <3>1. \A x \in Warps \ {w} : Busy(x) => SlotsOf(w)' \intersect SlotsOf(x) = {}
      BY <1>1, <2>2 DEF WarpsOK
    <3>2. warp'[w].at # "end"
      BY <2>2 DEF Busy
    <3>3. QED
      BY <1>1, <1>3, <1>4, <2>2, <2>3, <3>1, <3>2, OneWarpMoves
  <2>5. FlagsOK' /\ LiveOK'
    BY <1>1, <1>2, <2>1 DEF FlagsOK, LiveOK, InBatch
  <2>6. StatesOK'
    <3>1. Reached(0, 0)' = Reached(0, 0) /\ \A p : \A b : Reached(p, b)' = Reached(p, b)
      BY <1>2
    <3>2. ASSUME NEW s \in work .. Count - 1, drain > 1 PROVE wstate'[Orig(s)'] = Reached(Orig(s), drain - 1)'
      <4>1. wstate[Orig(s)] = Reached(Orig(s), drain - 1)
        BY <1>1, <3>2 DEF StatesOK
      <4>2. Reached(Orig(s), drain - 1)' = Reached(Orig(s), drain - 1)
        BY <1>1, <1>2 DEF Reached, DataAt, Completed
      <4>3. QED
        BY <1>2, <2>1, <4>1, <4>2
    <3>3. ASSUME stage \in {"first", "span"}, NEW s \in 0 .. Count - 1, s < work, ~InHand(s)', alive'[s]
          PROVE  wstate'[Orig(s)'] = Reached(Orig(s), drain)'
      <4>1. wstate[Orig(s)] = Reached(Orig(s), drain)
        BY <1>1, <2>1, <2>2, <3>3 DEF StatesOK
      <4>2. Reached(Orig(s), drain)' = Reached(Orig(s), drain)
        BY <1>1, <1>2 DEF Reached, DataAt, Completed
      <4>3. QED
        BY <1>2, <2>1, <4>1, <4>2
    <3>4. QED
      BY <1>1, <1>2, <3>2, <3>3 DEF StatesOK, Kernels
  <2>7. QED
    BY <1>1, <2>1, <2>4, <2>5, <2>6 DEF TypeOK
<1>11. CASE ToCounter(w, keep)
  <2>1. warp'[w] = AtCounter /\ ~Busy(w)' /\ \A s : InHand(s)' <=> InHand(s) /\ s \notin SlotsOf(w)
    <3>1. warp'[w] = AtCounter
      BY <1>11 DEF ToCounter
    <3>2. ~Busy(w)' /\ \A s : InHand(s)' <=> InHand(s) /\ s \notin SlotsOf(w)
      BY <1>4, <1>11, JudgedSlots
    <3>3. QED
      BY <3>1, <3>2
  <2>2. WarpsOK'
    <3>1. warp'[w].on = {} /\ warp'[w].at # "end"
      BY <2>1 DEF AtCounter
    <3>2. QED
      BY <1>1, <1>3, <1>4, <2>1, <3>1, OneWarpMoves
  <2> DEFINE on == Left(w, keep)
             base == warp[w].base
             vals == warp[w].vals
  <2>3. \A k \in on : k \in DOMAIN vals /\ base + k - 1 \in 0 .. Count - 1 /\ vals[k] = Reached(Orig(base + k - 1), warp[w].drain)
    BY <1>4, <1>5, <1>7 DEF LanesOf
  <2>4. CASE stage = "fused"
    <3>1. ScreenLanes(base, vals, on) /\ (warp[w].drain = Drains \/ on = {})
      BY <1>11, <2>4 DEF ToCounter
    <3>2. \A k \in on : base + k - 1 \in 0 .. Count - 1 /\ vals[k] = Reached(Orig(base + k - 1), Drains)
      BY <2>3, <3>1
    <3>3. /\ flags' \in [BatchPositions -> Flags \union {0}] /\ (\A p \in 0 .. BatchN - 1 : flags'[p] \in {0, FlagAt(p)})
          /\ alive' = alive /\ wstate' = wstate
      <4> HIDE DEF on, base, vals
      <4>1. base \in Nat
        BY <1>6 DEF base
      <4>2. QED
        BY <1>1, <3>1, <3>2, <4>1, ScreenedIs
    <3>4. FlagsOK' /\ LiveOK'
      BY <1>1, <1>2, <3>3 DEF FlagsOK, LiveOK, InBatch
    <3>5. StatesOK'
      <4>1. ASSUME NEW s \in work .. Count - 1, drain > 1 PROVE wstate'[Orig(s)'] = Reached(Orig(s), drain - 1)'
        <5>1. wstate[Orig(s)] = Reached(Orig(s), drain - 1)
          BY <1>1, <4>1 DEF StatesOK
        <5>2. Reached(Orig(s), drain - 1)' = Reached(Orig(s), drain - 1)
          BY <1>1, <1>2 DEF Reached, DataAt, Completed
        <5>3. QED
          BY <1>2, <3>3, <5>1, <5>2
      <4>2. QED
        BY <1>1, <1>2, <2>4, <4>1 DEF StatesOK, Kernels
    <3>6. QED
      BY <1>1, <2>2, <3>3, <3>4, <3>5 DEF TypeOK
  <2>5. CASE stage # "fused"
    <3>1. StoreLanes(base, vals, on) /\ warp[w].drain = drain /\ drain \in 0 .. Drains
      <4>1. warp[w].drain = drain
        BY <1>5, <2>5 DEF LanesOf
      <4>2. QED
        BY <1>3, <1>6, <1>11, <2>5, <4>1 DEF ToCounter
    <3>2. /\ alive' \in [BatchPositions -> BOOLEAN] /\ wstate' \in [BatchPositions -> State] /\ flags' = flags
          /\ \A s \in BatchPositions : alive'[s] = IF s - base + 1 \in DOMAIN vals THEN s - base + 1 \in on ELSE alive[s]
          /\ \A p \in BatchPositions : wstate'[p] = IF \E k \in on : Orig(base + k - 1) = p THEN Reached(p, drain) ELSE wstate[p]
      <4>1. base \in Nat /\ \A k \in on : base + k - 1 \in 0 .. Count - 1 /\ vals[k] = Reached(Orig(base + k - 1), drain)
        BY <1>6, <2>3, <3>1
      <4> HIDE DEF on, base, vals
      <4>2. QED
        BY <1>1, <3>1, <4>1, StoredIs
    <3>3. FlagsOK'
      BY <1>1, <1>2, <3>2 DEF FlagsOK, InBatch
    <3>4. LiveOK'
      <4>1. \A p \in BatchPositions : wstate'[p].d = DataAt(p) \/ wstate'[p] = wstate[p]
        BY <3>2 DEF Reached
      <4>2. QED
        BY <1>1, <1>2, <1>3, <4>1 DEF LiveOK, InBatch
    <3>5. ASSUME NEW s \in 0 .. Count - 1, s \notin SlotsOf(w)
          PROVE  wstate'[Orig(s)] = wstate[Orig(s)] /\ alive'[s] = alive[s]
      <4>1. ~\E k \in on : Orig(base + k - 1) = Orig(s)
        <5>1. ASSUME NEW k \in on, Orig(base + k - 1) = Orig(s) PROVE FALSE
          <6>1. base + k - 1 \in 0 .. Count - 1 /\ base + k - 1 \in SlotsOf(w)
            BY <1>7, <2>3
          <6>2. base + k - 1 = s
            BY <1>3, <5>1, <6>1
          <6>3. QED
            BY <3>5, <6>1, <6>2
        <5>2. QED
          BY <5>1
      <4>2. s - base + 1 \notin DOMAIN vals
        <5>1. ASSUME s - base + 1 \in DOMAIN vals PROVE FALSE
          <6>1. base + (s - base + 1) - 1 \in SlotsOf(w)
            BY <1>7, <5>1
          <6>2. base + (s - base + 1) - 1 = s
            BY <1>6
          <6>3. QED
            BY <3>5, <6>1, <6>2
        <5>2. QED
          BY <5>1
      <4>3. s \in BatchPositions /\ Orig(s) \in BatchPositions
        BY <1>3
      <4>4. QED
        BY <3>2, <4>1, <4>2, <4>3
    <3>6. ASSUME NEW s \in SlotsOf(w), alive'[s]
          PROVE  s \in 0 .. Count - 1 /\ wstate'[Orig(s)] = Reached(Orig(s), drain)
      <4> DEFINE k == s - base + 1
      <4>1. s \in 0 .. Count - 1 /\ k \in DOMAIN vals
        BY <1>1, BusyLanes
      <4>2. k \in on
        <5>1. s \in BatchPositions
          BY <1>3, <4>1
        <5>2. alive'[s] = (k \in on)
          BY <3>2, <4>1, <5>1
        <5>3. QED
          BY <3>6, <5>2
      <4>3. base + k - 1 = s
        BY <1>6, <4>1
      <4>4. Orig(s) \in BatchPositions /\ \E j \in on : Orig(base + j - 1) = Orig(s)
        BY <1>3, <4>1, <4>2, <4>3
      <4>5. QED
        BY <3>2, <4>1, <4>4
    <3>7. StatesOK'
      <4>1. ASSUME NEW s \in work .. Count - 1, drain > 1 PROVE wstate'[Orig(s)'] = Reached(Orig(s), drain - 1)'
        <5>1. wstate[Orig(s)] = Reached(Orig(s), drain - 1)
          BY <1>1, <4>1 DEF StatesOK
        <5>2. Reached(Orig(s), drain - 1)' = Reached(Orig(s), drain - 1)
          BY <1>1, <1>2 DEF Reached, DataAt, Completed
        <5>3. s \in 0 .. Count - 1 /\ s \notin SlotsOf(w)
          <6>1. s \in 0 .. Count - 1 /\ ~(s < work)
            BY <1>3
          <6>2. \A t \in SlotsOf(w) : t < work
            BY <1>1, BusyLanes
          <6>3. QED
            BY <6>1, <6>2
        <5>4. wstate'[Orig(s)] = wstate[Orig(s)]
          BY <3>5, <5>3
        <5>5. QED
          BY <1>2, <5>1, <5>2, <5>4
      <4>2. ASSUME NEW s \in 0 .. Count - 1, s < work, ~InHand(s)', alive'[s]
            PROVE  wstate'[Orig(s)'] = Reached(Orig(s), drain)'
        <5>1. Reached(Orig(s), drain)' = Reached(Orig(s), drain)
          BY <1>1, <1>2 DEF Reached, DataAt, Completed
        <5>2. CASE s \in SlotsOf(w)
          <6>1. wstate'[Orig(s)] = Reached(Orig(s), drain)
            BY <3>6, <4>2, <5>2
          <6>2. QED
            BY <1>2, <5>1, <6>1
        <5>3. CASE s \notin SlotsOf(w)
          <6>1. ~InHand(s) /\ alive[s] /\ wstate'[Orig(s)] = wstate[Orig(s)]
            BY <2>1, <3>5, <4>2, <5>3
          <6>2. stage \in {"first", "span"}
            BY <2>5 DEF Kernels
          <6>3. wstate[Orig(s)] = Reached(Orig(s), drain)
            BY <1>1, <4>2, <6>1, <6>2 DEF StatesOK
          <6>4. QED
            BY <1>2, <5>1, <6>1, <6>3
        <5>4. QED
          BY <5>2, <5>3
      <4>3. QED
        BY <1>1, <1>2, <4>1, <4>2 DEF StatesOK, Kernels
    <3>8. flags' \in [BatchPositions -> Flags \union {0}]
      BY <1>1, <3>2 DEF TypeOK
    <3>9. QED
      BY <2>2, <3>2, <3>3, <3>4, <3>7, <3>8
  <2>6. QED
    BY <2>4, <2>5
<1>12. QED
  BY <1>10, <1>11, JudgedIs

LEMMA MaxIs ==
  ASSUME NEW n \in Nat, NEW S \in SUBSET (0 .. n), S # {}
  PROVE  Max(S) \in S /\ \A k \in S : Max(S) >= k
<1> DEFINE Bounds == {m \in Nat : \A k \in S : k <= m}
<1>1. \A k \in S : k \in Nat /\ k <= n
  OBVIOUS
<1>2. n \in Bounds /\ Bounds \in SUBSET Nat
  BY <1>1
<1>3. PICK m \in Bounds : \A j \in Bounds : m <= j
  <2> HIDE DEF Bounds
  <2>1. Bounds # {}
    BY <1>2
  <2>2. QED
    BY <1>2, <2>1, LeastElement
<1>4. m \in Nat /\ \A k \in S : k <= m
  BY <1>3
<1>5. m \in S
  <2>1. SUFFICES ASSUME m \notin S PROVE FALSE
    OBVIOUS
  <2>2. \A k \in S : k < m
    BY <1>1, <1>4, <2>1
  <2>3. m > 0
    <3>1. PICK k \in S : k \in Nat /\ k < m
      BY <1>1, <2>2
    <3>2. QED
      BY <1>4, <3>1
  <2>4. m - 1 \in Bounds
    BY <1>1, <1>4, <2>2, <2>3
  <2>5. QED
    BY <1>3, <1>4, <2>4
<1>6. \E x \in S : \A k \in S : x >= k
  BY <1>1, <1>4, <1>5
<1>7. QED
  BY <1>6 DEF Max

LEMMA CapSlotIs ==
  ASSUME NEW fp \in Nat, NEW way \in 0 .. CapWays - 1
  PROVE  CapSlot(fp, way) \in CapSlots
<1> DEFINE B == CapBuckets
           W == CapWays
           r == fp % B
           t == B - 1 - r
<1>1. B \in Nat /\ B > 0 /\ W \in Nat /\ W > 0
  BY ShapeType
<1>2. r \in 0 .. B - 1
  BY <1>1
<1>3. CapSlot(fp, way) = r * W + way /\ CapSlots = 0 .. B * W - 1
  BY DEF CapSlot, CapSlots
<1> HIDE DEF B, W, r
<1>4. t \in Nat /\ B = r + 1 + t /\ r \in Nat /\ way \in Nat /\ way <= W - 1
  BY <1>1, <1>2 DEF W
<1> HIDE DEF t
<1>5. B * W = r * W + W + t * W /\ r * W \in Nat /\ t * W \in Nat /\ B * W \in Nat
  <2>1. (r + 1 + t) * W = r * W + W + t * W
    BY <1>1, <1>4
  <2>2. r * W \in Nat /\ t * W \in Nat
    BY <1>1, <1>4
  <2>3. QED
    BY <1>1, <1>4, <2>1, <2>2
<1> DEFINE x == r * W
           y == t * W
           z == B * W
<1>6. z = x + W + y /\ x \in Nat /\ y \in Nat /\ z \in Nat
  BY <1>5
<1> HIDE DEF x, y, z
<1>7. x + way \in 0 .. z - 1
  BY <1>1, <1>4, <1>6
<1>8. QED
  BY <1>3, <1>7 DEF x, z

LEMMA VisibleIs ==
  ASSUME TypeOK, NEW w \in Warps, NEW c \in 1 .. Drains, NEW s \in CapSlots, NEW cur \in Visible(w, c, s)
  PROVE  \E n \in DOMAIN table[c][s] : cur = table[c][s][n].fp
<1> DEFINE q == table[c][s]
           I == {n \in 1 .. Len(q) : q[n].by = w}
           o == Own(w, c, s)
<1>1. q \in Seq(Entry)
  BY DEF TypeOK
<1>2. o = IF I # {} THEN Max(I) ELSE 0
  BY DEF Own, SelectLastInSubSeq
<1>3. PICK n \in Max({1, o}) .. Len(q) : cur = q[n].fp
  BY DEF Visible
<1> HIDE DEF q
<1>4. Len(q) \in Nat /\ DOMAIN q = 1 .. Len(q)
  BY <1>1
<1>5. o \in Nat
  <2>1. CASE I # {}
    <3>1. I \in SUBSET (0 .. Len(q))
      BY <1>4
    <3> HIDE DEF I, o
    <3>2. Max(I) \in I
      BY <1>4, <2>1, <3>1, MaxIs
    <3>3. o = Max(I)
      BY <1>2, <2>1
    <3>4. Max(I) \in 0 .. Len(q)
      BY <3>1, <3>2
    <3>5. QED
      BY <1>4, <3>3, <3>4
  <2>2. CASE I = {}
    BY <1>2, <2>2
  <2>3. QED
    BY <2>1, <2>2
<1> HIDE DEF o, I
<1>6. Max({1, o}) \in {1, o} /\ Max({1, o}) >= 1
  <2>1. \E m \in Nat : {1, o} \in SUBSET (0 .. m)
    <3>1. {1, o} \in SUBSET (0 .. o + 1) /\ o + 1 \in Nat
      BY <1>5
    <3>2. QED
      BY <3>1
  <2>2. Max({1, o}) \in {1, o} /\ \A k \in {1, o} : Max({1, o}) >= k
    BY <2>1, MaxIs
  <2>3. QED
    BY <2>2
<1>7. n \in DOMAIN q
  <2>1. Max({1, o}) \in Nat
    BY <1>5, <1>6
  <2>2. QED
    BY <1>3, <1>4, <1>6, <2>1
<1>8. QED
  BY <1>3, <1>7 DEF q

\* What a warp at a cap has in its hand.
JudgedSlot(w) == warp[w].base + warp[w].lane - 1
LEMMA HashIs ==
  ASSUME Shape, stage \in Kernels, NEW w \in Warps, Busy(w)
  PROVE  /\ JudgedSlot(w) \in SlotsOf(w) /\ JudgedSlot(w) \in 0 .. Count - 1
         /\ JudgedSlot(w) - warp[w].base + 1 = warp[w].lane
         /\ Orig(JudgedSlot(w)) \in 0 .. BatchN - 1 /\ DataAt(Orig(JudgedSlot(w))) \in Window(cadence)
         /\ warp[w].drain \in 1 .. Drains /\ warp[w].drain \in DOMAIN cadence.plan
         /\ Hash(w) = HashOf(StateAfter(cadence.plan[warp[w].drain], DataAt(Orig(JudgedSlot(w)))))
         /\ Hash(w) \in Nat /\ Hash(w) # 0
         /\ VictimWay(Hash(w)) \in 0 .. CapWays - 1
<1>1. TypeOK /\ LiveOK /\ WarpsOK /\ InBatch
  BY DEF Shape, InBatch, Kernels
<1>2. JudgedSlot(w) \in SlotsOf(w) /\ warp[w].drain \in 1 .. Drains /\ warp[w].lane \in Nat /\ warp[w].base \in Nat
  BY <1>1, BusyLanes DEF JudgedSlot
<1>3. JudgedSlot(w) - warp[w].base + 1 = warp[w].lane
  BY <1>2 DEF JudgedSlot
<1>4. JudgedSlot(w) \in 0 .. Count - 1
      /\ warp[w].vals[JudgedSlot(w) - warp[w].base + 1] = Reached(Orig(JudgedSlot(w)), warp[w].drain)
  BY <1>1, <1>2, BusyLanes
<1> DEFINE p == Orig(JudgedSlot(w))
           b == warp[w].drain
<1>5. p \in 0 .. BatchN - 1 /\ cadence \in Cadences
  BY <1>1, <1>4, SlotsAre DEF TypeOK
<1>6. DataAt(p) \in Window(cadence)
  BY <1>1, <1>5, DataAtIs
<1>7. b \in DOMAIN cadence.plan /\ Completed(b) = cadence.plan[b]
  BY <1>1, <1>2, BoundaryType
<1>8. Hash(w) = HashOf(StateAfter(cadence.plan[b], DataAt(p)))
  <2>1. warp[w].vals[warp[w].lane] = Reached(p, b)
    BY <1>3, <1>4
  <2>2. Reached(p, b).m = cadence.plan[b] /\ Reached(p, b).d = DataAt(p)
    BY <1>7 DEF Reached
  <2> HIDE DEF p, b
  <2>3. QED
    BY <2>1, <2>2 DEF Hash
<1> HIDE DEF p, b
<1>9. HashOf(StateAfter(cadence.plan[b], DataAt(p))) \in Nat \ {0}
      /\ VictimWay(HashOf(StateAfter(cadence.plan[b], DataAt(p)))) \in 0 .. CapWays - 1
  BY <1>5, <1>6, <1>7, FingerprintAssumption
<1>10. QED
  BY <1>2, <1>3, <1>4, <1>5, <1>6, <1>7, <1>8, <1>9 DEF p, b

AtNextWay(w) == warp' = [warp EXCEPT ![w].way = @ + 1] /\ UNCHANGED <<alive, wstate, flags>>
AtStore(w) == warp' = [warp EXCEPT ![w].at = "store"] /\ UNCHANGED <<alive, wstate, flags>>
LEMMA ProbeIs ==
  ASSUME Shape, NEW w \in Warps, ProbeWay(w)
  PROVE  /\ stage \in Kernels /\ warp[w].at = "probe" /\ Busy(w)
         /\ UNCHANGED <<cadence, stage, drain, done, work, live, packed, blocks, table, hits, emitted>>
         /\ \/ /\ Judged(w, FALSE)
               /\ \E s \in CapSlots : \E n \in DOMAIN table[warp[w].drain][s] : table[warp[w].drain][s][n].fp = Hash(w)
            \/ warp[w].way < CapWays - 1 /\ AtNextWay(w)
            \/ AtStore(w)
<1>1. /\ stage \in Kernels /\ warp[w].at = "probe" /\ Busy(w)
      /\ UNCHANGED <<cadence, stage, drain, done, work, live, packed, blocks, table, hits, emitted>>
  BY DEF ProbeWay, Busy
<1>2. PICK cur \in Visible(w, warp[w].drain, CapSlot(Hash(w), warp[w].way)) :
         (CASE cur = Hash(w) -> Judged(w, FALSE)
            [] cur # Hash(w) /\ warp[w].way < CapWays - 1 -> AtNextWay(w)
            [] cur # Hash(w) /\ warp[w].way = CapWays - 1 -> AtStore(w))
  BY DEF ProbeWay, AtNextWay, AtStore
<1>3. TypeOK /\ WarpsOK /\ LanesOf(w)
  BY <1>1, BusyLanes DEF Shape
<1>4. warp[w].way \in 0 .. CapWays - 1 /\ CapWays \in Nat /\ CapWays > 0
  BY <1>3, ShapeType DEF LanesOf
<1>5. \/ cur = Hash(w) /\ Judged(w, FALSE)
      \/ warp[w].way < CapWays - 1 /\ AtNextWay(w)
      \/ AtStore(w)
  <2>1. \/ warp[w].way < CapWays - 1 /\ ~(warp[w].way = CapWays - 1)
        \/ ~(warp[w].way < CapWays - 1) /\ warp[w].way = CapWays - 1
    BY <1>4
  <2>2. QED
    BY <1>2, <2>1, Zenon
<1>6. ASSUME cur = Hash(w)
      PROVE  \E s \in CapSlots : \E n \in DOMAIN table[warp[w].drain][s] : table[warp[w].drain][s][n].fp = Hash(w)
  <2> DEFINE s == CapSlot(Hash(w), warp[w].way)
  <2>1. Hash(w) \in Nat /\ warp[w].drain \in 1 .. Drains
    BY <1>1, HashIs
  <2>2. s \in CapSlots
    BY <1>4, <2>1, CapSlotIs
  <2> HIDE DEF s
  <2>3. cur \in Visible(w, warp[w].drain, s)
    BY <1>2 DEF s
  <2>4. \E n \in DOMAIN table[warp[w].drain][s] : cur = table[warp[w].drain][s][n].fp
    BY <1>3, <2>1, <2>2, <2>3, VisibleIs
  <2>5. QED
    BY <1>6, <2>2, <2>4
<1>7. QED
  BY <1>1, <1>5, <1>6

\* A step that only moves a warp on within its probe.
LEMMA StillProbing ==
  ASSUME Shape, stage \in Kernels, NEW w \in Warps, Busy(w), NEW way \in 0 .. CapWays - 1, NEW at \in {"probe", "store"},
         warp' = [warp EXCEPT ![w] = [warp[w] EXCEPT !.at = at, !.way = way]],
         UNCHANGED <<cadence, stage, drain, done, work, live, packed, blocks, table, hits, emitted, alive, wstate, flags>>
  PROVE  /\ Shape'
         /\ \A x \in Warps \ {w} : warp'[x] = warp[x]
         /\ Busy(w)' /\ SlotsOf(w)' = SlotsOf(w) /\ (\A s : InHand(s)' <=> InHand(s))
         /\ warp'[w].at = at /\ warp'[w].base = warp[w].base /\ warp'[w].drain = warp[w].drain
         /\ warp'[w].vals = warp[w].vals /\ warp'[w].on = warp[w].on /\ warp'[w].lane = warp[w].lane
<1>1. /\ TypeOK /\ StageOK /\ LiveOK /\ FlagsOK /\ StatesOK /\ WarpsOK /\ HitsOK /\ InBatch /\ LanesOf(w)
      /\ stage' = stage /\ drain' = drain /\ work' = work /\ live' = live /\ cadence' = cadence /\ done' = done
      /\ wstate' = wstate /\ alive' = alive /\ flags' = flags
  BY BusyLanes DEF Shape, InBatch, Kernels
<1>2. /\ BatchN' = BatchN /\ Drains' = Drains /\ BatchPositions' = BatchPositions /\ Flags' = Flags
      /\ (\A p : DataAt(p)' = DataAt(p) /\ FlagAt(p)' = FlagAt(p)) /\ (\A p, b : Reached(p, b)' = Reached(p, b))
      /\ Count' = Count /\ (\A s : Orig(s)' = Orig(s)) /\ Count \in Nat /\ work \in Nat
  BY <1>1, SameBatch, SameSlots, CountFits DEF TypeOK
<1>3. warp \in [Warps -> Warp] /\ warp[w] \in Warp /\ way \in Nat
  BY <1>1, ShapeType DEF TypeOK
<1> DEFINE v1 == [warp[w] EXCEPT !.at = at]
           v2 == [v1 EXCEPT !.way = way]
<1>4. v1 \in Warp /\ warp'[w] = v2
  <2>1. v1 \in Warp
    BY <1>3 DEF Warp
  <2>2. warp'[w] = [warp[w] EXCEPT !.at = at, !.way = way]
    BY <1>3
  <2>3. QED
    BY <2>1, <2>2
<1>5. v2 \in Warp
  <2> HIDE DEF v1
  <2>1. QED
    BY <1>3, <1>4 DEF Warp
<1>6. /\ warp'[w].at = at /\ warp'[w].base = warp[w].base /\ warp'[w].drain = warp[w].drain
      /\ warp'[w].vals = warp[w].vals /\ warp'[w].on = warp[w].on /\ warp'[w].lane = warp[w].lane /\ warp'[w].way = way
  BY <1>3, <1>4 DEF Warp
<1>7. warp' \in [Warps -> Warp] /\ \A x \in Warps \ {w} : warp'[x] = warp[x]
  <2> HIDE DEF v2
  <2>1. QED
    BY <1>3, <1>4, <1>5
<1>8. Busy(w)' /\ SlotsOf(w)' = SlotsOf(w)
  BY <1>6 DEF Busy, SlotsOf
<1>9. \A s : InHand(s)' <=> InHand(s)
  <2>1. \A x \in Warps : (Busy(x)' <=> Busy(x)) /\ SlotsOf(x)' = SlotsOf(x)
    BY <1>7, <1>8, SameWarp
  <2>2. QED
    BY <2>1 DEF InHand
<1>10. WarpsOK'
  <2>1. LanesOf(w)'
    BY <1>1, <1>2, <1>6 DEF LanesOf
  <2>2. \A x \in Warps \ {w} : Busy(x) => SlotsOf(w)' \intersect SlotsOf(x) = {}
    BY <1>1, <1>8 DEF WarpsOK
  <2>3. warp'[w].at # "end"
    BY <1>6
  <2>4. work' \in Nat /\ work' >= work
    BY <1>1, <1>2
  <2>5. QED
    BY <1>1, <1>7, <1>8, <2>1, <2>2, <2>3, <2>4, OneWarpMoves
<1>11. TypeOK'
  BY <1>1, <1>2, <1>7 DEF TypeOK
<1>12. StageOK' /\ LiveOK' /\ FlagsOK' /\ PackedOK'
  BY <1>1, <1>2 DEF StageOK, LiveOK, FlagsOK, PackedOK, InBatch, Kernels
<1>13. HitsOK'
  BY <1>1, SameHits
<1>14. StatesOK'
  <2>1. \A p : Reached(p, drain - 1)' = Reached(p, drain - 1) /\ Reached(p, drain)' = Reached(p, drain)
    BY <1>1, <1>2 DEF Reached, DataAt, Completed
  <2>2. QED
    BY <1>1, <1>2, <1>9, <2>1 DEF StatesOK, Kernels
<1>15. QED
  BY <1>6, <1>7, <1>8, <1>9, <1>10, <1>11, <1>12, <1>13, <1>14 DEF Shape

LEMMA ProbeMoves ==
  ASSUME Shape, stage \in Kernels, NEW w \in Warps, Busy(w),
         (warp[w].way < CapWays - 1 /\ AtNextWay(w)) \/ AtStore(w)
  PROVE  \E way \in 0 .. CapWays - 1, at \in {"probe", "store"} :
           /\ warp' = [warp EXCEPT ![w] = [warp[w] EXCEPT !.at = at, !.way = way]]
           /\ UNCHANGED <<alive, wstate, flags>>
           /\ AtStore(w) \/ at = warp[w].at
<1>1. warp \in [Warps -> Warp] /\ warp[w] \in Warp /\ LanesOf(w) /\ warp[w].at \in {"probe", "store"}
  BY BusyLanes DEF Shape, TypeOK, Busy
<1>2. warp[w].way \in 0 .. CapWays - 1 /\ CapWays \in Nat
  BY <1>1, ShapeType DEF LanesOf
<1>3. CASE warp[w].way < CapWays - 1 /\ AtNextWay(w)
  <2> DEFINE n == warp[w].way + 1
             a == warp[w].at
  <2>1. n \in 0 .. CapWays - 1 /\ a \in {"probe", "store"}
    BY <1>1, <1>2, <1>3
  <2> HIDE DEF n
  <2>2. warp' = [warp EXCEPT ![w].way = n] /\ UNCHANGED <<alive, wstate, flags>>
    BY <1>3 DEF AtNextWay, n
  <2>3. [warp[w] EXCEPT !.at = a, !.way = n] = [warp[w] EXCEPT !.way = n]
    <3>1. [warp[w] EXCEPT !.at = a] = warp[w]
      BY <1>1 DEF Warp
    <3>2. QED
      BY <3>1
  <2> HIDE DEF a
  <2>4. warp' = [warp EXCEPT ![w] = [warp[w] EXCEPT !.at = a, !.way = n]]
    BY <2>2, <2>3
  <2>5. QED
    BY <2>1, <2>2, <2>4 DEF a
<1>4. CASE AtStore(w)
  <2> DEFINE n == warp[w].way
  <2>1. warp' = [warp EXCEPT ![w].at = "store"] /\ UNCHANGED <<alive, wstate, flags>>
    BY <1>4 DEF AtStore
  <2>2. [warp[w] EXCEPT !.at = "store", !.way = n] = [warp[w] EXCEPT !.at = "store"]
    <3> DEFINE v == [warp[w] EXCEPT !.at = "store"]
    <3>1. [v EXCEPT !.way = n] = v
      BY <1>1 DEF Warp
    <3>2. QED
      BY <3>1
  <2> HIDE DEF n
  <2>3. warp' = [warp EXCEPT ![w] = [warp[w] EXCEPT !.at = "store", !.way = n]]
    BY <2>1, <2>2
  <2>4. QED
    BY <1>2, <1>4, <2>1, <2>3 DEF n
<1>5. QED
  BY <1>3, <1>4

LEMMA ProbeKeepsShape ==
  ASSUME Shape, NEW w \in Warps, ProbeWay(w)
  PROVE  Shape'
<1>1. /\ stage \in Kernels /\ Busy(w)
      /\ UNCHANGED <<cadence, stage, drain, done, work, live, packed, blocks, table, hits, emitted>>
  BY ProbeIs
<1>2. CASE Judged(w, FALSE)
  <2>1. table' \in [1 .. Drains -> [CapSlots -> Seq(Entry) \ {<< >>}]]
    BY <1>1 DEF Shape, TypeOK
  <2>2. QED
    BY <1>1, <1>2, <2>1, JudgedKeepsShape
<1>3. CASE (warp[w].way < CapWays - 1 /\ AtNextWay(w)) \/ AtStore(w)
  <2>1. PICK way \in 0 .. CapWays - 1, at \in {"probe", "store"} :
           /\ warp' = [warp EXCEPT ![w] = [warp[w] EXCEPT !.at = at, !.way = way]]
           /\ UNCHANGED <<alive, wstate, flags>>
    BY <1>1, <1>3, ProbeMoves
  <2>2. UNCHANGED <<cadence, stage, drain, done, work, live, packed, blocks, table, hits, emitted, alive, wstate, flags>>
    BY <1>1, <2>1
  <2>3. QED
    BY <1>1, <2>1, <2>2, StillProbing
<1>4. QED
  BY <1>2, <1>3, ProbeIs

LEMMA StoreIs ==
  ASSUME Shape, NEW w \in Warps, StoreWay(w)
  PROVE  /\ stage \in Kernels /\ warp[w].at = "store" /\ Busy(w) /\ Judged(w, TRUE)
         /\ UNCHANGED <<cadence, stage, drain, done, work, live, packed, blocks, hits, emitted>>
         /\ table' \in [1 .. Drains -> [CapSlots -> Seq(Entry) \ {<< >>}]]
         /\ \A c \in 1 .. Drains : \A s \in CapSlots : \A n \in DOMAIN table'[c][s] :
              \/ n \in DOMAIN table[c][s] /\ table'[c][s][n] = table[c][s][n]
              \/ c = warp[w].drain /\ table'[c][s][n].fp = Hash(w)
<1> DEFINE b == warp[w].drain
           slot == CapSlot(Hash(w), VictimWay(Hash(w)))
           e == [fp |-> Hash(w), by |-> w]
<1>1. /\ stage \in Kernels /\ warp[w].at = "store" /\ Busy(w) /\ Judged(w, TRUE)
      /\ UNCHANGED <<cadence, stage, drain, done, work, live, packed, blocks, hits, emitted>>
      /\ table' = [table EXCEPT ![b][slot] = Append(@, e)]
  BY DEF StoreWay, Busy
<1>2. Hash(w) \in Nat /\ b \in 1 .. Drains /\ VictimWay(Hash(w)) \in 0 .. CapWays - 1
  BY <1>1, HashIs
<1>3. slot \in CapSlots
  BY <1>2, CapSlotIs
<1>4. e \in Entry
  BY <1>2 DEF Entry
<1>5. table \in [1 .. Drains -> [CapSlots -> Seq(Entry) \ {<< >>}]]
  BY DEF Shape, TypeOK
<1>6. e.fp = Hash(w)
  OBVIOUS
<1> HIDE DEF b, slot, e
<1> DEFINE Chains == Seq(Entry) \ {<< >>}
<1>7. \A q \in Chains : Append(q, e) \in Chains
  BY <1>4
<1>8. \A c \in 1 .. Drains, s \in CapSlots :
        table'[c][s] = IF c = b /\ s = slot THEN Append(table[c][s], e) ELSE table[c][s]
  BY <1>1, <1>2, <1>3, <1>5
<1>9. table' \in [1 .. Drains -> [CapSlots -> Chains]]
  <2> HIDE DEF Chains
  <2>1. table \in [1 .. Drains -> [CapSlots -> Chains]]
    BY <1>5 DEF Chains
  <2>2. table[b][slot] \in Chains
    BY <1>2, <1>3, <2>1 DEF b
  <2>3. Append(table[b][slot], e) \in Chains
    BY <1>7, <2>2
  <2>4. table' = [table EXCEPT ![b] = [table[b] EXCEPT ![slot] = Append(table[b][slot], e)]]
    BY <1>1
  <2>5. [table[b] EXCEPT ![slot] = Append(table[b][slot], e)] \in [CapSlots -> Chains]
    BY <1>2, <1>3, <2>1, <2>3 DEF b
  <2>6. QED
    BY <2>1, <2>4, <2>5
<1>10. ASSUME NEW c \in 1 .. Drains, NEW s \in CapSlots, NEW n \in DOMAIN table'[c][s]
       PROVE  \/ n \in DOMAIN table[c][s] /\ table'[c][s][n] = table[c][s][n]
              \/ c = b /\ table'[c][s][n].fp = Hash(w)
  <2>1. CASE c = b /\ s = slot
    <3> DEFINE q == table[c][s]
    <3>1. q \in Seq(Entry) /\ table'[c][s] = Append(q, e)
      BY <1>5, <1>8, <2>1
    <3> HIDE DEF q
    <3>2. n \in 1 .. Len(q) + 1 /\ DOMAIN q = 1 .. Len(q) /\ Len(q) \in Nat
      BY <1>4, <3>1
    <3>3. CASE n = Len(q) + 1
      BY <1>4, <1>6, <2>1, <3>1, <3>2, <3>3
    <3>4. CASE n # Len(q) + 1
      <4>1. n \in 1 .. Len(q)
        BY <3>2, <3>4
      <4>2. QED
        BY <1>4, <3>1, <3>2, <4>1 DEF q
    <3>5. QED
      BY <3>3, <3>4
  <2>2. CASE ~(c = b /\ s = slot)
    BY <1>8, <2>2
  <2>3. QED
    BY <2>1, <2>2
<1>11. QED
  BY <1>1, <1>9, <1>10 DEF b, Chains

LEMMA StoreKeepsShape ==
  ASSUME Shape, NEW w \in Warps, StoreWay(w)
  PROVE  Shape'
BY StoreIs, JudgedKeepsShape

LEMMA KernelEndsKeepsShape ==
  ASSUME Shape, KernelEnds
  PROVE  Shape'
<1>1. /\ stage \in Kernels /\ (\A w \in Warps : warp[w].at = "end")
      /\ stage' = (IF stage = "fused" THEN "collect" ELSE "compact")
      /\ packed' = << >> /\ blocks' = {}
      /\ UNCHANGED <<cadence, drain, done, work, alive, live, wstate, flags, warp, table, hits, emitted>>
  BY DEF KernelEnds
<1>2. TypeOK /\ StageOK /\ LiveOK /\ FlagsOK /\ StatesOK /\ WarpsOK /\ HitsOK /\ InBatch
  BY <1>1 DEF Shape, InBatch, Kernels
<1>3. /\ BatchN' = BatchN /\ Drains' = Drains /\ BatchPositions' = BatchPositions /\ Flags' = Flags
      /\ (\A p : DataAt(p)' = DataAt(p) /\ FlagAt(p)' = FlagAt(p)) /\ (\A p, b : Reached(p, b)' = Reached(p, b))
      /\ Count' = Count /\ (\A s : Orig(s)' = Orig(s)) /\ Drains \in Nat /\ Drains > 0
  BY <1>1, <1>2, SameBatch, SameSlots, BoundaryType
<1>4. Count \in Nat /\ work \in Nat /\ work >= Count /\ \A s : ~InHand(s)
  <2>1. Warps # {}
    BY ShapeAssumption
  <2>2. work >= Count
    BY <1>1, <1>2, <2>1 DEF WarpsOK
  <2>3. \A s : ~InHand(s)
    BY <1>1 DEF InHand, Busy
  <2>4. QED
    BY <1>2, <2>2, <2>3, CountFits DEF TypeOK
<1>5. TypeOK'
  <2>1. packed' \in Seq(BatchPositions) /\ blocks' \in SUBSET Nat
    BY <1>1
  <2>2. stage' \in {"collect", "compact"}
    BY <1>1
  <2>3. QED
    BY <1>1, <1>2, <1>3, <2>1, <2>2 DEF TypeOK
<1>6. StageOK'
  <2>1. CASE stage = "fused"
    BY <1>1, <1>2, <2>1 DEF StageOK
  <2>2. CASE stage # "fused"
    <3>1. stage' = "compact" /\ stage \in {"first", "span"}
      BY <1>1, <2>2 DEF Kernels
    <3>2. drain \in 1 .. Drains /\ (cadence.fused => drain = 1)
      BY <1>2, <1>3, <3>1 DEF StageOK
    <3>3. QED
      BY <1>1, <1>3, <3>1, <3>2 DEF StageOK
  <2>3. QED
    BY <2>1, <2>2
<1>7. LiveOK' /\ FlagsOK' /\ WarpsOK'
  BY <1>1, <1>2, <1>3 DEF LiveOK, FlagsOK, WarpsOK, InBatch, Kernels
<1>8. HitsOK'
  BY <1>1, <1>2, SameHits
<1>9. PackedOK'
  BY <1>1 DEF PackedOK
<1>10. StatesOK'
  <2>1. ASSUME stage' = "compact", NEW s \in 0 .. Count - 1, alive[s]
        PROVE  wstate[Orig(s)] = Reached(Orig(s), drain)
    <3>1. stage \in {"first", "span"} /\ s < work /\ ~InHand(s)
      BY <1>1, <1>4, <2>1 DEF Kernels
    <3>2. QED
      BY <1>2, <2>1, <3>1 DEF StatesOK
  <2>2. stage' \in {"collect", "compact"}
    BY <1>1
  <2>3. \A p : Reached(p, drain)' = Reached(p, drain)
    BY <1>1, <1>3 DEF Reached, DataAt, Completed
  <2>4. QED
    BY <1>1, <1>3, <2>1, <2>2, <2>3 DEF StatesOK, Kernels
<1>11. QED
  BY <1>5, <1>6, <1>7, <1>8, <1>9, <1>10 DEF Shape

LEMMA CompactBlockKeepsShape ==
  ASSUME Shape, NEW b \in 0 .. Count - 1, CompactBlock(b)
  PROVE  Shape'
<1> DEFINE S == {s \in BlockSlots(b) : alive[s]}
           kept == Ascending(S)
           added == [n \in DOMAIN kept |-> Orig(kept[n])]
<1>1. /\ stage = "compact" /\ b \notin blocks /\ packed' = packed \o added /\ blocks' = blocks \union {b}
      /\ UNCHANGED <<cadence, stage, drain, done, work, alive, live, wstate, flags, warp, table, hits, emitted>>
  BY DEF CompactBlock
<1>2. TypeOK /\ StageOK /\ LiveOK /\ FlagsOK /\ StatesOK /\ PackedOK /\ HitsOK /\ InBatch
  BY <1>1 DEF Shape, InBatch, Kernels
<1>3. /\ BatchN' = BatchN /\ Drains' = Drains /\ BatchPositions' = BatchPositions /\ Flags' = Flags
      /\ (\A p : DataAt(p)' = DataAt(p) /\ FlagAt(p)' = FlagAt(p)) /\ (\A p, c : Reached(p, c)' = Reached(p, c))
      /\ Count' = Count /\ (\A s : Orig(s)' = Orig(s))
  BY <1>1, SameBatch, SameSlots
<1>4. /\ Count \in Nat /\ b \in Nat /\ packed \in Seq(BatchPositions) /\ 0 .. BatchN - 1 \subseteq BatchPositions
      /\ \A s \in 0 .. Count - 1 : Orig(s) \in 0 .. BatchN - 1 /\ \A t \in 0 .. Count - 1 : Orig(t) = Orig(s) => t = s
  <2>1. Count \in Nat /\ packed \in Seq(BatchPositions) /\ 0 .. BatchN - 1 \subseteq BatchPositions
    BY <1>2, CountFits, BatchType DEF TypeOK
  <2>2. b \in Nat
    BY <2>1
  <2>3. QED
    BY <1>2, <2>1, <2>2, SlotsAre
<1>5. /\ S \in SUBSET (0 .. Count - 1) /\ S \in SUBSET Nat /\ IsFiniteSet(S)
      /\ \A s \in 0 .. Count - 1 : s \in S <=> alive[s] /\ s \div BlockSize = b
  <2>1. S \in SUBSET (0 .. Count - 1) /\ \A s \in 0 .. Count - 1 : s \in S <=> alive[s] /\ s \div BlockSize = b
    BY DEF BlockSlots
  <2> HIDE DEF S
  <2>2. IsFiniteSet(0 .. Count - 1)
    <3>1. 0 \in Int /\ Count - 1 \in Int
      BY <1>4
    <3>2. QED
      BY <3>1, FS_Interval
  <2>3. IsFiniteSet(S)
    BY <2>1, <2>2, FS_Subset
  <2>4. S \in SUBSET Nat
    BY <1>4, <2>1
  <2>5. QED
    BY <2>1, <2>3, <2>4
<1> HIDE DEF S
<1>6. /\ kept \in Seq(S) /\ (\A s \in S : \E n \in DOMAIN kept : kept[n] = s)
      /\ (\A n, k \in DOMAIN kept : kept[n] = kept[k] => n = k)
  BY <1>5, AscendingIs
<1> HIDE DEF kept
<1> DEFINE N == Len(packed)
           K == Len(kept)
<1>7. N \in Nat /\ DOMAIN packed = 1 .. N /\ K \in Nat /\ DOMAIN kept = 1 .. K /\ \A n \in 1 .. K : kept[n] \in S
  BY <1>4, <1>6, ElementOfSeq
<1>8. added \in Seq(BatchPositions) /\ Len(added) = K /\ (\A n \in 1 .. K : added[n] = Orig(kept[n]))
  <2>1. \A n \in 1 .. K : Orig(kept[n]) \in BatchPositions
    BY <1>4, <1>5, <1>7
  <2>2. added = [n \in 1 .. K |-> Orig(kept[n])]
    BY <1>7
  <2> HIDE DEF K
  <2>3. QED
    BY <1>7, <2>1, <2>2
<1> HIDE DEF added
<1>9. /\ packed' \in Seq(BatchPositions) /\ DOMAIN packed' = 1 .. N + K
      /\ (\A n \in 1 .. N : packed'[n] = packed[n]) /\ (\A n \in 1 .. K : packed'[N + n] = Orig(kept[n]))
  <2> DEFINE q == packed \o added
  <2>1. q \in Seq(BatchPositions) /\ Len(q) = N + K
    BY <1>4, <1>8
  <2>2. \A n \in 1 .. N + K : q[n] = IF n <= N THEN packed[n] ELSE added[n - N]
    BY <1>4, <1>8
  <2> HIDE DEF q, N, K
  <2>3. DOMAIN q = 1 .. N + K
    BY <1>7, <2>1
  <2>4. (\A n \in 1 .. N : q[n] = packed[n]) /\ (\A n \in 1 .. K : q[N + n] = added[n])
    BY <1>7, <2>2
  <2>5. QED
    BY <1>1, <1>8, <2>1, <2>3, <2>4 DEF q
<1> HIDE DEF N, K
<1>10. \A n \in 1 .. N + K : n \in 1 .. N \/ \E k \in 1 .. K : n = N + k
  <2>1. ASSUME NEW n \in 1 .. N + K, n \notin 1 .. N PROVE \E k \in 1 .. K : n = N + k
    <3>1. n - N \in 1 .. K /\ n = N + (n - N)
      BY <1>7, <2>1
    <3>2. QED
      BY <3>1
  <2>2. QED
    BY <2>1
<1>11. \A n \in 1 .. N + K :
         \/ \E s \in 0 .. Count - 1 : alive[s] /\ s \div BlockSize \in blocks /\ packed'[n] = Orig(s) /\ n \in 1 .. N
         \/ \E k \in 1 .. K : kept[k] \in S /\ packed'[n] = Orig(kept[k]) /\ n = N + k
  <2>1. ASSUME NEW n \in 1 .. N
        PROVE  \E s \in 0 .. Count - 1 : alive[s] /\ s \div BlockSize \in blocks /\ packed'[n] = Orig(s)
    <3>1. \E s \in 0 .. Count - 1 : alive[s] /\ s \div BlockSize \in blocks /\ packed[n] = Orig(s)
      BY <1>1, <1>2, <1>7 DEF PackedOK
    <3>2. packed'[n] = packed[n]
      BY <1>9
    <3>3. QED
      BY <3>1, <3>2
  <2>2. QED
    BY <1>7, <1>9, <1>10, <2>1
<1>12. PackedOK'
  <2>1. ASSUME NEW n \in 1 .. N + K
        PROVE  \E s \in 0 .. Count - 1 : alive[s] /\ s \div BlockSize \in blocks' /\ packed'[n] = Orig(s)
    BY <1>1, <1>5, <1>11, <2>1
  <2>2. ASSUME NEW n \in 1 .. N + K, NEW k \in 1 .. N + K, packed'[k] = packed'[n]
        PROVE  k = n
    <3>1. CASE n \in 1 .. N /\ k \in 1 .. N
      <4>1. packed[k] = packed[n]
        BY <1>9, <2>2, <3>1
      <4>2. QED
        BY <1>1, <1>2, <1>7, <3>1, <4>1 DEF PackedOK
    <3>2. ASSUME NEW i \in 1 .. K, NEW j \in 1 .. N, packed'[N + i] = packed'[j] PROVE FALSE
      <4>1. PICK s \in 0 .. Count - 1 : s \div BlockSize \in blocks /\ packed[j] = Orig(s)
        BY <1>1, <1>2, <1>7 DEF PackedOK
      <4>2. kept[i] \in 0 .. Count - 1 /\ kept[i] \div BlockSize = b
        BY <1>5, <1>7
      <4>3. Orig(kept[i]) = Orig(s)
        BY <1>9, <3>2, <4>1
      <4>4. kept[i] = s
        BY <1>4, <4>1, <4>2, <4>3
      <4>5. QED
        BY <1>1, <4>1, <4>2, <4>4
    <3>3. CASE n \notin 1 .. N /\ k \in 1 .. N
      BY <1>10, <2>2, <3>2, <3>3
    <3>4. CASE n \in 1 .. N /\ k \notin 1 .. N
      BY <1>10, <2>2, <3>2, <3>4
    <3>5. CASE n \notin 1 .. N /\ k \notin 1 .. N
      <4>1. PICK i \in 1 .. K : n = N + i
        BY <1>10, <3>5
      <4>2. PICK j \in 1 .. K : k = N + j
        BY <1>10, <3>5
      <4>3. Orig(kept[i]) = Orig(kept[j])
        BY <1>9, <2>2, <4>1, <4>2
      <4>4. kept[i] = kept[j]
        BY <1>4, <1>5, <1>7, <4>3
      <4>5. i = j
        BY <1>6, <1>7, <4>4
      <4>6. QED
        BY <4>1, <4>2, <4>5
    <3>6. QED
      BY <3>1, <3>3, <3>4, <3>5
  <2>3. ASSUME NEW s \in 0 .. Count - 1, alive[s], s \div BlockSize \in blocks'
        PROVE  \E n \in 1 .. N + K : packed'[n] = Orig(s)
    <3>1. CASE s \div BlockSize \in blocks
      <4>1. PICK n \in 1 .. N : packed[n] = Orig(s)
        BY <1>1, <1>2, <1>7, <2>3, <3>1 DEF PackedOK
      <4>2. n \in 1 .. N + K
        BY <1>7
      <4>3. QED
        BY <1>9, <4>1, <4>2
    <3>2. CASE s \div BlockSize \notin blocks
      <4>1. s \in S
        BY <1>1, <1>5, <2>3, <3>2
      <4>2. PICK n \in 1 .. K : kept[n] = s
        BY <1>6, <1>7, <4>1
      <4>3. N + n \in 1 .. N + K
        BY <1>7
      <4>4. QED
        BY <1>9, <4>2, <4>3
    <3>3. QED
      BY <3>1, <3>2
  <2>4. QED
    BY <1>1, <1>3, <1>9, <2>1, <2>2, <2>3 DEF PackedOK
<1>13. TypeOK'
  <2>1. blocks' \in SUBSET Nat
    BY <1>1, <1>2, <1>4 DEF TypeOK
  <2>2. QED
    BY <1>1, <1>2, <1>3, <1>9, <2>1 DEF TypeOK
<1>14. StageOK' /\ LiveOK' /\ FlagsOK' /\ WarpsOK'
  BY <1>1, <1>2, <1>3 DEF StageOK, LiveOK, FlagsOK, WarpsOK, InBatch, Kernels
<1>15. HitsOK'
  BY <1>1, <1>2, SameHits
<1>16. StatesOK'
  <2>1. \A p : Reached(p, drain)' = Reached(p, drain)
    BY <1>1, <1>3 DEF Reached, DataAt, Completed
  <2>2. QED
    BY <1>1, <1>2, <1>3, <2>1 DEF StatesOK, Kernels
<1>17. QED
  BY <1>12, <1>13, <1>14, <1>15, <1>16 DEF Shape

LEMMA CompactEndsIs ==
  ASSUME Shape, CompactEnds
  PROVE  /\ stage = "compact" /\ live' = packed /\ (\A s \in 0 .. Count - 1 : s \div BlockSize \in blocks)
         /\ UNCHANGED <<cadence, done, alive, packed, blocks, wstate, flags, hits, emitted>>
         /\ \/ cadence.fused /\ drain = 1 /\ StartKernel("fused", 2)
            \/ ~cadence.fused /\ drain < Drains /\ StartKernel("span", drain + 1)
            \/ /\ stage' = "continue" /\ drain' = drain + 1 /\ UNCHANGED <<work, warp, table>>
               /\ drain = Drains \/ packed = << >>
<1>1. /\ stage = "compact" /\ live' = packed /\ (\A s \in 0 .. Count - 1 : s \div BlockSize \in blocks)
      /\ UNCHANGED <<cadence, done, alive, packed, blocks, wstate, flags, hits, emitted>>
  BY DEF CompactEnds
<1> DEFINE A == StartKernel("fused", 2)
           B == StartKernel("span", drain + 1)
           C == stage' = "continue" /\ drain' = drain + 1 /\ UNCHANGED <<work, warp, table>>
<1>2. (CASE cadence.fused -> A
         [] ~cadence.fused /\ drain < Drains /\ (cadence.async \/ packed # << >>) -> B
         [] ~cadence.fused /\ (drain = Drains \/ (~cadence.async /\ packed = << >>)) -> C)
  BY DEF CompactEnds
<1>3. cadence.fused => drain = 1
  BY <1>1 DEF Shape, StageOK
<1>4. (drain < Drains /\ drain # Drains) \/ (~(drain < Drains) /\ drain = Drains)
  <2>1. drain \in 1 .. Drains /\ Drains \in Nat
    BY <1>1, BoundaryType DEF Shape, StageOK
  <2>2. QED
    BY <2>1
<1> HIDE DEF A, B, C
<1>5. \/ cadence.fused /\ A
      \/ ~cadence.fused /\ drain < Drains /\ B
      \/ C /\ (drain = Drains \/ packed = << >>)
  BY <1>2, <1>4, Zenon
<1>6. QED
  BY <1>1, <1>3, <1>5 DEF A, B, C

LEMMA CompactEndsKeepsShape ==
  ASSUME Shape, CompactEnds
  PROVE  Shape'
<1>1. /\ stage = "compact" /\ live' = packed /\ (\A s \in 0 .. Count - 1 : s \div BlockSize \in blocks)
      /\ UNCHANGED <<cadence, done, alive, packed, blocks, wstate, flags, hits, emitted>>
  BY CompactEndsIs
<1>2. TypeOK /\ StageOK /\ LiveOK /\ FlagsOK /\ StatesOK /\ PackedOK /\ HitsOK /\ InBatch
  BY <1>1 DEF Shape, InBatch, Kernels
<1>3. /\ BatchN' = BatchN /\ Drains' = Drains /\ BatchPositions' = BatchPositions /\ Flags' = Flags
      /\ (\A p : DataAt(p)' = DataAt(p) /\ FlagAt(p)' = FlagAt(p)) /\ (\A p, c : Reached(p, c)' = Reached(p, c))
  BY <1>1, SameBatch
<1>4. drain \in 1 .. Drains /\ Drains \in Nat
  BY <1>1, <1>2, BoundaryType DEF StageOK
<1>5. /\ stage' \in {"fused", "span", "continue"} /\ drain' = drain + 1 /\ work' \in Nat
      /\ warp' \in [Warps -> Warp] /\ table' \in [1 .. Drains -> [CapSlots -> Seq(Entry) \ {<< >>}]]
      /\ stage' \in Kernels => WarpsOK' /\ work' = 0 /\ ~(stage' = "first")
      /\ stage' = "fused" => cadence.fused /\ drain = 1
      /\ stage' = "span" => ~cadence.fused /\ drain < Drains
      /\ stage' = "continue" => drain = Drains \/ packed = << >>
  <2>1. CASE cadence.fused /\ drain = 1 /\ StartKernel("fused", 2)
    BY <1>1, <1>2, <2>1, StartIs
  <2>2. CASE ~cadence.fused /\ drain < Drains /\ StartKernel("span", drain + 1)
    BY <1>1, <1>2, <2>2, StartIs
  <2>3. CASE /\ stage' = "continue" /\ drain' = drain + 1 /\ UNCHANGED <<work, warp, table>>
             /\ drain = Drains \/ packed = << >>
    BY <1>1, <1>2, <2>3 DEF TypeOK, Kernels
  <2>4. QED
    BY <2>1, <2>2, <2>3, CompactEndsIs
<1>6. ASSUME NEW n \in DOMAIN packed
      PROVE  /\ packed[n] \in 0 .. BatchN - 1 /\ wstate[packed[n]] = Reached(packed[n], drain)
             /\ \A k \in DOMAIN packed : packed[k] = packed[n] => k = n
  <2>1. PICK s \in 0 .. Count - 1 : alive[s] /\ packed[n] = Orig(s)
    BY <1>1, <1>2 DEF PackedOK
  <2>2. Orig(s) \in 0 .. BatchN - 1
    BY <1>2, SlotsAre
  <2>3. wstate[Orig(s)] = Reached(Orig(s), drain)
    BY <1>1, <1>2, <2>1 DEF StatesOK
  <2>4. \A k \in DOMAIN packed : packed[k] = packed[n] => k = n
    BY <1>1, <1>2 DEF PackedOK
  <2>5. QED
    BY <2>1, <2>2, <2>3, <2>4
<1>7. TypeOK'
  <2>1. drain' \in 1 .. Drains + 1
    BY <1>4, <1>5
  <2>2. stage' \in Kernels \union {"batch", "compact", "continue", "collect", "done"}
    BY <1>5 DEF Kernels
  <2>3. QED
    BY <1>1, <1>2, <1>3, <1>5, <2>1, <2>2 DEF TypeOK
<1>8. StageOK'
  <2>1. stage' = "fused" => drain' = 2 /\ cadence.fused
    BY <1>5
  <2>2. stage' = "span" => drain' \in 2 .. Drains /\ ~cadence.fused
    BY <1>4, <1>5
  <2>3. stage' = "continue" => drain' > 1 /\ (drain' <= Drains => packed = << >>)
    BY <1>4, <1>5
  <2>4. QED
    BY <1>1, <1>3, <1>5, <2>1, <2>2, <2>3 DEF StageOK
<1>9. LiveOK'
  <2>1. \A p, c : Reached(p, c).d = DataAt(p)
    BY DEF Reached
  <2>2. QED
    BY <1>1, <1>3, <1>6, <2>1 DEF LiveOK
<1>10. FlagsOK'
  BY <1>1, <1>2, <1>3 DEF FlagsOK
<1>11. StatesOK'
  <2>1. drain' - 1 = drain /\ drain' # 1
    BY <1>4, <1>5
  <2>2. \A p : Reached(p, drain' - 1) = Reached(p, drain)
    BY <2>1
  <2>3. \A p : Reached(p, drain - 1)' = Reached(p, drain)
    BY <1>1, <2>1 DEF Reached, DataAt, Completed
  <2>4. ASSUME NEW s \in 0 .. Count' - 1 PROVE wstate'[Orig(s)'] = Reached(Orig(s), drain - 1)'
    <3>1. Count' = Len(packed) /\ Orig(s)' = packed[s + 1] /\ Len(packed) \in Nat /\ DOMAIN packed = 1 .. Len(packed)
      BY <1>1, <1>2, <2>1 DEF Count, Orig, TypeOK
    <3>2. s + 1 \in DOMAIN packed
      BY <3>1
    <3>3. wstate'[Orig(s)'] = Reached(packed[s + 1], drain)
      BY <1>1, <1>6, <3>1, <3>2
    <3>4. QED
      BY <2>3, <3>1, <3>3
  <2>5. ASSUME NEW n \in DOMAIN live' PROVE wstate'[live'[n]] = Reached(live[n], drain - 1)'
    BY <1>1, <1>6, <2>3
  <2>6. stage' \in Kernels => \A s \in work' .. Count' - 1 : s \in 0 .. Count' - 1
    BY <1>5
  <2>7. stage' \in Kernels => \A s \in 0 .. Count' - 1 : ~(s < work')
    BY <1>5
  <2>8. QED
    BY <1>5, <2>4, <2>5, <2>6, <2>7 DEF StatesOK, Kernels
<1>12. WarpsOK' /\ PackedOK'
  BY <1>5 DEF WarpsOK, PackedOK
<1>13. HitsOK'
  BY <1>1, <1>2, SameHits
<1>14. QED
  BY <1>7, <1>8, <1>9, <1>10, <1>11, <1>12, <1>13 DEF Shape

LEMMA ContinueIs ==
  ASSUME Shape, Continue
  PROVE  /\ stage = "continue" /\ stage' = "collect"
         /\ UNCHANGED <<cadence, drain, done, work, alive, live, packed, blocks, wstate, warp, table, hits, emitted>>
         /\ flags' \in [BatchPositions -> Flags \union {0}]
         /\ \A p \in BatchPositions : flags'[p] = IF p \in LivePositions THEN FlagAt(p) ELSE flags[p]
         /\ \A n \in DOMAIN live : live[n] \in 0 .. BatchN - 1 /\ live[n] \in LivePositions
<1>1. /\ stage = "continue" /\ stage' = "collect"
      /\ UNCHANGED <<cadence, drain, done, work, alive, live, packed, blocks, wstate, warp, table, hits, emitted>>
      /\ flags' = [p \in DOMAIN flags |-> IF p \in LivePositions THEN ScreenOf(RunTo(wstate[p], drain)) ELSE flags[p]]
  BY DEF Continue
<1>2. TypeOK /\ StageOK /\ LiveOK /\ StatesOK /\ InBatch /\ drain > 1
  BY <1>1 DEF Shape, InBatch, StageOK
<1>3. flags \in [BatchPositions -> Flags \union {0}] /\ live \in Seq(BatchPositions) /\ drain \in 1 .. Drains + 1 /\ Drains \in Nat
  BY <1>2, BoundaryType DEF TypeOK
<1>4. \A n \in DOMAIN live : live[n] \in 0 .. BatchN - 1
  BY <1>2 DEF LiveOK
<1>5. LivePositions = {live[n] : n \in DOMAIN live}
  BY DEF LivePositions, ToSet
<1>6. ASSUME NEW p \in LivePositions
      PROVE  ScreenOf(RunTo(wstate[p], drain)) = FlagAt(p) /\ FlagAt(p) \in Flags
  <2>1. PICK n \in DOMAIN live : p = live[n]
    BY <1>5
  <2>2. p \in 0 .. BatchN - 1 /\ wstate[p] = Reached(p, drain - 1)
    BY <1>1, <1>2, <1>4, <2>1 DEF StatesOK
  <2>3. drain = Drains + 1
    <3>1. live # << >>
      BY <2>1
    <3>2. ~(drain <= Drains)
      BY <1>1, <1>2, <3>1 DEF StageOK
    <3>3. QED
      BY <1>3, <3>2
  <2>4. drain \in 0 .. Drains + 1 /\ drain > 0
    BY <1>2, <1>3
  <2>5. RunTo(Reached(p, drain - 1), drain) = Reached(p, drain) /\ FlagAt(p) \in Flags
    BY <1>2, <2>2, <2>4, ReachedIs
  <2>6. ScreenOf(Reached(p, Drains + 1)) = FlagAt(p)
    BY <1>2, <2>2, <2>4, ReachedIs
  <2>7. QED
    BY <2>2, <2>3, <2>5, <2>6
<1>7. \A p \in BatchPositions : flags'[p] = IF p \in LivePositions THEN FlagAt(p) ELSE flags[p]
  BY <1>1, <1>3, <1>6
<1>8. flags' \in [BatchPositions -> Flags \union {0}]
  <2>1. \A p \in BatchPositions : flags'[p] \in Flags \union {0}
    BY <1>3, <1>6, <1>7
  <2>2. flags' = [p \in BatchPositions |-> IF p \in LivePositions THEN ScreenOf(RunTo(wstate[p], drain)) ELSE flags[p]]
    BY <1>1, <1>3
  <2>3. QED
    BY <2>1, <2>2
<1>9. QED
  BY <1>1, <1>4, <1>5, <1>7, <1>8

LEMMA ContinueKeepsShape ==
  ASSUME Shape, Continue
  PROVE  Shape'
<1>1. /\ stage = "continue" /\ stage' = "collect"
      /\ UNCHANGED <<cadence, drain, done, work, alive, live, packed, blocks, wstate, warp, table, hits, emitted>>
      /\ flags' \in [BatchPositions -> Flags \union {0}]
      /\ \A p \in BatchPositions : flags'[p] = IF p \in LivePositions THEN FlagAt(p) ELSE flags[p]
  BY ContinueIs
<1>2. TypeOK /\ StageOK /\ LiveOK /\ FlagsOK /\ HitsOK /\ InBatch /\ 0 .. BatchN - 1 \subseteq BatchPositions
  BY <1>1, BatchType DEF Shape, InBatch
<1>3. /\ BatchN' = BatchN /\ Drains' = Drains /\ BatchPositions' = BatchPositions /\ Flags' = Flags
      /\ (\A p : DataAt(p)' = DataAt(p) /\ FlagAt(p)' = FlagAt(p))
  BY <1>1, SameBatch
<1>4. TypeOK'
  BY <1>1, <1>2, <1>3 DEF TypeOK
<1>5. FlagsOK'
  BY <1>1, <1>2, <1>3 DEF FlagsOK
<1>6. StageOK' /\ LiveOK' /\ StatesOK' /\ WarpsOK' /\ PackedOK'
  BY <1>1, <1>2, <1>3 DEF StageOK, LiveOK, StatesOK, WarpsOK, PackedOK, InBatch, Kernels
<1>7. HitsOK'
  BY <1>1, <1>2, SameHits
<1>8. QED
  BY <1>4, <1>5, <1>6, <1>7 DEF Shape

-----------------------------------------------------------------------------
(* Two indices are deposited at two data values.                           *)

LEMMA PowerStep ==
  ASSUME NEW n \in Nat
  PROVE  2^n \in Nat /\ 2^n > 0 /\ 2^(n + 1) = 2^n + 2^n
<1> DEFINE S == 1 .. n
           T == 1 .. n + 1
           A == SUBSET S
           B == {U \union {n + 1} : U \in A}
<1>1. IsFiniteSet(S) /\ Cardinality(S) = n /\ IsFiniteSet(T) /\ Cardinality(T) = n + 1
  <2>1. 1 \in Int /\ n \in Int /\ n + 1 \in Int
    OBVIOUS
  <2>2. /\ IsFiniteSet(1 .. n) /\ Cardinality(1 .. n) = IF 1 > n THEN 0 ELSE n - 1 + 1
        /\ IsFiniteSet(1 .. n + 1) /\ Cardinality(1 .. n + 1) = IF 1 > n + 1 THEN 0 ELSE n + 1 - 1 + 1
    BY <2>1, FS_Interval
  <2>3. QED
    BY <2>2
<1>2. T = S \union {n + 1} /\ n + 1 \notin S
  OBVIOUS
<1>3. /\ IsFiniteSet(A) /\ Cardinality(A) = 2^n /\ Cardinality(A) \in Nat /\ Cardinality(A) # 0
      /\ Cardinality(SUBSET T) = 2^(n + 1)
  <2> HIDE DEF S, T
  <2>1. IsFiniteSet(A) /\ Cardinality(A) = 2^Cardinality(S) /\ Cardinality(SUBSET T) = 2^Cardinality(T)
    BY <1>1, FS_SUBSET
  <2>2. {} \in A
    OBVIOUS
  <2>3. Cardinality(A) \in Nat /\ Cardinality(A) # 0
    BY <2>1, <2>2, FS_CardinalityType, FS_EmptySet
  <2>4. QED
    BY <1>1, <2>1, <2>3
<1>4. SUBSET T = A \union B /\ A \intersect B = {}
  <2> HIDE DEF S, T
  <2>1. ASSUME NEW U \in SUBSET T PROVE U \in A \union B
    <3>1. CASE n + 1 \in U
      <4>1. U \ {n + 1} \in A /\ U = (U \ {n + 1}) \union {n + 1}
        BY <1>2, <3>1
      <4>2. QED
        BY <4>1
    <3>2. CASE n + 1 \notin U
      BY <1>2, <3>2
    <3>3. QED
      BY <3>1, <3>2
  <2>2. A \union B \subseteq SUBSET T
    BY <1>2
  <2>3. A \intersect B = {}
    BY <1>2
  <2>4. QED
    BY <2>1, <2>2, <2>3
<1>5. IsFiniteSet(B) /\ Cardinality(B) = Cardinality(A)
  <2> DEFINE f == [U \in A |-> U \union {n + 1}]
  <2>1. f \in [A -> B] /\ \A V \in B : \E U \in A : f[U] = V
    OBVIOUS
  <2>2. \A U, V \in A : f[U] = f[V] => U = V
    <3> HIDE DEF S
    <3>1. ASSUME NEW U \in A, NEW V \in A, f[U] = f[V] PROVE U = V
      <4>1. U \union {n + 1} = V \union {n + 1} /\ n + 1 \notin U /\ n + 1 \notin V
        BY <1>2, <3>1
      <4>2. QED
        BY <4>1
    <3>2. QED
      BY <3>1
  <2> HIDE DEF f, A, B
  <2>3. f \in Bijection(A, B)
    BY <2>1, <2>2 DEF Bijection, Injection, Surjection, IsInjective
  <2>4. QED
    BY <1>3, <2>3, FS_Bijection DEF ExistsBijection
<1>6. Cardinality(SUBSET T) = Cardinality(A) + Cardinality(B)
  <2> HIDE DEF A, B, T
  <2>1. Cardinality(A \union B) = Cardinality(A) + Cardinality(B) - Cardinality(A \intersect B)
    BY <1>3, <1>5, FS_Union
  <2>2. Cardinality(A \intersect B) = 0
    BY <1>4, FS_EmptySet
  <2>3. Cardinality(SUBSET T) = Cardinality(A \union B)
    BY <1>4
  <2>4. Cardinality(A) \in Nat /\ Cardinality(B) = Cardinality(A)
    BY <1>3, <1>5
  <2>5. QED
    BY <2>1, <2>2, <2>3, <2>4
<1>7. QED
  BY <1>3, <1>5, <1>6

LEMMA DivIs ==
  ASSUME NEW x \in Nat, NEW m \in Nat, m > 0, NEW h \in Nat, NEW t \in 0 .. m - 1, x = h * m + t
  PROVE  x \div m = h
OBVIOUS

LEMMA QuotientIs ==
  ASSUME NEW x \in Nat, NEW m \in Nat, m > 0
  PROVE  x \div m \in Nat /\ x % m \in 0 .. m - 1 /\ x = (x \div m) * m + (x % m)
<1> DEFINE q == x \div m
           r == x % m
<1>1. q \in Int /\ r \in 0 .. m - 1 /\ x = m * q + r
  OBVIOUS
<1> HIDE DEF q, r
<1>2. q >= 0
  <2>1. SUFFICES ASSUME q < 0 PROVE FALSE
    BY <1>1
  <2>2. m * q <= m * (0 - 1)
    BY <1>1, <2>1
  <2>3. QED
    BY <1>1, <2>2
<1>3. m * q = q * m
  BY <1>1
<1>4. QED
  BY <1>1, <1>2, <1>3 DEF q, r

LEMMA HalfOf ==
  ASSUME NEW x \in Nat, NEW a \in Nat, a > 0
  PROVE  x \div (a + a) = (x \div a) \div 2 /\ x \div a = 2 * (x \div (a + a)) + ((x \div a) % 2)
<1> DEFINE q == x \div a
           r == x % a
           h == q \div 2
           b == q % 2
<1>1. q \in Nat /\ r \in 0 .. a - 1 /\ x = q * a + r
  BY QuotientIs
<1> HIDE DEF q, r
<1>2. h \in Nat /\ b \in {0, 1} /\ q = 2 * h + b
  BY <1>1
<1> HIDE DEF h, b
<1>3. x = h * (a + a) + (b * a + r)
  <2>1. q * a = (2 * h + b) * a
    BY <1>2
  <2>2. (2 * h + b) * a = h * (a + a) + b * a
    BY <1>2
  <2>3. h * (a + a) \in Nat /\ b * a \in Nat
    BY <1>2
  <2>4. QED
    BY <1>1, <2>1, <2>2, <2>3
<1>4. b * a + r \in 0 .. (a + a) - 1
  BY <1>1, <1>2
<1> DEFINE m == a + a
           t == b * a + r
<1>5. m \in Nat /\ m > 0
  OBVIOUS
<1> HIDE DEF m, t
<1>6. x = h * m + t /\ t \in 0 .. m - 1
  BY <1>3, <1>4 DEF m, t
<1>7. x \div m = h
  BY <1>2, <1>5, <1>6, DivIs
<1>8. QED
  BY <1>2, <1>7 DEF m, q, h, b

LEMMA DepositInjective ==
  ASSUME NEW mask \in SUBSET Positions,
         NEW i \in 0 .. 2^Min({MaxIndexBits, Cardinality(mask)}) - 1, NEW j \in 0 .. 2^Min({MaxIndexBits, Cardinality(mask)}) - 1,
         deposit_bits32(i, mask) = deposit_bits32(j, mask)
  PROVE  i = j
<1> DEFINE K == Min({MaxIndexBits, Cardinality(mask)})
<1>1. mask \in SUBSET Nat /\ IsFiniteSet(mask) /\ Cardinality(mask) \in Nat
  <2>1. mask \in SUBSET Nat
    BY DEF Positions
  <2>2. IsFiniteSet(mask)
    BY ShapeType, FS_Subset
  <2>3. QED
    BY <2>1, <2>2, FS_CardinalityType
<1>2. K \in Nat /\ K <= MaxIndexBits /\ K <= Cardinality(mask)
  <2> DEFINE c == Cardinality(mask)
  <2>1. c \in Nat /\ MaxIndexBits \in Nat
    BY <1>1 DEF MaxIndexBits
  <2> HIDE DEF c
  <2>2. Min({MaxIndexBits, c}) = IF MaxIndexBits <= c THEN MaxIndexBits ELSE c
    BY <2>1, MinOfTwo
  <2>3. QED
    BY <2>1, <2>2 DEF c
<1>3. i \in Nat /\ j \in Nat /\ i < 2^K /\ j < 2^K /\ 2^K \in Nat /\ 2^K > 0
  <2>1. 2^K \in Nat /\ 2^K > 0
    BY <1>2, PowerStep
  <2>2. i \in 0 .. 2^K - 1 /\ j \in 0 .. 2^K - 1
    OBVIOUS
  <2> DEFINE m == 2^K
  <2> HIDE DEF m
  <2>3. m \in Nat /\ i \in 0 .. m - 1 /\ j \in 0 .. m - 1
    BY <2>1, <2>2 DEF m
  <2>4. i \in Nat /\ j \in Nat /\ i < m /\ j < m
    BY <2>3
  <2>5. QED
    BY <2>1, <2>4 DEF m
<1> HIDE DEF K
<1>4. ASSUME NEW r \in 0 .. K - 1 PROVE (i \div 2^r) % 2 = 1 <=> (j \div 2^r) % 2 = 1
  <2>1. PICK p \in mask : Rank(p, mask) = r
    <3>1. r \in 0 .. Cardinality(mask) - 1
      BY <1>1, <1>2
    <3>2. QED
      BY <1>1, <3>1, RankIs
  <2>2. r < MaxIndexBits
    BY <1>2 DEF MaxIndexBits
  <2>3. p \in deposit_bits32(i, mask) <=> (i \div 2^r) % 2 = 1
    BY <2>1, <2>2 DEF deposit_bits32
  <2>4. p \in deposit_bits32(j, mask) <=> (j \div 2^r) % 2 = 1
    BY <2>1, <2>2 DEF deposit_bits32
  <2>5. QED
    BY <2>3, <2>4
<1> DEFINE Same == {r \in 0 .. K : i \div 2^r = j \div 2^r}
<1>5. K \in Same
  <2> DEFINE m == 2^K
  <2>1. m \in Nat /\ m > 0 /\ i < m /\ j < m
    BY <1>3
  <2> HIDE DEF m
  <2>2. i \div m = 0 /\ j \div m = 0
    BY <1>3, <2>1
  <2>3. QED
    BY <1>2, <2>2 DEF m
<1>6. PICK r \in Same : \A s \in Same : r <= s
  <2>1. Same \in SUBSET Nat
    BY <1>2
  <2> HIDE DEF Same
  <2>2. Same # {}
    BY <1>5
  <2>3. QED
    BY <2>1, <2>2, LeastElement
<1>7. r = 0
  <2>1. SUFFICES ASSUME r > 0 PROVE FALSE
    BY <1>2, <1>6
  <2> DEFINE s == r - 1
             a == 2^s
  <2>2. s \in 0 .. K - 1 /\ s \in Nat /\ r = s + 1 /\ i \div 2^r = j \div 2^r /\ ~(r <= s) /\ s \in 0 .. K
    BY <1>2, <1>6, <2>1
  <2> HIDE DEF s
  <2>3. a \in Nat /\ a > 0 /\ 2^r = a + a
    BY <2>2, PowerStep
  <2>4. (i \div a) % 2 = 1 <=> (j \div a) % 2 = 1
    BY <1>4, <2>2
  <2> HIDE DEF a
  <2>5. /\ i \div a = 2 * (i \div (a + a)) + ((i \div a) % 2) /\ i \div a \in Nat
        /\ j \div a = 2 * (j \div (a + a)) + ((j \div a) % 2) /\ j \div a \in Nat
    BY <1>3, <2>3, HalfOf, QuotientIs
  <2> DEFINE x == i \div a
             y == j \div a
  <2>6. x \in Nat /\ y \in Nat /\ (x % 2 = 1 <=> y % 2 = 1)
    BY <2>4, <2>5
  <2>7. x % 2 = y % 2
    <3> HIDE DEF x, y
    <3>1. QED
      BY <2>6
  <2>8. i \div a = j \div a
    BY <2>2, <2>3, <2>5, <2>7
  <2>9. s \in Same
    BY <2>2, <2>8 DEF a
  <2>10. QED
    BY <1>6, <2>2, <2>9
<1>8. i \div 2^0 = j \div 2^0
  BY <1>6, <1>7
<1>9. 2^0 = 1
  OBVIOUS
<1>10. i \div 1 = i /\ j \div 1 = j
  BY <1>3
<1>11. QED
  BY <1>8, <1>9, <1>10

LEMMA DataOfInjective ==
  ASSUME NEW c \in Cadences, NEW m \in 0 .. direct_total(c) - 1, NEW n \in 0 .. direct_total(c) - 1,
         DataOf(c, c.start + m) = DataOf(c, c.start + n)
  PROVE  m = n
<1> DEFINE bits == Min({MaxIndexBits, Cardinality(Support(c))})
           i == c.start + m
           j == c.start + n
<1>1. Support(c) \in SUBSET Positions /\ c.start \in Nat /\ direct_total(c) \in Nat
  BY CadenceType, TotalType DEF Support
<1>2. c.start + direct_total(c) <= 2^bits
  BY CadenceAssumption
<1>3. 2^bits \in Nat
  <2>1. Cardinality(Support(c)) \in Nat
    BY <1>1, ShapeType, FS_Subset, FS_CardinalityType
  <2>2. MaxIndexBits \in Nat
    BY DEF MaxIndexBits
  <2>3. bits \in Nat
    <3> DEFINE x == Cardinality(Support(c))
    <3>1. x \in Nat
      BY <2>1
    <3> HIDE DEF x
    <3>2. Min({MaxIndexBits, x}) = IF MaxIndexBits <= x THEN MaxIndexBits ELSE x
      BY <2>2, <3>1, MinOfTwo
    <3>3. Min({MaxIndexBits, x}) \in Nat
      BY <2>2, <3>1, <3>2
    <3>4. QED
      BY <3>3 DEF x
  <2>4. QED
    BY <2>3, PowerStep
<1>4. i \in 0 .. 2^bits - 1 /\ j \in 0 .. 2^bits - 1
  <2> DEFINE x == 2^bits
  <2>1. x \in Nat /\ c.start + direct_total(c) <= x
    BY <1>2, <1>3
  <2> HIDE DEF x
  <2>2. i \in 0 .. x - 1 /\ j \in 0 .. x - 1
    BY <1>1, <2>1
  <2>3. QED
    BY <2>2 DEF x
<1>5. deposit_bits32(i, Support(c)) = deposit_bits32(j, Support(c))
  BY DEF DataOf
<1>6. i = j
  <2> HIDE DEF i, j
  <2>1. QED
    BY <1>1, <1>4, <1>5, DepositInjective
<1>7. QED
  BY <1>1, <1>6

-----------------------------------------------------------------------------
(* A batch's hits: new lines, each written once.                           *)

HitOf(n) == [data |-> DataAt(live[n]), flag |-> flags[live[n]]]

LEMMA CollectIs ==
  ASSUME Shape, CollectHits
  PROVE  /\ stage = "collect" /\ stage' = "batch" /\ drain > 1 /\ done' = done + BatchN
         /\ UNCHANGED <<cadence, drain, work, alive, live, packed, blocks, wstate, flags, warp, table>>
         /\ hits' = hits \union {HitOf(n) : n \in Flagged} /\ emitted' = emitted + Cardinality(Flagged)
         /\ IsFiniteSet(Flagged)
         /\ \A n \in Flagged : n \in DOMAIN live /\ live[n] \in 0 .. BatchN - 1 /\ flags[live[n]] # 0
                               /\ flags[live[n]] = FlagAt(live[n])
         /\ \A m, n \in Flagged : live[m] = live[n] => m = n
<1>1. TypeOK /\ StageOK /\ LiveOK /\ FlagsOK
  BY DEF Shape
<1>2. /\ stage = "collect" /\ stage' = "batch" /\ done' = done + BatchN
      /\ UNCHANGED <<cadence, drain, work, alive, live, packed, blocks, wstate, flags, warp, table>>
      /\ hits' = hits \union {[data |-> DataAt(PackedOrig(live[n])), flag |-> flags[live[n]]] : n \in Flagged}
      /\ emitted' = emitted + Cardinality(Flagged)
  BY DEF CollectHits, Collected
<1>3. drain > 1 /\ InBatch
  BY <1>1, <1>2 DEF StageOK, InBatch
<1>4. \A n \in DOMAIN live : live[n] \in 0 .. BatchN - 1 /\ \A k \in DOMAIN live : live[k] = live[n] => k = n
  BY <1>1, <1>3 DEF LiveOK
<1>5. IsFiniteSet(Flagged)
  <2>1. live \in Seq(BatchPositions)
    BY <1>1 DEF TypeOK
  <2>2. DOMAIN live = 1 .. Len(live) /\ 1 \in Int /\ Len(live) \in Int
    BY <2>1
  <2>3. IsFiniteSet(DOMAIN live)
    BY <2>2, FS_Interval
  <2>4. Flagged \in SUBSET DOMAIN live
    BY DEF Flagged
  <2>5. QED
    BY <2>3, <2>4, FS_Subset
<1>6. ASSUME NEW n \in Flagged
      PROVE  /\ n \in DOMAIN live /\ live[n] \in 0 .. BatchN - 1 /\ flags[live[n]] # 0 /\ flags[live[n]] = FlagAt(live[n])
             /\ DataAt(PackedOrig(live[n])) = DataAt(live[n])
  <2>1. n \in DOMAIN live /\ flags[live[n]] # 0 /\ live[n] \in 0 .. BatchN - 1
    BY <1>4 DEF Flagged
  <2>2. flags[live[n]] = FlagAt(live[n])
    BY <1>1, <1>3, <2>1 DEF FlagsOK
  <2>3. PackedOrig(live[n]) = live[n]
    BY <1>1, <2>1, DataAtIs
  <2>4. QED
    BY <2>1, <2>2, <2>3
<1>7. {[data |-> DataAt(PackedOrig(live[n])), flag |-> flags[live[n]]] : n \in Flagged} = {HitOf(n) : n \in Flagged}
  BY <1>6 DEF HitOf
<1>8. \A m, n \in Flagged : live[m] = live[n] => m = n
  BY <1>4, <1>6
<1>9. QED
  BY <1>2, <1>3, <1>5, <1>6, <1>7, <1>8

LEMMA NewHits ==
  ASSUME Shape, CollectHits
  PROVE  IsFiniteSet(hits') /\ emitted' = Cardinality(hits')
<1> DEFINE New == {HitOf(n) : n \in Flagged}
           f == [n \in Flagged |-> HitOf(n)]
<1>1. TypeOK /\ HitsOK
  BY DEF Shape
<1>2. /\ hits' = hits \union New /\ emitted' = emitted + Cardinality(Flagged) /\ IsFiniteSet(Flagged)
      /\ \A n \in Flagged : live[n] \in 0 .. BatchN - 1
      /\ \A m, n \in Flagged : live[m] = live[n] => m = n
  BY CollectIs
<1>3. cadence \in Cadences /\ done \in Nat /\ BatchN \in Nat /\ direct_total(cadence) \in Nat /\ done + BatchN <= direct_total(cadence)
  BY <1>1, BatchType
<1>4. ASSUME NEW p \in 0 .. BatchN - 1, NEW m \in 0 .. direct_total(cadence) - 1,
             DataAt(p) = DataOf(cadence, cadence.start + m)
      PROVE  m = done + p
  <2>1. DataAt(p) = DataOf(cadence, cadence.start + (done + p)) /\ done + p \in 0 .. direct_total(cadence) - 1
    BY <1>1, <1>3, DataAtIs
  <2>2. QED
    BY <1>3, <1>4, <2>1, DataOfInjective
<1>5. ASSUME NEW p \in 0 .. BatchN - 1, NEW q \in 0 .. BatchN - 1, DataAt(p) = DataAt(q)
      PROVE  p = q
  <2>1. DataAt(q) = DataOf(cadence, cadence.start + (done + q)) /\ done + q \in 0 .. direct_total(cadence) - 1
    BY <1>1, <1>3, DataAtIs
  <2>2. done + q = done + p
    BY <1>4, <1>5, <2>1
  <2>3. QED
    BY <1>3, <2>2
<1>6. f \in Bijection(Flagged, New)
  <2>1. f \in [Flagged -> New] /\ \A h \in New : \E n \in Flagged : f[n] = h
    OBVIOUS
  <2>2. ASSUME NEW m \in Flagged, NEW n \in Flagged, f[m] = f[n] PROVE m = n
    <3>1. DataAt(live[m]) = DataAt(live[n])
      BY <2>2 DEF HitOf
    <3>2. live[m] = live[n]
      BY <1>2, <1>5, <3>1
    <3>3. QED
      BY <1>2, <3>2
  <2> HIDE DEF f, New
  <2>3. QED
    BY <2>1, <2>2 DEF Bijection, Injection, Surjection, IsInjective
<1>7. IsFiniteSet(New) /\ Cardinality(New) = Cardinality(Flagged)
  <2> HIDE DEF f, New
  <2>1. QED
    BY <1>2, <1>6, FS_Bijection DEF ExistsBijection
<1>8. hits \intersect New = {}
  <2>1. SUFFICES ASSUME NEW h \in hits, NEW n \in Flagged, h = HitOf(n) PROVE FALSE
    OBVIOUS
  <2>2. PICK m \in 0 .. done - 1 : h.data = DataOf(cadence, cadence.start + m)
    BY <1>1 DEF HitsOK
  <2>3. h.data = DataAt(live[n]) /\ live[n] \in 0 .. BatchN - 1 /\ m \in 0 .. direct_total(cadence) - 1
    BY <1>2, <1>3, <2>1 DEF HitOf
  <2>4. m = done + live[n]
    BY <1>4, <2>2, <2>3
  <2>5. QED
    BY <1>3, <2>2, <2>3, <2>4
<1>9. IsFiniteSet(hits) /\ emitted = Cardinality(hits) /\ Cardinality(hits) \in Nat /\ Cardinality(Flagged) \in Nat
  BY <1>1, <1>2, FS_CardinalityType DEF TypeOK
<1> HIDE DEF New
<1>10. IsFiniteSet(hits \union New) /\ Cardinality(hits \union New) = Cardinality(hits) + Cardinality(New) - Cardinality(hits \intersect New)
  BY <1>7, <1>9, FS_Union
<1>11. Cardinality(hits \intersect New) = 0
  BY <1>8, FS_EmptySet
<1>12. QED
  BY <1>2, <1>7, <1>9, <1>10, <1>11

LEMMA CollectHitsKeepsShape ==
  ASSUME Shape, CollectHits
  PROVE  Shape'
<1>1. TypeOK /\ HitsOK
  BY DEF Shape
<1>2. /\ stage' = "batch" /\ done' = done + BatchN
      /\ UNCHANGED <<cadence, drain, work, alive, live, packed, blocks, wstate, flags, warp, table>>
      /\ hits' = hits \union {HitOf(n) : n \in Flagged}
      /\ \A n \in Flagged : live[n] \in 0 .. BatchN - 1 /\ flags[live[n]] # 0 /\ flags[live[n]] = FlagAt(live[n])
  BY CollectIs
<1>3. done \in Nat /\ BatchN \in Nat /\ done + BatchN <= direct_total(cadence) /\ direct_total(cadence) \in Nat
  BY <1>1, BatchType
<1>4. done' \in 0 .. direct_total(cadence)
  BY <1>2, <1>3
<1>5. BatchPositions' = BatchPositions /\ Drains' = Drains /\ Flags' = Flags /\ direct_total(cadence)' = direct_total(cadence)
  BY <1>2 DEF BatchPositions, Drains, Flags
<1>6. IsFiniteSet(hits') /\ emitted' = Cardinality(hits')
  BY NewHits
<1>7. TypeOK'
  BY <1>1, <1>2, <1>4, <1>5, <1>6 DEF TypeOK
<1>8. StageOK' /\ LiveOK' /\ FlagsOK' /\ StatesOK' /\ WarpsOK' /\ PackedOK'
  BY <1>2 DEF StageOK, LiveOK, FlagsOK, StatesOK, WarpsOK, PackedOK, InBatch, Kernels
<1>9. HitsOK'
  <2>1. ASSUME NEW h \in hits'
        PROVE  /\ h.flag # 0 /\ h.flag = FlagOf(Ending(h.data))
               /\ \E n \in 0 .. done' - 1 : h.data = DataOf(cadence, cadence.start + n)
    <3>1. CASE h \in hits
      <4>1. PICK n \in 0 .. done - 1 : h.data = DataOf(cadence, cadence.start + n)
        BY <1>1, <3>1 DEF HitsOK
      <4>2. n \in 0 .. done' - 1
        BY <1>2, <1>3, <4>1
      <4>3. QED
        BY <1>1, <3>1, <4>1, <4>2 DEF HitsOK
    <3>2. CASE h \notin hits
      <4>1. PICK n \in Flagged : h = HitOf(n)
        BY <1>2, <2>1, <3>2
      <4>2. h.data = DataAt(live[n]) /\ h.flag = flags[live[n]] /\ live[n] \in 0 .. BatchN - 1
            /\ h.flag # 0 /\ h.flag = FlagAt(live[n])
        BY <1>2, <4>1 DEF HitOf
      <4>3. DataAt(live[n]) = DataOf(cadence, cadence.start + (done + live[n])) /\ done + live[n] \in 0 .. done + BatchN - 1
        BY <1>1, <4>2, DataAtIs
      <4> DEFINE m == done + live[n]
      <4> HIDE DEF m
      <4>4. h.data = DataOf(cadence, cadence.start + m) /\ m \in 0 .. done' - 1
        <5>1. m \in 0 .. done' - 1
          BY <1>2, <1>3, <4>2, <4>3 DEF m
        <5>2. DataAt(live[n]) = DataOf(cadence, cadence.start + m)
          BY <4>3 DEF m
        <5>3. QED
          BY <4>2, <5>1, <5>2
      <4>5. QED
        BY <4>2, <4>4 DEF FlagAt
    <3>3. QED
      BY <3>1, <3>2
  <2>2. QED
    BY <1>2, <2>1 DEF HitsOK, Ending
<1>10. QED
  BY <1>7, <1>8, <1>9 DEF Shape

LEMMA ShapeIsKept ==
  ASSUME Shape, [Device]_cadenceVars
  PROVE  Shape'
<1>1. CASE BeginBatch
  BY <1>1, BeginBatchKeepsShape
<1>2. CASE EndKey
  BY <1>2, EndKeyKeepsShape
<1>3. ASSUME NEW w \in Warps, Take(w) PROVE Shape'
  BY <1>3, TakeKeepsShape
<1>4. ASSUME NEW w \in Warps, ProbeWay(w) PROVE Shape'
  BY <1>4, ProbeKeepsShape
<1>5. ASSUME NEW w \in Warps, StoreWay(w) PROVE Shape'
  BY <1>5, StoreKeepsShape
<1>6. CASE KernelEnds
  BY <1>6, KernelEndsKeepsShape
<1>7. ASSUME NEW b \in 0 .. Count - 1, CompactBlock(b) PROVE Shape'
  BY <1>7, CompactBlockKeepsShape
<1>8. CASE CompactEnds
  BY <1>8, CompactEndsKeepsShape
<1>9. CASE Continue
  BY <1>9, ContinueKeepsShape
<1>10. CASE CollectHits
  BY <1>10, CollectHitsKeepsShape
<1>11. CASE UNCHANGED cadenceVars
  <2>1. UNCHANGED <<cadence, stage, drain, done, work, alive, live, packed, blocks, wstate, flags, warp, table, hits, emitted>>
    BY <1>11 DEF cadenceVars
  <2>2. TypeOK'
    BY <2>1 DEF Shape, TypeOK, BatchPositions, Drains, Flags
  <2>3. StageOK' /\ HitsOK'
    BY <2>1 DEF Shape, StageOK, HitsOK, Drains
  <2>4. LiveOK' /\ FlagsOK'
    BY <2>1, SameBatch DEF Shape, LiveOK, FlagsOK, InBatch
  <2>5. /\ Count' = Count /\ (\A s : Orig(s)' = Orig(s)) /\ (\A s : InHand(s)' <=> InHand(s))
        /\ \A w : (Busy(w)' <=> Busy(w)) /\ SlotsOf(w)' = SlotsOf(w)
    BY <2>1 DEF Count, BatchN, Orig, InHand, Busy, SlotsOf
  <2>6. StatesOK'
    BY <2>1, <2>5, SameBatch DEF Shape, StatesOK
  <2>7. \A w : LanesOf(w)' <=> LanesOf(w)
    BY <2>1, <2>5, SameBatch DEF LanesOf
  <2>8. WarpsOK'
    BY <2>1, <2>5, <2>7 DEF Shape, WarpsOK
  <2>9. PackedOK'
    BY <2>1, <2>5 DEF Shape, PackedOK
  <2>10. QED
    BY <2>2, <2>3, <2>4, <2>6, <2>8, <2>9 DEF Shape
<1>12. QED
  BY <1>1, <1>2, <1>3, <1>4, <1>5, <1>6, <1>7, <1>8, <1>9, <1>10, <1>11 DEF Device

-----------------------------------------------------------------------------
(* What would be a hit and is held stays held.                             *)

StaysHeld == \A b \in 0 .. Drains : \A x : FlagOf(x) # 0 /\ HeldBy(x, b) => HeldBy(x, b)'

LEMMA CarriedStays ==
  ASSUME Shape, UNCHANGED <<cadence, done>>, hits \subseteq hits',
         \A b \in 0 .. Drains : \A p \in 0 .. BatchN - 1 :
           FlagAt(p) # 0 /\ Carries(p, b) => HeldBy(Ending(DataAt(p)), b)'
  PROVE  StaysHeld
<1>1. SUFFICES ASSUME NEW b \in 0 .. Drains, NEW x, FlagOf(x) # 0, HeldBy(x, b) PROVE HeldBy(x, b)'
  BY DEF StaysHeld
<1>2. CASE \E p \in 0 .. BatchN - 1 : Carries(p, b) /\ x = Ending(DataAt(p))
  <2>1. PICK p \in 0 .. BatchN - 1 : Carries(p, b) /\ x = Ending(DataAt(p))
    BY <1>2
  <2>2. FlagAt(p) # 0
    BY <1>1, <2>1 DEF FlagAt
  <2>3. HeldBy(Ending(DataAt(p)), b)'
    BY <2>1, <2>2
  <2>4. Ending(DataAt(p))' = x
    BY <2>1 DEF Ending, DataAt
  <2>5. QED
    BY <2>3, <2>4 DEF HeldBy
<1>3. CASE \E h \in hits : x = Ending(h.data)
  <2>1. \E h \in hits' : x = Ending(h.data)
    BY <1>3
  <2>2. QED
    BY <2>1 DEF HeldBy, Ending
<1>4. QED
  BY <1>1, <1>2, <1>3 DEF HeldBy

LEMMA CarriedIsHeld ==
  ASSUME Shape, UNCHANGED <<cadence, done>>, NEW b, NEW p \in 0 .. BatchN - 1, Carries(p, b)'
  PROVE  HeldBy(Ending(DataAt(p)), b)'
<1>1. BatchN' = BatchN
  BY SameBatch
<1>2. QED
  BY <1>1 DEF HeldBy

\* A step within a kernel: slot by slot.
LEMMA SlotsStay ==
  ASSUME Shape, stage \in Kernels, UNCHANGED <<cadence, stage, drain, done, live, hits>>,
         \A b \in 0 .. Drains : \A s \in 0 .. Count - 1 :
           FlagAt(Orig(s)) # 0 /\ SlotCarries(s, b) => SlotCarries(s, b)' \/ HeldBy(Ending(DataAt(Orig(s))), b)'
  PROVE  StaysHeld
<1>1. Count' = Count /\ (\A s : Orig(s)' = Orig(s)) /\ stage' \in Kernels
  BY SameSlots DEF Kernels
<1>2. ASSUME NEW b \in 0 .. Drains, NEW p \in 0 .. BatchN - 1, FlagAt(p) # 0, Carries(p, b)
      PROVE  HeldBy(Ending(DataAt(p)), b)'
  <2>1. PICK s \in 0 .. Count - 1 : p = Orig(s) /\ SlotCarries(s, b)
    BY <1>2 DEF Carries, Kernels
  <2>2. CASE SlotCarries(s, b)'
    <3>1. Carries(p, b)'
      BY <1>1, <2>1, <2>2 DEF Carries
    <3>2. QED
      BY <3>1, CarriedIsHeld
  <2>3. CASE HeldBy(Ending(DataAt(Orig(s))), b)'
    <3>1. Ending(DataAt(Orig(s)))' = Ending(DataAt(p))'
      BY <1>1, <2>1 DEF Ending, DataAt
    <3>2. QED
      BY <2>3, <3>1 DEF HeldBy
  <2>4. QED
    BY <1>2, <2>1, <2>2, <2>3
<1>3. QED
  BY <1>2, CarriedStays

LEMMA KernelNumbers ==
  ASSUME Shape, stage \in Kernels
  PROVE  /\ TypeOK /\ StageOK /\ LiveOK /\ FlagsOK /\ StatesOK /\ WarpsOK /\ InBatch
         /\ Count \in Nat /\ work \in Nat /\ Drains \in Nat /\ drain \in 1 .. Drains + 1 /\ drain \in Nat
         /\ 0 .. Count - 1 \subseteq BatchPositions
         /\ \A s \in 0 .. Count - 1 : /\ Orig(s) \in 0 .. BatchN - 1 /\ Orig(s) \in BatchPositions
                                      /\ \A t \in 0 .. Count - 1 : Orig(t) = Orig(s) => t = s
         /\ \A s : InHand(s) => s < work
<1>1. TypeOK /\ StageOK /\ LiveOK /\ FlagsOK /\ StatesOK /\ WarpsOK /\ InBatch
  BY DEF Shape, InBatch, Kernels
<1>2. Drains \in Nat /\ drain \in 1 .. Drains + 1 /\ work \in Nat /\ 0 .. BatchN - 1 \subseteq BatchPositions
  BY <1>1, BoundaryType, BatchType DEF TypeOK
<1>3. \A x \in Warps : Busy(x) => \A s \in SlotsOf(x) : s < work
  BY <1>1, BusyLanes
<1>4. QED
  BY <1>1, <1>2, <1>3, CountFits, SlotsAre DEF InHand

LEMMA TakeHolds ==
  ASSUME Shape, NEW w \in Warps, Take(w)
  PROVE  StaysHeld
<1>1. /\ stage \in Kernels /\ ~Busy(w) /\ work' = work + cadence.ilp /\ work' \in Nat /\ work' >= work
      /\ UNCHANGED <<cadence, stage, drain, done, live, packed, blocks, table, hits, emitted>>
  BY TakeIs
<1>2. /\ TypeOK /\ StageOK /\ LiveOK /\ FlagsOK /\ StatesOK /\ InBatch /\ warp \in [Warps -> Warp]
      /\ Count \in Nat /\ work \in Nat /\ Drains \in Nat /\ drain \in 1 .. Drains + 1 /\ drain \in Nat
      /\ (\A s \in 0 .. Count - 1 : Orig(s) \in 0 .. BatchN - 1 /\ Orig(s) \in BatchPositions)
      /\ \A s : InHand(s) => s < work
  BY <1>1, KernelNumbers DEF TypeOK
<1>3. Count' = Count /\ (\A s : Orig(s)' = Orig(s)) /\ Drains' = Drains /\ stage' = stage /\ drain' = drain
  BY <1>1, SameSlots, SameBatch
<1>4. SUFFICES ASSUME NEW b \in 0 .. Drains, NEW s \in 0 .. Count - 1, FlagAt(Orig(s)) # 0, SlotCarries(s, b)
               PROVE  SlotCarries(s, b)'
  BY <1>1, SlotsStay
<1>5. b \in Nat /\ s \in Nat
  BY <1>2
<1>6. CASE work >= Count /\ TakesNone(w)
  <2>1. warp' = [warp EXCEPT ![w].at = "end"] /\ UNCHANGED <<alive, wstate, flags>>
    BY <1>6 DEF TakesNone
  <2>2. warp'[w].at = "end" /\ \A x \in Warps \ {w} : warp'[x] = warp[x]
    BY <1>2, <2>1 DEF Warp
  <2>3. ~Busy(w)' /\ \A x \in Warps \ {w} : (Busy(x)' <=> Busy(x)) /\ SlotsOf(x)' = SlotsOf(x)
    BY <2>2, SameWarp DEF Busy
  <2>4. InHand(s)' <=> InHand(s)
    BY <1>1, <2>3 DEF InHand
  <2>5. s < work /\ s < work'
    BY <1>1, <1>2, <1>5, <1>6
  <2>6. CASE \E x \in Warps : LaneCarries(x, s, b)
    <3>1. PICK x \in Warps : LaneCarries(x, s, b)
      BY <2>6
    <3>2. x # w
      BY <1>1, <3>1 DEF LaneCarries
    <3>3. LaneCarries(x, s, b)'
      BY <2>2, <3>1, <3>2, SameWarp
    <3>4. QED
      BY <3>3 DEF SlotCarries
  <2>7. QED
    BY <1>2, <1>3, <1>4, <2>1, <2>4, <2>5, <2>6 DEF SlotCarries
<1>7. CASE work < Count /\ drain = Drains + 1 /\ stage = "fused" /\ TakesAndScreens
  <2> DEFINE vals == [k \in 1 .. Valid |-> wstate[Orig(work + k - 1)]]
             on == 1 .. Valid
  <2>1. ScreenLanes(work, vals, on) /\ warp' = warp
    BY <1>7 DEF TakesAndScreens
  <2>2. Valid \in Nat /\ work + Valid <= Count /\ \A t \in 0 .. Count - 1 : t < work' => t < work + Valid
    BY <1>1, <1>2, <1>7, TakenSlots DEF Valid
  <2>3. \A k \in on : work + k - 1 \in 0 .. Count - 1 /\ vals[k] = Reached(Orig(work + k - 1), Drains)
    <3>1. \A k \in 1 .. Valid : work + k - 1 \in 0 .. Count - 1 /\ work + k - 1 \in work .. Count - 1
      BY <1>2, <2>2
    <3>2. \A t \in work .. Count - 1 : wstate[Orig(t)] = Reached(Orig(t), drain - 1)
      <4>1. drain > 1
        BY <1>2, <1>7, BoundaryType
      <4>2. QED
        BY <1>1, <1>2, <4>1 DEF StatesOK
    <3>3. drain - 1 = Drains
      BY <1>2, <1>7
    <3>4. QED
      BY <3>1, <3>2, <3>3
  <2>4. \A p \in BatchPositions : flags'[p] = IF \E k \in on : Orig(work + k - 1) = p THEN FlagAt(p) ELSE flags[p]
    <3> HIDE DEF vals, on
    <3>1. QED
      BY <1>2, <2>1, <2>3, ScreenedIs
  <2>5. (InHand(s)' <=> InHand(s)) /\ \A x \in Warps : LaneCarries(x, s, b) => LaneCarries(x, s, b)'
    BY <2>1 DEF InHand, Busy, SlotsOf, LaneCarries, PastOf
  <2>6. Orig(s) \in BatchPositions
    BY <1>2
  <2>7. CASE s >= work /\ b <= drain - 1
    <3>1. CASE s >= work'
      BY <1>3, <2>7, <3>1 DEF SlotCarries
    <3>2. CASE ~(s >= work')
      <4> DEFINE k == s - work + 1
      <4>1. s < work'
        BY <1>1, <1>5, <3>2
      <4>2. k \in on /\ work + k - 1 = s
        BY <1>2, <1>5, <2>2, <2>7, <4>1
      <4> HIDE DEF k
      <4>3. flags'[Orig(s)] = FlagAt(Orig(s))
        BY <2>4, <2>6, <4>2
      <4>4. ~InHand(s)'
        BY <1>2, <1>5, <2>5, <2>7
      <4>5. QED
        BY <1>3, <1>4, <1>7, <2>7, <4>1, <4>3, <4>4 DEF SlotCarries
    <3>3. QED
      BY <3>1, <3>2
  <2>8. CASE s < work /\ ~InHand(s) /\ stage = "fused" /\ flags[Orig(s)] # 0 /\ b <= Drains
    <3>1. flags'[Orig(s)] # 0
      BY <1>4, <2>4, <2>6, <2>8
    <3>2. s < work'
      BY <1>1, <1>2, <1>5, <2>8
    <3>3. QED
      BY <1>3, <2>5, <2>8, <3>1, <3>2 DEF SlotCarries
  <2>9. QED
    BY <1>4, <1>7, <2>5, <2>7, <2>8 DEF SlotCarries
<1>8. CASE work < Count /\ drain <= Drains /\ TakesSome(w)
  <2> DEFINE r == [at |-> "probe", base |-> work, drain |-> drain, lane |-> 1, way |-> 0,
                   vals |-> [k \in 1 .. Valid |-> Loaded(work + k - 1)], on |-> 1 .. Valid]
  <2>1. warp' = [warp EXCEPT ![w] = r] /\ UNCHANGED <<alive, wstate, flags>>
    BY <1>8 DEF TakesSome
  <2>2. Valid \in Nat /\ Valid > 0 /\ \A t \in 0 .. Count - 1 : t < work' => t < work + Valid
    BY <1>1, <1>2, <1>8, TakenSlots DEF Valid
  <2>3. /\ r.at = "probe" /\ r.base = work /\ r.drain = drain /\ r.lane = 1 /\ r.on = 1 .. Valid
        /\ Len(r.vals) = Valid
    BY <2>2
  <2> HIDE DEF r
  <2>4. warp'[w] = r /\ \A x \in Warps \ {w} : warp'[x] = warp[x]
    BY <1>2, <2>1
  <2>5. Busy(w)' /\ SlotsOf(w)' = work .. work + Valid - 1
    BY <2>3, <2>4 DEF Busy, SlotsOf
  <2>6. \A x \in Warps \ {w} : (Busy(x)' <=> Busy(x)) /\ SlotsOf(x)' = SlotsOf(x)
    BY <2>4, SameWarp
  <2>7. s < work => (InHand(s)' <=> InHand(s))
    <3>1. s < work => s \notin SlotsOf(w)'
      BY <1>2, <1>5, <2>5
    <3>2. QED
      BY <1>1, <2>6, <3>1 DEF InHand
  <2>8. CASE s >= work /\ b <= drain - 1
    <3>1. CASE s >= work'
      BY <1>3, <2>8, <3>1 DEF SlotCarries
    <3>2. CASE ~(s >= work')
      <4>1. PICK k \in Int : k = s - work + 1
        BY <1>2, <1>5
      <4>2. k \in 1 .. Valid /\ s \in SlotsOf(w)' /\ ~(k < 1)
        <5>1. s < work + Valid
          BY <1>1, <1>5, <2>2, <3>2
        <5>2. QED
          BY <1>2, <1>5, <2>2, <2>5, <2>8, <4>1, <5>1
      <4>3. /\ warp'[w].at = "probe" /\ warp'[w].base = work /\ warp'[w].drain = drain /\ warp'[w].lane = 1
            /\ warp'[w].on = 1 .. Valid
        BY <2>3, <2>4
      <4>4. PastOf(w, k)' = drain - 1
        BY <4>2, <4>3 DEF PastOf
      <4>5. s - warp'[w].base + 1 = k /\ k \in warp'[w].on /\ b <= PastOf(w, k)'
        BY <2>8, <4>1, <4>2, <4>3, <4>4
      <4>6. LaneCarries(w, s, b)'
        BY <2>5, <4>2, <4>5 DEF LaneCarries, PastOf
      <4>7. QED
        BY <4>6 DEF SlotCarries
    <3>3. QED
      BY <3>1, <3>2
  <2>9. CASE \E x \in Warps : LaneCarries(x, s, b)
    <3>1. PICK x \in Warps : LaneCarries(x, s, b)
      BY <2>9
    <3>2. x # w
      BY <1>1, <3>1 DEF LaneCarries
    <3>3. LaneCarries(x, s, b)'
      BY <2>4, <3>1, <3>2, SameWarp
    <3>4. QED
      BY <3>3 DEF SlotCarries
  <2>10. CASE s < work /\ ~InHand(s)
    <3>1. s < work' /\ ~InHand(s)' /\ ~(s >= work)
      BY <1>1, <1>2, <1>5, <2>7, <2>10
    <3>2. ~\E x \in Warps : LaneCarries(x, s, b)
      BY <2>10 DEF LaneCarries, InHand
    <3>3. QED
      BY <1>3, <1>4, <2>1, <3>1, <3>2 DEF SlotCarries
  <2>11. QED
    BY <1>4, <2>8, <2>9, <2>10 DEF SlotCarries
<1>9. QED
  BY <1>6, <1>7, <1>8, TakeIs

LEMMA JudgedHolds ==
  ASSUME Shape, stage \in Kernels, NEW w \in Warps, Busy(w), NEW keep \in BOOLEAN, Judged(w, keep),
         UNCHANGED <<cadence, stage, drain, done, work, live>>,
         NEW b \in 0 .. Drains, NEW s \in 0 .. Count - 1, FlagAt(Orig(s)) # 0, SlotCarries(s, b),
         keep \/ s # JudgedSlot(w)
  PROVE  SlotCarries(s, b)'
<1>1. /\ TypeOK /\ LiveOK /\ FlagsOK /\ WarpsOK /\ InBatch
      /\ Count \in Nat /\ work \in Nat /\ Drains \in Nat /\ drain \in Nat
      /\ s \in BatchPositions /\ Orig(s) \in 0 .. BatchN - 1 /\ Orig(s) \in BatchPositions
      /\ b \in Nat /\ s \in Nat
  BY KernelNumbers
<1>2. Count' = Count /\ (\A t : Orig(t)' = Orig(t)) /\ Drains' = Drains /\ stage' = stage /\ drain' = drain /\ work' = work
  BY SameSlots, SameBatch
<1>3. /\ warp' \in [Warps -> Warp] /\ (\A x \in Warps \ {w} : warp'[x] = warp[x])
      /\ ToNextLane(w, keep) \/ ToNextBoundary(w, keep) \/ ToCounter(w, keep)
  BY JudgedIs
<1>4. /\ LanesOf(w) /\ warp[w].base \in Nat /\ DOMAIN warp[w].vals = 1 .. Len(warp[w].vals) /\ Len(warp[w].vals) \in Nat
      /\ warp[w].drain \in 1 .. Drains /\ warp[w].drain \in Nat /\ warp[w].lane \in Nat
      /\ \A k \in warp[w].on : k \in DOMAIN warp[w].vals /\ k \in Nat
      /\ stage # "fused" => warp[w].drain = drain
  <2>1. /\ LanesOf(w) /\ warp[w].base \in Nat /\ DOMAIN warp[w].vals = 1 .. Len(warp[w].vals) /\ Len(warp[w].vals) \in Nat
        /\ warp[w].drain \in 1 .. Drains /\ warp[w].lane \in Nat
        /\ \A k \in warp[w].on : k \in 1 .. Len(warp[w].vals)
    BY <1>1, BusyLanes
  <2>2. warp[w].drain \in Nat /\ \A k \in 1 .. Len(warp[w].vals) : k \in Nat
    BY <2>1
  <2>3. stage # "fused" => warp[w].drain = drain
    BY <2>1 DEF LanesOf
  <2>4. QED
    BY <2>1, <2>2, <2>3
\* A lane of another warp, and a slot no warp has in hand.
<1>5. CASE \E x \in Warps \ {w} : LaneCarries(x, s, b)
  <2>1. PICK x \in Warps \ {w} : LaneCarries(x, s, b)
    BY <1>5
  <2>2. LaneCarries(x, s, b)'
    BY <1>3, <2>1, SameWarp
  <2>3. QED
    BY <2>2 DEF SlotCarries
<1>6. CASE s >= work /\ b <= drain - 1
  BY <1>2, <1>6 DEF SlotCarries
<1>7. CASE s < work /\ ~InHand(s) /\ ~\E x \in Warps : LaneCarries(x, s, b)
  <2>1. (stage = "fused" => flags[Orig(s)] # 0 /\ b <= Drains) /\ (stage # "fused" => alive[s] /\ b <= drain)
    BY <1>1, <1>7 DEF SlotCarries
  <2>2. s \notin SlotsOf(w)
    BY <1>7 DEF InHand
  <2>3. ~InHand(s)'
    BY <1>3, <1>7, JudgedSlots
  <2>4. (stage = "fused" => flags'[Orig(s)] # 0) /\ (stage # "fused" => alive'[s])
    <3>1. CASE ToNextLane(w, keep) \/ ToNextBoundary(w, keep)
      BY <2>1, <3>1 DEF ToNextLane, ToNextBoundary
    <3>2. CASE ToCounter(w, keep)
      <4> DEFINE base == warp[w].base
                 vals == warp[w].vals
                 on   == Left(w, keep)
      <4>1. ASSUME stage # "fused" PROVE alive'[s]
        <5>1. StoreLanes(base, vals, on)
          BY <3>2, <4>1 DEF ToCounter
        <5>2. s \in DOMAIN alive
          BY <1>1 DEF TypeOK
        <5>3. s - base + 1 \notin DOMAIN vals
          <6>1. ASSUME s - base + 1 \in DOMAIN vals PROVE FALSE
            <7>1. base + (s - base + 1) - 1 \in SlotsOf(w)
              BY <1>1, <6>1, BusyLanes
            <7>2. base + (s - base + 1) - 1 = s
              <8>1. base \in Nat /\ s \in Nat
                BY <1>1, <1>4
              <8> HIDE DEF base
              <8>2. QED
                BY <8>1
            <7>3. QED
              BY <2>2, <7>1, <7>2
          <6>2. QED
            BY <6>1
        <5> HIDE DEF base, vals, on
        <5>4. QED
          BY <2>1, <4>1, <5>1, <5>2, <5>3 DEF StoreLanes
      <4>2. ASSUME stage = "fused" PROVE flags'[Orig(s)] # 0
        <5>1. ScreenLanes(base, vals, on) /\ (warp[w].drain = Drains \/ on = {})
          BY <3>2, <4>2 DEF ToCounter
        <5>2. \A k \in on : base + k - 1 \in 0 .. Count - 1 /\ vals[k] = Reached(Orig(base + k - 1), Drains)
          <6>1. on \subseteq warp[w].on
            BY DEF Left
          <6>2. \A k \in on : warp[w].drain = Drains /\ k \in DOMAIN vals
            BY <1>4, <5>1, <6>1
          <6>3. \A k \in DOMAIN vals : base + k - 1 \in SlotsOf(w) /\ vals[k] = Reached(Orig(base + k - 1), warp[w].drain)
            BY <1>1, <1>4, BusyLanes DEF LanesOf
          <6>4. \A t \in SlotsOf(w) : t \in 0 .. Count - 1
            BY <1>1, BusyLanes
          <6>5. QED
            BY <6>2, <6>3, <6>4
        <5>3. \A p \in BatchPositions : flags'[p] = IF \E k \in on : Orig(base + k - 1) = p THEN FlagAt(p) ELSE flags[p]
          <6>1. base \in Nat
            BY <1>4
          <6> HIDE DEF base, vals, on
          <6>2. QED
            BY <1>1, <5>1, <5>2, <6>1, ScreenedIs
        <5>4. QED
          BY <1>1, <2>1, <4>2, <5>3
      <4>3. QED
        BY <4>1, <4>2
    <3>3. QED
      BY <1>3, <3>1, <3>2
  <2>5. QED
    BY <1>2, <1>7, <2>1, <2>3, <2>4 DEF SlotCarries
\* A lane of the warp's own.
<1>8. CASE LaneCarries(w, s, b)
  <2>1. PICK k \in Int : k = s - warp[w].base + 1
    BY <1>1, <1>4
  <2>2. /\ s \in SlotsOf(w) /\ k \in warp[w].on /\ b <= PastOf(w, k) /\ k \in DOMAIN warp[w].vals /\ k \in Nat
        /\ s < work /\ warp[w].base + k - 1 = s
    <3>1. s \in SlotsOf(w) /\ k \in warp[w].on /\ b <= PastOf(w, k)
      BY <1>8, <2>1 DEF LaneCarries, PastOf
    <3>2. s < work
      BY <1>1, <3>1, BusyLanes
    <3>3. k \in DOMAIN warp[w].vals /\ k \in Nat
      BY <1>4, <3>1
    <3>4. warp[w].base + k - 1 = s
      <4>1. warp[w].base \in Nat /\ s \in Nat
        BY <1>1, <1>4
      <4>2. QED
        BY <2>1, <4>1
    <3>5. QED
      BY <3>1, <3>2, <3>3, <3>4
  <2>3. k \in Left(w, keep)
    <3>1. keep \/ k # warp[w].lane
      BY <1>4, <2>2 DEF JudgedSlot
    <3>2. QED
      BY <2>2, <3>1 DEF Left
  <2>4. b <= warp[w].drain /\ (k > warp[w].lane => b <= warp[w].drain - 1)
    <3>1. b \in Nat /\ k \in Nat /\ warp[w].drain \in Nat /\ warp[w].lane \in Nat /\ b <= PastOf(w, k)
      BY <1>1, <1>4, <2>2
    <3>2. QED
      BY <3>1 DEF PastOf
  <2>5. CASE ToNextLane(w, keep)
    <3>1. /\ warp'[w].base = warp[w].base /\ warp'[w].drain = warp[w].drain /\ warp'[w].on = Left(w, keep)
          /\ warp'[w].lane \in Later(w, keep) /\ Busy(w)' /\ SlotsOf(w)' = SlotsOf(w)
      BY <1>3, <2>5, JudgedSlots DEF ToNextLane
    <3>2. k < warp'[w].lane \/ k > warp[w].lane
      <4>1. warp'[w].lane \in Left(w, keep) /\ warp'[w].lane > warp[w].lane
        BY <3>1 DEF Later
      <4>2. warp'[w].lane \in Nat
        BY <1>4, <4>1 DEF Left
      <4>3. QED
        BY <1>4, <2>2, <4>1, <4>2
    <3>3. b <= PastOf(w, k)'
      <4>1. PastOf(w, k)' = warp[w].drain \/ (~(k < warp'[w].lane) /\ PastOf(w, k)' = warp[w].drain - 1)
        BY <3>1 DEF PastOf
      <4>2. QED
        BY <1>1, <1>4, <2>4, <3>2, <4>1
    <3>4. LaneCarries(w, s, b)'
      BY <2>1, <2>2, <2>3, <3>1, <3>3 DEF LaneCarries, PastOf
    <3>5. QED
      BY <3>4 DEF SlotCarries
  <2>6. CASE ToNextBoundary(w, keep)
    <3>1. /\ warp'[w].base = warp[w].base /\ warp'[w].drain = warp[w].drain + 1 /\ warp'[w].on = Left(w, keep)
          /\ Busy(w)' /\ SlotsOf(w)' = SlotsOf(w)
      BY <1>3, <2>6, JudgedSlots DEF ToNextBoundary
    <3>2. b <= PastOf(w, k)'
      <4>1. PastOf(w, k)' = warp[w].drain + 1 \/ PastOf(w, k)' = (warp[w].drain + 1) - 1
        BY <1>4, <3>1 DEF PastOf
      <4>2. QED
        BY <1>1, <1>4, <2>4, <4>1
    <3>3. LaneCarries(w, s, b)'
      BY <2>1, <2>2, <2>3, <3>1, <3>2 DEF LaneCarries, PastOf
    <3>4. QED
      BY <3>3 DEF SlotCarries
  <2>7. CASE ToCounter(w, keep)
    <3> DEFINE base == warp[w].base
               vals == warp[w].vals
               on   == Left(w, keep)
    <3>1. ~InHand(s)'
      BY <1>3, <2>2, <2>7, JudgedSlots
    <3>2. CASE stage = "fused"
      <4>1. ScreenLanes(base, vals, on) /\ warp[w].drain = Drains
        BY <2>3, <2>7, <3>2 DEF ToCounter
      <4>2. \A j \in on : base + j - 1 \in 0 .. Count - 1 /\ vals[j] = Reached(Orig(base + j - 1), Drains)
        <5>1. \A j \in on : j \in DOMAIN vals
          BY <1>4 DEF Left
        <5>2. \A j \in DOMAIN vals : base + j - 1 \in SlotsOf(w) /\ vals[j] = Reached(Orig(base + j - 1), Drains)
          BY <1>1, <1>4, <4>1, BusyLanes DEF LanesOf
        <5>3. \A t \in SlotsOf(w) : t \in 0 .. Count - 1
          BY <1>1, BusyLanes
        <5>4. QED
          BY <5>1, <5>2, <5>3
      <4>3. flags'[Orig(s)] = FlagAt(Orig(s))
        <5>1. k \in on /\ base + k - 1 = s
          BY <1>4, <2>2, <2>3
        <5>2. base \in Nat
          BY <1>4
        <5> HIDE DEF base, vals, on
        <5>3. ScreenLanes(base, vals, on)
          BY <4>1
        <5>4. \A p \in BatchPositions : flags'[p] = IF \E j \in on : Orig(base + j - 1) = p THEN FlagAt(p) ELSE flags[p]
          BY <1>1, <4>2, <5>2, <5>3, ScreenedIs
        <5>5. QED
          BY <1>1, <5>1, <5>4
      <4>4. QED
        BY <1>1, <1>2, <2>2, <3>1, <3>2, <4>3 DEF SlotCarries
    <3>3. CASE stage # "fused"
      <4>1. StoreLanes(base, vals, on)
        BY <2>7, <3>3 DEF ToCounter
      <4>2. s \in DOMAIN alive /\ s - base + 1 = k /\ k \in DOMAIN vals /\ k \in on
        BY <1>1, <2>1, <2>2, <2>3 DEF TypeOK
      <4> HIDE DEF base, vals, on
      <4>3. alive'[s]
        BY <4>1, <4>2 DEF StoreLanes
      <4>4. b <= drain
        BY <1>4, <2>4, <3>3
      <4>5. QED
        BY <1>2, <2>2, <3>1, <3>3, <4>3, <4>4 DEF SlotCarries
    <3>4. QED
      BY <3>2, <3>3
  <2>8. QED
    BY <1>3, <2>5, <2>6, <2>7
<1>9. QED
  BY <1>5, <1>6, <1>7, <1>8 DEF SlotCarries

\* Carried past a boundary is carried past the ones before.
LEMMA SlotDown ==
  ASSUME Shape, stage \in Kernels, NEW s \in 0 .. Count - 1, NEW b \in Nat, NEW a \in Nat, a <= b, SlotCarries(s, b)
  PROVE  SlotCarries(s, a)
<1>1. TypeOK /\ WarpsOK /\ drain \in Nat /\ Drains \in Nat
  BY KernelNumbers
<1>2. ASSUME NEW w \in Warps, LaneCarries(w, s, b) PROVE LaneCarries(w, s, a)
  <2>1. warp[w].drain \in Nat
    <3>1. Busy(w)
      BY <1>2 DEF LaneCarries
    <3>2. warp[w].drain \in 1 .. Drains
      BY <1>1, <3>1, BusyLanes
    <3>3. QED
      BY <1>1, <3>2
  <2>2. \A k : PastOf(w, k) \in Int
    BY <2>1 DEF PastOf
  <2>3. QED
    BY <1>2, <2>2 DEF LaneCarries
<1>3. QED
  BY <1>1, <1>2 DEF SlotCarries

LEMMA CountsIs ==
  ASSUME Shape, NEW d, NEW b \in 0 .. Drains
  PROVE  Counts(d, b) <=> (FlagOf(Ending(d)) # 0 => HeldBy(Ending(d), b))
BY HeldIs DEF Counts

LEMMA HeldIsNext ==
  (Shape => \A b \in 0 .. Drains : \A x : x \in HeldPast(b) <=> HeldBy(x, b))'
BY HeldIs, PTL

LEMMA CountsNext ==
  ASSUME Shape', Drains' = Drains, NEW d, NEW b \in 0 .. Drains, FlagOf(Ending(d)) # 0 => HeldBy(Ending(d), b)'
  PROVE  Counts(d, b)'
<1>1. \A x : x \in HeldPast(b)' <=> HeldBy(x, b)'
  BY HeldIsNext
<1>2. QED
  BY <1>1 DEF Counts, Ending

\* Equal fingerprints at a boundary: equal endings.
LEMMA EndAlike ==
  ASSUME TypeOK, NEW c \in 1 .. Drains, NEW d \in Window(cadence), NEW e \in Window(cadence),
         HashOf(StateAfter(cadence.plan[c], d)) = HashOf(StateAfter(cadence.plan[c], e))
  PROVE  Ending(d) = Ending(e)
<1>1. cadence \in Cadences /\ c \in DOMAIN cadence.plan /\ cadence.plan[c] \in 0 .. Maps /\ Maps \in cadence.plan[c] .. Maps
  BY BoundaryType DEF TypeOK
<1>2. StateAfter(cadence.plan[c], d) = StateAfter(cadence.plan[c], e)
  BY <1>1, FingerprintAssumption
<1>3. StateAfter(Maps, d) = StateAfter(Maps, e)
  BY <1>1, <1>2, StateAssumption
<1>4. QED
  BY <1>3 DEF Ending

\* The position dropped for a fingerprint of a cap ends like one carried past it.
LEMMA DroppedIsHeld ==
  ASSUME Shape, CapsAreHeld, stage \in Kernels, NEW w \in Warps, warp[w].at = "probe",
         FlagAt(Orig(JudgedSlot(w))) # 0,
         NEW c \in CapSlots, NEW n \in DOMAIN table[warp[w].drain][c], table[warp[w].drain][c][n].fp = Hash(w)
  PROVE  LET s == JudgedSlot(w)
             x == Ending(DataAt(Orig(s)))
         IN  /\ \A b \in 0 .. Drains : SlotCarries(s, b) => b < warp[w].drain
             /\ \/ \E h \in hits : x = Ending(h.data)
                \/ \E t \in (0 .. Count - 1) \ {s} : SlotCarries(t, warp[w].drain) /\ x = Ending(DataAt(Orig(t)))
<1> DEFINE s == JudgedSlot(w)
           x == Ending(DataAt(Orig(s)))
           D == warp[w].drain
<1>1. TypeOK /\ WarpsOK /\ Busy(w) /\ drain \in Nat /\ work \in Nat /\ Drains \in Nat
  BY KernelNumbers DEF Busy
<1>2. /\ s \in SlotsOf(w) /\ s \in 0 .. Count - 1 /\ s - warp[w].base + 1 = warp[w].lane
      /\ DataAt(Orig(s)) \in Window(cadence) /\ D \in 1 .. Drains
      /\ Hash(w) = HashOf(StateAfter(cadence.plan[D], DataAt(Orig(s)))) /\ Hash(w) # 0
  BY <1>1, HashIs
<1>3. s < work /\ InHand(s)
  BY <1>1, <1>2, BusyLanes DEF InHand
<1>4. warp[w].lane \in Nat /\ D \in Nat /\ s \in Nat
  BY <1>1, <1>2, BusyLanes
<1>5. ASSUME NEW b \in 0 .. Drains, SlotCarries(s, b) PROVE b < D
  <2>1. PICK y \in Warps : LaneCarries(y, s, b)
    <3>1. ~(s >= work)
      BY <1>1, <1>3, <1>4
    <3>2. QED
      BY <1>3, <1>5, <3>1 DEF SlotCarries
  <2>2. y = w
    <3>1. Busy(y) /\ s \in SlotsOf(y)
      BY <2>1 DEF LaneCarries
    <3>2. QED
      BY <1>1, <1>2, <3>1 DEF WarpsOK
  <2>3. b <= PastOf(w, s - warp[w].base + 1)
    BY <2>1, <2>2 DEF LaneCarries
  <2>4. PastOf(w, warp[w].lane) = D - 1
    BY <1>4 DEF PastOf
  <2>5. b \in Int /\ b <= D - 1
    BY <1>2, <2>3, <2>4
  <2>6. QED
    BY <1>4, <2>5
<1>6. \/ \E h \in hits : x = Ending(h.data)
      \/ \E t \in (0 .. Count - 1) \ {s} : SlotCarries(t, D) /\ x = Ending(DataAt(Orig(t)))
  <2>1. PICK d \in Window(cadence) : Counts(d, D) /\ Hash(w) = HashOf(StateAfter(cadence.plan[D], d))
    BY <1>2 DEF CapsAreHeld
  <2>2. x = Ending(d)
    <3>1. DataAt(Orig(s)) \in Window(cadence) /\ D \in 1 .. Drains
          /\ HashOf(StateAfter(cadence.plan[D], DataAt(Orig(s)))) = HashOf(StateAfter(cadence.plan[D], d))
      BY <1>2, <2>1
    <3> HIDE DEF s, D
    <3>2. Ending(DataAt(Orig(s))) = Ending(d)
      BY <1>1, <3>1, EndAlike
    <3>3. QED
      BY <3>2
  <2>3. FlagOf(x) # 0 /\ D \in 0 .. Drains
    BY <1>1, <1>2 DEF FlagAt
  <2> HIDE DEF s, x, D
  <2>4. HeldBy(x, D)
    BY <2>1, <2>2, <2>3, CountsIs
  <2>5. CASE \E p \in 0 .. BatchN - 1 : Carries(p, D) /\ x = Ending(DataAt(p))
    <3>1. PICK p \in 0 .. BatchN - 1 : Carries(p, D) /\ x = Ending(DataAt(p))
      BY <2>5
    <3>2. PICK t \in 0 .. Count - 1 : p = Orig(t) /\ SlotCarries(t, D)
      BY <3>1 DEF Carries, Kernels
    <3>3. t # s
      <4>1. ~(D < D)
        BY <1>4
      <4>2. QED
        BY <1>5, <2>3, <3>2, <4>1
    <3>4. QED
      BY <3>1, <3>2, <3>3
  <2>6. QED
    BY <2>4, <2>5 DEF HeldBy
<1>7. QED
  BY <1>5, <1>6

LEMMA ProbeHolds ==
  ASSUME Shape, CapsAreHeld, NEW w \in Warps, ProbeWay(w)
  PROVE  StaysHeld
<1>1. /\ stage \in Kernels /\ warp[w].at = "probe" /\ Busy(w)
      /\ UNCHANGED <<cadence, stage, drain, done, work, live, packed, blocks, table, hits, emitted>>
  BY ProbeIs
<1>2. SUFFICES ASSUME NEW b \in 0 .. Drains, NEW s \in 0 .. Count - 1, FlagAt(Orig(s)) # 0, SlotCarries(s, b)
               PROVE  SlotCarries(s, b)' \/ HeldBy(Ending(DataAt(Orig(s))), b)'
  BY <1>1, SlotsStay
<1>3. ASSUME Judged(w, FALSE),
             NEW c \in CapSlots, NEW n \in DOMAIN table[warp[w].drain][c], table[warp[w].drain][c][n].fp = Hash(w)
      PROVE  SlotCarries(s, b)' \/ HeldBy(Ending(DataAt(Orig(s))), b)'
  <2>1. CASE s # JudgedSlot(w)
    BY <1>1, <1>2, <1>3, <2>1, JudgedHolds
  <2>2. CASE s = JudgedSlot(w)
    <3> DEFINE D == warp[w].drain
    <3>1. /\ b < D
          /\ \/ \E h \in hits : Ending(DataAt(Orig(s))) = Ending(h.data)
             \/ \E t \in (0 .. Count - 1) \ {s} : SlotCarries(t, D) /\ Ending(DataAt(Orig(s))) = Ending(DataAt(Orig(t)))
      BY <1>1, <1>2, <1>3, <2>2, DroppedIsHeld
    <3>2. Ending(DataAt(Orig(s)))' = Ending(DataAt(Orig(s)))
      BY <1>1, SameSlots DEF Ending, DataAt
    <3>3. CASE \E h \in hits : Ending(DataAt(Orig(s))) = Ending(h.data)
      <4>1. \E h \in hits' : Ending(DataAt(Orig(s)))' = Ending(h.data)
        BY <1>1, <3>2, <3>3
      <4>2. QED
        BY <4>1 DEF HeldBy, Ending
    <3>4. CASE \E t \in (0 .. Count - 1) \ {s} : SlotCarries(t, D) /\ Ending(DataAt(Orig(s))) = Ending(DataAt(Orig(t)))
      <4>1. PICK t \in (0 .. Count - 1) \ {s} : SlotCarries(t, D) /\ Ending(DataAt(Orig(s))) = Ending(DataAt(Orig(t)))
        BY <3>4
      <4>2. D \in Nat /\ b \in Nat /\ b <= D
        <5>1. D \in 1 .. Drains /\ Drains \in Nat
          BY <1>1, HashIs, KernelNumbers
        <5>2. QED
          BY <3>1, <5>1
      <4> HIDE DEF D
      <4>3. SlotCarries(t, b)
        BY <1>1, <4>1, <4>2, SlotDown
      <4>4. FlagAt(Orig(t)) # 0
        BY <1>2, <4>1 DEF FlagAt
      <4>5. SlotCarries(t, b)'
        BY <1>1, <1>2, <1>3, <2>2, <4>1, <4>3, <4>4, JudgedHolds
      <4>6. Carries(Orig(t), b)'
        BY <1>1, <4>1, <4>5, SameSlots DEF Carries
      <4>7. Orig(t) \in 0 .. BatchN - 1
        BY <1>1, <4>1, KernelNumbers
      <4>8. BatchN' = BatchN /\ Orig(t)' = Orig(t) /\ Ending(DataAt(Orig(t)))' = Ending(DataAt(Orig(t)))
        BY <1>1, SameSlots, SameBatch DEF Ending, DataAt
      <4>9. \E p \in (0 .. BatchN - 1)' : Carries(p, b)' /\ Ending(DataAt(Orig(s)))' = Ending(DataAt(p))'
        BY <3>2, <4>1, <4>6, <4>7, <4>8 DEF Ending
      <4>10. QED
        BY <4>9 DEF HeldBy
    <3>5. QED
      BY <3>1, <3>3, <3>4
  <2>3. QED
    BY <2>1, <2>2
<1>4. CASE (warp[w].way < CapWays - 1 /\ AtNextWay(w)) \/ AtStore(w)
  <2>1. PICK way \in 0 .. CapWays - 1, at \in {"probe", "store"} :
           /\ warp' = [warp EXCEPT ![w] = [warp[w] EXCEPT !.at = at, !.way = way]]
           /\ UNCHANGED <<alive, wstate, flags>>
    BY <1>1, <1>4, ProbeMoves
  <2>2. UNCHANGED <<cadence, stage, drain, done, work, live, packed, blocks, table, hits, emitted, alive, wstate, flags>>
    BY <1>1, <2>1
  <2>3. /\ \A y \in Warps \ {w} : warp'[y] = warp[y]
        /\ Busy(w)' /\ SlotsOf(w)' = SlotsOf(w) /\ (\A t : InHand(t)' <=> InHand(t))
        /\ warp'[w].at = at /\ warp'[w].base = warp[w].base /\ warp'[w].drain = warp[w].drain
        /\ warp'[w].vals = warp[w].vals /\ warp'[w].on = warp[w].on /\ warp'[w].lane = warp[w].lane
    BY <1>1, <2>1, <2>2, StillProbing
  <2>4. ASSUME NEW y \in Warps, LaneCarries(y, s, b) PROVE LaneCarries(y, s, b)'
    <3>1. CASE y # w
      BY <2>3, <2>4, <3>1, SameWarp
    <3>2. CASE y = w
      <4>1. warp[w].drain \in Nat /\ warp[w].base \in Nat /\ s \in Int /\ b \in Int
        <5>1. warp[w].drain \in 1 .. Drains /\ warp[w].base \in Nat
          BY <1>1, BusyLanes DEF Shape
        <5>2. QED
          BY <1>1, <5>1, KernelNumbers
      <4>2. PICK k \in Int : k = s - warp[w].base + 1
        BY <4>1
      <4>3. s \in SlotsOf(w) /\ k \in warp[w].on /\ b <= PastOf(w, k)
        BY <2>4, <3>2, <4>2 DEF LaneCarries, PastOf
      <4>4. b <= PastOf(w, k)'
        <5>1. PastOf(w, k)' = PastOf(w, k) \/ (PastOf(w, k) = warp[w].drain - 1 /\ PastOf(w, k)' = warp[w].drain)
          BY <1>1, <2>3 DEF PastOf
        <5>2. QED
          BY <4>1, <4>3, <5>1
      <4>5. QED
        BY <2>3, <3>2, <4>2, <4>3, <4>4 DEF LaneCarries, PastOf
    <3>3. QED
      BY <3>1, <3>2
  <2>5. Orig(s)' = Orig(s) /\ drain' = drain /\ work' = work /\ stage' = stage /\ Drains' = Drains
    BY <1>1, SameSlots, SameBatch
  <2>6. SlotCarries(s, b)'
    BY <1>2, <2>2, <2>3, <2>4, <2>5 DEF SlotCarries
  <2>7. QED
    BY <2>6
<1>5. QED
  BY <1>3, <1>4, ProbeIs

LEMMA StoreHolds ==
  ASSUME Shape, NEW w \in Warps, StoreWay(w)
  PROVE  StaysHeld
<1>1. /\ stage \in Kernels /\ Busy(w) /\ Judged(w, TRUE)
      /\ UNCHANGED <<cadence, stage, drain, done, work, live, packed, blocks, hits, emitted>>
  BY StoreIs
<1>2. ASSUME NEW b \in 0 .. Drains, NEW s \in 0 .. Count - 1, FlagAt(Orig(s)) # 0, SlotCarries(s, b)
      PROVE  SlotCarries(s, b)'
  BY <1>1, <1>2, JudgedHolds
<1>3. QED
  BY <1>1, <1>2, SlotsStay

LEMMA BetweenBatchesHolds ==
  ASSUME Shape, ~InBatch, UNCHANGED <<cadence, done, hits>>
  PROVE  StaysHeld
<1>1. \A p, b : ~Carries(p, b)
  BY DEF Carries, InBatch, Kernels
<1>2. QED
  BY <1>1, CarriedStays

LEMMA KernelEndsHolds ==
  ASSUME Shape, KernelEnds
  PROVE  StaysHeld
<1>1. /\ stage \in Kernels /\ (\A w \in Warps : warp[w].at = "end")
      /\ stage' = (IF stage = "fused" THEN "collect" ELSE "compact")
      /\ UNCHANGED <<cadence, drain, done, work, alive, live, wstate, flags, warp, table, hits, emitted>>
  BY DEF KernelEnds
<1>2. /\ TypeOK /\ StageOK /\ LiveOK /\ WarpsOK /\ InBatch /\ Count \in Nat /\ work \in Nat /\ drain \in Nat /\ Drains \in Nat
      /\ \A s \in 0 .. Count - 1 : Orig(s) \in 0 .. BatchN - 1
  BY <1>1, KernelNumbers
<1>3. work >= Count
  <2>1. PICK w \in Warps : TRUE
    BY ShapeAssumption
  <2>2. QED
    BY <1>1, <1>2, <2>1 DEF WarpsOK
<1>4. \A w \in Warps : ~Busy(w)
  BY <1>1 DEF Busy
<1>5. Count' = Count /\ \A s : Orig(s)' = Orig(s)
  BY <1>1, SameSlots
<1>6. ASSUME NEW b \in 0 .. Drains, NEW p \in 0 .. BatchN - 1, FlagAt(p) # 0, Carries(p, b)
      PROVE  HeldBy(Ending(DataAt(p)), b)'
  <2>1. PICK s \in 0 .. Count - 1 : p = Orig(s) /\ SlotCarries(s, b)
    BY <1>1, <1>6 DEF Carries, Kernels
  <2>2. /\ stage = "fused" => flags[Orig(s)] # 0 /\ b <= Drains
        /\ stage # "fused" => alive[s] /\ b <= drain
    <3>1. ~(s >= work)
      BY <1>2, <1>3
    <3>2. \A w \in Warps : ~LaneCarries(w, s, b)
      BY <1>4 DEF LaneCarries
    <3>3. QED
      BY <2>1, <3>1, <3>2 DEF SlotCarries
  <2>3. CASE stage = "fused"
    <3>1. drain > 1 /\ Drains' = Drains
      BY <1>1, <1>2, <2>3, SameBatch DEF StageOK
    <3>2. s + 1 \in DOMAIN live /\ Orig(s) = live[s + 1]
      BY <1>2, <3>1, SlotsAre
    <3>3. Carries(p, b)'
      BY <1>1, <2>1, <2>2, <2>3, <3>1, <3>2 DEF Carries
    <3>4. QED
      BY <1>1, <3>3, CarriedIsHeld
  <2>4. CASE stage # "fused"
    <3>1. Carries(p, b)'
      BY <1>1, <1>5, <2>1, <2>2, <2>4 DEF Carries
    <3>2. QED
      BY <1>1, <3>1, CarriedIsHeld
  <2>5. QED
    BY <2>3, <2>4
<1>7. QED
  BY <1>1, <1>6, CarriedStays

LEMMA CompactBlockHolds ==
  ASSUME Shape, NEW a \in 0 .. Count - 1, CompactBlock(a)
  PROVE  StaysHeld
<1>1. /\ stage = "compact"
      /\ UNCHANGED <<cadence, stage, drain, done, work, alive, live, wstate, flags, warp, table, hits, emitted>>
  BY DEF CompactBlock
<1>2. Count' = Count /\ \A s : Orig(s)' = Orig(s)
  BY <1>1, SameSlots
<1>3. ASSUME NEW b \in 0 .. Drains, NEW p \in 0 .. BatchN - 1, FlagAt(p) # 0, Carries(p, b)
      PROVE  HeldBy(Ending(DataAt(p)), b)'
  <2>1. b <= drain /\ \E s \in 0 .. Count - 1 : p = Orig(s) /\ alive[s]
    BY <1>1, <1>3 DEF Carries, Kernels
  <2>2. Carries(p, b)'
    BY <1>1, <1>2, <2>1 DEF Carries
  <2>3. QED
    BY <1>1, <2>2, CarriedIsHeld
<1>4. QED
  BY <1>1, <1>3, CarriedStays

LEMMA CompactEndsHolds ==
  ASSUME Shape, CompactEnds
  PROVE  StaysHeld
<1>1. /\ stage = "compact" /\ live' = packed /\ (\A s \in 0 .. Count - 1 : s \div BlockSize \in blocks)
      /\ UNCHANGED <<cadence, done, alive, packed, blocks, wstate, flags, hits, emitted>>
      /\ \/ cadence.fused /\ drain = 1 /\ StartKernel("fused", 2)
         \/ ~cadence.fused /\ drain < Drains /\ StartKernel("span", drain + 1)
         \/ stage' = "continue" /\ drain' = drain + 1 /\ UNCHANGED <<work, warp, table>>
  BY CompactEndsIs
<1>2. TypeOK /\ PackedOK /\ drain \in Nat /\ drain > 0 /\ Drains \in Nat /\ packed \in Seq(BatchPositions)
  <2>1. TypeOK /\ PackedOK
    BY DEF Shape
  <2>2. Drains \in Nat /\ drain \in 1 .. Drains + 1
    BY <2>1, BoundaryType DEF TypeOK
  <2>3. QED
    BY <2>1, <2>2 DEF TypeOK
<1>3. drain' = drain + 1 /\ ((stage' \in Kernels /\ work' = 0) \/ stage' = "continue")
  <2>1. CASE cadence.fused /\ drain = 1 /\ StartKernel("fused", 2)
    BY <2>1 DEF StartKernel, Kernels
  <2>2. CASE StartKernel("span", drain + 1)
    BY <2>2 DEF StartKernel, Kernels
  <2>3. QED
    BY <1>1, <2>1, <2>2
<1>4. ASSUME NEW b \in 0 .. Drains, NEW p \in 0 .. BatchN - 1, FlagAt(p) # 0, Carries(p, b)
      PROVE  HeldBy(Ending(DataAt(p)), b)'
  <2>1. PICK s \in 0 .. Count - 1 : b <= drain /\ p = Orig(s) /\ alive[s]
    BY <1>1, <1>4 DEF Carries, Kernels
  <2>2. PICK n \in DOMAIN packed : packed[n] = p
    BY <1>1, <1>2, <2>1 DEF PackedOK
  <2>3. n \in 1 .. Len(packed) /\ Len(packed) \in Nat
    BY <1>2, <2>2
  <2>4. Carries(p, b)'
    <3>1. CASE stage' \in Kernels /\ work' = 0
      <4>1. PICK t \in Int : t = n - 1
        BY <2>3
      <4>2. Count' = Len(packed) /\ Orig(t)' = packed[t + 1]
        BY <1>1, <1>2, <1>3 DEF Count, Orig
      <4>3. t \in 0 .. Count' - 1 /\ t >= work' /\ t + 1 = n /\ b <= drain' - 1
        BY <1>2, <1>3, <2>1, <2>3, <3>1, <4>1, <4>2
      <4>4. SlotCarries(t, b)'
        BY <4>3 DEF SlotCarries
      <4>5. QED
        BY <2>2, <3>1, <4>2, <4>3, <4>4 DEF Carries, Kernels
    <3>2. CASE stage' = "continue"
      <4>1. b <= Drains /\ Drains' = Drains
        BY <1>1, <1>2, SameBatch
      <4>2. QED
        BY <1>1, <2>2, <3>2, <4>1 DEF Carries
    <3>3. QED
      BY <1>3, <3>1, <3>2
  <2>5. QED
    BY <1>1, <2>4, CarriedIsHeld
<1>5. QED
  BY <1>1, <1>4, CarriedStays

LEMMA ContinueHolds ==
  ASSUME Shape, Continue
  PROVE  StaysHeld
<1>1. /\ stage = "continue" /\ stage' = "collect"
      /\ UNCHANGED <<cadence, drain, done, work, alive, live, packed, blocks, wstate, warp, table, hits, emitted>>
      /\ \A p \in BatchPositions : flags'[p] = IF p \in LivePositions THEN FlagAt(p) ELSE flags[p]
      /\ \A n \in DOMAIN live : live[n] \in 0 .. BatchN - 1 /\ live[n] \in LivePositions
  BY ContinueIs
<1>2. Drains' = Drains /\ 0 .. BatchN - 1 \subseteq BatchPositions
  BY <1>1, SameBatch, BatchType DEF Shape
<1>3. ASSUME NEW b \in 0 .. Drains, NEW p \in 0 .. BatchN - 1, FlagAt(p) # 0, Carries(p, b)
      PROVE  HeldBy(Ending(DataAt(p)), b)'
  <2>1. PICK n \in DOMAIN live : b <= Drains /\ p = live[n]
    BY <1>1, <1>3 DEF Carries, Kernels
  <2>2. flags'[p] = FlagAt(p)
    BY <1>1, <1>2, <2>1
  <2>3. Carries(p, b)'
    BY <1>1, <1>2, <1>3, <2>1, <2>2 DEF Carries
  <2>4. QED
    BY <1>1, <2>3, CarriedIsHeld
<1>4. QED
  BY <1>1, <1>3, CarriedStays

LEMMA CollectHitsHolds ==
  ASSUME Shape, CollectHits
  PROVE  StaysHeld
<1>1. stage = "collect" /\ hits' = hits \union {HitOf(n) : n \in Flagged} /\ cadence' = cadence
  BY CollectIs
<1>2. SUFFICES ASSUME NEW b \in 0 .. Drains, NEW x, FlagOf(x) # 0, HeldBy(x, b) PROVE \E h \in hits' : x = Ending(h.data)
  BY DEF StaysHeld, HeldBy, Ending
<1>3. CASE \E p \in 0 .. BatchN - 1 : Carries(p, b) /\ x = Ending(DataAt(p))
  <2>1. PICK p \in 0 .. BatchN - 1 : Carries(p, b) /\ x = Ending(DataAt(p))
    BY <1>3
  <2>2. PICK n \in DOMAIN live : p = live[n] /\ flags[live[n]] # 0
    BY <1>1, <2>1 DEF Carries, Kernels
  <2>3. n \in Flagged
    BY <2>2 DEF Flagged
  <2>4. HitOf(n) \in hits' /\ HitOf(n).data = DataAt(p)
    BY <1>1, <2>2, <2>3 DEF HitOf
  <2>5. QED
    BY <2>1, <2>4
<1>4. CASE \E h \in hits : x = Ending(h.data)
  BY <1>1, <1>4
<1>5. QED
  BY <1>2, <1>3, <1>4 DEF HeldBy

-----------------------------------------------------------------------------
(* The invariant.                                                          *)

LEMMA SameEnding ==
  ASSUME cadence' = cadence
  PROVE  /\ \A d : Ending(d)' = Ending(d)
         /\ Drains' = Drains /\ Window(cadence)' = Window(cadence)
         /\ \A c, d : HashOf(StateAfter(cadence.plan[c], d))' = HashOf(StateAfter(cadence.plan[c], d))
BY DEF Ending, Drains, Window, HashOf, DataOf

\* Every fingerprint a cap remembers was remembered before, or its state is held.
LEMMA CapsStayHeld ==
  ASSUME Shape, Shape', CapsAreHeld, StaysHeld, cadence' = cadence,
         \A c \in 1 .. Drains, s \in CapSlots : \A n \in DOMAIN table'[c][s] :
           \/ \E k \in DOMAIN table[c][s] : table'[c][s][n].fp = table[c][s][k].fp
           \/ \E d \in Window(cadence) : /\ FlagOf(Ending(d)) # 0 => HeldBy(Ending(d), c)'
                                         /\ table'[c][s][n].fp = HashOf(StateAfter(cadence.plan[c], d))
  PROVE  CapsAreHeld'
<1>1. Drains' = Drains /\ Window(cadence)' = Window(cadence) /\ Drains \in Nat
  BY SameEnding, BoundaryType DEF Shape
<1>2. ASSUME NEW c \in 1 .. Drains, NEW s \in CapSlots, NEW n \in DOMAIN table'[c][s], table'[c][s][n].fp # 0
      PROVE  \E d \in Window(cadence) : Counts(d, c)' /\ table'[c][s][n].fp = HashOf(StateAfter(cadence.plan[c], d))
  <2>1. PICK d \in Window(cadence) : /\ FlagOf(Ending(d)) # 0 => HeldBy(Ending(d), c)'
                                     /\ table'[c][s][n].fp = HashOf(StateAfter(cadence.plan[c], d))
    <3>1. CASE \E k \in DOMAIN table[c][s] : table'[c][s][n].fp = table[c][s][k].fp
      <4>1. PICK k \in DOMAIN table[c][s] : table'[c][s][n].fp = table[c][s][k].fp
        BY <3>1
      <4>2. PICK d \in Window(cadence) : Counts(d, c) /\ table[c][s][k].fp = HashOf(StateAfter(cadence.plan[c], d))
        BY <1>2, <4>1 DEF CapsAreHeld
      <4>3. c \in 0 .. Drains
        BY <1>1
      <4>4. FlagOf(Ending(d)) # 0 => HeldBy(Ending(d), c)'
        BY <4>2, <4>3, CountsIs DEF StaysHeld
      <4>5. QED
        BY <4>1, <4>2, <4>4
    <3>2. QED
      BY <3>1
  <2>2. c \in 0 .. Drains
    BY <1>1
  <2>3. Counts(d, c)'
    BY <1>1, <2>1, <2>2, CountsNext
  <2>4. QED
    BY <2>1, <2>3
<1>3. QED
  BY <1>1, <1>2 DEF CapsAreHeld

LEMMA BegunStayHeld ==
  ASSUME Shape, Shape', BegunAreHeld, StaysHeld, cadence' = cadence,
         \A d \in Begun' : d \in Begun \/ HeldBy(Ending(d), 0)'
  PROVE  BegunAreHeld'
<1>1. Drains' = Drains /\ 0 \in 0 .. Drains
  BY SameEnding, BoundaryType DEF Shape
<1>2. ASSUME NEW d \in Begun' PROVE Counts(d, 0)'
  <2>1. d \in Begun => (FlagOf(Ending(d)) # 0 => HeldBy(Ending(d), 0))
    BY <1>1, CountsIs DEF BegunAreHeld
  <2>2. FlagOf(Ending(d)) # 0 => HeldBy(Ending(d), 0)'
    BY <1>1, <1>2, <2>1 DEF StaysHeld
  <2>3. QED
    BY <1>1, <2>2, CountsNext
<1>3. QED
  BY <1>2 DEF BegunAreHeld

LEMMA SameBegun ==
  ASSUME cadence' = cadence, done' = done, InBatch' <=> InBatch
  PROVE  Begun' = Begun
<1>1. BatchN' = BatchN
  BY SameBatch
<1>2. stage \in {"batch", "done"} <=> stage' \in {"batch", "done"}
  BY DEF InBatch
<1>3. QED
  BY <1>1, <1>2 DEF Begun

LEMMA CapsUntouched ==
  ASSUME Shape, Shape', CapsAreHeld, StaysHeld, UNCHANGED <<cadence, table>>
  PROVE  CapsAreHeld'
BY CapsStayHeld

LEMMA InitIsHeld ==
  CadenceInit => IInv
<1> SUFFICES ASSUME CadenceInit PROVE IInv
  OBVIOUS
<1>1. Shape
  BY ShapeAtInit
<1>2. /\ stage = "batch" /\ done = 0
      /\ table = [c \in 1 .. Len(cadence.plan) |-> [s \in CapSlots |-> <<[fp |-> 0, by |-> Nobody]>>]]
  BY DEF CadenceInit
<1>3. BegunAreHeld
  <2>1. Begun = {}
    BY <1>2 DEF Begun
  <2>2. QED
    BY <2>1 DEF BegunAreHeld
<1>4. CapsAreHeld
  <2>1. ASSUME NEW c \in 1 .. Drains, NEW s \in CapSlots, NEW n \in DOMAIN table[c][s] PROVE table[c][s][n].fp = 0
    BY <1>2 DEF Drains
  <2>2. QED
    BY <2>1 DEF CapsAreHeld
<1>5. QED
  BY <1>1, <1>2, <1>3, <1>4 DEF IInv, EndsWhole

LEMMA BeginBatchHeld ==
  ASSUME Shape, Shape', BegunAreHeld, CapsAreHeld, BeginBatch
  PROVE  BegunAreHeld' /\ CapsAreHeld'
<1>1. stage = "batch" /\ StartKernel("first", 1) /\ UNCHANGED <<cadence, done, hits>>
  BY DEF BeginBatch
<1>2. TypeOK /\ done \in Nat /\ BatchN \in Nat /\ cadence \in Cadences
  BY BatchType DEF Shape
<1>3. /\ stage' = "first" /\ drain' = 1 /\ work' = 0
      /\ \A c \in 1 .. Drains, s \in CapSlots : \A n \in DOMAIN table'[c][s] :
           \E k \in DOMAIN table[c][s] : table'[c][s][n].fp = table[c][s][k].fp
  BY <1>1, <1>2, StartIs
<1>4. StaysHeld
  BY <1>1, BetweenBatchesHolds DEF InBatch
<1>5. CapsAreHeld'
  BY <1>1, <1>3, <1>4, CapsStayHeld
<1>6. BatchN' = BatchN /\ (\A p : DataAt(p)' = DataAt(p)) /\ Count' = BatchN /\ \A s : Orig(s)' = s
  <2>1. BatchN' = BatchN /\ \A p : DataAt(p)' = DataAt(p)
    BY <1>1, SameBatch
  <2>2. QED
    BY <1>3, <2>1 DEF Count, Orig
<1>7. ASSUME NEW d \in Begun' PROVE d \in Begun \/ HeldBy(Ending(d), 0)'
  <2>1. PICK n \in 0 .. done + BatchN - 1 : d = DataOf(cadence, cadence.start + n)
    BY <1>1, <1>3, <1>6 DEF Begun
  <2>2. CASE n < done
    <3>1. n \in 0 .. done + 0 - 1
      BY <1>2, <2>1, <2>2
    <3>2. QED
      BY <1>1, <2>1, <3>1 DEF Begun
  <2>3. CASE ~(n < done)
    <3>1. PICK p \in Int : p = n - done
      BY <1>2, <2>1
    <3>2. p \in 0 .. BatchN - 1 /\ done + p = n /\ p >= work' /\ 0 <= drain' - 1
      BY <1>2, <1>3, <2>1, <2>3, <3>1
    <3>3. DataAt(p) = d
      BY <1>2, <2>1, <3>2, DataAtIs
    <3>4. SlotCarries(p, 0)'
      BY <3>2 DEF SlotCarries
    <3>5. Carries(p, 0)'
      BY <1>3, <1>6, <3>2, <3>4 DEF Carries, Kernels
    <3>6. \E q \in (0 .. BatchN - 1)' : Carries(q, 0)' /\ Ending(d)' = Ending(DataAt(q))'
      BY <1>6, <3>2, <3>3, <3>5 DEF Ending
    <3>7. QED
      BY <3>6 DEF HeldBy, Ending
  <2>4. QED
    BY <2>2, <2>3
<1>8. BegunAreHeld'
  BY <1>1, <1>4, <1>7, BegunStayHeld
<1>9. QED
  BY <1>5, <1>8

LEMMA StoreWayHeld ==
  ASSUME Shape, Shape', CapsAreHeld, NEW w \in Warps, StoreWay(w)
  PROVE  CapsAreHeld'
<1> DEFINE s == JudgedSlot(w)
           d == DataAt(Orig(s))
           D == warp[w].drain
<1>1. /\ stage \in Kernels /\ warp[w].at = "store" /\ Busy(w) /\ cadence' = cadence
      /\ \A c \in 1 .. Drains : \A t \in CapSlots : \A n \in DOMAIN table'[c][t] :
           \/ n \in DOMAIN table[c][t] /\ table'[c][t][n] = table[c][t][n]
           \/ c = D /\ table'[c][t][n].fp = Hash(w)
  BY StoreIs
<1>2. StaysHeld
  BY StoreHolds
<1>3. /\ s \in SlotsOf(w) /\ s \in 0 .. Count - 1 /\ s - warp[w].base + 1 = warp[w].lane /\ Orig(s) \in 0 .. BatchN - 1
      /\ d \in Window(cadence) /\ D \in 1 .. Drains /\ Hash(w) = HashOf(StateAfter(cadence.plan[D], d))
  BY <1>1, HashIs
<1>4. warp[w].lane \in warp[w].on /\ D \in Nat /\ D \in 0 .. Drains
  <2>1. warp[w].lane \in warp[w].on
    BY <1>1, BusyLanes DEF Shape
  <2>2. Drains \in Nat
    BY BoundaryType DEF Shape
  <2>3. QED
    BY <1>3, <2>1, <2>2
<1>5. SlotCarries(s, D)
  <2>1. PastOf(w, warp[w].lane) = D
    BY <1>1 DEF PastOf
  <2>2. D <= D
    BY <1>4
  <2>3. LaneCarries(w, s, D)
    BY <1>1, <1>3, <1>4, <2>1, <2>2 DEF LaneCarries
  <2>4. QED
    BY <2>3 DEF SlotCarries
<1> HIDE DEF s, D
<1>6. HeldBy(Ending(d), D)
  <2>1. Carries(Orig(s), D)
    BY <1>1, <1>3, <1>5 DEF Carries
  <2>2. QED
    BY <1>3, <2>1 DEF HeldBy
<1>7. PICK x \in Window(cadence) : x = d
  BY <1>3
<1>8. PICK b \in 1 .. Drains : b = D
  BY <1>3
<1>9. FlagOf(Ending(x)) # 0 => HeldBy(Ending(x), b)'
  <2>1. ASSUME FlagOf(Ending(x)) # 0 PROVE HeldBy(Ending(x), b)'
    <3>1. b \in 0 .. Drains /\ HeldBy(Ending(x), b)
      BY <1>4, <1>6, <1>7, <1>8
    <3>2. QED
      BY <1>2, <2>1, <3>1 DEF StaysHeld
  <2>2. QED
    BY <2>1
<1>10. \A c \in 1 .. Drains, t \in CapSlots : \A n \in DOMAIN table'[c][t] :
         \/ \E k \in DOMAIN table[c][t] : table'[c][t][n].fp = table[c][t][k].fp
         \/ \E y \in Window(cadence) : /\ FlagOf(Ending(y)) # 0 => HeldBy(Ending(y), c)'
                                       /\ table'[c][t][n].fp = HashOf(StateAfter(cadence.plan[c], y))
  <2>1. ASSUME NEW c \in 1 .. Drains, NEW t \in CapSlots, NEW n \in DOMAIN table'[c][t]
        PROVE  \/ \E k \in DOMAIN table[c][t] : table'[c][t][n].fp = table[c][t][k].fp
               \/ \E y \in Window(cadence) : /\ FlagOf(Ending(y)) # 0 => HeldBy(Ending(y), c)'
                                             /\ table'[c][t][n].fp = HashOf(StateAfter(cadence.plan[c], y))
    <3>1. CASE n \in DOMAIN table[c][t] /\ table'[c][t][n] = table[c][t][n]
      BY <3>1
    <3>2. CASE c = b /\ table'[c][t][n].fp = Hash(w)
      <4>1. table'[c][t][n].fp = HashOf(StateAfter(cadence.plan[c], x))
        BY <1>3, <1>7, <1>8, <3>2
      <4>2. FlagOf(Ending(x)) # 0 => HeldBy(Ending(x), c)'
        BY <1>9, <3>2
      <4>3. QED
        BY <4>1, <4>2
    <3>3. QED
      BY <1>1, <1>8, <3>1, <3>2
  <2>2. QED
    BY <2>1
<1>11. QED
  BY <1>1, <1>2, <1>10, CapsStayHeld

LEMMA CompactEndsHeld ==
  ASSUME Shape, Shape', CapsAreHeld, CompactEnds
  PROVE  CapsAreHeld'
<1>1. /\ UNCHANGED <<cadence, done>>
      /\ \/ StartKernel("fused", 2)
         \/ StartKernel("span", drain + 1)
         \/ table' = table
  BY CompactEndsIs
<1>2. StaysHeld /\ TypeOK
  BY CompactEndsHolds DEF Shape
<1>3. \A c \in 1 .. Drains, s \in CapSlots : \A n \in DOMAIN table'[c][s] :
        \E k \in DOMAIN table[c][s] : table'[c][s][n].fp = table[c][s][k].fp
  <2>1. CASE StartKernel("fused", 2)
    BY <1>1, <1>2, <2>1, StartIs
  <2>2. CASE StartKernel("span", drain + 1)
    <3> DEFINE b == drain + 1
    <3>1. StartKernel("span", b)
      BY <2>2
    <3> HIDE DEF b
    <3>2. QED
      BY <1>1, <1>2, <3>1, StartIs
  <2>3. CASE table' = table
    BY <2>3
  <2>4. QED
    BY <1>1, <2>1, <2>2, <2>3
<1>4. QED
  BY <1>1, <1>2, <1>3, CapsStayHeld

LEMMA CollectHitsHeld ==
  ASSUME Shape, Shape', BegunAreHeld, CapsAreHeld, CollectHits
  PROVE  BegunAreHeld' /\ CapsAreHeld'
<1>1. /\ stage = "collect" /\ stage' = "batch" /\ done' = done + BatchN /\ UNCHANGED <<cadence, table>>
  BY CollectIs
<1>2. StaysHeld
  BY CollectHitsHolds
<1>3. Begun' = Begun
  <2>1. done \in Nat /\ BatchN \in Nat
    BY BatchType DEF Shape
  <2> DEFINE n == BatchN
  <2>2. Begun = {DataOf(cadence, cadence.start + i) : i \in 0 .. done + n - 1}
    BY <1>1 DEF Begun
  <2>3. Begun' = {DataOf(cadence, cadence.start + i) : i \in 0 .. done' + 0 - 1}
    BY <1>1 DEF Begun
  <2>4. done' + 0 - 1 = done + n - 1
    BY <1>1, <2>1
  <2> HIDE DEF n
  <2>5. QED
    BY <2>2, <2>3, <2>4
<1>4. QED
  BY <1>1, <1>2, <1>3, CapsUntouched, BegunStayHeld

LEMMA InvariantIsKept ==
  ASSUME IInv, [Device]_cadenceVars
  PROVE  IInv'
<1>1. Shape /\ BegunAreHeld /\ CapsAreHeld /\ EndsWhole /\ Shape'
  BY ShapeIsKept DEF IInv
<1>2. SUFFICES BegunAreHeld' /\ CapsAreHeld' /\ EndsWhole'
  BY <1>1 DEF IInv
\* A step that holds what is held, stores nothing and begins nothing.
<1>3. ASSUME StaysHeld, UNCHANGED <<cadence, done, table>>, InBatch' <=> InBatch
      PROVE  BegunAreHeld' /\ CapsAreHeld'
  BY <1>1, <1>3, CapsUntouched, BegunStayHeld, SameBegun
<1>4. CASE BeginBatch
  BY <1>1, <1>4, BeginBatchHeld DEF BeginBatch, StartKernel, EndsWhole
<1>5. CASE EndKey
  <2>1. stage = "batch" /\ stage' = "done" /\ done = direct_total(cadence) /\ UNCHANGED <<cadence, done, table, hits>>
    BY <1>5 DEF EndKey
  <2>2. StaysHeld /\ (InBatch' <=> InBatch)
    BY <1>1, <2>1, BetweenBatchesHolds DEF InBatch
  <2>3. QED
    BY <1>3, <2>1, <2>2 DEF EndsWhole
<1>6. ASSUME NEW w \in Warps, Take(w) PROVE BegunAreHeld' /\ CapsAreHeld' /\ EndsWhole'
  <2>1. stage \in Kernels /\ UNCHANGED <<cadence, stage, done, table>>
    BY <1>1, <1>6, TakeIs
  <2>2. QED
    BY <1>1, <1>3, <1>6, <2>1, TakeHolds DEF InBatch, EndsWhole, Kernels
<1>7. ASSUME NEW w \in Warps, ProbeWay(w) PROVE BegunAreHeld' /\ CapsAreHeld' /\ EndsWhole'
  <2>1. stage \in Kernels /\ UNCHANGED <<cadence, stage, done, table>>
    BY <1>1, <1>7, ProbeIs
  <2>2. QED
    BY <1>1, <1>3, <1>7, <2>1, ProbeHolds DEF InBatch, EndsWhole, Kernels
<1>8. ASSUME NEW w \in Warps, StoreWay(w) PROVE BegunAreHeld' /\ CapsAreHeld' /\ EndsWhole'
  <2>1. stage \in Kernels /\ UNCHANGED <<cadence, stage, done>>
    BY <1>1, <1>8, StoreIs
  <2>2. StaysHeld /\ CapsAreHeld'
    BY <1>1, <1>8, StoreHolds, StoreWayHeld
  <2>3. BegunAreHeld'
    BY <1>1, <2>1, <2>2, BegunStayHeld, SameBegun DEF InBatch
  <2>4. QED
    BY <2>1, <2>2, <2>3 DEF EndsWhole, Kernels
<1>9. CASE KernelEnds
  <2>1. stage \in Kernels /\ stage' \in {"collect", "compact"} /\ UNCHANGED <<cadence, done, table>>
    BY <1>9 DEF KernelEnds
  <2>2. QED
    BY <1>1, <1>3, <1>9, <2>1, KernelEndsHolds DEF InBatch, EndsWhole, Kernels
<1>10. ASSUME NEW b \in 0 .. Count - 1, CompactBlock(b) PROVE BegunAreHeld' /\ CapsAreHeld' /\ EndsWhole'
  <2>1. stage = "compact" /\ UNCHANGED <<cadence, stage, done, table>>
    BY <1>10 DEF CompactBlock
  <2>2. QED
    BY <1>1, <1>3, <1>10, <2>1, CompactBlockHolds DEF InBatch, EndsWhole
<1>11. CASE CompactEnds
  <2>1. stage = "compact" /\ stage' \in {"fused", "span", "continue"} /\ UNCHANGED <<cadence, done>>
    BY <1>1, <1>11, CompactEndsIs DEF StartKernel
  <2>2. StaysHeld /\ CapsAreHeld'
    BY <1>1, <1>11, CompactEndsHolds, CompactEndsHeld
  <2>3. BegunAreHeld'
    BY <1>1, <2>1, <2>2, BegunStayHeld, SameBegun DEF InBatch
  <2>4. QED
    BY <2>1, <2>2, <2>3 DEF EndsWhole
<1>12. CASE Continue
  <2>1. stage = "continue" /\ stage' = "collect" /\ UNCHANGED <<cadence, done, table>>
    BY <1>12 DEF Continue
  <2>2. QED
    BY <1>1, <1>3, <1>12, <2>1, ContinueHolds DEF InBatch, EndsWhole
<1>13. CASE CollectHits
  BY <1>1, <1>13, CollectHitsHeld, CollectIs DEF EndsWhole
<1>14. CASE UNCHANGED cadenceVars
  <2>1. UNCHANGED <<cadence, stage, drain, done, work, alive, live, packed, blocks, wstate, flags, warp, table, hits, emitted>>
    BY <1>14 DEF cadenceVars
  <2>2. StaysHeld
    <3>1. Count' = Count /\ (\A s : Orig(s)' = Orig(s)) /\ Drains' = Drains
      BY <2>1, SameSlots, SameBatch
    <3>2. (\A s : InHand(s)' <=> InHand(s)) /\ \A w, s, b : LaneCarries(w, s, b)' <=> LaneCarries(w, s, b)
      BY <2>1 DEF InHand, Busy, SlotsOf, LaneCarries, PastOf
    <3>3. \A s, b : SlotCarries(s, b)' <=> SlotCarries(s, b)
      BY <2>1, <3>1, <3>2 DEF SlotCarries
    <3>4. \A p, b : Carries(p, b)' <=> Carries(p, b)
      BY <2>1, <3>1, <3>3 DEF Carries
    <3>5. ASSUME NEW b \in 0 .. Drains, NEW p \in 0 .. BatchN - 1, FlagAt(p) # 0, Carries(p, b)
          PROVE  HeldBy(Ending(DataAt(p)), b)'
      BY <2>1, <3>4, <3>5, <1>1, CarriedIsHeld
    <3>6. QED
      BY <1>1, <2>1, <3>5, CarriedStays
  <2>3. QED
    BY <1>1, <1>3, <2>1, <2>2 DEF InBatch, EndsWhole
<1>15. QED
  BY <1>4, <1>5, <1>6, <1>7, <1>8, <1>9, <1>10, <1>11, <1>12, <1>13, <1>14 DEF Device

-----------------------------------------------------------------------------
(* What a whole window stands for.                                         *)

LEMMA WindowSize ==
  ASSUME NEW c \in Cadences
  PROVE  IsFiniteSet(Window(c)) /\ Cardinality(Window(c)) = direct_total(c)
<1> DEFINE n == direct_total(c)
           S == 0 .. n - 1
           f == [i \in S |-> DataOf(c, c.start + i)]
<1>1. n \in Nat
  BY TotalType
<1>2. IsFiniteSet(S) /\ Cardinality(S) = n
  <2> HIDE DEF n
  <2>1. 0 \in Int /\ n - 1 \in Int
    BY <1>1
  <2>2. IsFiniteSet(0 .. n - 1) /\ Cardinality(0 .. n - 1) = IF 0 > n - 1 THEN 0 ELSE n - 1 - 0 + 1
    BY <2>1, FS_Interval
  <2>3. QED
    BY <1>1, <2>2
<1>3. f \in Bijection(S, Window(c))
  <2>1. f \in [S -> Window(c)] /\ \A d \in Window(c) : \E i \in S : f[i] = d
    BY DEF Window
  <2>2. ASSUME NEW i \in S, NEW j \in S, f[i] = f[j] PROVE i = j
    BY <2>2, DataOfInjective
  <2> HIDE DEF f, S
  <2>3. QED
    BY <2>1, <2>2 DEF Bijection, Injection, Surjection, IsInjective
<1>4. QED
  <2> HIDE DEF f, S
  <2>1. IsFiniteSet(Window(c)) /\ Cardinality(Window(c)) = Cardinality(S)
    BY <1>2, <1>3, FS_Bijection DEF ExistsBijection
  <2>2. QED
    BY <1>2, <2>1

LEMMA StandsForSize ==
  ASSUME NEW c \in Cadences
  PROVE  Cardinality(StandsFor(c)) = c.window
<1> DEFINE W == Window(c)
           S == IF PrecertUsed(c) THEN SUBSET Shed ELSE {{}}
           A == StandsFor(c)
           f == [x \in W \X S |-> x[1] \union x[2]]
<1>1. IsFiniteSet(W) /\ Cardinality(W) = direct_total(c) /\ direct_total(c) \in Nat /\ c.window \in Nat
  BY WindowSize, TotalType, CadenceType
<1>2. IsFiniteSet(S) /\ direct_total(c) * Cardinality(S) = c.window
  <2>1. CASE PrecertUsed(c)
    <3> DEFINE two == 2^Cardinality(Shed)
    <3>1. IsFiniteSet(SUBSET Shed) /\ Cardinality(SUBSET Shed) = two /\ two \in Nat /\ two > 0
      BY ShapeType, FS_SUBSET, PowerOfTwo
    <3>2. c.window % two = 0 /\ direct_total(c) = c.window \div two
      BY <2>1 DEF PrecertUsed, PrecertSupported, direct_total
    <3> HIDE DEF two
    <3>3. c.window = ((c.window \div two) * two) + (c.window % two) /\ c.window \div two \in Nat
      BY <1>1, <3>1, QuotientIs
    <3>4. (c.window \div two) * two = c.window
      BY <1>1, <3>1, <3>2, <3>3
    <3>5. QED
      BY <2>1, <3>1, <3>2, <3>4
  <2>2. CASE ~PrecertUsed(c)
    <3>1. direct_total(c) = c.window
      BY <2>2 DEF direct_total
    <3>2. IsFiniteSet({{}}) /\ Cardinality({{}}) = 1
      BY FS_Singleton
    <3>3. QED
      BY <1>1, <2>2, <3>1, <3>2
  <2>3. QED
    BY <2>1, <2>2
<1>3. /\ \A d \in W : d \subseteq Support(c)
      /\ \A s \in S : s \intersect Support(c) = {}
  BY DEF Window, DataOf, deposit_bits32, Support
<1>4. A = {x[1] \union x[2] : x \in W \X S}
  <2> DEFINE G(e) == {e \union s : s \in S}
  <2>1. A = UNION {G(e) : e \in W}
    BY DEF StandsFor
  <2>2. \A e, d : d \in G(e) <=> \E s \in S : d = e \union s
    OBVIOUS
  <2> HIDE DEF W, S, A, G
  <2>3. ASSUME NEW d \in A PROVE d \in {x[1] \union x[2] : x \in W \X S}
    <3>1. PICK e \in W : d \in G(e)
      BY <2>1, <2>3
    <3>2. PICK s \in S : d = e \union s
      BY <2>2, <3>1
    <3>3. <<e, s>> \in W \X S /\ d = <<e, s>>[1] \union <<e, s>>[2]
      BY <3>2
    <3>4. QED
      BY <3>3
  <2>4. ASSUME NEW x \in W \X S PROVE x[1] \union x[2] \in A
    <3>1. x[1] \in W /\ x[2] \in S
      OBVIOUS
    <3>2. x[1] \union x[2] \in G(x[1])
      BY <2>2, <3>1
    <3>3. QED
      BY <2>1, <3>1, <3>2
  <2>5. QED
    BY <2>3, <2>4
<1>5. f \in Bijection(W \X S, A)
  <2>1. f \in [W \X S -> A] /\ \A d \in A : \E x \in W \X S : f[x] = d
    <3> HIDE DEF W, S, A
    <3>1. QED
      BY <1>4
  <2>2. ASSUME NEW x \in W \X S, NEW y \in W \X S, f[x] = f[y] PROVE x = y
    <3> HIDE DEF W, S, A
    <3>1. x = <<x[1], x[2]>> /\ y = <<y[1], y[2]>> /\ x[1] \in W /\ y[1] \in W /\ x[2] \in S /\ y[2] \in S
      OBVIOUS
    <3>2. x[1] \union x[2] = y[1] \union y[2]
      BY <2>2
    <3> DEFINE B == Support(c)
    <3>3. \A e \in W, s \in S : e = (e \union s) \intersect B /\ s = (e \union s) \ B
      BY <1>3
    <3>4. /\ x[1] = (x[1] \union x[2]) \intersect B /\ y[1] = (y[1] \union y[2]) \intersect B
          /\ x[2] = (x[1] \union x[2]) \ B /\ y[2] = (y[1] \union y[2]) \ B
      BY <3>1, <3>3
    <3> HIDE DEF B
    <3>5. x[1] = y[1] /\ x[2] = y[2]
      BY <3>2, <3>4
    <3>6. QED
      BY <3>1, <3>5
  <2> HIDE DEF f, W, S, A
  <2>3. QED
    BY <2>1, <2>2 DEF Bijection, Injection, Surjection, IsInjective
<1>6. QED
  <2> HIDE DEF f, W, S, A
  <2>1. IsFiniteSet(W \X S) /\ Cardinality(W \X S) = Cardinality(W) * Cardinality(S)
    BY <1>1, <1>2, FS_Product
  <2>2. Cardinality(A) = Cardinality(W \X S)
    BY <1>5, <2>1, FS_Bijection DEF ExistsBijection
  <2>3. QED
    BY <1>1, <1>2, <2>1, <2>2 DEF A

\* A value the certificate stands in for ends like the one it stands in for.
LEMMA StandInEnds ==
  ASSUME NEW c \in Cadences, NEW d \in StandsFor(c)
  PROVE  \E e \in Window(c) : Ending(d) = Ending(e)
<1>1. PICK e \in Window(c), s \in (IF PrecertUsed(c) THEN SUBSET Shed ELSE {{}}) : d = e \union s
  BY DEF StandsFor
<1>2. Maps \in 1 .. Maps
  BY ShapeType
<1>3. CASE PrecertUsed(c)
  <2>1. s \in SUBSET Shed
    BY <1>1, <1>3
  <2>2. StateAfter(Maps, e \union s) = StateAfter(Maps, e)
    BY <1>2, <1>3, <2>1, StateAssumption
  <2>3. QED
    BY <1>1, <2>2 DEF Ending
<1>4. CASE ~PrecertUsed(c)
  <2>1. d = e
    BY <1>1, <1>4
  <2>2. QED
    BY <2>1
<1>5. QED
  BY <1>3, <1>4

LEMMA AtTheEnd ==
  ASSUME IInv, stage = "done", NEW d \in StandsFor(cadence), FlagOf(Ending(d)) # 0
  PROVE  \E h \in hits : Ending(h.data) = Ending(d)
<1>1. TypeOK /\ cadence \in Cadences /\ done = direct_total(cadence) /\ done \in Nat /\ Shape /\ BegunAreHeld
  BY BatchType DEF IInv, Shape, EndsWhole
<1>2. PICK e \in Window(cadence) : Ending(d) = Ending(e)
  BY <1>1, StandInEnds
<1>3. e \in Begun
  <2>1. PICK n \in 0 .. direct_total(cadence) - 1 : e = DataOf(cadence, cadence.start + n)
    BY DEF Window
  <2>2. n \in 0 .. done + 0 - 1
    BY <1>1, <2>1
  <2>3. QED
    BY <2>1, <2>2 DEF Begun
<1>4. HeldBy(Ending(e), 0)
  <2>1. 0 \in 0 .. Drains
    BY <1>1, BoundaryType
  <2>2. QED
    BY <1>1, <1>2, <1>3, <2>1, CountsIs DEF BegunAreHeld
<1>5. \A p : ~Carries(p, 0)
  BY DEF Carries, Kernels
<1>6. QED
  BY <1>2, <1>4, <1>5 DEF HeldBy

LEMMA InvariantLosesNoHit ==
  IInv => NoHitIsLost
<1> SUFFICES ASSUME IInv PROVE NoHitIsLost
  OBVIOUS
<1>1. /\ Shape /\ TypeOK /\ HitsOK /\ BegunAreHeld /\ CapsAreHeld /\ cadence \in Cadences
      /\ done \in Nat /\ done <= direct_total(cadence) /\ direct_total(cadence) \in Nat
  <2>1. Shape /\ TypeOK /\ HitsOK /\ BegunAreHeld /\ CapsAreHeld
    BY DEF IInv, Shape
  <2>2. cadence \in Cadences /\ done \in Nat /\ direct_total(cadence) \in Nat /\ done \in 0 .. direct_total(cadence)
    BY <2>1, BatchType DEF TypeOK
  <2>3. QED
    BY <2>1, <2>2
<1>2. ASSUME NEW c \in DOMAIN table
      PROVE  {e.fp : e \in UNION {ToSet(table[c][s]) : s \in CapSlots}} \ {0}
               \subseteq {HashOf(StateAfter(cadence.plan[c], d)) : d \in {e \in Window(cadence) : Counts(e, c)}}
  <2>1. c \in 1 .. Drains
    BY <1>1 DEF TypeOK
  <2>2. SUFFICES ASSUME NEW s \in CapSlots, NEW n \in DOMAIN table[c][s], table[c][s][n].fp # 0
                 PROVE  table[c][s][n].fp \in {HashOf(StateAfter(cadence.plan[c], d)) : d \in {e \in Window(cadence) : Counts(e, c)}}
    BY DEF ToSet
  <2>3. PICK d \in Window(cadence) : Counts(d, c) /\ table[c][s][n].fp = HashOf(StateAfter(cadence.plan[c], d))
    BY <1>1, <2>1, <2>2 DEF CapsAreHeld
  <2>4. QED
    BY <2>3
<1>3. ASSUME NEW h \in hits PROVE h.data \in Window(cadence) /\ h.flag # 0 /\ h.flag = FlagOf(Ending(h.data))
  <2>1. PICK n \in 0 .. done - 1 : h.data = DataOf(cadence, cadence.start + n)
    BY <1>1 DEF HitsOK
  <2>2. n \in 0 .. direct_total(cadence) - 1
    BY <1>1, <2>1
  <2>3. h.data \in Window(cadence)
    BY <1>1, <2>1, <2>2, DataType
  <2>4. QED
    BY <1>1, <2>3 DEF HitsOK
<1>4. emitted = Cardinality(hits)
  BY <1>1 DEF TypeOK
<1>5. \A d \in Begun : Counts(d, 0)
  BY <1>1 DEF BegunAreHeld
<1>6. ASSUME stage = "done"
      PROVE  /\ Cardinality(StandsFor(cadence)) = cadence.window
             /\ \A d \in StandsFor(cadence) : FlagOf(Ending(d)) # 0 => \E h \in hits : Ending(h.data) = Ending(d)
  BY <1>1, <1>6, StandsForSize, AtTheEnd
<1>7. QED
  BY <1>2, <1>3, <1>4, <1>5, <1>6 DEF NoHitIsLost

-----------------------------------------------------------------------------
(* The theorems.                                                           *)

\* Every step of the cadence keeps the invariant.
LEMMA InvariantHolds ==
  CadenceSpec => []IInv
<1>1. CadenceInit => IInv
  BY InitIsHeld
<1>2. IInv /\ [Device]_cadenceVars => IInv'
  BY InvariantIsKept
<1>3. QED
  BY <1>1, <1>2, PTL DEF CadenceSpec

\* Which launch is at which boundary, whose states and screens a batch's buffers
\* hold, and which slots a warp has in hand: no two warps of a kernel of
\* tm_cuda_raceway.cuh touch one position, and what the next launch reads was
\* written for this batch.
THEOREM CadenceShape ==
  CadenceSpec => []Shape
<1>1. IInv => Shape
  BY DEF IInv
<1>2. QED
  BY <1>1, InvariantHolds, PTL

\* The wave cadence of the CUDA raceway loses no hit, writes each once, and ends
\* with the whole window accounted for, whatever the loads of
\* tm_raceway_cap_probe_or_keep return while other warps store.
THEOREM CadenceLosesNoHit ==
  CadenceSpec => []NoHitIsLost
BY InvariantHolds, InvariantLosesNoHit, PTL

=============================================================================
