---------------------------- MODULE CudaRaceway -----------------------------
(***************************************************************************)
(* The wave cadence of the CUDA raceway (--raceway-direct-wave-continue-   *)
(* batch with wave state): one key's window is run in batches.  The first  *)
(* kernel runs a batch to the first boundary of the plan and drops what    *)
(* the boundary's cap has met; a compaction collects the positions still   *)
(* alive; a span kernel per further boundary does the same to those; the   *)
(* last kernel screens what is left.  With the fused tail, one kernel runs *)
(* from the first boundary to the screen.  Launches follow one another on  *)
(* one stream; within a kernel, warps take work by an atomic counter, and  *)
(* read and write the caps with plain loads and stores.                    *)
(*                                                                         *)
(* A state is the data value it comes from and the maps it has been        *)
(* through.  Counters that are only printed are left out, and so is the    *)
(* sweep over several plans.                                               *)
(***************************************************************************)
EXTENDS WindowPolicy, FiniteSetsExt, SequencesExt

CONSTANTS
  Warps,             \* warps of a launch
  Cadences,          \* command lines and prepared keys: records, see Cadence
  Maps,              \* maps of a key (27)
  StateAfter(_, _),  \* StateAfter(m, d): the state of data value d after m maps
  StrongHash(_),     \* tm_strong64_state before its last line; 0 is the mark of an empty slot
  FlagOf(_),         \* screen_candidate of a state after the last map, 0 if it fails
  Shed,              \* the bits shed by the certificate
  CapBuckets, CapWays, VictimWay(_),  \* shape of a cap, and the way a fingerprint overwrites
  BlockSize,         \* positions a block of the compaction looks at (256)
  PackedPositions    \* positions a packed hit can tell apart (2^24); no batch checks it

Cadence ==
  [ilp     : Nat \ {0},     \* candidates a warp runs at a time
   batch   : Nat \ {0},     \* positions of a batch
   start   : Nat,           \* --range_start
   window  : Nat \ {0},     \* --workunit_size
   precert : BOOLEAN,
   plan    : Seq(1 .. Maps),\* maps completed at each boundary
   async   : BOOLEAN,       \* counts stay on the device
   fused   : BOOLEAN]       \* the fused tail, which implies async

VARIABLES
  cadence,
  stage,    \* the launch that is running, or where the host is
  drain,    \* the boundary being worked on
  done,     \* positions of the window in earlier batches
  work,     \* wave_work_counter
  alive,    \* wave_alive, by slot
  live,     \* cur_live up to the current count
  packed,   \* next_live as far as a compaction has written it
  blocks,   \* blocks of the compaction that have appended
  wstate,   \* wave_state, by position
  flags,    \* wave_flags, by position
  warp,     \* each warp: what it works on
  table,    \* each cap's slots: what was stored since the launch began, and by whom
  hits, emitted  \* lines of the hit file: which, and how many

cadenceVars == <<cadence, stage, drain, done, work, alive, live, packed, blocks, wstate, flags, warp, table, hits, emitted>>

-----------------------------------------------------------------------------
(* The window: positions, and what they stand for. *)

PrecertSupported(c) == c.ilp # 1 /\ c.start = 0 /\ c.window % 2^Cardinality(Shed) = 0
PrecertUsed(c) == c.precert /\ Shed # {} /\ PrecertSupported(c)
direct_total(c) == IF PrecertUsed(c) THEN c.window \div 2^Cardinality(Shed) ELSE c.window
Support(c) == IF PrecertUsed(c) THEN Positions \ Shed ELSE Positions
DataOf(c, logical) == deposit_bits32(logical, Support(c))
Window(c) == {DataOf(c, c.start + n) : n \in 0 .. direct_total(c) - 1}
BatchN == Min({cadence.batch, direct_total(cadence) - done})
DataAt(p) == DataOf(cadence, cadence.start + done + p)

-----------------------------------------------------------------------------
(* Caps. *)

\* The hash and the probe both fold the mark away.
HashOf(s) == IF StrongHash(s) = 0 THEN 1 ELSE StrongHash(s)
CapSlot(fp, way) == (fp % CapBuckets) * CapWays + way
CapSlots == 0 .. CapBuckets * CapWays - 1
Nobody == 0
\* A load may find the slot as any store since the launch left it (nothing keeps
\* multiprocessors from reading what they have cached), but not from before the
\* warp's own store.  The next launch reads what was stored last.
Own(w, c, s) == SelectLastInSubSeq(table[c][s], 1, Len(table[c][s]), LAMBDA e : e.by = w)
Visible(w, c, s) == {table[c][s][n].fp : n \in Max({1, Own(w, c, s)}) .. Len(table[c][s])}
Settled == [c \in DOMAIN table |-> [s \in CapSlots |-> <<[fp |-> Last(table[c][s]).fp, by |-> Nobody]>>]]

-----------------------------------------------------------------------------
(* What is asked for, and what the parameters stand for. *)

ASSUME ShapeAssumption ==
  /\ CapBuckets \in Nat \ {0} /\ CapWays \in Nat \ {0} /\ BlockSize \in Nat \ {0}
  /\ Maps \in Nat \ {0} /\ PackedPositions \in Nat
  /\ Shed \subseteq Positions
  /\ Warps # {} /\ Nobody \notin Warps

\* completed_maps_to_cap_indices sorts the boundaries, drops duplicates, and refuses
\* the last map and an empty plan.  The window ends where indices do.  A hit's
\* position fits, or the hit would be reported at another.
ASSUME CadenceAssumption ==
  \A c \in Cadences :
    /\ c \in Cadence
    /\ c.plan # << >>
    /\ \A b \in DOMAIN c.plan : c.plan[b] < Maps /\ \A a \in 1 .. b - 1 : c.plan[a] < c.plan[b]
    /\ c.fused => c.async
    /\ c.start + direct_total(c) <= 2^Min({MaxIndexBits, Cardinality(Support(c))})
    /\ Min({c.batch, direct_total(c)}) <= PackedPositions

\* A map makes equal states of equal states, and from map 1 on a certified bit is
\* in no state.
ASSUME StateAssumption ==
  \A c \in Cadences : \A d \in Window(c) :
    /\ \A e \in Window(c), m \in 0 .. Maps : \A n \in m .. Maps :
         StateAfter(m, d) = StateAfter(m, e) => StateAfter(n, d) = StateAfter(n, e)
    /\ PrecertUsed(c) =>
         \A s \in SUBSET Shed, m \in 1 .. Maps : StateAfter(m, d \union s) = StateAfter(m, d)

\* No two states that meet in a cap share a fingerprint (a collision drops a state,
\* which the code accepts).
ASSUME FingerprintAssumption ==
  \A c \in Cadences : \A d \in Window(c), b \in DOMAIN c.plan :
    LET Fp(e) == HashOf(StateAfter(c.plan[b], e))
    IN  /\ Fp(d) \in Nat \ {0} /\ VictimWay(Fp(d)) \in 0 .. CapWays - 1
        /\ \A e \in Window(c) : Fp(d) = Fp(e) => StateAfter(c.plan[b], d) = StateAfter(c.plan[b], e)

-----------------------------------------------------------------------------
(* Launches. *)

Completed(b) == CASE b = 0 -> 0 [] b \in DOMAIN cadence.plan -> cadence.plan[b] [] OTHER -> Maps
Drains == Len(cadence.plan)
\* The maps between two boundaries, run on a state.
RunTo(v, b) == [v EXCEPT !.m = @ + Completed(b) - Completed(b - 1)]
ScreenOf(v) == FlagOf(StateAfter(v.m, v.d))

\* The first kernel and compaction go by position, the others by the live list.
Count == IF drain = 1 THEN BatchN ELSE Len(live)
Orig(slot) == IF drain = 1 THEN slot ELSE live[slot + 1]
Loaded(slot) == RunTo(IF drain = 1 THEN [d |-> DataAt(slot), m |-> 0] ELSE wstate[Orig(slot)], drain)

Kernels == {"first", "span", "fused"}
AtCounter == [at |-> "take", base |-> 0, drain |-> 0, lane |-> 0, way |-> 0, vals |-> << >>, on |-> {}]
StartKernel(kernel, b) ==
  /\ stage' = kernel /\ drain' = b
  /\ work' = 0
  /\ warp' = [w \in Warps |-> AtCounter]
  /\ table' = Settled

CadenceInit ==
  /\ cadence \in Cadences
  /\ stage = "batch" /\ drain = 1 /\ done = 0 /\ work = 0
  /\ alive = [s \in 0 .. cadence.batch - 1 |-> FALSE]
  /\ live = << >> /\ packed = << >> /\ blocks = {}
  /\ wstate = [p \in 0 .. cadence.batch - 1 |-> [d |-> {}, m |-> 0]]
  /\ flags = [p \in 0 .. cadence.batch - 1 |-> 0]
  /\ warp = [w \in Warps |-> AtCounter]
  /\ table = [c \in 1 .. Len(cadence.plan) |-> [s \in CapSlots |-> <<[fp |-> 0, by |-> Nobody]>>]]
  /\ hits = {} /\ emitted = 0

\* The next batch: flags are zeroed, and the first kernel is launched.
BeginBatch_KeepsFlags ==  \* mutant: flags of an earlier batch stay
  /\ stage = "batch" /\ done < direct_total(cadence)
  /\ StartKernel("first", 1)
  /\ UNCHANGED <<cadence, done, alive, live, packed, blocks, wstate, flags, hits, emitted>>
BeginBatch ==
  /\ stage = "batch" /\ done < direct_total(cadence)
  /\ flags' = [p \in DOMAIN flags |-> IF p < BatchN THEN 0 ELSE flags[p]]
  /\ StartKernel("first", 1)
  /\ UNCHANGED <<cadence, done, alive, live, packed, blocks, wstate, hits, emitted>>
EndKey ==
  /\ stage = "batch" /\ done = direct_total(cadence)
  /\ stage' = "done"
  /\ UNCHANGED <<cadence, drain, done, work, alive, live, packed, blocks, wstate, flags, warp, table, hits, emitted>>

-----------------------------------------------------------------------------
(* Warps of the first, span and fused kernels. *)

\* What a warp leaves: in the fused tail the screens of the lanes still on, else
\* whether each lane is alive, and the states of those that are.
LaneAt(base, on, p) == CHOOSE k \in on : Orig(base + k - 1) = p
ScreenLanes(base, vals, on) ==
  /\ flags' = [p \in DOMAIN flags |-> IF \E k \in on : Orig(base + k - 1) = p
                                      THEN ScreenOf(RunTo(vals[LaneAt(base, on, p)], Drains + 1)) ELSE flags[p]]
  /\ UNCHANGED <<alive, wstate>>
StoreLanes(base, vals, on) ==
  /\ alive' = [s \in DOMAIN alive |-> IF s - base + 1 \in DOMAIN vals THEN s - base + 1 \in on ELSE alive[s]]
  /\ wstate' = [p \in DOMAIN wstate |-> IF \E k \in on : Orig(base + k - 1) = p THEN vals[LaneAt(base, on, p)] ELSE wstate[p]]
  /\ UNCHANGED flags

\* The next lanes from the counter, run to the next boundary.  A fused tail
\* without a boundary has nothing to probe.
Take(w) ==
  /\ stage \in Kernels /\ warp[w].at = "take"
  /\ work' = work + cadence.ilp
  /\ LET valid == Min({cadence.ilp, Count - work})
         vals  == [k \in 1 .. valid |-> Loaded(work + k - 1)]
     IN  CASE work >= Count ->
                warp' = [warp EXCEPT ![w].at = "end"] /\ UNCHANGED <<alive, wstate, flags>>
           [] work < Count /\ drain > Drains ->
                ScreenLanes(work, [k \in 1 .. valid |-> wstate[Orig(work + k - 1)]], 1 .. valid) /\ UNCHANGED warp
           [] work < Count /\ drain <= Drains ->
                /\ warp' = [warp EXCEPT ![w] = [at |-> "probe", base |-> work, drain |-> drain, lane |-> 1, way |-> 0,
                                                vals |-> vals, on |-> 1 .. valid]]
                /\ UNCHANGED <<alive, wstate, flags>>
  /\ UNCHANGED <<cadence, stage, drain, done, live, packed, blocks, table, hits, emitted>>

\* A lane is kept or dropped; the lanes after it are probed, then in the fused
\* tail the next boundary is run to, and at last the warp goes back to the counter.
Judged(w, keep) ==
  LET on    == IF keep THEN warp[w].on ELSE warp[w].on \ {warp[w].lane}
      later == {k \in on : k > warp[w].lane}
      onward == stage = "fused" /\ warp[w].drain < Drains /\ on # {}
      vals  == [k \in DOMAIN warp[w].vals |-> RunTo(warp[w].vals[k], warp[w].drain + 1)]
  IN  CASE later # {} ->
             /\ warp' = [warp EXCEPT ![w].at = "probe", ![w].on = on, ![w].lane = Min(later), ![w].way = 0]
             /\ UNCHANGED <<alive, wstate, flags>>
        [] later = {} /\ onward ->
             /\ warp' = [warp EXCEPT ![w].at = "probe", ![w].on = on, ![w].lane = Min(on), ![w].way = 0,
                                     ![w].vals = vals, ![w].drain = @ + 1]
             /\ UNCHANGED <<alive, wstate, flags>>
        [] later = {} /\ ~onward ->
             /\ warp' = [warp EXCEPT ![w] = AtCounter]
             /\ IF stage = "fused" THEN ScreenLanes(warp[w].base, warp[w].vals, on) ELSE StoreLanes(warp[w].base, warp[w].vals, on)

Hash(w) == LET v == warp[w].vals[warp[w].lane] IN HashOf(StateAfter(v.m, v.d))
\* tm_raceway_cap_probe_or_keep: the ways are read in order; a fingerprint found
\* drops the lane, one not found overwrites the way it names.
ProbeWay(w) ==
  /\ stage \in Kernels /\ warp[w].at = "probe"
  /\ \E cur \in Visible(w, warp[w].drain, CapSlot(Hash(w), warp[w].way)) :
       CASE cur = Hash(w) -> Judged(w, FALSE)
         [] cur # Hash(w) /\ warp[w].way < CapWays - 1 ->
              warp' = [warp EXCEPT ![w].way = @ + 1] /\ UNCHANGED <<alive, wstate, flags>>
         [] cur # Hash(w) /\ warp[w].way = CapWays - 1 ->
              warp' = [warp EXCEPT ![w].at = "store"] /\ UNCHANGED <<alive, wstate, flags>>
  /\ UNCHANGED <<cadence, stage, drain, done, work, live, packed, blocks, table, hits, emitted>>
StoreWay(w) ==
  /\ stage \in Kernels /\ warp[w].at = "store"
  /\ table' = [table EXCEPT ![warp[w].drain][CapSlot(Hash(w), VictimWay(Hash(w)))] = Append(@, [fp |-> Hash(w), by |-> w])]
  /\ Judged(w, TRUE)
  /\ UNCHANGED <<cadence, stage, drain, done, work, live, packed, blocks, hits, emitted>>

KernelEnds ==
  /\ stage \in Kernels /\ \A w \in Warps : warp[w].at = "end"
  /\ stage' = IF stage = "fused" THEN "collect" ELSE "compact"
  /\ packed' = << >> /\ blocks' = {}
  /\ UNCHANGED <<cadence, drain, done, work, alive, live, wstate, flags, warp, table, hits, emitted>>

-----------------------------------------------------------------------------
(* Compaction, screen and hits. *)

\* compact_survivors_ordered: blocks append what is alive, each in order, one
\* after the other in any order.
Ascending(S) == CHOOSE f \in [1 .. Cardinality(S) -> S] : \A i, j \in DOMAIN f : i < j => f[i] < f[j]
BlockSlots(b) == {s \in 0 .. Count - 1 : s \div BlockSize = b}
CompactBlock(b) ==
  /\ stage = "compact" /\ b \notin blocks /\ BlockSlots(b) # {}
  /\ LET kept == Ascending({s \in BlockSlots(b) : alive[s]})
     IN  packed' = packed \o [n \in DOMAIN kept |-> Orig(kept[n])]
  /\ blocks' = blocks \union {b}
  /\ UNCHANGED <<cadence, stage, drain, done, work, alive, live, wstate, flags, warp, table, hits, emitted>>

\* The next launch: the fused tail, or a span as long as boundaries are left (a
\* host that knows the count stops at zero), or the screen.
CompactEnds ==
  /\ stage = "compact" /\ \A s \in 0 .. Count - 1 : s \div BlockSize \in blocks
  /\ live' = packed
  /\ CASE cadence.fused -> StartKernel("fused", 2)
       [] ~cadence.fused /\ drain < Drains /\ (cadence.async \/ packed # << >>) -> StartKernel("span", drain + 1)
       [] ~cadence.fused /\ (drain = Drains \/ (~cadence.async /\ packed = << >>)) ->
            stage' = "continue" /\ drain' = drain + 1 /\ UNCHANGED <<work, warp, table>>
  /\ UNCHANGED <<cadence, done, alive, packed, blocks, wstate, flags, hits, emitted>>

\* tm_raceway_continue_state_liveidx: no two warps touch the same position.
LivePositions == ToSet(live)
Continue ==
  /\ stage = "continue"
  /\ flags' = [p \in DOMAIN flags |-> IF p \in LivePositions THEN ScreenOf(RunTo(wstate[p], drain)) ELSE flags[p]]
  /\ stage' = "collect"
  /\ UNCHANGED <<cadence, drain, done, work, alive, live, packed, blocks, wstate, warp, table, hits, emitted>>

\* tm_raceway_collect_hits, and the host's loop over what it packed: the order of
\* the lines is any.  The next batch begins after this one's positions.
PackedOrig(p) == p % PackedPositions
Flagged == {n \in DOMAIN live : flags[live[n]] # 0}
Collected(count) ==
  /\ stage = "collect"
  /\ hits' = hits \union {[data |-> DataAt(PackedOrig(live[n])), flag |-> flags[live[n]]] : n \in Flagged}
  /\ emitted' = emitted + Cardinality(Flagged)
  /\ done' = done + count
  /\ stage' = "batch"
  /\ UNCHANGED <<cadence, drain, work, alive, live, packed, blocks, wstate, flags, warp, table>>
CollectHits_Survivors == Collected(Len(live))  \* mutant: the window advances by what survived
CollectHits == Collected(BatchN)

Device ==
  \/ BeginBatch \/ EndKey
  \/ \E w \in Warps : Take(w) \/ ProbeWay(w) \/ StoreWay(w)
  \/ KernelEnds
  \/ (\E b \in 0 .. Count - 1 : CompactBlock(b)) \/ CompactEnds
  \/ Continue \/ CollectHits

CadenceSpec == CadenceInit /\ [][Device]_cadenceVars /\ WF_cadenceVars(Device)

(***************************************************************************)
(* Properties.                                                             *)
(***************************************************************************)

\* Slots a warp has in hand, and those done with.
Busy(w) == warp[w].at \in {"probe", "store"}
SlotsOf(w) == warp[w].base .. warp[w].base + Len(warp[w].vals) - 1
InHand(s) == \E w \in Warps : Busy(w) /\ s \in SlotsOf(w)
Finished == {s \in 0 .. Count - 1 : s < work /\ ~InHand(s)}

\* Data values underway, and the last boundary each has got past or, because it is
\* about to be stored in that cap, is bound to get past.
PastOf(w, k) ==
  IF k < warp[w].lane \/ (k = warp[w].lane /\ warp[w].at = "store") THEN warp[w].drain ELSE warp[w].drain - 1
PassedOf(ps, b) == {[d |-> wstate[p].d, past |-> b] : p \in ps}
ScreenedOf(ps) == PassedOf({p \in ps : flags[p] # 0}, Drains)
Ahead == {[d |-> Loaded(s).d, past |-> drain - 1] : s \in work .. Count - 1}
InWarps == UNION {{[d |-> warp[w].vals[k].d, past |-> PastOf(w, k)] : k \in warp[w].on} : w \in Warps}
Behind ==
  IF stage = "fused" THEN ScreenedOf({Orig(s) : s \in Finished})
  ELSE PassedOf({Orig(s) : s \in {t \in Finished : alive[t]}}, drain)
Compacting == ToSet(packed) \union {Orig(s) : s \in {t \in 0 .. Count - 1 : alive[t] /\ t \div BlockSize \notin blocks}}
Underway ==
  CASE stage \in Kernels  -> Ahead \union InWarps \union Behind
    [] stage = "compact"  -> PassedOf(Compacting, drain)
    [] stage = "continue" -> PassedOf(LivePositions, Drains)
    [] stage = "collect"  -> ScreenedOf(LivePositions)
    [] OTHER -> {}

Ending(d) == StateAfter(Maps, d)
HeldPast(b) == {Ending(u.d) : u \in {v \in Underway : v.past >= b}} \union {Ending(h.data) : h \in hits}
Begun == {DataOf(cadence, cadence.start + n) : n \in 0 .. done + (IF stage \in {"batch", "done"} THEN 0 ELSE BatchN) - 1}
Counts(d, b) == FlagOf(Ending(d)) # 0 => Ending(d) \in HeldPast(b)
StandsFor(c) == UNION {{d \union s : s \in IF PrecertUsed(c) THEN SUBSET Shed ELSE {{}}} : d \in Window(c)}

\* At every moment a data value that would be a hit and has been begun, or is
\* remembered in a cap, even in a load that comes too late, ends like one that is
\* carried on past that cap or was written as a hit ("A race can evict/forget a
\* fingerprint, which only over-keeps", "FN-safe cap").  Every line of the hit
\* file is true and written once.  At the end this covers as many data values as
\* were asked for, with those the certificate stands in for.
NoHitIsLost ==
  /\ \A d \in Begun : Counts(d, 0)
  /\ \A c \in DOMAIN table :
       {e.fp : e \in UNION {ToSet(table[c][s]) : s \in CapSlots}} \ {0}
         \subseteq {HashOf(StateAfter(cadence.plan[c], d)) : d \in {e \in Window(cadence) : Counts(e, c)}}
  /\ \A h \in hits : h.data \in Window(cadence) /\ h.flag # 0 /\ h.flag = FlagOf(Ending(h.data))
  /\ emitted = Cardinality(hits)
  /\ stage = "done" =>
       /\ Cardinality(StandsFor(cadence)) = cadence.window
       /\ \A d \in StandsFor(cadence) : FlagOf(Ending(d)) # 0 => \E h \in hits : Ending(h.data) = Ending(d)

\* A key's cadence ends: every batch moves the window on, also when nothing of it
\* survives the first boundary.
KeyEnds == <>(stage = "done")
=============================================================================
