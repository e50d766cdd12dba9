----------------------------- MODULE CpuRaceway -----------------------------
(***************************************************************************)
(* src/bruteforce/cpu_raceway and the capped screen of state_dedup.h: the  *)
(* threads of one search of a key's window.  A thread takes ranges of the  *)
(* window, runs map 1 on their data values, drops codes met before and     *)
(* collects the others in a wave; a full wave is drained through the other *)
(* maps, with a cap at every K-th map that drops codes met before there.   *)
(* The caps are shared by all threads, have a fixed size, forget what they *)
(* overwrite and are read and written without locks: every slot and every  *)
(* victim index is touched in a step of its own.                           *)
(*                                                                         *)
(* A code is known by the data value it comes from and by its level: 0     *)
(* after map 1, 1 .. Caps at the boundaries, Caps + 1 after the last map.  *)
(* Counters that are only printed are left out.                            *)
(***************************************************************************)
EXTENDS WindowPolicy, FiniteSetsExt

CONSTANTS
  T,               \* number of threads
  Configs,         \* the command lines: records, see Config
  Caps,            \* number of boundaries with a cap
  CodeAt(_, _),    \* CodeAt(l, d): the code of data value d at level l
  Fingerprint(_),  \* strong64 of a code; 0 is the mark of an empty slot
  LowShed(_),      \* the map-1 score of a data value is below g_pcap_route_tau
  Passing(_),      \* screen_state_raw of a final code
  Certified,       \* the bits map1_certifier sheds for the key
  Lanes,           \* data values run through map 1 at a time (8)
  DeepLanes,       \* codes run through later maps at a time (g_ilp)
  WaveN,           \* codes in a full wave (g_wave_N)
  Chunk,           \* data values in a dynamic shard (g_shard_chunk)
  Buckets, Ways    \* shape of a cap

\* wave_N = 0 is refused, SHARD_CHUNK = 0 means static shards, and Tier::init
\* gives a cap one way at least.
ASSUME ShapeAssumption ==
  /\ {T, Lanes, DeepLanes, WaveN, Chunk, Buckets, Ways} \subseteq Nat \ {0}
  /\ Caps \in Nat

Threads == 0 .. T - 1

\* What main reads from the command line and the environment.  engine "screen"
\* is map1_screen_capped, "raceway" the program.
Config ==
  [engine  : {"raceway", "map1_screen"},
   pcap    : {"exact", "production", "shadow"},
   cap_on  : BOOLEAN,   \* RACEWAY_CAP
   routing : BOOLEAN,   \* PCAP_ROUTE_TAU >= 0
   dynamic : BOOLEAN,   \* SHARD_CHUNK # 0
   screen  : BOOLEAN,   \* screen or count mode
   drain   : BOOLEAN,   \* the capped screen's second tier
   window  : Nat \ {0}, \* how many data values
   precert : BOOLEAN,   \* PRECERT
   policy  : {"linear"} \union DOMAIN Orders,  \* WIN_POLICY
   tile    : Nat]       \* TILE_BITS

\* The capped screen keeps codes, it has no screen mode.
ASSUME ConfigAssumption ==
  Configs \subseteq {cfg \in Config : cfg.engine = "map1_screen" => ~cfg.screen}

VARIABLES
  config,    \* the command line
  window,    \* the data values enumerated, in order
  next,      \* g_work_next
  slots,     \* caps: 0 the producer's, 1 .. Caps the boundaries', Caps + 1 the second tier
  victim,    \* the way each bucket overwrites next
  pc, at,    \* each thread: where it is, and [d, hi] what is left of its range
  lanes,     \* data values through map 1 and not yet judged
  tail,      \* whether they came from the one-by-one tail of a range
  wave,      \* the wave, an array compacted in place
  span,      \* a drain's progress: level, codes taken and kept of the wave
  out,       \* codes at the span's level, not yet judged
  look,      \* a screening's progress: tier, way, tiers to write, victim read, verdict
  ending,    \* no range is left
  seen,      \* HSet: fingerprints of map-1 codes
  fin,       \* final codes inserted into the thread's table, or screened
  hits       \* codes the screen passed, or the capped screen kept

vars == <<config, window, next, slots, victim, pc, at, lanes, tail, wave, span, out, look, ending, seen, fin, hits>>

-----------------------------------------------------------------------------
(* The window. *)

\* main sets up how many values are enumerated, and win_map_data which they are.
PrecertActive(cfg) ==
  /\ cfg.precert /\ Certified # {}
  /\ cfg.window % 2^Cardinality(Certified) = 0
  /\ cfg.policy = "linear" /\ cfg.tile = 0
EffOf(cfg) == IF PrecertActive(cfg) THEN cfg.window \div 2^Cardinality(Certified) ELSE cfg.window
WBits(cfg) == CHOOSE n \in 0 .. 32 : 2^n >= EffOf(cfg) /\ (n = 0 \/ 2^(n - 1) < EffOf(cfg))
TileMask(cfg) == make_bit_mask(IF cfg.policy = "linear" THEN "squeeze" ELSE cfg.policy, cfg.tile)
win_map_data(cfg, index) ==
  CASE PrecertActive(cfg) -> deposit_bits32(index, Positions \ Certified)
    [] ~PrecertActive(cfg) /\ cfg.tile > 0 ->
         deposit_bits32(index % 2^cfg.tile, TileMask(cfg))
           \union deposit_bits32(index \div 2^cfg.tile, (0 .. WBits(cfg) - 1) \ TileMask(cfg))
    [] ~PrecertActive(cfg) /\ cfg.tile = 0 ->
         deposit_bits32(index, IF cfg.policy = "linear" THEN Positions ELSE make_bit_mask(cfg.policy, WBits(cfg)))
WindowOf(cfg) == [index \in 0 .. EffOf(cfg) - 1 |-> win_map_data(cfg, index)]
\* What main refuses to run with.
Runs(cfg) ==
  /\ cfg.policy # "linear" => EffOf(cfg) = 2^WBits(cfg)
  /\ cfg.tile > 0 => cfg.tile < WBits(cfg)
Eff == Cardinality(DOMAIN window)

\* What a search is about: the data values of the window, and with PRECERT
\* those that differ from them in certified bits.
DataOf(cfg) ==
  UNION {{win_map_data(cfg, i) \union s : s \in IF PrecertActive(cfg) THEN SUBSET Certified ELSE {{}}} :
         i \in 0 .. EffOf(cfg) - 1}

\* A window has as many data values as asked for.
ASSUME WindowAssumption ==
  \A cfg \in Configs : Runs(cfg) =>
    /\ EffOf(cfg) \in Nat
    /\ Cardinality(DataOf(cfg)) = cfg.window

\* Codes are what the maps, which are functions, make of a data value; a certified
\* bit has no influence on map 1.
ASSUME CodeAssumption ==
  \A cfg \in Configs : Runs(cfg) =>
    /\ \A d, e \in DataOf(cfg) : \A l, m \in 0 .. Caps + 1 :
         l <= m /\ CodeAt(l, d) = CodeAt(l, e) => CodeAt(m, d) = CodeAt(m, e)
    /\ PrecertActive(cfg) => \A i \in 0 .. EffOf(cfg) - 1 : \A s \in SUBSET Certified :
         CodeAt(0, win_map_data(cfg, i) \union s) = CodeAt(0, win_map_data(cfg, i))

-----------------------------------------------------------------------------
(* Caps. *)

LastCap == Caps + 1                   \* the level after the last map, and the second tier's index
MaxSlot == Buckets * Ways - 1
FpOf_NoFold(code) == Fingerprint(code)  \* mutant: the sentinel is a fingerprint
FpOf(code) == IF Fingerprint(code) = 0 THEN 1 ELSE Fingerprint(code)
\* Collisions of fingerprints are left out.
ASSUME FingerprintAssumption ==
  \A cfg \in Configs : Runs(cfg) => \A l \in 0 .. Caps : \A d, e \in DataOf(cfg) :
    /\ Fingerprint(CodeAt(l, d)) \in Nat
    /\ FpOf(CodeAt(l, d)) = FpOf(CodeAt(l, e)) => CodeAt(l, d) = CodeAt(l, e)
SlotOf(fp, way) == (fp % Buckets) * Ways + way

Draining(t) == span[t].level > 0
Rep(t) == IF Draining(t) THEN Head(out[t]) ELSE Head(lanes[t])
CapOf(t) == IF look[t].second THEN LastCap ELSE span[t].level
RepFp(t) == FpOf(CodeAt(span[t].level, Rep(t)))

NoLook == [second |-> FALSE, way |-> 0, puts |-> << >>, v |-> 0, keep |-> FALSE]
NoSpan == [level |-> 0, pi |-> 0, w |-> 0]

-----------------------------------------------------------------------------

Init ==
  /\ config \in Configs /\ Runs(config)
  /\ window = WindowOf(config)
  /\ next = 0
  /\ slots = [c \in 0 .. LastCap |-> [s \in 0 .. MaxSlot |-> 0]]
  /\ victim = [c \in 0 .. LastCap |-> [b \in 0 .. Buckets - 1 |-> 0]]
  /\ pc = [t \in Threads |-> IF config.dynamic THEN "pull" ELSE "map1"]
  /\ at = [t \in Threads |-> IF config.dynamic THEN [d |-> 0, hi |-> 0]
                             ELSE [d |-> (Eff * t) \div T, hi |-> (Eff * (t + 1)) \div T]]
  /\ lanes = [t \in Threads |-> << >>]
  /\ tail = [t \in Threads |-> FALSE]
  /\ wave = [t \in Threads |-> << >>]
  /\ span = [t \in Threads |-> NoSpan]
  /\ out = [t \in Threads |-> << >>]
  /\ look = [t \in Threads |-> NoLook]
  /\ ending = [t \in Threads |-> FALSE]
  /\ seen = [t \in Threads |-> {}]
  /\ fin = [t \in Threads |-> {}]
  /\ hits = [t \in Threads |-> 0]

\* The worker's loop over ranges: a dynamic shard from the shared counter, or
\* the one static shard, which Init has handed out.  After the last range what
\* is left of the wave is drained.
Flush_PartialLost(t) ==  \* mutant: only full waves are drained
  /\ ending' = [ending EXCEPT ![t] = TRUE]
  /\ pc' = [pc EXCEPT ![t] = "done"]
Flush(t) ==
  /\ ending' = [ending EXCEPT ![t] = TRUE]
  /\ pc' = [pc EXCEPT ![t] = IF wave[t] = << >> THEN "done" ELSE "drain"]
Pull(t) ==
  /\ pc[t] = "pull"
  /\ IF config.dynamic /\ next < Eff
     THEN /\ next' = next + Chunk
          /\ at' = [at EXCEPT ![t] = [d |-> next, hi |-> Min({next + Chunk, Eff})]]
          /\ pc' = [pc EXCEPT ![t] = "map1"]
          /\ UNCHANGED ending
     ELSE /\ Flush(t)
          /\ next' = IF config.dynamic THEN next + Chunk ELSE next
          /\ UNCHANGED at
  /\ UNCHANGED <<config, window, slots, victim, lanes, tail, wave, span, out, look, seen, fin, hits>>

\* originate: the next full batch of the range, or one value of its tail.  The
\* capped screen takes values one by one.
Batch(t) == IF config.engine = "raceway" /\ at[t].d + Lanes <= at[t].hi THEN Lanes ELSE 1
Map1(t) ==
  /\ pc[t] = "map1"
  /\ IF at[t].d = at[t].hi
     THEN /\ pc' = [pc EXCEPT ![t] = "pull"]
          /\ UNCHANGED <<at, lanes, tail>>
     ELSE /\ lanes' = [lanes EXCEPT ![t] = [k \in 1 .. Batch(t) |-> window[at[t].d + k - 1]]]
          /\ tail' = [tail EXCEPT ![t] = Batch(t) < Lanes]
          /\ at' = [at EXCEPT ![t].d = @ + Batch(t)]
          /\ pc' = [pc EXCEPT ![t] = "judge"]
  /\ UNCHANGED <<config, window, next, slots, victim, wave, span, out, look, ending, seen, fin, hits>>

\* The exact wave is a table: a code in it is not inserted again.
InWave(t, d) == \E n \in DOMAIN wave[t] : CodeAt(0, wave[t][n]) = CodeAt(0, d)

\* stream_rep, and the rest of the batch.
AfterLane(t, wave_) ==
  CASE Len(wave_) = WaveN -> "drain"
    [] Len(wave_) # WaveN /\ Len(lanes[t]) > 1 -> "judge"
    [] OTHER -> "map1"
StreamRep(t, keep) ==
  LET d     == Head(lanes[t])
      wave_ == IF keep /\ config.engine = "raceway" /\ (config.cap_on \/ ~InWave(t, d))
               THEN Append(wave[t], d) ELSE wave[t]
  IN  /\ wave' = [wave EXCEPT ![t] = wave_]
      /\ lanes' = [lanes EXCEPT ![t] = Tail(@)]
      /\ pc' = [pc EXCEPT ![t] = AfterLane(t, wave_)]
      /\ IF keep /\ config.engine = "map1_screen"
         THEN /\ fin' = [fin EXCEPT ![t] = @ \union {CodeAt(0, d)}]
              /\ hits' = [hits EXCEPT ![t] = @ + 1]
         ELSE UNCHANGED <<fin, hits>>

\* map1_dedup: the thread's own set decides.
HasSeen(t) == FpOf(CodeAt(0, Rep(t))) \in seen[t]
Remember(t) == seen' = [seen EXCEPT ![t] = @ \union {FpOf(CodeAt(0, Rep(t)))}]

\* With a producer cap, codes of a low score and a full batch pass it by.
Routed(t) ==
  \/ config.engine = "map1_screen"
  \/ config.pcap # "exact" /\ (config.routing /\ ~tail[t] => ~LowShed(Rep(t)))
Judge(t) ==
  /\ pc[t] = "judge" /\ ~Draining(t) /\ ~Routed(t)
  /\ IF config.pcap = "production"
     THEN StreamRep(t, TRUE) /\ UNCHANGED seen
     ELSE StreamRep(t, ~HasSeen(t)) /\ Remember(t)
  /\ UNCHANGED <<config, window, next, slots, victim, at, tail, span, out, look, ending>>

-----------------------------------------------------------------------------
(* SharedCap::screen, a slot at a time, for the producer and the drains. *)

\* The verdict: the producer streams or drops the lane (in shadow mode the
\* thread's own set decides and the cap is only counted); a drain keeps or
\* drops the code of the wave.
Verdict(t, keep) ==
  /\ look' = [look EXCEPT ![t] = NoLook]
  /\ IF Draining(t)
     THEN /\ wave' = IF keep THEN [wave EXCEPT ![t][span[t].w + 1] = Rep(t)] ELSE wave
          /\ span' = IF keep THEN [span EXCEPT ![t].w = @ + 1] ELSE span
          /\ out' = [out EXCEPT ![t] = Tail(@)]
          /\ pc' = [pc EXCEPT ![t] = IF Len(out[t]) > 1 THEN "judge" ELSE "drain"]
          /\ UNCHANGED <<lanes, seen, fin, hits>>
     ELSE /\ IF config.engine = "raceway" /\ config.pcap = "shadow"
             THEN StreamRep(t, ~HasSeen(t)) /\ Remember(t)
             ELSE StreamRep(t, keep) /\ UNCHANGED seen
          /\ UNCHANGED <<span, out>>

Probing(t) == pc[t] = "judge" /\ (Draining(t) \/ Routed(t))

\* Tier::has: a hit in the first tier drops; a hit in the second refreshes the
\* first and drops; a miss in all is remembered in all and kept.
Probe(t) ==
  /\ Probing(t)
  /\ LET hit  == slots[CapOf(t)][SlotOf(RepFp(t), look[t].way)] = RepFp(t)
         deep == config.engine = "map1_screen" /\ config.drain
         Put(tiers, keep) == /\ look' = [look EXCEPT ![t] = [NoLook EXCEPT !.puts = tiers, !.keep = keep]]
                             /\ pc' = [pc EXCEPT ![t] = "victim"]
                             /\ UNCHANGED <<lanes, wave, span, out, seen, fin, hits>>
         Look(second, way) == /\ look' = [look EXCEPT ![t].second = second, ![t].way = way]
                              /\ UNCHANGED <<pc, lanes, wave, span, out, seen, fin, hits>>
     IN  CASE hit /\ ~look[t].second -> Verdict(t, FALSE)
           [] hit /\ look[t].second -> Put(<<0>>, FALSE)
           [] ~hit /\ look[t].way < Ways - 1 -> Look(look[t].second, look[t].way + 1)
           [] ~hit /\ look[t].way = Ways - 1 /\ deep /\ ~look[t].second -> Look(TRUE, 0)
           [] ~hit /\ look[t].way = Ways - 1 /\ (deep => look[t].second) ->
                Put(IF deep THEN <<0, LastCap>> ELSE <<span[t].level>>, TRUE)
  /\ UNCHANGED <<config, window, next, slots, victim, at, tail, ending>>

\* Tier::put: read the victim index, overwrite that way, write the index back.
BucketOf(t) == RepFp(t) % Buckets
ReadVictim(t) ==
  /\ pc[t] = "victim"
  /\ look' = [look EXCEPT ![t].v = victim[Head(look[t].puts)][BucketOf(t)]]
  /\ pc' = [pc EXCEPT ![t] = "store"]
  /\ UNCHANGED <<config, window, next, slots, victim, at, lanes, tail, wave, span, out, ending, seen, fin, hits>>

StoreSlot(t) ==
  /\ pc[t] = "store"
  /\ slots' = [slots EXCEPT ![Head(look[t].puts)][SlotOf(RepFp(t), look[t].v)] = RepFp(t)]
  /\ pc' = [pc EXCEPT ![t] = "bump"]
  /\ UNCHANGED <<config, window, next, victim, at, lanes, tail, wave, span, out, look, ending, seen, fin, hits>>

WriteVictim(t) ==
  /\ pc[t] = "bump"
  /\ victim' = [victim EXCEPT ![Head(look[t].puts)][BucketOf(t)] = (look[t].v + 1) % Ways]
  /\ IF Len(look[t].puts) > 1
     THEN /\ look' = [look EXCEPT ![t].puts = Tail(@)]
          /\ pc' = [pc EXCEPT ![t] = "victim"]
          /\ UNCHANGED <<lanes, wave, span, out, seen, fin, hits>>
     ELSE Verdict(t, look[t].keep)
  /\ UNCHANGED <<config, window, next, slots, at, tail, ending>>

-----------------------------------------------------------------------------
(* Drains. *)

\* After a drain the producer goes on where it was.
Resume_DrainsAgain(t) ==  \* mutant: the last drain is not told from the others
  IF lanes[t] # << >> THEN "judge" ELSE IF ending[t] THEN "drain" ELSE "map1"
Resume(t) == IF ending[t] THEN "done" ELSE IF lanes[t] # << >> THEN "judge" ELSE "map1"

\* The end of a drain: finals go into the thread's table, or are screened.
Finals(t, reps) ==
  /\ fin' = [fin EXCEPT ![t] = @ \union {CodeAt(LastCap, d) : d \in reps}]
  /\ wave' = [wave EXCEPT ![t] = << >>]
  /\ span' = [span EXCEPT ![t] = NoSpan]
  /\ pc' = [pc EXCEPT ![t] = Resume(t)]

\* drain_wave_exact: every boundary merges equal codes of the wave; one thread's
\* own tables, so one step.  DistinctAt keeps one data value per code.
DistinctAt(l, reps) == {d \in reps : d = CHOOSE e \in reps : CodeAt(l, e) = CodeAt(l, d)}
DrainExact(t) ==
  /\ pc[t] = "drain" /\ ~config.cap_on
  /\ LET Merged[l \in 0 .. LastCap] ==
           IF l = 0 THEN {wave[t][n] : n \in DOMAIN wave[t]} ELSE DistinctAt(l, Merged[l - 1])
     IN  /\ Finals(t, Merged[LastCap])
         /\ hits' = IF config.screen
                    THEN [hits EXCEPT ![t] = @ + Cardinality({d \in Merged[LastCap] : Passing(CodeAt(LastCap, d))})]
                    ELSE hits
  /\ UNCHANGED <<config, window, next, slots, victim, at, lanes, tail, out, look, ending, seen>>

\* drain_wave_cap, drain_wave_cap_recompute: at each boundary the wave is read
\* in batches and compacted over itself; the recomputing drain carries the data
\* value instead of the code.
DrainBegin(t) ==
  /\ pc[t] = "drain" /\ config.cap_on /\ ~Draining(t)
  /\ span' = [span EXCEPT ![t] = [level |-> 1, pi |-> 0, w |-> 0]]
  /\ UNCHANGED <<config, window, next, slots, victim, pc, at, lanes, tail, wave, out, look, ending, seen, fin, hits>>

DrainBatch(t) ==
  /\ pc[t] = "drain" /\ span[t].level \in 1 .. Caps /\ span[t].pi < Len(wave[t])
  /\ LET to == Min({span[t].pi + DeepLanes, Len(wave[t])})
     IN  /\ out' = [out EXCEPT ![t] = SubSeq(wave[t], span[t].pi + 1, to)]
         /\ span' = [span EXCEPT ![t].pi = to]
  /\ pc' = [pc EXCEPT ![t] = "judge"]
  /\ UNCHANGED <<config, window, next, slots, victim, at, lanes, tail, wave, look, ending, seen, fin, hits>>

\* The next span works on what was kept; with nothing kept the drain is over.
DrainNext(t) ==
  /\ pc[t] = "drain" /\ span[t].level \in 1 .. Caps /\ span[t].pi = Len(wave[t])
  /\ wave' = [wave EXCEPT ![t] = SubSeq(@, 1, span[t].w)]
  /\ IF span[t].w = 0
     THEN span' = [span EXCEPT ![t] = NoSpan] /\ pc' = [pc EXCEPT ![t] = Resume(t)]
     ELSE span' = [span EXCEPT ![t] = [level |-> @.level + 1, pi |-> 0, w |-> 0]] /\ UNCHANGED pc
  /\ UNCHANGED <<config, window, next, slots, victim, at, lanes, tail, out, look, ending, seen, fin, hits>>

DrainEnd(t) ==
  /\ pc[t] = "drain" /\ span[t].level = LastCap
  /\ Finals(t, {wave[t][n] : n \in DOMAIN wave[t]})
  /\ hits' = IF config.screen
             THEN [hits EXCEPT ![t] = @ + Cardinality({n \in DOMAIN wave[t] : Passing(CodeAt(LastCap, wave[t][n]))})]
             ELSE hits
  /\ UNCHANGED <<config, window, next, slots, victim, at, lanes, tail, out, look, ending, seen>>

Work(t) ==
  \/ Pull(t) \/ Map1(t) \/ Judge(t)
  \/ Probe(t) \/ ReadVictim(t) \/ StoreSlot(t) \/ WriteVictim(t)
  \/ DrainExact(t) \/ DrainBegin(t) \/ DrainBatch(t) \/ DrainNext(t) \/ DrainEnd(t)

\* main joins the workers.
AllDone == \A t \in Threads : pc[t] = "done"
Joined == AllDone /\ UNCHANGED vars

Next == (\E t \in Threads : Work(t)) \/ Joined

Spec == Init /\ [][Next]_vars /\ \A t \in Threads : WF_vars(Work(t))

(***************************************************************************)
(* Properties.                                                             *)
(***************************************************************************)

\* What the search is about: the data values of the window, and with PRECERT
\* those that differ from them in certified bits.
Represented ==
  UNION {{window[i] \union s : s \in IF PrecertActive(config) THEN SUBSET Certified ELSE {{}}} : i \in DOMAIN window}
FinalLevel == IF config.engine = "map1_screen" THEN 0 ELSE LastCap
Final(d)   == CodeAt(FinalLevel, d)
AllFinals  == {Final(d) : d \in Represented}
TotalHits  == MapThenSumSet(LAMBDA t : hits[t], Threads)

\* When the workers have been joined, the search has covered as many data values
\* as asked for and found the final codes of all of them and no other, whatever the threads
\* forgot, dropped and kept twice; a screen has reported at least every passing
\* code, and none if there is none (the caps are "FN-only: ... never a lost
\* distinct", raceway_cap.h; "kept is always >= the exact distinct count",
\* state_dedup.h; PRECERT, WIN_POLICY and TILE_BITS of main).
NothingMissed ==
  AllDone =>
    /\ Cardinality(Represented) = config.window
    /\ UNION {fin[t] : t \in Threads} = AllFinals
    /\ config.engine = "map1_screen" => TotalHits >= Cardinality(AllFinals)
    /\ config.screen => LET passing == {x \in AllFinals : Passing(x)}
                        IN  TotalHits >= Cardinality(passing) /\ (passing = {} => TotalHits = 0)

\* Data values not yet judged, and the data values a thread is bound to carry
\* on with after level l: those of its wave that have passed l, and the one it
\* is writing into a cap.
Unjudged ==
  (IF config.dynamic THEN {window[i] : i \in next .. Eff - 1} ELSE {})
    \union UNION {{window[i] : i \in at[t].d .. at[t].hi - 1} \union {lanes[t][n] : n \in DOMAIN lanes[t]} : t \in Threads}
Passed(t, l) ==
  LET nw == Len(wave[t])
      kept == {wave[t][n] : n \in 1 .. span[t].w}
      rest == {wave[t][n] : n \in span[t].pi + 1 .. nw} \union {out[t][n] : n \in DOMAIN out[t]}
  IN  (IF l <= span[t].level THEN kept ELSE {})
        \union (IF l < span[t].level \/ (l = 0 /\ ~Draining(t)) THEN rest ELSE {})
        \union (IF l <= span[t].level /\ pc[t] \in {"victim", "store", "bump"} /\ look[t].keep THEN {Rep(t)} ELSE {})
Done == UNION {fin[t] : t \in Threads}
HeldFrom(l) == Done \union {Final(e) : e \in UNION {Passed(t, l) : t \in Threads}}

\* At every moment, of every data value judged, and of every fingerprint a cap
\* remembers at a boundary, some thread still carries a code that ends like it
\* past that boundary, or has its final code: a drop never relies on a code that
\* is dropped in its turn (the races SharedCap calls benign).
EveryLossIsHeld ==
  /\ {Final(window[i]) : i \in {j \in DOMAIN window : window[j] \notin Unjudged}} \subseteq HeldFrom(0)
  /\ \A l \in 0 .. Caps :
       LET remembered == {slots[l][s] : s \in 0 .. MaxSlot} \ {0}
           held       == HeldFrom(l)
       IN  remembered \subseteq {FpOf(CodeAt(l, d)) : d \in {window[i] : i \in {j \in DOMAIN window : Final(window[j]) \in held}}}

\* Every thread ends: the ranges run out, and no wave is drained for ever.
WorkersEnd == <>AllDone
=============================================================================
