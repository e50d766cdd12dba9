-------------------------- MODULE CpuRacewayProofs --------------------------
(***************************************************************************)
(* The threads of a CPU search lose no distinct code, for any number of    *)
(* threads, any shape of the caps and waves, any window.  A thread that    *)
(* drops a code relies on an equal one that is carried on: by another      *)
(* thread, later in its own wave, or finished.  What is carried on is firm *)
(* (Firm): it may change hands, but it never stops being carried.          *)
(***************************************************************************)
EXTENDS CpuRaceway, TLAPS, FiniteSetTheorems, SequenceTheorems, WellFoundedInduction

Values == {window[i] : i \in DOMAIN window}
Ends == {Final(d) : d \in Values}
Storing(t) == pc[t] \in {"victim", "store", "bump"}
Judging(t) == pc[t] = "judge" \/ Storing(t)

TypeOK ==
  /\ config \in Configs /\ Runs(config) /\ window = WindowOf(config)
  /\ next \in Nat
  /\ slots \in [0 .. LastCap -> [0 .. MaxSlot -> Nat]]
  /\ victim \in [0 .. LastCap -> [0 .. Buckets - 1 -> 0 .. Ways - 1]]
  /\ pc \in [Threads -> {"pull", "map1", "judge", "victim", "store", "bump", "drain", "done"}]
  /\ at \in [Threads -> [d : Nat, hi : 0 .. Eff]]
  /\ lanes \in [Threads -> Seq(Values)]
  /\ tail \in [Threads -> BOOLEAN]
  /\ wave \in [Threads -> Seq(Values)]
  /\ span \in [Threads -> [level : 0 .. LastCap, pi : Nat, w : Nat]]
  /\ out \in [Threads -> Seq(Values)]
  /\ look \in [Threads -> [second : BOOLEAN, way : 0 .. Ways - 1, puts : Seq(0 .. LastCap),
                           v : 0 .. Ways - 1, keep : BOOLEAN]]
  /\ ending \in [Threads -> BOOLEAN]
  /\ seen \in [Threads -> SUBSET Nat]
  /\ fin \in [Threads -> SUBSET Ends]
  /\ hits \in [Threads -> Nat]

(* Where a thread stands.                                                  *)
PlaceOf(t) ==
  /\ at[t].d <= at[t].hi
  /\ pc[t] \in {"pull", "done"} => at[t].d = at[t].hi
  /\ pc[t] \in {"pull", "map1", "done"} => lanes[t] = << >> /\ ~Draining(t)
  /\ pc[t] = "done" => wave[t] = << >> /\ ending[t]
  /\ ending[t] =>
       /\ at[t].d = at[t].hi /\ lanes[t] = << >> /\ pc[t] \notin {"pull", "map1"}
       /\ config.dynamic => next >= Eff
  /\ Judging(t) => IF Draining(t) THEN out[t] # << >> ELSE lanes[t] # << >>
  /\ ~Judging(t) => out[t] = << >>
  /\ config.engine = "map1_screen" => wave[t] = << >> /\ pc[t] # "drain" /\ ~Draining(t)
  /\ look[t].second => config.engine = "map1_screen"

(* How far it is with its wave.                                            *)
SpanOf(t) ==
  /\ ~Draining(t) => span[t] = NoSpan /\ out[t] = << >>
  /\ Draining(t) =>
       /\ config.cap_on
       /\ span[t].w + Len(out[t]) <= span[t].pi /\ span[t].pi <= Len(wave[t])
  /\ span[t].level = LastCap => pc[t] = "drain" /\ span[t].pi = 0 /\ span[t].w = 0

(* What a cap's fingerprints are fingerprints of.                          *)
LevelOf(c) == IF c = LastCap THEN 0 ELSE c

Places == \A t \in Threads : PlaceOf(t) /\ SpanOf(t)

(* In shadow mode the producer's cap decides nothing, and a code on its    *)
(* way into it may yet be dropped.                                         *)
Shadow == config.engine = "raceway" /\ config.pcap = "shadow"
Pending(t, l) == l <= span[t].level /\ Storing(t) /\ look[t].keep
FirmOf(t, l) ==
  LET nw == Len(wave[t])
      kept == {wave[t][n] : n \in 1 .. span[t].w}
      rest == {wave[t][n] : n \in span[t].pi + 1 .. nw} \union {out[t][n] : n \in DOMAIN out[t]}
  IN  (IF l <= span[t].level THEN kept ELSE {})
        \union (IF l < span[t].level \/ (l = 0 /\ ~Draining(t)) THEN rest ELSE {})
        \union (IF Pending(t, l) /\ (Draining(t) \/ ~Shadow) THEN {Rep(t)} ELSE {})
Firm(l) == Done \union {Final(e) : e \in UNION {FirmOf(t, l) : t \in Threads}}

FpsOf(l, finals) == {FpOf(CodeAt(l, d)) : d \in {e \in Values : Final(e) \in finals}}

(* Nothing judged is lost, nor is what a thread's set or a cap remembers.  *)
JudgedIsFirm == \A d \in Values : d \in Unjudged \/ Final(d) \in Firm(0)
SeenIsFirm == \A t \in Threads : seen[t] \subseteq FpsOf(0, Firm(0))
CapsAreHeld ==
  \A c \in 0 .. LastCap : \A s \in 0 .. MaxSlot :
    slots[c][s] # 0 => slots[c][s] \in FpsOf(LevelOf(c), HeldFrom(LevelOf(c)))

(* What a thread is about to write into a cap.                             *)
StoresRep ==
  \A t \in Threads : Storing(t) =>
    /\ look[t].puts # << >>
    /\ \A n \in DOMAIN look[t].puts : LevelOf(look[t].puts[n]) = span[t].level
    /\ look[t].keep \/ (~Draining(t) /\ ~Shadow /\ Final(Rep(t)) \in Firm(0))

IInv == TypeOK /\ Places /\ JudgedIsFirm /\ SeenIsFirm /\ CapsAreHeld /\ StoresRep

-----------------------------------------------------------------------------
(* Data values and their codes.                                            *)

LEMMA ConfigType ==
  ASSUME TypeOK
  PROVE  /\ config.engine \in {"raceway", "map1_screen"} /\ config.pcap \in {"exact", "production", "shadow"}
         /\ config.cap_on \in BOOLEAN /\ config.routing \in BOOLEAN /\ config.dynamic \in BOOLEAN
         /\ config.screen \in BOOLEAN /\ config.drain \in BOOLEAN
         /\ config.engine = "map1_screen" => ~config.screen
BY ConfigAssumption DEF TypeOK, Config

LEMMA Shape ==
  /\ T \in Nat /\ T > 0 /\ Lanes \in Nat /\ Lanes > 0 /\ DeepLanes \in Nat /\ DeepLanes > 0
  /\ WaveN \in Nat /\ WaveN > 0 /\ Chunk \in Nat /\ Chunk > 0
  /\ Buckets \in Nat /\ Buckets > 0 /\ Ways \in Nat /\ Ways > 0
  /\ Caps \in Nat /\ LastCap \in Nat /\ LastCap = Caps + 1 /\ MaxSlot \in Nat
<1>1. Buckets \in Nat /\ Buckets > 0 /\ Ways \in Nat /\ Ways > 0
  BY ShapeAssumption
<1>2. Buckets * Ways \in Nat /\ Buckets * Ways > 0
  BY <1>1
<1>3. QED
  BY <1>1, <1>2, ShapeAssumption DEF LastCap, MaxSlot

LEMMA WindowType ==
  ASSUME TypeOK
  PROVE  /\ Eff \in Nat /\ Eff = EffOf(config) /\ DOMAIN window = 0 .. Eff - 1
         /\ \A i \in 0 .. Eff - 1 : window[i] \in Values
         /\ Values \subseteq DataOf(config)
<1>1. EffOf(config) \in Nat
  BY WindowAssumption DEF TypeOK
<1>2. DOMAIN window = 0 .. EffOf(config) - 1
  BY DEF TypeOK, WindowOf
<1>3. Eff = EffOf(config)
  BY <1>1, <1>2, FS_Interval DEF Eff
<1>4. ASSUME NEW i \in 0 .. EffOf(config) - 1 PROVE window[i] \in DataOf(config)
  <2>1. window[i] = win_map_data(config, i) \union {}
    BY DEF TypeOK, WindowOf
  <2>2. {} \in IF PrecertActive(config) THEN SUBSET Certified ELSE {{}}
    OBVIOUS
  <2> DEFINE shed == IF PrecertActive(config) THEN SUBSET Certified ELSE {{}}
  <2>3. window[i] \in {win_map_data(config, i) \union s : s \in shed}
    BY <2>1, <2>2
  <2>4. DataOf(config) =
          UNION {{win_map_data(config, j) \union s : s \in shed} : j \in 0 .. EffOf(config) - 1}
    BY DEF DataOf
  <2> HIDE DEF shed
  <2>5. {win_map_data(config, i) \union s : s \in shed} \in
          {{win_map_data(config, j) \union s : s \in shed} : j \in 0 .. EffOf(config) - 1}
    OBVIOUS
  <2>6. QED
    BY <2>3, <2>4, <2>5
<1>5. QED
  BY <1>1, <1>2, <1>3, <1>4 DEF Values

LEMMA Levels ==
  FinalLevel \in 0 .. LastCap
BY Shape DEF FinalLevel

(* Equal codes end equal, and a fingerprint tells codes apart.             *)
LEMMA EqualEnds ==
  ASSUME TypeOK, NEW d \in Values, NEW e \in Values, NEW l \in 0 .. FinalLevel,
         CodeAt(l, d) = CodeAt(l, e)
  PROVE  Final(d) = Final(e)
<1>1. d \in DataOf(config) /\ e \in DataOf(config) /\ config \in Configs /\ Runs(config)
  BY WindowType DEF TypeOK
<1>2. l \in 0 .. Caps + 1 /\ FinalLevel \in 0 .. Caps + 1 /\ l <= FinalLevel
  BY Levels, Shape
<1>3. QED
  BY <1>1, <1>2, CodeAssumption DEF Final

LEMMA FpType ==
  ASSUME TypeOK, NEW d \in Values, NEW l \in 0 .. Caps
  PROVE  FpOf(CodeAt(l, d)) \in Nat \ {0}
<1>1. d \in DataOf(config) /\ config \in Configs /\ Runs(config)
  BY WindowType DEF TypeOK
<1>2. QED
  BY <1>1, FingerprintAssumption DEF FpOf

LEMMA EqualFps ==
  ASSUME TypeOK, NEW d \in Values, NEW l \in 0 .. Caps, l <= FinalLevel, NEW finals,
         FpOf(CodeAt(l, d)) \in FpsOf(l, finals)
  PROVE  Final(d) \in finals
<1>1. PICK e \in Values : Final(e) \in finals /\ FpOf(CodeAt(l, d)) = FpOf(CodeAt(l, e))
  BY DEF FpsOf
<1>2. d \in DataOf(config) /\ e \in DataOf(config) /\ config \in Configs /\ Runs(config)
  BY WindowType DEF TypeOK
<1>3. CodeAt(l, d) = CodeAt(l, e)
  BY <1>1, <1>2, FingerprintAssumption
<1>4. l \in 0 .. FinalLevel
  BY Levels
<1>5. QED
  BY <1>1, <1>3, <1>4, EqualEnds

LEMMA SlotInCap ==
  ASSUME NEW fp \in Nat, NEW way \in 0 .. Ways - 1
  PROVE  SlotOf(fp, way) \in 0 .. MaxSlot /\ fp % Buckets \in 0 .. Buckets - 1
<1> DEFINE b == fp % Buckets
<1>1. b \in 0 .. Buckets - 1
  BY Shape
<1> HIDE DEF b
<1>2. b * Ways \in Nat /\ b * Ways <= (Buckets - 1) * Ways
  BY <1>1, Shape
<1>3. (Buckets - 1) * Ways = Buckets * Ways - Ways /\ Buckets * Ways \in Nat
  BY Shape
<1>4. b * Ways + way \in 0 .. MaxSlot
  BY <1>2, <1>3, Shape DEF MaxSlot
<1>5. QED
  BY <1>1, <1>4 DEF SlotOf, b

-----------------------------------------------------------------------------
(* Types, and whose variables a step changes.                              *)

LocalsOf(t) ==
  <<pc[t], at[t], lanes[t], tail[t], wave[t], span[t], out[t], look[t], ending[t], seen[t], fin[t], hits[t]>>

LEMMA Updated ==
  ASSUME NEW S, NEW f \in [Threads -> S], NEW t \in Threads, NEW x \in S
  PROVE  [f EXCEPT ![t] = x] \in [Threads -> S]
OBVIOUS

LEMMA StreamRepOthers ==
  ASSUME TypeOK, NEW t \in Threads, NEW keep, StreamRep(t, keep), NEW u \in Threads \ {t}
  PROVE  UNCHANGED <<pc[u], lanes[u], wave[u], fin[u], hits[u]>>
<1>1. ASSUME NEW new, wave' = [wave EXCEPT ![t] = new], lanes' = [lanes EXCEPT ![t] = Tail(@)],
             pc' = [pc EXCEPT ![t] = AfterLane(t, new)]
      PROVE  UNCHANGED <<pc[u], lanes[u], wave[u]>>
  BY <1>1 DEF TypeOK
<1>2. UNCHANGED <<pc[u], lanes[u], wave[u]>>
  BY <1>1 DEF StreamRep
<1>3. UNCHANGED <<fin[u], hits[u]>>
  BY DEF StreamRep, TypeOK
<1>4. QED
  BY <1>2, <1>3

LEMMA VerdictOthers ==
  ASSUME TypeOK, NEW t \in Threads, NEW keep, Verdict(t, keep), NEW u \in Threads \ {t}
  PROVE  UNCHANGED <<pc[u], lanes[u], wave[u], span[u], out[u], look[u], seen[u], fin[u], hits[u]>>
<1>1. look'[u] = look[u]
  BY DEF Verdict, TypeOK
<1>2. CASE Draining(t)
  BY <1>1, <1>2 DEF Verdict, TypeOK
<1>3. CASE ~Draining(t)
  <2>1. UNCHANGED <<pc[u], lanes[u], wave[u], fin[u], hits[u]>>
    BY <1>3, StreamRepOthers DEF Verdict
  <2>2. UNCHANGED <<span[u], out[u], seen[u]>>
    BY <1>3 DEF Verdict, Remember, TypeOK
  <2>3. QED
    BY <1>1, <2>1, <2>2
<1>4. QED
  BY <1>2, <1>3

(* The outcomes of a probe: a verdict, a tier to write, another way.       *)
Hit(t) == slots[CapOf(t)][SlotOf(RepFp(t), look[t].way)] = RepFp(t)
Deep == config.engine = "map1_screen" /\ config.drain
WillPut(t, puts, keep) ==
  /\ look' = [look EXCEPT ![t] = [NoLook EXCEPT !.puts = puts, !.keep = keep]]
  /\ pc' = [pc EXCEPT ![t] = "victim"]
  /\ UNCHANGED <<lanes, wave, span, out, seen, fin, hits>>
WillLook(t, second, way) ==
  /\ look' = [look EXCEPT ![t].second = second, ![t].way = way]
  /\ UNCHANGED <<pc, lanes, wave, span, out, seen, fin, hits>>

LEMMA ProbeCases ==
  ASSUME TypeOK, NEW t \in Threads, Probe(t)
  PROVE  /\ Probing(t) /\ UNCHANGED <<config, window, next, slots, victim, at, tail, ending>>
         /\ \/ Hit(t) /\ ~look[t].second /\ Verdict(t, FALSE)
            \/ Hit(t) /\ look[t].second /\ WillPut(t, <<0>>, FALSE)
            \/ Deep /\ WillPut(t, <<0, LastCap>>, TRUE)
            \/ ~Deep /\ WillPut(t, <<span[t].level>>, TRUE)
            \/ look[t].way < Ways - 1 /\ WillLook(t, look[t].second, look[t].way + 1)
            \/ Deep /\ WillLook(t, TRUE, 0)
<1>1. look[t].second \in BOOLEAN /\ look[t].way \in 0 .. Ways - 1 /\ Deep \in BOOLEAN /\ Hit(t) \in BOOLEAN
  BY DEF TypeOK, Deep, Hit
<1>2. ~(look[t].way < Ways - 1) => look[t].way = Ways - 1
  BY <1>1, Shape
<1>3. Probing(t) /\ UNCHANGED <<config, window, next, slots, victim, at, tail, ending>>
  BY DEF Probe
<1> DEFINE last == look[t].way = Ways - 1
           more == look[t].way < Ways - 1
<1>4. (CASE Hit(t) /\ ~look[t].second -> Verdict(t, FALSE)
        [] Hit(t) /\ look[t].second -> WillPut(t, <<0>>, FALSE)
        [] ~Hit(t) /\ more -> WillLook(t, look[t].second, look[t].way + 1)
        [] ~Hit(t) /\ last /\ Deep /\ ~look[t].second -> WillLook(t, TRUE, 0)
        [] ~Hit(t) /\ last /\ (Deep => look[t].second) ->
             WillPut(t, IF Deep THEN <<0, LastCap>> ELSE <<span[t].level>>, TRUE))
  BY DEF Probe, Hit, Deep, WillPut, WillLook
<1>5. more => ~last
  BY <1>1, Shape
<1>6. more \in BOOLEAN /\ last \in BOOLEAN
  OBVIOUS
<1> HIDE DEF last, more
<1>7. CASE Hit(t)
  BY <1>1, <1>3, <1>4, <1>7, Zenon
<1>8. CASE ~Hit(t) /\ more
  <2>1. WillLook(t, look[t].second, look[t].way + 1)
    BY <1>4, <1>5, <1>8, Zenon
  <2>2. QED
    BY <1>3, <1>8, <2>1 DEF more
<1>9. CASE ~Hit(t) /\ last /\ Deep /\ ~look[t].second
  <2>1. WillLook(t, TRUE, 0)
    BY <1>4, <1>5, <1>9, Zenon
  <2>2. QED
    BY <1>3, <1>9, <2>1
<1>10. CASE ~Hit(t) /\ last /\ (Deep => look[t].second)
  <2>1. WillPut(t, IF Deep THEN <<0, LastCap>> ELSE <<span[t].level>>, TRUE)
    BY <1>4, <1>5, <1>10, Zenon
  <2>2. QED
    BY <1>3, <2>1
<1>11. more \/ last
  BY <1>2 DEF more, last
<1>12. QED
  BY <1>1, <1>7, <1>8, <1>9, <1>10, <1>11, Zenon

LEMMA OthersKept ==
  ASSUME TypeOK, NEW t \in Threads, Work(t), NEW u \in Threads \ {t}
  PROVE  UNCHANGED LocalsOf(u)
<1>1. CASE Pull(t)
  <2>1. \E p : pc' = [pc EXCEPT ![t] = p]
    BY <1>1 DEF Pull, Flush
  <2>2. at' = at \/ \E r : at' = [at EXCEPT ![t] = r]
    BY <1>1 DEF Pull
  <2>3. ending' = ending \/ ending' = [ending EXCEPT ![t] = TRUE]
    BY <1>1 DEF Pull, Flush
  <2>4. UNCHANGED <<pc[u], at[u], ending[u]>>
    BY <2>1, <2>2, <2>3 DEF TypeOK
  <2>5. UNCHANGED <<lanes, tail, wave, span, out, look, seen, fin, hits>>
    BY <1>1 DEF Pull
  <2>6. QED
    BY <2>4, <2>5 DEF LocalsOf
<1>2. CASE Map1(t)
  <2>1. \E p : pc' = [pc EXCEPT ![t] = p]
    BY <1>2 DEF Map1
  <2>2. at' = at \/ at' = [at EXCEPT ![t].d = @ + Batch(t)]
    BY <1>2 DEF Map1
  <2>3. lanes' = lanes \/ \E batch : lanes' = [lanes EXCEPT ![t] = batch]
    BY <1>2 DEF Map1
  <2>4. tail' = tail \/ \E b : tail' = [tail EXCEPT ![t] = b]
    BY <1>2 DEF Map1
  <2>5. UNCHANGED <<pc[u], at[u], lanes[u], tail[u]>>
    BY <2>1, <2>2, <2>3, <2>4 DEF TypeOK
  <2>6. UNCHANGED <<wave, span, out, look, ending, seen, fin, hits>>
    BY <1>2 DEF Map1
  <2>7. QED
    BY <2>5, <2>6 DEF LocalsOf
<1>3. CASE Judge(t)
  <2>1. UNCHANGED <<pc[u], lanes[u], wave[u], fin[u], hits[u]>>
    BY <1>3, StreamRepOthers DEF Judge
  <2>2. QED
    BY <1>3, <2>1 DEF TypeOK, Judge, Remember, LocalsOf
<1>4. CASE Probe(t)
  <2>1. UNCHANGED <<at[u], tail[u], ending[u]>>
    BY <1>4 DEF Probe
  <2>2. CASE Verdict(t, FALSE)
    BY <2>1, <2>2, VerdictOthers DEF LocalsOf
  <2>3. CASE \E puts, keep : WillPut(t, puts, keep)
    BY <2>1, <2>3 DEF WillPut, TypeOK, LocalsOf
  <2>4. CASE \E second, way : WillLook(t, second, way)
    BY <2>1, <2>4 DEF WillLook, TypeOK, LocalsOf
  <2>5. QED
    BY <1>4, <2>2, <2>3, <2>4, ProbeCases
<1>5. CASE ReadVictim(t) \/ StoreSlot(t)
  BY <1>5 DEF TypeOK, ReadVictim, StoreSlot, LocalsOf
<1>6. CASE WriteVictim(t)
  <2>1. UNCHANGED <<at[u], tail[u], ending[u]>>
    BY <1>6 DEF WriteVictim
  <2>2. CASE Verdict(t, look[t].keep)
    BY <2>1, <2>2, VerdictOthers DEF LocalsOf
  <2>3. CASE ~Verdict(t, look[t].keep)
    BY <1>6, <2>1, <2>3 DEF WriteVictim, TypeOK, LocalsOf
  <2>4. QED
    BY <2>2, <2>3
<1>7. CASE DrainExact(t) \/ DrainEnd(t)
  <2>1. ASSUME NEW reps, Finals(t, reps) PROVE UNCHANGED <<fin[u], wave[u], span[u], pc[u]>>
    BY <2>1 DEF Finals, TypeOK
  <2>2. \E reps : Finals(t, reps)
    BY <1>7 DEF DrainExact, DrainEnd
  <2>3. ASSUME NEW n, hits' = [hits EXCEPT ![t] = n] PROVE hits'[u] = hits[u]
    BY <2>3 DEF TypeOK
  <2>4. hits'[u] = hits[u]
    BY <1>7, <2>3 DEF DrainExact, DrainEnd
  <2>5. UNCHANGED <<at, lanes, tail, out, look, ending, seen>>
    BY <1>7 DEF DrainExact, DrainEnd
  <2>6. QED
    BY <2>1, <2>2, <2>4, <2>5 DEF LocalsOf
<1>8. CASE DrainBegin(t)
  BY <1>8 DEF TypeOK, DrainBegin, LocalsOf
<1>9. CASE DrainBatch(t)
  <2> DEFINE to == Min({span[t].pi + DeepLanes, Len(wave[t])})
             batch == SubSeq(wave[t], span[t].pi + 1, to)
  <2>1. out' = [out EXCEPT ![t] = batch] /\ span' = [span EXCEPT ![t].pi = to] /\ pc' = [pc EXCEPT ![t] = "judge"]
    BY <1>9 DEF DrainBatch
  <2>2. UNCHANGED <<at, lanes, tail, wave, look, ending, seen, fin, hits>>
    BY <1>9 DEF DrainBatch
  <2> HIDE DEF to, batch
  <2>3. QED
    BY <2>1, <2>2 DEF TypeOK, LocalsOf
<1>10. CASE DrainNext(t)
  BY <1>10 DEF TypeOK, DrainNext, LocalsOf
<1>11. QED
  BY <1>1, <1>2, <1>3, <1>4, <1>5, <1>6, <1>7, <1>8, <1>9, <1>10 DEF Work

LEMMA ConfigKept ==
  ASSUME [Next]_vars
  PROVE  UNCHANGED <<config, window>> /\ Values' = Values /\ Ends' = Ends /\ Eff' = Eff /\ FinalLevel' = FinalLevel
         /\ Shadow' = Shadow /\ \A d : Final(d)' = Final(d)
<1>1. UNCHANGED <<config, window>>
  <2>1. ASSUME NEW t \in Threads, Pull(t) \/ Map1(t) \/ Judge(t) \/ Probe(t) PROVE UNCHANGED <<config, window>>
    BY <2>1 DEF Pull, Map1, Judge, Probe
  <2>2. ASSUME NEW t \in Threads, ReadVictim(t) \/ StoreSlot(t) \/ WriteVictim(t)
        PROVE  UNCHANGED <<config, window>>
    BY <2>2 DEF ReadVictim, StoreSlot, WriteVictim
  <2>3. ASSUME NEW t \in Threads,
               DrainExact(t) \/ DrainBegin(t) \/ DrainBatch(t) \/ DrainNext(t) \/ DrainEnd(t)
        PROVE  UNCHANGED <<config, window>>
    BY <2>3 DEF DrainExact, DrainBegin, DrainBatch, DrainNext, DrainEnd
  <2>4. QED
    BY <2>1, <2>2, <2>3 DEF Next, Joined, vars, Work
<1>2. QED
  BY <1>1 DEF Values, Ends, Eff, FinalLevel, Shadow, Final

(* The code in hand.                                                       *)
LEMMA RepType ==
  ASSUME TypeOK, NEW t \in Threads, PlaceOf(t), Judging(t)
  PROVE  /\ Rep(t) \in Values
         /\ Draining(t) => /\ out[t] # << >> /\ Rep(t) = out[t][1] /\ Tail(out[t]) \in Seq(Values)
                           /\ Len(Tail(out[t])) = Len(out[t]) - 1
                           /\ \A n \in 1 .. Len(out[t]) - 1 : Tail(out[t])[n] = out[t][n + 1]
         /\ ~Draining(t) => /\ lanes[t] # << >> /\ Rep(t) = lanes[t][1] /\ Tail(lanes[t]) \in Seq(Values)
                            /\ Len(Tail(lanes[t])) = Len(lanes[t]) - 1
                            /\ \A n \in 1 .. Len(lanes[t]) - 1 : Tail(lanes[t])[n] = lanes[t][n + 1]
<1>1. out[t] \in Seq(Values) /\ lanes[t] \in Seq(Values)
  BY DEF TypeOK
<1>2. CASE Draining(t)
  BY <1>1, <1>2, HeadTailProperties DEF PlaceOf, Rep
<1>3. CASE ~Draining(t)
  BY <1>1, <1>3, HeadTailProperties DEF PlaceOf, Rep
<1>4. QED
  BY <1>2, <1>3

LEMMA RepFpType ==
  ASSUME TypeOK, NEW t \in Threads, PlaceOf(t), SpanOf(t), Judging(t)
  PROVE  span[t].level \in 0 .. Caps /\ RepFp(t) \in Nat \ {0} /\ span[t].level <= FinalLevel
<1>1. span[t].level \in 0 .. Caps
  <2>1. span[t].level \in 0 .. LastCap /\ span[t].level # LastCap
    BY DEF TypeOK, SpanOf, Judging, Storing
  <2>2. QED
    BY <2>1, Shape
<1>2. Rep(t) \in Values
  BY RepType
<1>5. RepFp(t) \in Nat \ {0}
  <2>1. \A l \in 0 .. Caps, d \in Values : FpOf(CodeAt(l, d)) \in Nat \ {0}
    BY FpType
  <2>2. QED
    BY <1>1, <1>2, <2>1, Zenon DEF RepFp
<1>3. config.engine = "map1_screen" => span[t].level = 0
  BY DEF PlaceOf, Draining, TypeOK
<1>4. QED
  BY <1>1, <1>5, <1>3, Shape DEF FinalLevel

(* A code streamed from map 1 joins the wave, or the capped screen's own.  *)
LEMMA StreamRepEffect ==
  ASSUME TypeOK, NEW t \in Threads, PlaceOf(t), Judging(t), ~Draining(t), NEW keep \in BOOLEAN,
         StreamRep(t, keep)
  PROVE  /\ lanes' = [lanes EXCEPT ![t] = Tail(@)]
         /\ wave'[t] \in Seq(Values) /\ pc'[t] \in {"drain", "judge", "map1"}
         /\ wave'[t] = wave[t] \/ (config.engine = "raceway" /\ keep /\ wave'[t] = Append(wave[t], Rep(t)))
         /\ keep /\ config.engine = "raceway" /\ wave'[t] = wave[t] =>
              \E n \in DOMAIN wave[t] : CodeAt(0, wave[t][n]) = CodeAt(0, Rep(t))
         /\ Len(wave'[t]) = WaveN => pc'[t] = "drain"
         /\ pc'[t] = "drain" => Len(wave'[t]) = WaveN
         /\ pc'[t] = "judge" <=> Len(wave'[t]) # WaveN /\ Len(lanes[t]) > 1
         /\ wave' = [wave EXCEPT ![t] = wave'[t]] /\ pc' = [pc EXCEPT ![t] = pc'[t]]
         /\ IF keep /\ config.engine = "map1_screen"
            THEN fin' = [fin EXCEPT ![t] = @ \union {Final(Rep(t))}] /\ hits' = [hits EXCEPT ![t] = @ + 1]
            ELSE UNCHANGED <<fin, hits>>
<1> DEFINE d == Head(lanes[t])
           grown == IF keep /\ config.engine = "raceway" /\ (config.cap_on \/ ~InWave(t, d))
                    THEN Append(wave[t], d) ELSE wave[t]
<1>1. d = Rep(t) /\ d \in Values /\ wave[t] \in Seq(Values)
  BY RepType DEF Rep, TypeOK
<1>2. /\ wave' = [wave EXCEPT ![t] = grown] /\ lanes' = [lanes EXCEPT ![t] = Tail(@)]
      /\ pc' = [pc EXCEPT ![t] = AfterLane(t, grown)]
  BY DEF StreamRep
<1>3. grown \in Seq(Values) /\ Append(wave[t], d) # wave[t]
  <2>1. Append(wave[t], d) \in Seq(Values) /\ Len(Append(wave[t], d)) = Len(wave[t]) + 1 /\ Len(wave[t]) \in Nat
    BY <1>1, AppendProperties, LenProperties
  <2>2. QED
    BY <1>1, <2>1
<1>4. IF keep /\ config.engine = "map1_screen"
      THEN fin' = [fin EXCEPT ![t] = @ \union {Final(Rep(t))}] /\ hits' = [hits EXCEPT ![t] = @ + 1]
      ELSE UNCHANGED <<fin, hits>>
  BY <1>1 DEF StreamRep, Final, FinalLevel
<1>5. keep /\ config.engine = "raceway" /\ grown = wave[t] => InWave(t, d)
  BY <1>3
<1>6. wave'[t] = grown /\ pc'[t] = AfterLane(t, grown)
  BY <1>2 DEF TypeOK
<1>7. grown = wave[t] \/ (config.engine = "raceway" /\ keep /\ grown = Append(wave[t], d))
  OBVIOUS
<1> HIDE DEF grown, d
<1>8. /\ AfterLane(t, grown) \in {"drain", "judge", "map1"}
      /\ AfterLane(t, grown) = "drain" <=> Len(grown) = WaveN
      /\ AfterLane(t, grown) = "judge" <=> Len(grown) # WaveN /\ Len(lanes[t]) > 1
  BY DEF AfterLane
<1>9. QED
  BY <1>1, <1>2, <1>3, <1>4, <1>5, <1>6, <1>7, <1>8 DEF InWave

(* A verdict on the code in hand.                                          *)
Streams(t, keep) == IF Shadow THEN ~HasSeen(t) ELSE keep

LEMMA VerdictEffect ==
  ASSUME TypeOK, NEW t \in Threads, PlaceOf(t), SpanOf(t), Judging(t), NEW keep \in BOOLEAN, Verdict(t, keep)
  PROVE  /\ look' = [look EXCEPT ![t] = NoLook]
         /\ Draining(t) =>
              /\ UNCHANGED <<lanes, seen, fin, hits>>
              /\ out' = [out EXCEPT ![t] = Tail(@)]
              /\ span[t].w + 1 \in 1 .. Len(wave[t]) /\ span[t].w + Len(out[t]) <= span[t].pi
              /\ IF keep
                 THEN /\ wave' = [wave EXCEPT ![t] = [wave[t] EXCEPT ![span[t].w + 1] = Rep(t)]]
                      /\ span' = [span EXCEPT ![t] = [span[t] EXCEPT !.w = span[t].w + 1]]
                 ELSE UNCHANGED <<wave, span>>
              /\ pc' = [pc EXCEPT ![t] = IF Len(out[t]) > 1 THEN "judge" ELSE "drain"]
         /\ ~Draining(t) =>
              /\ StreamRep(t, Streams(t, keep)) /\ Streams(t, keep) \in BOOLEAN
              /\ seen' = IF Shadow THEN [seen EXCEPT ![t] = @ \union {RepFp(t)}] ELSE seen
              /\ UNCHANGED <<span, out>>
<1>1. look' = [look EXCEPT ![t] = NoLook]
  BY DEF Verdict
<1>2. CASE Draining(t)
  <2>1. /\ out[t] \in Seq(Values) /\ out[t] # << >> /\ Len(out[t]) \in Nat /\ Len(out[t]) > 0
        /\ Len(wave[t]) \in Nat /\ span[t].w \in Nat /\ span[t].pi \in Nat
    BY <1>2, EmptySeq, LenProperties DEF TypeOK, PlaceOf
  <2>2. span[t].w + 1 \in 1 .. Len(wave[t]) /\ span[t].w + Len(out[t]) <= span[t].pi
    BY <1>2, <2>1 DEF SpanOf
  <2>3. QED
    BY <1>1, <1>2, <2>2 DEF Verdict
<1>3. CASE ~Draining(t)
  <2>1. Streams(t, keep) \in BOOLEAN
    BY DEF Streams, HasSeen
  <2>2. span[t].level = 0
    BY <1>3 DEF SpanOf, NoSpan
  <2>3. StreamRep(t, Streams(t, keep)) /\ UNCHANGED <<span, out>>
    BY <1>3 DEF Verdict, Streams, Shadow
  <2>4. seen' = IF Shadow THEN [seen EXCEPT ![t] = @ \union {RepFp(t)}] ELSE seen
    BY <1>3, <2>2 DEF Verdict, Remember, RepFp, Shadow
  <2>5. QED
    BY <1>1, <1>3, <2>1, <2>3, <2>4
<1>4. QED
  BY <1>2, <1>3

LEMMA StreamType ==
  ASSUME TypeOK, NEW t \in Threads, PlaceOf(t), Judging(t), ~Draining(t), NEW keep \in BOOLEAN,
         StreamRep(t, keep), UNCHANGED window, UNCHANGED config
  PROVE  /\ lanes' \in [Threads -> Seq(Values)] /\ wave' \in [Threads -> Seq(Values)]
         /\ pc' \in [Threads -> {"pull", "map1", "judge", "victim", "store", "bump", "drain", "done"}]
         /\ fin' \in [Threads -> SUBSET Ends] /\ hits' \in [Threads -> Nat]
<1>1. Rep(t) \in Values /\ Tail(lanes[t]) \in Seq(Values)
  BY RepType
<1>2. /\ lanes' = [lanes EXCEPT ![t] = Tail(@)]
      /\ wave' = [wave EXCEPT ![t] = wave'[t]] /\ wave'[t] \in Seq(Values)
      /\ pc' = [pc EXCEPT ![t] = pc'[t]] /\ pc'[t] \in {"drain", "judge", "map1"}
      /\ \/ fin' = [fin EXCEPT ![t] = @ \union {Final(Rep(t))}] /\ hits' = [hits EXCEPT ![t] = @ + 1]
         \/ UNCHANGED <<fin, hits>>
  BY StreamRepEffect, Zenon
<1>3. lanes' \in [Threads -> Seq(Values)]
  BY <1>1, <1>2 DEF TypeOK
<1>4. wave' \in [Threads -> Seq(Values)]
  <2> DEFINE new == wave'[t]
  <2>1. wave' = [wave EXCEPT ![t] = new] /\ new \in Seq(Values)
    BY <1>2
  <2> HIDE DEF new
  <2>2. QED
    BY <2>1 DEF TypeOK
<1>5. pc' \in [Threads -> {"pull", "map1", "judge", "victim", "store", "bump", "drain", "done"}]
  <2> DEFINE new == pc'[t]
  <2>1. pc' = [pc EXCEPT ![t] = new] /\ new \in {"drain", "judge", "map1"}
    BY <1>2
  <2> HIDE DEF new
  <2>2. QED
    BY <2>1 DEF TypeOK
<1>6. fin' \in [Threads -> SUBSET Ends] /\ hits' \in [Threads -> Nat]
  <2>1. Final(Rep(t)) \in Ends
    BY <1>1 DEF Ends
  <2>2. \/ fin' = [fin EXCEPT ![t] = @ \union {Final(Rep(t))}] /\ hits' = [hits EXCEPT ![t] = @ + 1]
        \/ UNCHANGED <<fin, hits>>
    BY <1>2
  <2>3. fin \in [Threads -> SUBSET Ends] /\ hits \in [Threads -> Nat]
    BY DEF TypeOK
  <2>4. fin' \in [Threads -> SUBSET Ends]
    BY <2>1, <2>2, <2>3
  <2>5. hits' \in [Threads -> Nat]
    BY <2>2, <2>3
  <2>6. QED
    BY <2>4, <2>5
<1>7. QED
  BY <1>3, <1>4, <1>5, <1>6

LEMMA VerdictType ==
  ASSUME TypeOK, NEW t \in Threads, PlaceOf(t), SpanOf(t), Judging(t), NEW keep \in BOOLEAN,
         Verdict(t, keep), UNCHANGED window, UNCHANGED config
  PROVE  /\ lanes' \in [Threads -> Seq(Values)] /\ wave' \in [Threads -> Seq(Values)]
         /\ pc' \in [Threads -> {"pull", "map1", "judge", "victim", "store", "bump", "drain", "done"}]
         /\ fin' \in [Threads -> SUBSET Ends] /\ hits' \in [Threads -> Nat]
         /\ span' \in [Threads -> [level : 0 .. LastCap, pi : Nat, w : Nat]]
         /\ out' \in [Threads -> Seq(Values)] /\ seen' \in [Threads -> SUBSET Nat]
         /\ look' \in [Threads -> [second : BOOLEAN, way : 0 .. Ways - 1, puts : Seq(0 .. LastCap),
                                   v : 0 .. Ways - 1, keep : BOOLEAN]]
<1>1. look' \in [Threads -> [second : BOOLEAN, way : 0 .. Ways - 1, puts : Seq(0 .. LastCap),
                             v : 0 .. Ways - 1, keep : BOOLEAN]]
  <2>1. look' = [look EXCEPT ![t] = NoLook]
    BY VerdictEffect
  <2>2. NoLook \in [second : BOOLEAN, way : 0 .. Ways - 1, puts : Seq(0 .. LastCap),
                    v : 0 .. Ways - 1, keep : BOOLEAN]
    BY Shape, EmptySeq DEF NoLook
  <2>3. QED
    BY <2>1, <2>2 DEF TypeOK
<1>2. CASE Draining(t)
  <2>1. /\ UNCHANGED <<lanes, seen, fin, hits>> /\ out' = [out EXCEPT ![t] = Tail(@)]
        /\ pc' = [pc EXCEPT ![t] = IF Len(out[t]) > 1 THEN "judge" ELSE "drain"]
        /\ \/ /\ wave' = [wave EXCEPT ![t] = [wave[t] EXCEPT ![span[t].w + 1] = Rep(t)]]
              /\ span' = [span EXCEPT ![t] = [span[t] EXCEPT !.w = span[t].w + 1]]
           \/ UNCHANGED <<wave, span>>
    BY <1>2, VerdictEffect, Zenon
  <2>2. Tail(out[t]) \in Seq(Values) /\ Rep(t) \in Values
    BY <1>2, RepType
  <2>3. [wave[t] EXCEPT ![span[t].w + 1] = Rep(t)] \in Seq(Values)
    <3>1. span[t].w + 1 \in 1 .. Len(wave[t])
      BY <1>2, VerdictEffect, Zenon
    <3>2. wave[t] \in Seq(Values)
      BY DEF TypeOK
    <3>3. QED
      BY <2>2, <3>1, <3>2, ExceptSeq
  <2>4. [span[t] EXCEPT !.w = span[t].w + 1] \in [level : 0 .. LastCap, pi : Nat, w : Nat]
    <3>1. span[t] \in [level : 0 .. LastCap, pi : Nat, w : Nat]
      BY DEF TypeOK
    <3>2. QED
      BY <3>1
  <2>5. wave' \in [Threads -> Seq(Values)]
    BY <2>1, <2>3 DEF TypeOK
  <2>6. span' \in [Threads -> [level : 0 .. LastCap, pi : Nat, w : Nat]]
    <3>1. span \in [Threads -> [level : 0 .. LastCap, pi : Nat, w : Nat]]
      BY DEF TypeOK
    <3>2. [span EXCEPT ![t] = [span[t] EXCEPT !.w = span[t].w + 1]]
            \in [Threads -> [level : 0 .. LastCap, pi : Nat, w : Nat]]
      BY <2>4, <3>1, Updated
    <3>3. QED
      BY <2>1, <3>1, <3>2, Zenon
  <2>7. out' \in [Threads -> Seq(Values)]
    <3> DEFINE rest == Tail(out[t])
    <3>1. out' = [out EXCEPT ![t] = rest] /\ out \in [Threads -> Seq(Values)] /\ rest \in Seq(Values)
      BY <2>1, <2>2 DEF TypeOK
    <3> HIDE DEF rest
    <3>2. QED
      BY <3>1
  <2>8. pc' \in [Threads -> {"pull", "map1", "judge", "victim", "store", "bump", "drain", "done"}]
    <3>1. pc' = [pc EXCEPT ![t] = IF Len(out[t]) > 1 THEN "judge" ELSE "drain"]
      BY <2>1
    <3>2. QED
      BY <3>1 DEF TypeOK
  <2>9. QED
    BY <1>1, <2>1, <2>5, <2>6, <2>7, <2>8 DEF TypeOK
<1>3. CASE ~Draining(t)
  <2>1. /\ StreamRep(t, Streams(t, keep)) /\ Streams(t, keep) \in BOOLEAN
        /\ seen' = IF Shadow THEN [seen EXCEPT ![t] = @ \union {RepFp(t)}] ELSE seen
        /\ UNCHANGED <<span, out>>
    BY <1>3, VerdictEffect, Zenon
  <2>2. RepFp(t) \in Nat
    BY RepFpType
  <2>3. seen' \in [Threads -> SUBSET Nat]
    BY <2>1, <2>2 DEF TypeOK
  <2>4. /\ lanes' \in [Threads -> Seq(Values)] /\ wave' \in [Threads -> Seq(Values)]
        /\ pc' \in [Threads -> {"pull", "map1", "judge", "victim", "store", "bump", "drain", "done"}]
        /\ fin' \in [Threads -> SUBSET Ends] /\ hits' \in [Threads -> Nat]
    BY <1>3, <2>1, StreamType
  <2>5. QED
    BY <1>1, <2>1, <2>3, <2>4 DEF TypeOK
<1>4. QED
  BY <1>2, <1>3

PCs == {"pull", "map1", "judge", "victim", "store", "bump", "drain", "done"}
Ranges == [d : Nat, hi : 0 .. Eff]
Spans == [level : 0 .. LastCap, pi : Nat, w : Nat]
Looks == [second : BOOLEAN, way : 0 .. Ways - 1, puts : Seq(0 .. LastCap), v : 0 .. Ways - 1, keep : BOOLEAN]

LEMMA LocalTypes ==
  ASSUME TypeOK, NEW t \in Threads
  PROVE  /\ pc[t] \in PCs /\ at[t] \in Ranges /\ lanes[t] \in Seq(Values) /\ wave[t] \in Seq(Values)
         /\ span[t] \in Spans /\ out[t] \in Seq(Values) /\ look[t] \in Looks /\ ending[t] \in BOOLEAN
         /\ Len(wave[t]) \in Nat /\ Len(out[t]) \in Nat /\ Len(lanes[t]) \in Nat
         /\ DOMAIN wave[t] = 1 .. Len(wave[t]) /\ DOMAIN out[t] = 1 .. Len(out[t])
         /\ DOMAIN lanes[t] = 1 .. Len(lanes[t])
<1>1. /\ pc[t] \in PCs /\ at[t] \in Ranges /\ lanes[t] \in Seq(Values) /\ wave[t] \in Seq(Values)
      /\ span[t] \in Spans /\ out[t] \in Seq(Values) /\ look[t] \in Looks /\ ending[t] \in BOOLEAN
  BY DEF TypeOK, PCs, Ranges, Spans, Looks
<1>2. QED
  BY <1>1, LenProperties

(* A range taken from the shared counter, or from the thread's own shard.  *)
LEMMA MinIs ==
  ASSUME NEW a \in Int, NEW b \in Int
  PROVE  Min({a, b}) = IF a <= b THEN a ELSE b
<1>1. \A x \in {a, b} : (\A y \in {a, b} : x =< y) <=> x = IF a <= b THEN a ELSE b
  OBVIOUS
<1>2. QED
  BY <1>1 DEF Min

LEMMA PullType ==
  ASSUME TypeOK, NEW t \in Threads, Pull(t)
  PROVE  TypeOK'
<1>1. Eff \in Nat /\ next \in Nat /\ Chunk \in Nat
  BY WindowType, Shape DEF TypeOK
<1>2. Eff' = Eff /\ Values' = Values /\ Ends' = Ends
  BY DEF Pull, Eff, Values, Ends, Final, FinalLevel
<1>3. next' \in Nat
  BY <1>1 DEF Pull
<1>4. at' \in [Threads -> Ranges]
  <2>1. at \in [Threads -> Ranges]
    BY DEF TypeOK, Ranges
  <2>2. next < Eff => [d |-> next, hi |-> Min({next + Chunk, Eff})] \in Ranges
    BY <1>1, MinIs DEF Ranges
  <2>3. QED
    BY <2>1, <2>2 DEF Pull
<1>5. pc' \in [Threads -> PCs] /\ ending' \in [Threads -> BOOLEAN]
  BY DEF Pull, Flush, TypeOK, PCs
<1>6. QED
  BY <1>2, <1>3, <1>4, <1>5 DEF TypeOK, Pull, PCs, Ranges

LEMMA Map1Range ==
  ASSUME TypeOK, NEW t \in Threads, PlaceOf(t), at[t].d # at[t].hi
  PROVE  /\ Batch(t) \in Nat /\ Batch(t) > 0 /\ at[t].d + Batch(t) <= at[t].hi
         /\ \A k \in 1 .. Batch(t) : window[at[t].d + k - 1] \in Values
<1>1. at[t].d \in Nat /\ at[t].hi \in Nat /\ at[t].hi <= Eff /\ at[t].d < at[t].hi /\ Eff \in Nat
  <2>1. at[t] \in Ranges /\ Eff \in Nat
    BY WindowType, LocalTypes
  <2>2. at[t].d <= at[t].hi
    BY DEF PlaceOf
  <2>3. QED
    BY <2>1, <2>2 DEF Ranges
<1>2. Batch(t) \in Nat /\ Batch(t) > 0 /\ at[t].d + Batch(t) <= at[t].hi
  BY <1>1, Shape DEF Batch
<1>3. ASSUME NEW k \in 1 .. Batch(t) PROVE window[at[t].d + k - 1] \in Values
  BY <1>1, <1>2, WindowType, SMTT(30)
<1>4. QED
  BY <1>2, <1>3

LEMMA Map1Type ==
  ASSUME TypeOK, NEW t \in Threads, PlaceOf(t), Map1(t)
  PROVE  TypeOK'
<1>1. Eff' = Eff /\ Values' = Values /\ Ends' = Ends
  BY DEF Map1, Eff, Values, Ends, Final, FinalLevel
<1>2. pc' \in [Threads -> PCs] /\ tail' \in [Threads -> BOOLEAN]
  <2>1. pc' = [pc EXCEPT ![t] = "pull"] \/ pc' = [pc EXCEPT ![t] = "judge"]
    BY DEF Map1
  <2>2. tail' = tail \/ tail' = [tail EXCEPT ![t] = Batch(t) < Lanes]
    BY DEF Map1
  <2>3. (Batch(t) < Lanes) \in BOOLEAN
    OBVIOUS
  <2>4. tail' \in [Threads -> BOOLEAN]
    BY <2>2, <2>3 DEF TypeOK
  <2>5. QED
    BY <2>1, <2>4 DEF TypeOK, PCs
<1>3. CASE at[t].d = at[t].hi
  BY <1>1, <1>2, <1>3 DEF Map1, TypeOK, PCs
<1>4. CASE at[t].d # at[t].hi
  <2>1. at' \in [Threads -> Ranges]
    <3>1. at[t].d \in Nat /\ at[t].hi \in 0 .. Eff /\ Batch(t) \in Nat /\ at \in [Threads -> Ranges]
      BY <1>4, Map1Range DEF TypeOK, Ranges
    <3>2. at' = [at EXCEPT ![t] = [at[t] EXCEPT !.d = at[t].d + Batch(t)]]
      BY <1>4 DEF Map1
    <3>3. [at[t] EXCEPT !.d = at[t].d + Batch(t)] \in Ranges
      <4>1. at[t] \in Ranges
        BY <3>1
      <4>2. QED
        BY <3>1, <4>1 DEF Ranges
    <3>4. QED
      BY <3>1, <3>2, <3>3
  <2>2. lanes' \in [Threads -> Seq(Values)]
    <3> DEFINE batch == [k \in 1 .. Batch(t) |-> window[at[t].d + k - 1]]
    <3>1. batch \in Seq(Values)
      BY <1>4, Map1Range, IsASeq
    <3>2. lanes' = [lanes EXCEPT ![t] = batch]
      BY <1>4 DEF Map1
    <3> HIDE DEF batch
    <3>3. QED
      BY <3>1, <3>2 DEF TypeOK
  <2>3. QED
    BY <1>1, <1>2, <2>1, <2>2 DEF Map1, TypeOK, PCs, Ranges
<1>5. QED
  BY <1>3, <1>4

LEMMA JudgeType ==
  ASSUME TypeOK, NEW t \in Threads, PlaceOf(t), SpanOf(t), Judge(t)
  PROVE  TypeOK'
<1>1. Eff' = Eff /\ Values' = Values /\ Ends' = Ends
  BY DEF Judge, Eff, Values, Ends, Final, FinalLevel
<1>2. PICK keep \in BOOLEAN : StreamRep(t, keep)
  BY DEF Judge, HasSeen
<1>3. ~Draining(t) /\ Judging(t)
  BY DEF Judge, Judging
<1>4. /\ lanes' \in [Threads -> Seq(Values)] /\ wave' \in [Threads -> Seq(Values)]
      /\ pc' \in [Threads -> PCs] /\ fin' \in [Threads -> SUBSET Ends] /\ hits' \in [Threads -> Nat]
  BY <1>2, <1>3, StreamType DEF Judge, PCs
<1>5. seen' \in [Threads -> SUBSET Nat]
  <2>1. FpOf(CodeAt(0, Rep(t))) \in Nat
    BY <1>3, RepFpType DEF RepFp, SpanOf, NoSpan
  <2>2. CASE config.pcap = "production"
    BY <2>2 DEF Judge, TypeOK
  <2>4. CASE config.pcap # "production"
    <3>1. seen' = [seen EXCEPT ![t] = seen[t] \union {FpOf(CodeAt(0, Rep(t)))}]
      BY <2>4 DEF Judge, Remember
    <3>2. QED
      BY <2>1, <3>1 DEF TypeOK
  <2>5. QED
    BY <2>2, <2>4
<1>6. QED
  BY <1>1, <1>4, <1>5 DEF Judge, TypeOK, PCs

LEMMA ProbeType ==
  ASSUME TypeOK, NEW t \in Threads, PlaceOf(t), SpanOf(t), Probe(t)
  PROVE  TypeOK'
<1>1. Eff' = Eff /\ Values' = Values /\ Ends' = Ends
  BY DEF Probe, Eff, Values, Ends, Final, FinalLevel
<1>2. Judging(t) /\ UNCHANGED <<config, window, next, slots, victim, at, tail, ending>>
  BY ProbeCases DEF Probing, Judging
<1>3. CASE Verdict(t, FALSE)
  <2>1. /\ lanes' \in [Threads -> Seq(Values)] /\ wave' \in [Threads -> Seq(Values)]
        /\ pc' \in [Threads -> PCs] /\ fin' \in [Threads -> SUBSET Ends] /\ hits' \in [Threads -> Nat]
        /\ span' \in [Threads -> Spans] /\ out' \in [Threads -> Seq(Values)]
        /\ seen' \in [Threads -> SUBSET Nat] /\ look' \in [Threads -> Looks]
    BY <1>2, <1>3, VerdictType DEF PCs, Spans, Looks
  <2>2. QED
    BY <1>1, <1>2, <2>1 DEF TypeOK, PCs, Spans, Looks
<1>4. CASE \E puts \in Seq(0 .. LastCap), keep \in BOOLEAN : WillPut(t, puts, keep)
  <2>1. PICK puts \in Seq(0 .. LastCap), keep \in BOOLEAN : WillPut(t, puts, keep)
    BY <1>4
  <2>2. [NoLook EXCEPT !.puts = puts, !.keep = keep] \in Looks
    <3>1. NoLook \in Looks
      BY Shape, EmptySeq DEF NoLook, Looks
    <3>2. puts \in Seq(0 .. LastCap) /\ keep \in BOOLEAN
      BY <2>1
    <3>3. QED
      BY <3>1, <3>2 DEF Looks
  <2>3. look' \in [Threads -> Looks] /\ pc' \in [Threads -> PCs]
    BY <2>1, <2>2 DEF WillPut, TypeOK, Looks, PCs
  <2>4. QED
    BY <1>1, <1>2, <2>1, <2>3 DEF WillPut, TypeOK, Looks, PCs
<1>5. CASE \E second \in BOOLEAN, way \in 0 .. Ways - 1 : WillLook(t, second, way)
  <2>1. PICK second \in BOOLEAN, way \in 0 .. Ways - 1 : WillLook(t, second, way)
    BY <1>5
  <2>2. look[t] \in Looks /\ look \in [Threads -> Looks]
    BY DEF TypeOK, Looks
  <2>3. look' = [look EXCEPT ![t] = [look[t] EXCEPT !.second = second, !.way = way]]
    BY <2>1, <2>2 DEF WillLook
  <2>4. [look[t] EXCEPT !.second = second, !.way = way] \in Looks
    BY <2>2 DEF Looks
  <2>5. look' \in [Threads -> Looks]
    BY <2>2, <2>3, <2>4
  <2>6. QED
    BY <1>1, <1>2, <2>1, <2>5 DEF WillLook, TypeOK, Looks
<1>6. QED
  <2>1. span[t].level \in 0 .. LastCap /\ look[t].second \in BOOLEAN /\ look[t].way \in 0 .. Ways - 1
    BY DEF TypeOK
  <2>2. /\ <<0>> \in Seq(0 .. LastCap) /\ <<0, LastCap>> \in Seq(0 .. LastCap)
        /\ <<span[t].level>> \in Seq(0 .. LastCap)
    BY <2>1, Shape
  <2>3. look[t].way < Ways - 1 => look[t].way + 1 \in 0 .. Ways - 1
    BY <2>1, Shape
  <2>4. 0 \in 0 .. Ways - 1
    BY Shape
  <2>5. \/ Verdict(t, FALSE) \/ WillPut(t, <<0>>, FALSE) \/ WillPut(t, <<0, LastCap>>, TRUE)
        \/ WillPut(t, <<span[t].level>>, TRUE)
        \/ look[t].way < Ways - 1 /\ WillLook(t, look[t].second, look[t].way + 1)
        \/ WillLook(t, TRUE, 0)
    BY ProbeCases
  <2>6. QED
    BY <1>3, <1>4, <1>5, <2>1, <2>2, <2>3, <2>4, <2>5, Zenon

-----------------------------------------------------------------------------
(* The merges of an exact drain.                                           *)

LEMMA LeastElement ==
  ASSUME NEW S \in SUBSET Nat, S # {}
  PROVE  \E n \in S : \A k \in 0 .. n - 1 : k \notin S
<1> DEFINE R == OpToRel(<, Nat)
<1>1. IsWellFoundedOn(R, Nat)
  BY NatLessThanWellFounded
<1>2. \A x, y \in Nat : x < y => <<x, y>> \in R
  BY DEF OpToRel
<1> HIDE DEF R
<1>3. PICK n \in S : \A y \in Nat : <<y, n>> \in R => y \notin S
  BY <1>1, WFMin
<1>4. \A k \in 0 .. n - 1 : <<k, n>> \in R
  BY <1>2
<1>5. QED
  BY <1>3, <1>4

Merging(f, n, reps) == f = [l \in 0 .. n |-> IF l = 0 THEN reps ELSE DistinctAt(l, f[l - 1])]

LEMMA MergeExists ==
  ASSUME NEW reps
  PROVE  \A n \in Nat : \E f : Merging(f, n, reps)
<1> DEFINE S == {n \in Nat : ~ \E f : Merging(f, n, reps)}
<1>1. SUFFICES ASSUME S # {} PROVE FALSE
  OBVIOUS
<1>2. PICK n \in S : \A k \in 0 .. n - 1 : k \notin S
  BY <1>1, LeastElement
<1>3. CASE n = 0
  <2>1. Merging([l \in 0 .. 0 |-> reps], 0, reps)
    BY DEF Merging
  <2>2. QED
    BY <1>2, <1>3, <2>1
<1>4. CASE n # 0
  <2>1. n \in Nat /\ n - 1 \in Nat /\ n - 1 \in 0 .. n - 1
    BY <1>2, <1>4
  <2>2. PICK f : Merging(f, n - 1, reps)
    BY <1>2, <2>1
  <2> DEFINE g == [l \in 0 .. n |-> IF l = n THEN DistinctAt(n, f[n - 1]) ELSE f[l]]
  <2>3. f = [l \in 0 .. n - 1 |-> IF l = 0 THEN reps ELSE DistinctAt(l, f[l - 1])]
    BY <2>2 DEF Merging
  <2>4. ASSUME NEW l \in 0 .. n
        PROVE  g[l] = IF l = 0 THEN reps ELSE DistinctAt(l, g[l - 1])
    <3>1. CASE l = n
      BY <2>1, <3>1, <1>4
    <3>2. CASE l # n
      <4>1. l \in 0 .. n - 1 /\ g[l] = f[l]
        BY <2>1, <3>2
      <4>2. f[l] = IF l = 0 THEN reps ELSE DistinctAt(l, f[l - 1])
        BY <2>3, <4>1
      <4>3. l # 0 => g[l - 1] = f[l - 1]
        BY <2>1, <4>1
      <4>4. QED
        BY <4>1, <4>2, <4>3
    <3>3. QED
      BY <3>1, <3>2
  <2>5. g = [l \in 0 .. n |-> g[l]]
    OBVIOUS
  <2> HIDE DEF g
  <2>6. Merging(g, n, reps)
    BY <2>4, <2>5 DEF Merging
  <2>7. QED
    BY <1>2, <2>6
<1>5. QED
  BY <1>3, <1>4

LEMMA DistinctKeeps ==
  ASSUME NEW l, NEW reps
  PROVE  /\ DistinctAt(l, reps) \subseteq reps
         /\ \A d \in reps : \E e \in DistinctAt(l, reps) : CodeAt(l, e) = CodeAt(l, d)
<1>1. ASSUME NEW d \in reps
      PROVE  \E e \in DistinctAt(l, reps) : CodeAt(l, e) = CodeAt(l, d)
  <2> DEFINE e == CHOOSE x \in reps : CodeAt(l, x) = CodeAt(l, d)
  <2>1. e \in reps /\ CodeAt(l, e) = CodeAt(l, d)
    OBVIOUS
  <2>2. e = CHOOSE x \in reps : CodeAt(l, x) = CodeAt(l, e)
    BY <2>1
  <2> HIDE DEF e
  <2>3. e \in DistinctAt(l, reps)
    BY <2>1, <2>2 DEF DistinctAt
  <2>4. QED
    BY <2>1, <2>3
<1>2. QED
  BY <1>1 DEF DistinctAt

LEMMA MergeKeepsCodes ==
  ASSUME TypeOK, NEW reps \in SUBSET Values, NEW f, Merging(f, LastCap, reps)
  PROVE  /\ f[LastCap] \subseteq reps
         /\ {CodeAt(LastCap, d) : d \in f[LastCap]} = {CodeAt(LastCap, d) : d \in reps}
<1> DEFINE Good(l) == /\ f[l] \subseteq reps
                      /\ \A d \in reps : \E e \in f[l] : CodeAt(l, e) = CodeAt(l, d)
           S == {l \in 0 .. LastCap : ~Good(l)}
<1>1. LastCap \in Nat /\ LastCap = Caps + 1
  BY Shape
<1>2. \A l \in 0 .. LastCap : f[l] = IF l = 0 THEN reps ELSE DistinctAt(l, f[l - 1])
  BY DEF Merging
<1>3. S = {}
  <2>1. SUFFICES ASSUME S # {} PROVE FALSE
    OBVIOUS
  <2>2. S \in SUBSET Nat
    BY <1>1
  <2>3. PICK l \in S : \A k \in 0 .. l - 1 : k \notin S
    BY <2>1, <2>2, LeastElement
  <2>4. l \in 0 .. LastCap /\ ~Good(l)
    BY <2>3
  <2>5. CASE l = 0
    BY <1>2, <2>4, <2>5
  <2>6. CASE l # 0
    <3>1. l - 1 \in 0 .. l - 1 /\ l - 1 \in 0 .. LastCap /\ l - 1 <= l
      BY <1>1, <2>4, <2>6
    <3>2. Good(l - 1)
      BY <2>3, <3>1
    <3>3. f[l] = DistinctAt(l, f[l - 1])
      BY <1>2, <2>4, <2>6
    <3>4. f[l] \subseteq reps
      BY <3>2, <3>3, DistinctKeeps
    <3>5. ASSUME NEW d \in reps PROVE \E e \in f[l] : CodeAt(l, e) = CodeAt(l, d)
      <4>1. PICK e \in f[l - 1] : CodeAt(l - 1, e) = CodeAt(l - 1, d)
        BY <3>2
      <4>2. PICK x \in f[l] : CodeAt(l, x) = CodeAt(l, e)
        BY <3>3, DistinctKeeps
      <4>3. d \in DataOf(config) /\ e \in DataOf(config) /\ config \in Configs /\ Runs(config)
        BY <3>2, <4>1, WindowType DEF TypeOK
      <4>4. CodeAt(l, e) = CodeAt(l, d)
        <5>1. l \in 0 .. Caps + 1 /\ l - 1 \in 0 .. Caps + 1
          BY <1>1, <2>4, <3>1
        <5>2. QED
          BY <3>1, <4>1, <4>3, <5>1, CodeAssumption
      <4>5. QED
        BY <4>2, <4>4
    <3>6. QED
      BY <2>4, <3>4, <3>5
  <2>7. QED
    BY <2>5, <2>6
<1>4. Good(LastCap)
  BY <1>1, <1>3
<1>5. QED
  BY <1>4

LEMMA WaveValues ==
  ASSUME TypeOK, NEW t \in Threads
  PROVE  /\ {wave[t][n] : n \in DOMAIN wave[t]} \in SUBSET Values
         /\ IsFiniteSet({wave[t][n] : n \in DOMAIN wave[t]})
<1>1. wave[t] \in Seq(Values) /\ DOMAIN wave[t] = 1 .. Len(wave[t]) /\ Len(wave[t]) \in Nat
  BY LocalTypes
<1>2. \A n \in 1 .. Len(wave[t]) : wave[t][n] \in Values
  BY <1>1, ElementOfSeq
<1>3. IsFiniteSet(1 .. Len(wave[t]))
  BY <1>1, FS_Interval
<1>4. IsFiniteSet({wave[t][n] : n \in 1 .. Len(wave[t])})
  <2> DEFINE S == 1 .. Len(wave[t])
             image == {wave[t][n] : n \in S}
  <2>1. wave[t] \in [S -> Values]
    BY <1>1, SeqDef
  <2>2. wave[t] \in [S -> image] /\ \A y \in image : \E n \in S : wave[t][n] = y
    BY <2>1
  <2>3. IsFiniteSet(S)
    BY <1>3
  <2> HIDE DEF S, image
  <2>4. wave[t] \in Surjection(S, image)
    BY <2>2 DEF Surjection
  <2>5. IsFiniteSet(image)
    BY <2>3, <2>4, FS_Surjection
  <2>6. QED
    BY <2>5 DEF image, S
<1>5. QED
  BY <1>1, <1>2, <1>4

(* What a drain of an exact wave does.                                     *)
LEMMA DrainExactEffect ==
  ASSUME TypeOK, NEW t \in Threads, DrainExact(t)
  PROVE  \E reps \in SUBSET {wave[t][n] : n \in DOMAIN wave[t]} :
           /\ Finals(t, reps)
           /\ hits' = IF config.screen
                      THEN [hits EXCEPT ![t] = @ + Cardinality({d \in reps : Passing(CodeAt(LastCap, d))})]
                      ELSE hits
           /\ {CodeAt(LastCap, d) : d \in reps} = {CodeAt(LastCap, wave[t][n]) : n \in DOMAIN wave[t]}
<1> DEFINE all == {wave[t][n] : n \in DOMAIN wave[t]}
           f == CHOOSE f : f = [l \in 0 .. LastCap |-> IF l = 0 THEN all ELSE DistinctAt(l, f[l - 1])]
<1>1. /\ Finals(t, f[LastCap])
      /\ hits' = IF config.screen
                 THEN [hits EXCEPT ![t] = @ + Cardinality({d \in f[LastCap] : Passing(CodeAt(LastCap, d))})]
                 ELSE hits
  BY DEF DrainExact
<1>2. all \in SUBSET Values
  BY WaveValues
<1>3. {CodeAt(LastCap, d) : d \in all} = {CodeAt(LastCap, wave[t][n]) : n \in DOMAIN wave[t]}
  OBVIOUS
<1>4. \E g : Merging(g, LastCap, all)
  BY MergeExists, Shape
<1> HIDE DEF all
<1>5. f = [l \in 0 .. LastCap |-> IF l = 0 THEN all ELSE DistinctAt(l, f[l - 1])]
  BY <1>4 DEF Merging
<1> HIDE DEF f
<1>6. Merging(f, LastCap, all)
  BY <1>5 DEF Merging
<1>7. f[LastCap] \subseteq all /\ {CodeAt(LastCap, d) : d \in f[LastCap]} = {CodeAt(LastCap, d) : d \in all}
  BY <1>2, <1>6, MergeKeepsCodes
<1>8. QED
  BY <1>1, <1>3, <1>7 DEF all

(* A write into a cap.                                                     *)
LEMMA StoringPlace ==
  ASSUME TypeOK, NEW t \in Threads, PlaceOf(t), SpanOf(t), StoresRep, Storing(t)
  PROVE  /\ Head(look[t].puts) \in 0 .. LastCap /\ LevelOf(Head(look[t].puts)) = span[t].level
         /\ RepFp(t) \in Nat \ {0} /\ look[t].v \in 0 .. Ways - 1
         /\ BucketOf(t) \in 0 .. Buckets - 1 /\ SlotOf(RepFp(t), look[t].v) \in 0 .. MaxSlot
<1>1. RepFp(t) \in Nat \ {0}
  BY RepFpType DEF Judging
<1>2. look[t].v \in 0 .. Ways - 1 /\ look[t].puts \in Seq(0 .. LastCap)
  BY LocalTypes DEF Looks
<1>3. look[t].puts # << >> /\ \A n \in DOMAIN look[t].puts : LevelOf(look[t].puts[n]) = span[t].level
  BY DEF StoresRep
<1>4. ASSUME NEW puts \in Seq(0 .. LastCap), puts # << >>
      PROVE  Head(puts) = puts[1] /\ 1 \in DOMAIN puts /\ puts[1] \in 0 .. LastCap
  <2>1. Len(puts) \in Nat \ {0} /\ DOMAIN puts = 1 .. Len(puts)
    BY <1>4, LenProperties, EmptySeq
  <2>2. 1 \in 1 .. Len(puts)
    BY <2>1
  <2>3. puts[1] \in 0 .. LastCap
    BY <2>2, ElementOfSeq
  <2>4. Head(puts) = puts[1]
    OBVIOUS
  <2>5. QED
    BY <2>1, <2>2, <2>3, <2>4
<1>5. QED
  <2>1. BucketOf(t) \in 0 .. Buckets - 1 /\ SlotOf(RepFp(t), look[t].v) \in 0 .. MaxSlot
    BY <1>1, <1>2, SlotInCap DEF BucketOf
  <2>2. QED
    BY <1>1, <1>2, <1>3, <1>4, <2>1

LEMMA ReadVictimType ==
  ASSUME TypeOK, NEW t \in Threads, PlaceOf(t), SpanOf(t), StoresRep, ReadVictim(t)
  PROVE  TypeOK'
<1>1. Eff' = Eff /\ Values' = Values /\ Ends' = Ends
  BY DEF ReadVictim, Eff, Values, Ends, Final, FinalLevel
<1>2. Head(look[t].puts) \in 0 .. LastCap /\ BucketOf(t) \in 0 .. Buckets - 1
  BY StoringPlace DEF ReadVictim, Storing
<1> DEFINE v == victim[Head(look[t].puts)][BucketOf(t)]
<1>3. v \in 0 .. Ways - 1
  <2>1. victim \in [0 .. LastCap -> [0 .. Buckets - 1 -> 0 .. Ways - 1]]
    BY DEF TypeOK
  <2>2. victim[Head(look[t].puts)] \in [0 .. Buckets - 1 -> 0 .. Ways - 1]
    BY <1>2, <2>1
  <2>3. QED
    BY <1>2, <2>2
<1>4. look' = [look EXCEPT ![t] = [look[t] EXCEPT !.v = v]] /\ pc' = [pc EXCEPT ![t] = "store"]
  BY DEF ReadVictim
<1> HIDE DEF v
<1>5. look[t] \in Looks /\ look \in [Threads -> Looks]
  BY DEF TypeOK, Looks
<1>6. [look[t] EXCEPT !.v = v] \in Looks
  BY <1>3, <1>5 DEF Looks
<1>7. look' \in [Threads -> Looks]
  BY <1>4, <1>5, <1>6
<1>8. pc' \in [Threads -> PCs]
  BY <1>4 DEF TypeOK, PCs
<1>9. QED
  BY <1>1, <1>7, <1>8 DEF ReadVictim, TypeOK, Looks, PCs

LEMMA UpdatedIn ==
  ASSUME NEW A, NEW B, NEW C, NEW f \in [A -> [B -> C]], NEW a \in A, NEW b \in B, NEW c \in C
  PROVE  /\ [f EXCEPT ![a][b] = c] \in [A -> [B -> C]]
         /\ \A x \in A : \A y \in B :
              [f EXCEPT ![a][b] = c][x][y] = IF x = a /\ y = b THEN c ELSE f[x][y]
OBVIOUS

LEMMA StoreSlotType ==
  ASSUME TypeOK, NEW t \in Threads, PlaceOf(t), SpanOf(t), StoresRep, StoreSlot(t)
  PROVE  TypeOK'
<1>1. Eff' = Eff /\ Values' = Values /\ Ends' = Ends
  BY DEF StoreSlot, Eff, Values, Ends, Final, FinalLevel
<1>2. Head(look[t].puts) \in 0 .. LastCap /\ SlotOf(RepFp(t), look[t].v) \in 0 .. MaxSlot /\ RepFp(t) \in Nat
  BY StoringPlace DEF StoreSlot, Storing
<1>3. slots' \in [0 .. LastCap -> [0 .. MaxSlot -> Nat]]
  <2>1. slots \in [0 .. LastCap -> [0 .. MaxSlot -> Nat]]
    BY DEF TypeOK
  <2>2. slots' = [slots EXCEPT ![Head(look[t].puts)][SlotOf(RepFp(t), look[t].v)] = RepFp(t)]
    BY DEF StoreSlot
  <2>3. QED
    BY <1>2, <2>1, <2>2, UpdatedIn
<1>4. pc' \in [Threads -> PCs]
  BY DEF TypeOK, StoreSlot, PCs
<1>5. QED
  BY <1>1, <1>3, <1>4 DEF StoreSlot, TypeOK, PCs

LEMMA WriteVictimType ==
  ASSUME TypeOK, NEW t \in Threads, PlaceOf(t), SpanOf(t), StoresRep, WriteVictim(t)
  PROVE  TypeOK'
<1>1. Eff' = Eff /\ Values' = Values /\ Ends' = Ends
  BY DEF WriteVictim, Eff, Values, Ends, Final, FinalLevel
<1>2. /\ Head(look[t].puts) \in 0 .. LastCap /\ BucketOf(t) \in 0 .. Buckets - 1
      /\ look[t].v \in 0 .. Ways - 1
  BY StoringPlace DEF WriteVictim, Storing
<1>3. victim' \in [0 .. LastCap -> [0 .. Buckets - 1 -> 0 .. Ways - 1]]
  <2> DEFINE v == (look[t].v + 1) % Ways
  <2>1. v \in 0 .. Ways - 1
    BY <1>2, Shape
  <2>2. victim' = [victim EXCEPT ![Head(look[t].puts)][BucketOf(t)] = v]
    BY DEF WriteVictim
  <2>3. victim \in [0 .. LastCap -> [0 .. Buckets - 1 -> 0 .. Ways - 1]]
    BY DEF TypeOK
  <2> HIDE DEF v
  <2>4. QED
    BY <1>2, <2>1, <2>2, <2>3, UpdatedIn
<1>4. UNCHANGED <<config, window, next, slots, at, tail, ending>>
  BY DEF WriteVictim
<1>5. CASE Verdict(t, look[t].keep)
  <2>1. look[t].keep \in BOOLEAN /\ Judging(t)
    BY LocalTypes DEF Looks, WriteVictim, Judging, Storing
  <2>2. /\ lanes' \in [Threads -> Seq(Values)] /\ wave' \in [Threads -> Seq(Values)]
        /\ pc' \in [Threads -> PCs] /\ fin' \in [Threads -> SUBSET Ends] /\ hits' \in [Threads -> Nat]
        /\ span' \in [Threads -> Spans] /\ out' \in [Threads -> Seq(Values)]
        /\ seen' \in [Threads -> SUBSET Nat] /\ look' \in [Threads -> Looks]
    BY <1>4, <1>5, <2>1, VerdictType DEF PCs, Spans, Looks
  <2>3. QED
    BY <1>1, <1>3, <1>4, <2>2 DEF TypeOK, PCs, Spans, Looks
<1>6. CASE ~Verdict(t, look[t].keep)
  <2>1. /\ look' = [look EXCEPT ![t] = [look[t] EXCEPT !.puts = Tail(look[t].puts)]]
        /\ pc' = [pc EXCEPT ![t] = "victim"] /\ UNCHANGED <<lanes, wave, span, out, seen, fin, hits>>
    BY <1>6 DEF WriteVictim
  <2>2. look[t] \in Looks /\ look \in [Threads -> Looks]
    BY DEF TypeOK, Looks
  <2> DEFINE puts == Tail(look[t].puts)
  <2>3. puts \in Seq(0 .. LastCap)
    <3>1. look[t].puts \in Seq(0 .. LastCap) /\ look[t].puts # << >>
      BY <2>2 DEF Looks, StoresRep, WriteVictim, Storing
    <3>2. QED
      BY <3>1, HeadTailProperties
  <2> HIDE DEF puts
  <2>4. [look[t] EXCEPT !.puts = puts] \in Looks
    BY <2>2, <2>3 DEF Looks
  <2>5. look' \in [Threads -> Looks]
    BY <2>1, <2>2, <2>4 DEF puts
  <2>6. pc' \in [Threads -> PCs]
    BY <2>1 DEF TypeOK, PCs
  <2>7. QED
    BY <1>1, <1>3, <1>4, <2>1, <2>5, <2>6 DEF TypeOK, PCs, Looks
<1>7. QED
  BY <1>5, <1>6

LEMMA CountedUp ==
  ASSUME NEW f \in [Threads -> Nat], NEW t \in Threads, NEW c \in Nat
  PROVE  [f EXCEPT ![t] = @ + c] \in [Threads -> Nat]
OBVIOUS

LEMMA ResumeType ==
  ASSUME NEW t \in Threads
  PROVE  Resume(t) \in {"done", "judge", "map1"}
BY DEF Resume

LEMMA FinalsType ==
  ASSUME TypeOK, NEW t \in Threads, NEW reps, Finals(t, reps),
         config.engine = "raceway", {CodeAt(LastCap, d) : d \in reps} \subseteq Ends
  PROVE  /\ fin' \in [Threads -> SUBSET Ends] /\ wave' \in [Threads -> Seq(Values)]
         /\ span' \in [Threads -> Spans] /\ pc' \in [Threads -> PCs]
<1>1. << >> \in Seq(Values) /\ NoSpan \in Spans /\ Resume(t) \in PCs
  BY EmptySeq, Shape, ResumeType DEF NoSpan, Spans, PCs
<1>2. /\ fin \in [Threads -> SUBSET Ends] /\ wave \in [Threads -> Seq(Values)]
      /\ span \in [Threads -> Spans] /\ pc \in [Threads -> PCs]
  BY DEF TypeOK, Spans, PCs
<1> DEFINE more == {CodeAt(LastCap, d) : d \in reps}
<1>3. /\ fin' = [fin EXCEPT ![t] = fin[t] \union more] /\ wave' = [wave EXCEPT ![t] = << >>]
      /\ span' = [span EXCEPT ![t] = NoSpan] /\ pc' = [pc EXCEPT ![t] = Resume(t)]
  BY DEF Finals
<1>4. more \subseteq Ends
  OBVIOUS
<1> HIDE DEF more
<1>5. fin' \in [Threads -> SUBSET Ends]
  BY <1>2, <1>3, <1>4
<1>6. QED
  BY <1>1, <1>2, <1>3, <1>5

LEMMA WaveEnds ==
  ASSUME TypeOK, NEW t \in Threads, config.engine = "raceway"
  PROVE  /\ \A n \in 1 .. Len(wave[t]) : wave[t][n] \in Values /\ CodeAt(LastCap, wave[t][n]) = Final(wave[t][n])
         /\ {CodeAt(LastCap, wave[t][n]) : n \in DOMAIN wave[t]} \subseteq Ends
<1>1. wave[t] \in Seq(Values) /\ DOMAIN wave[t] = 1 .. Len(wave[t])
  BY LocalTypes
<1>2. \A n \in 1 .. Len(wave[t]) : wave[t][n] \in Values
  BY <1>1, ElementOfSeq
<1>3. \A n \in 1 .. Len(wave[t]) : CodeAt(LastCap, wave[t][n]) = Final(wave[t][n])
  BY DEF Final, FinalLevel
<1>4. QED
  BY <1>1, <1>2, <1>3 DEF Ends

LEMMA DrainExactType ==
  ASSUME TypeOK, NEW t \in Threads, PlaceOf(t), DrainExact(t)
  PROVE  TypeOK'
<1>1. Eff' = Eff /\ Values' = Values /\ Ends' = Ends
  BY DEF DrainExact, Eff, Values, Ends, Final, FinalLevel
<1>2. config.engine = "raceway"
  BY ConfigType DEF DrainExact, PlaceOf
<1>3. PICK reps \in SUBSET {wave[t][n] : n \in DOMAIN wave[t]} :
        /\ Finals(t, reps)
        /\ hits' = IF config.screen
                   THEN [hits EXCEPT ![t] = @ + Cardinality({d \in reps : Passing(CodeAt(LastCap, d))})]
                   ELSE hits
        /\ {CodeAt(LastCap, d) : d \in reps} = {CodeAt(LastCap, wave[t][n]) : n \in DOMAIN wave[t]}
  BY DrainExactEffect
<1> DEFINE more == {d \in reps : Passing(CodeAt(LastCap, d))}
<1>4. more \in SUBSET {wave[t][n] : n \in DOMAIN wave[t]}
  BY <1>3
<1>5. Cardinality(more) \in Nat
  BY <1>4, WaveValues, FS_Subset, FS_CardinalityType
<1>6. hits' = hits \/ hits' = [hits EXCEPT ![t] = @ + Cardinality(more)]
  BY <1>3
<1> HIDE DEF more
<1>7. hits' \in [Threads -> Nat]
  <2>1. hits \in [Threads -> Nat]
    BY DEF TypeOK
  <2>2. [hits EXCEPT ![t] = @ + Cardinality(more)] \in [Threads -> Nat]
    BY <1>5, <2>1, CountedUp
  <2>3. QED
    BY <1>6, <2>1, <2>2
<1>8. {CodeAt(LastCap, d) : d \in reps} \subseteq Ends
  BY <1>2, <1>3, WaveEnds
<1>9. /\ fin' \in [Threads -> SUBSET Ends] /\ wave' \in [Threads -> Seq(Values)]
      /\ span' \in [Threads -> Spans] /\ pc' \in [Threads -> PCs]
  BY <1>2, <1>3, <1>8, FinalsType
<1>10. UNCHANGED <<config, window, next, slots, victim, at, lanes, tail, out, look, ending, seen>>
  BY DEF DrainExact
<1>11. QED
  BY <1>1, <1>7, <1>9, <1>10 DEF TypeOK, Spans, PCs

LEMMA DrainEndType ==
  ASSUME TypeOK, NEW t \in Threads, PlaceOf(t), DrainEnd(t)
  PROVE  TypeOK'
<1>1. Eff' = Eff /\ Values' = Values /\ Ends' = Ends
  BY DEF DrainEnd, Eff, Values, Ends, Final, FinalLevel
<1>2. config.engine = "raceway"
  BY ConfigType DEF DrainEnd, PlaceOf
<1> DEFINE more == {n \in DOMAIN wave[t] : Passing(CodeAt(LastCap, wave[t][n]))}
           reps == {wave[t][n] : n \in DOMAIN wave[t]}
<1>3. more \in SUBSET (1 .. Len(wave[t])) /\ Len(wave[t]) \in Nat
  BY LocalTypes
<1>4. Cardinality(more) \in Nat
  <2>1. IsFiniteSet(1 .. Len(wave[t]))
    BY <1>3, FS_Interval
  <2>2. IsFiniteSet(more)
    BY <1>3, <2>1, FS_Subset
  <2>3. QED
    BY <2>2, FS_CardinalityType
<1>5. hits' = hits \/ hits' = [hits EXCEPT ![t] = @ + Cardinality(more)]
  BY DEF DrainEnd
<1>6. Finals(t, reps)
  BY DEF DrainEnd
<1>7. {CodeAt(LastCap, d) : d \in reps} \subseteq Ends
  BY <1>2, WaveEnds
<1> HIDE DEF more, reps
<1>8. hits' \in [Threads -> Nat]
  <2>1. hits \in [Threads -> Nat]
    BY DEF TypeOK
  <2>2. [hits EXCEPT ![t] = @ + Cardinality(more)] \in [Threads -> Nat]
    BY <1>4, <2>1, CountedUp
  <2>3. QED
    BY <1>5, <2>1, <2>2
<1>9. /\ fin' \in [Threads -> SUBSET Ends] /\ wave' \in [Threads -> Seq(Values)]
      /\ span' \in [Threads -> Spans] /\ pc' \in [Threads -> PCs]
  BY <1>2, <1>6, <1>7, FinalsType
<1>10. UNCHANGED <<config, window, next, slots, victim, at, lanes, tail, out, look, ending, seen>>
  BY DEF DrainEnd
<1>11. QED
  BY <1>1, <1>8, <1>9, <1>10 DEF TypeOK, Spans, PCs

LEMMA DrainBeginType ==
  ASSUME TypeOK, NEW t \in Threads, DrainBegin(t)
  PROVE  TypeOK'
<1>1. Eff' = Eff /\ Values' = Values /\ Ends' = Ends
  BY DEF DrainBegin, Eff, Values, Ends, Final, FinalLevel
<1>2. [level |-> 1, pi |-> 0, w |-> 0] \in Spans
  BY Shape DEF Spans
<1>3. span' \in [Threads -> Spans]
  BY <1>2 DEF DrainBegin, TypeOK, Spans
<1>4. QED
  BY <1>1, <1>3 DEF DrainBegin, TypeOK, Spans

(* The batch a drain takes from the wave.                                  *)
LEMMA BatchOut ==
  ASSUME TypeOK, NEW t \in Threads, SpanOf(t), DrainBatch(t)
  PROVE  \E to \in span[t].pi + 1 .. Len(wave[t]) :
           /\ out' = [out EXCEPT ![t] = SubSeq(wave[t], span[t].pi + 1, to)]
           /\ SubSeq(wave[t], span[t].pi + 1, to) \in Seq(Values)
           /\ Len(SubSeq(wave[t], span[t].pi + 1, to)) = to - span[t].pi
           /\ \A n \in 1 .. to - span[t].pi : SubSeq(wave[t], span[t].pi + 1, to)[n] = wave[t][span[t].pi + n]
           /\ span' = [span EXCEPT ![t] = [span[t] EXCEPT !.pi = to]]
           /\ pc' = [pc EXCEPT ![t] = "judge"]
<1> DEFINE to == Min({span[t].pi + DeepLanes, Len(wave[t])})
<1>1. span[t].pi \in Nat /\ Len(wave[t]) \in Nat /\ span[t].pi < Len(wave[t]) /\ wave[t] \in Seq(Values)
  BY LocalTypes DEF DrainBatch, Spans
<1>2. to \in span[t].pi + 1 .. Len(wave[t])
  BY <1>1, Shape, MinIs
<1>3. /\ out' = [out EXCEPT ![t] = SubSeq(wave[t], span[t].pi + 1, to)]
      /\ span' = [span EXCEPT ![t] = [span[t] EXCEPT !.pi = to]]
      /\ pc' = [pc EXCEPT ![t] = "judge"]
  BY DEF DrainBatch
<1> HIDE DEF to
<1>4. ASSUME NEW s \in Seq(Values), NEW a \in Nat, NEW b \in a + 1 .. Len(s)
      PROVE  /\ SubSeq(s, a + 1, b) \in Seq(Values) /\ Len(SubSeq(s, a + 1, b)) = b - a
             /\ \A n \in 1 .. b - a : SubSeq(s, a + 1, b)[n] = s[a + n]
  <2>1. a + 1 \in 1 .. Len(s) + 1 /\ b \in a .. Len(s) /\ Len(s) \in Nat
    BY <1>4, LenProperties
  <2>2. QED
    BY <2>1, SubSeqProperties
<1>5. QED
  BY <1>1, <1>2, <1>3, <1>4

LEMMA DrainBatchType ==
  ASSUME TypeOK, NEW t \in Threads, SpanOf(t), DrainBatch(t)
  PROVE  TypeOK'
<1>1. Eff' = Eff /\ Values' = Values /\ Ends' = Ends
  BY DEF DrainBatch, Eff, Values, Ends, Final, FinalLevel
<1>2. PICK to \in span[t].pi + 1 .. Len(wave[t]) :
        /\ out' = [out EXCEPT ![t] = SubSeq(wave[t], span[t].pi + 1, to)]
        /\ SubSeq(wave[t], span[t].pi + 1, to) \in Seq(Values)
        /\ span' = [span EXCEPT ![t] = [span[t] EXCEPT !.pi = to]]
        /\ pc' = [pc EXCEPT ![t] = "judge"]
  BY BatchOut
<1>3. span[t] \in Spans /\ Len(wave[t]) \in Nat /\ span[t].pi \in Nat
  BY LocalTypes DEF Spans
<1>4. [span[t] EXCEPT !.pi = to] \in Spans
  BY <1>2, <1>3 DEF Spans
<1>5. span' \in [Threads -> Spans]
  BY <1>2, <1>4 DEF TypeOK, Spans
<1>6. out' \in [Threads -> Seq(Values)] /\ pc' \in [Threads -> PCs]
  BY <1>2 DEF TypeOK, PCs
<1>7. UNCHANGED <<config, window, next, slots, victim, at, lanes, tail, wave, look, ending, seen, fin, hits>>
  BY DEF DrainBatch
<1>8. QED
  BY <1>1, <1>5, <1>6, <1>7 DEF TypeOK, Spans, PCs

(* The wave a drain goes on with.                                          *)
LEMMA NextWave ==
  ASSUME TypeOK, NEW t \in Threads, SpanOf(t), DrainNext(t)
  PROVE  /\ wave' = [wave EXCEPT ![t] = SubSeq(wave[t], 1, span[t].w)]
         /\ SubSeq(wave[t], 1, span[t].w) \in Seq(Values)
         /\ Len(SubSeq(wave[t], 1, span[t].w)) = span[t].w
         /\ \A n \in 1 .. span[t].w : SubSeq(wave[t], 1, span[t].w)[n] = wave[t][n]
         /\ span[t].level + 1 \in 0 .. LastCap
         /\ IF span[t].w = 0
            THEN span' = [span EXCEPT ![t] = NoSpan] /\ pc' = [pc EXCEPT ![t] = Resume(t)]
            ELSE span' = [span EXCEPT ![t] = [level |-> span[t].level + 1, pi |-> 0, w |-> 0]] /\ UNCHANGED pc
<1>1. /\ span[t].pi \in Nat /\ span[t].w \in Nat /\ Len(wave[t]) \in Nat /\ Len(out[t]) \in Nat
      /\ wave[t] \in Seq(Values)
  BY LocalTypes DEF Spans
<1>2. span[t].level \in 1 .. Caps /\ span[t].pi = Len(wave[t])
  BY DEF DrainNext
<1>3. span[t].w <= Len(wave[t])
  <2>1. Draining(t)
    BY <1>2, Shape DEF Draining
  <2>2. QED
    BY <1>1, <1>2, <2>1 DEF SpanOf
<1>4. ASSUME NEW s \in Seq(Values), NEW b \in 0 .. Len(s)
      PROVE  /\ SubSeq(s, 1, b) \in Seq(Values) /\ Len(SubSeq(s, 1, b)) = b
             /\ \A n \in 1 .. b : SubSeq(s, 1, b)[n] = s[n]
  <2>1. 1 \in 1 .. Len(s) + 1 /\ b \in 1 - 1 .. Len(s) /\ Len(s) \in Nat
    BY <1>4, LenProperties
  <2>2. QED
    BY <2>1, SubSeqProperties
<1>5. span[t].level + 1 \in 0 .. LastCap
  BY <1>2, Shape
<1>6. /\ wave' = [wave EXCEPT ![t] = SubSeq(wave[t], 1, span[t].w)]
      /\ IF span[t].w = 0
         THEN span' = [span EXCEPT ![t] = NoSpan] /\ pc' = [pc EXCEPT ![t] = Resume(t)]
         ELSE span' = [span EXCEPT ![t] = [level |-> span[t].level + 1, pi |-> 0, w |-> 0]] /\ UNCHANGED pc
  BY DEF DrainNext
<1>7. QED
  BY <1>1, <1>3, <1>4, <1>5, <1>6

LEMMA DrainNextType ==
  ASSUME TypeOK, NEW t \in Threads, SpanOf(t), DrainNext(t)
  PROVE  TypeOK'
<1>1. Eff' = Eff /\ Values' = Values /\ Ends' = Ends
  BY DEF DrainNext, Eff, Values, Ends, Final, FinalLevel
<1> DEFINE kept == SubSeq(wave[t], 1, span[t].w)
           further == [level |-> span[t].level + 1, pi |-> 0, w |-> 0]
<1>2. /\ wave' = [wave EXCEPT ![t] = kept] /\ kept \in Seq(Values) /\ span[t].level + 1 \in 0 .. LastCap
      /\ IF span[t].w = 0
         THEN span' = [span EXCEPT ![t] = NoSpan] /\ pc' = [pc EXCEPT ![t] = Resume(t)]
         ELSE span' = [span EXCEPT ![t] = further] /\ UNCHANGED pc
  BY NextWave
<1>3. NoSpan \in Spans /\ further \in Spans
  BY <1>2, Shape DEF Spans, NoSpan
<1> HIDE DEF kept, further
<1>4. wave' \in [Threads -> Seq(Values)]
  <2>1. wave' = [wave EXCEPT ![t] = kept] /\ kept \in Seq(Values)
    BY <1>2
  <2>2. QED
    BY <2>1, Updated DEF TypeOK
<1>5. span' \in [Threads -> Spans]
  <2>1. span' = [span EXCEPT ![t] = NoSpan] \/ span' = [span EXCEPT ![t] = further]
    BY <1>2
  <2>2. span \in [Threads -> Spans]
    BY DEF TypeOK, Spans
  <2>3. QED
    BY <1>3, <2>1, <2>2, Updated
<1>6. Resume(t) \in PCs
  BY ResumeType DEF PCs
<1>7. pc' \in [Threads -> PCs]
  BY <1>2, <1>6 DEF TypeOK, PCs
<1>8. UNCHANGED <<config, window, next, slots, victim, at, lanes, tail, out, look, ending, seen, fin, hits>>
  BY DEF DrainNext
<1>9. QED
  BY <1>1, <1>4, <1>5, <1>7, <1>8 DEF TypeOK, Spans, PCs

LEMMA TypeStep ==
  ASSUME TypeOK, Places, StoresRep, [Next]_vars
  PROVE  TypeOK'
<1>1. ASSUME NEW t \in Threads, Work(t) PROVE TypeOK'
  <2>1. PlaceOf(t) /\ SpanOf(t)
    BY DEF Places
  <2>2. QED
    BY <1>1, <2>1, PullType, Map1Type, JudgeType, ProbeType, ReadVictimType, StoreSlotType, WriteVictimType,
       DrainExactType, DrainBeginType, DrainBatchType, DrainNextType, DrainEndType DEF Work
<1>2. CASE UNCHANGED vars
  <2>1. Eff' = Eff /\ Values' = Values /\ Ends' = Ends
    BY <1>2 DEF vars, Eff, Values, Ends, Final, FinalLevel
  <2>2. QED
    BY <1>2, <2>1 DEF vars, TypeOK
<1>3. QED
  BY <1>1, <1>2 DEF Next, Joined

-----------------------------------------------------------------------------
(* The static shards cover the window.                                     *)

LEMMA Quotient ==
  ASSUME NEW a \in Nat, NEW b \in Nat, b > 0
  PROVE  /\ a \div b \in Nat
         /\ \A c \in Nat : (a < c * b => a \div b < c) /\ (c * b <= a => c <= a \div b)
<1> DEFINE q == a \div b
           r == a % b
<1>1. q \in Int /\ r \in 0 .. b - 1 /\ a = b * q + r
  OBVIOUS
<1> HIDE DEF q, r
<1>2. q >= 0
  <2>1. SUFFICES ASSUME q < 0 PROVE FALSE
    BY <1>1
  <2>2. b * q <= b * (0 - 1)
    BY <1>1, <2>1
  <2>3. QED
    BY <1>1, <2>2
<1>3. ASSUME NEW c \in Nat, a < c * b PROVE q < c
  <2>1. SUFFICES ASSUME c <= q PROVE FALSE
    BY <1>1
  <2>2. c * b <= b * q
    BY <1>1, <2>1
  <2>3. c * b \in Nat /\ b * q \in Int
    BY <1>1
  <2>4. QED
    BY <1>1, <1>3, <2>2, <2>3
<1>4. ASSUME NEW c \in Nat, c * b <= a PROVE c <= q
  <2>1. SUFFICES ASSUME q + 1 <= c PROVE FALSE
    BY <1>1
  <2>2. b * (q + 1) <= c * b
    BY <1>1, <2>1
  <2>3. b * (q + 1) = b * q + b /\ b * q \in Int /\ c * b \in Nat
    BY <1>1
  <2>4. QED
    BY <1>1, <1>4, <2>2, <2>3
<1>5. QED
  BY <1>1, <1>2, <1>3, <1>4 DEF q

LEMMA Shards ==
  ASSUME NEW n \in Nat
  PROVE  /\ \A t \in Threads : /\ (n * t) \div T \in Nat /\ (n * (t + 1)) \div T \in 0 .. n
                               /\ (n * t) \div T <= (n * (t + 1)) \div T
         /\ \A i \in 0 .. n - 1 : \E t \in Threads : i \in (n * t) \div T .. (n * (t + 1)) \div T - 1
<1>1. T \in Nat /\ T > 0 /\ Threads = 0 .. T - 1
  BY Shape DEF Threads
<1>2. ASSUME NEW t \in Threads
      PROVE  /\ (n * t) \div T \in Nat /\ (n * (t + 1)) \div T \in 0 .. n
             /\ (n * t) \div T <= (n * (t + 1)) \div T
  <2>1. t \in Nat /\ t + 1 <= T
    BY <1>1
  <2>2. n * t \in Nat /\ n * (t + 1) \in Nat /\ n * (t + 1) = n * t + n
    BY <2>1
  <2>3. (n * t) \div T \in Nat /\ (n * (t + 1)) \div T \in Nat
    BY <1>1, <2>2, Quotient
  <2>4. n * (t + 1) <= n * T
    BY <1>1, <2>1
  <2>5. n * (t + 1) < (n + 1) * T
    <3>1. (n + 1) * T = n * T + T /\ n * T \in Nat
      BY <1>1
    <3>2. QED
      BY <1>1, <2>2, <2>4, <3>1
  <2>6. (n * (t + 1)) \div T < n + 1
    BY <1>1, <2>2, <2>5, Quotient
  <2>7. (n * t) \div T <= (n * (t + 1)) \div T
    <3> DEFINE q == (n * t) \div T
    <3>1. q * T <= n * t
      <4>1. SUFFICES ASSUME n * t < q * T PROVE FALSE
        <5>1. q * T \in Nat
          BY <1>1, <2>3
        <5>2. QED
          BY <2>2, <5>1
      <4>2. q < q
        BY <1>1, <2>2, <2>3, <4>1, Quotient
      <4>3. QED
        BY <2>3, <4>2
    <3>2. q * T <= n * (t + 1)
      <4>1. q * T \in Nat
        BY <1>1, <2>3
      <4>2. QED
        BY <2>2, <3>1, <4>1
    <3>3. QED
      BY <1>1, <2>2, <2>3, <3>2, Quotient
  <2>8. QED
    BY <2>3, <2>6, <2>7
<1>3. ASSUME NEW i \in 0 .. n - 1
      PROVE  \E t \in Threads : i \in (n * t) \div T .. (n * (t + 1)) \div T - 1
  <2> DEFINE a == (i + 1) * T - 1
             t == a \div n
  <2>1. i \in Nat /\ n > 0 /\ (i + 1) * T = i * T + T /\ i * T \in Nat
    BY <1>1
  <2>2. a \in Nat /\ a + 1 = (i + 1) * T /\ a + 1 <= n * T /\ n * T \in Nat
    <3>1. (i + 1) * T <= n * T /\ n * T \in Nat
      BY <1>1, <2>1
    <3>2. QED
      BY <1>1, <2>1, <3>1
  <2> HIDE DEF a
  <2>3. t \in Nat
    BY <2>1, <2>2, Quotient
  <2>4. t < T
    <3>1. a < T * n
      BY <1>1, <2>1, <2>2
    <3>2. QED
      BY <1>1, <2>1, <2>2, <3>1, Quotient
  <2>5. t * n <= a
    <3>1. SUFFICES ASSUME a < t * n PROVE FALSE
      <4>1. t * n \in Nat
        BY <2>3
      <4>2. QED
        BY <2>2, <4>1
    <3>2. t < t
      BY <2>1, <2>2, <2>3, <3>1, Quotient
    <3>3. QED
      BY <2>3, <3>2
  <2>6. a < (t + 1) * n
    <3>1. SUFFICES ASSUME (t + 1) * n <= a PROVE FALSE
      <4>1. (t + 1) * n \in Nat
        BY <2>3
      <4>2. QED
        BY <2>2, <4>1
    <3>2. t + 1 <= t
      BY <2>1, <2>2, <2>3, <3>1, Quotient
    <3>3. QED
      BY <2>3, <3>2
  <2> HIDE DEF t
  <2>7. n * t \in Nat /\ n * (t + 1) \in Nat /\ n * t = t * n /\ n * (t + 1) = (t + 1) * n
    BY <2>3
  <2>8. (n * t) \div T < i + 1
    <3>1. n * t < (i + 1) * T
      BY <2>2, <2>5, <2>7
    <3>2. QED
      BY <1>1, <2>1, <2>7, <3>1, Quotient
  <2>9. i + 1 <= (n * (t + 1)) \div T
    <3>1. (i + 1) * T <= n * (t + 1)
      BY <2>2, <2>6, <2>7
    <3>2. QED
      BY <1>1, <2>1, <2>7, <3>1, Quotient
  <2>10. t \in Threads
    BY <1>1, <2>3, <2>4
  <2>11. (n * t) \div T \in Nat /\ (n * (t + 1)) \div T \in Nat
    BY <1>2, <2>10
  <2>12. i \in (n * t) \div T .. (n * (t + 1)) \div T - 1
    BY <2>1, <2>8, <2>9, <2>11
  <2>13. QED
    BY <2>10, <2>12
<1>4. QED
  BY <1>2, <1>3

LEMMA InitType ==
  ASSUME Init
  PROVE  TypeOK
<1>1. config \in Configs /\ Runs(config) /\ window = WindowOf(config)
  BY DEF Init
<1>2. EffOf(config) \in Nat /\ DOMAIN window = 0 .. EffOf(config) - 1
  BY <1>1, WindowAssumption DEF WindowOf
<1>3. Eff \in Nat
  BY <1>2, FS_Interval DEF Eff
<1>4. next \in Nat /\ pc \in [Threads -> PCs] /\ tail \in [Threads -> BOOLEAN] /\ ending \in [Threads -> BOOLEAN]
  BY DEF Init, PCs
<1>5. /\ slots \in [0 .. LastCap -> [0 .. MaxSlot -> Nat]]
      /\ victim \in [0 .. LastCap -> [0 .. Buckets - 1 -> 0 .. Ways - 1]]
  BY Shape DEF Init
<1>6. at \in [Threads -> Ranges]
  <2>1. CASE config.dynamic
    <3>1. [d |-> 0, hi |-> 0] \in Ranges
      BY <1>3 DEF Ranges
    <3>2. at = [t \in Threads |-> [d |-> 0, hi |-> 0]]
      BY <2>1 DEF Init
    <3>3. QED
      BY <3>1, <3>2
  <2>2. CASE ~config.dynamic
    <3>1. ASSUME NEW t \in Threads
          PROVE  [d |-> (Eff * t) \div T, hi |-> (Eff * (t + 1)) \div T] \in Ranges
      BY <1>3, Shards DEF Ranges
    <3>2. at = [t \in Threads |-> [d |-> (Eff * t) \div T, hi |-> (Eff * (t + 1)) \div T]]
      BY <2>2 DEF Init
    <3>3. QED
      BY <3>1, <3>2
  <2>3. QED
    BY <2>1, <2>2
<1>7. lanes \in [Threads -> Seq(Values)] /\ wave \in [Threads -> Seq(Values)] /\ out \in [Threads -> Seq(Values)]
  BY EmptySeq DEF Init
<1>8. span \in [Threads -> Spans]
  BY Shape DEF Init, NoSpan, Spans
<1>9. look \in [Threads -> Looks]
  <2>1. NoLook \in Looks
    BY Shape, EmptySeq DEF NoLook, Looks
  <2>2. QED
    BY <2>1 DEF Init
<1>10. seen \in [Threads -> SUBSET Nat] /\ fin \in [Threads -> SUBSET Ends] /\ hits \in [Threads -> Nat]
  BY DEF Init
<1>11. QED
  BY <1>1, <1>4, <1>5, <1>6, <1>7, <1>8, <1>9, <1>10 DEF TypeOK, PCs, Ranges, Spans, Looks

LEMMA InitHolds ==
  ASSUME Init
  PROVE  IInv
<1>1. TypeOK
  BY InitType
<1>2. Eff \in Nat /\ DOMAIN window = 0 .. Eff - 1
  BY <1>1, WindowType
<1>3. ASSUME NEW t \in Threads PROVE PlaceOf(t) /\ SpanOf(t)
  <2>1. at[t].d <= at[t].hi /\ (pc[t] = "pull" => at[t].d = at[t].hi) /\ pc[t] \in {"pull", "map1"}
    <3>1. CASE config.dynamic
      BY <3>1 DEF Init
    <3>2. CASE ~config.dynamic
      BY <1>2, <3>2, Shards DEF Init
    <3>3. QED
      BY <3>1, <3>2
  <2>2. /\ lanes[t] = << >> /\ wave[t] = << >> /\ out[t] = << >> /\ span[t] = NoSpan /\ ~Draining(t)
        /\ ending[t] = FALSE /\ look[t].second = FALSE
    BY DEF Init, Draining, NoSpan, NoLook
  <2>3. span[t].level # LastCap
    BY <2>2, Shape DEF NoSpan
  <2>4. QED
    BY <2>1, <2>2, <2>3 DEF PlaceOf, SpanOf, Judging, Storing
<1>4. ASSUME NEW d \in Values PROVE d \in Unjudged
  <2>1. PICK i \in 0 .. Eff - 1 : d = window[i]
    BY <1>2 DEF Values
  <2>2. CASE config.dynamic
    <3>1. i \in next .. Eff - 1
      BY <2>1 DEF Init
    <3>2. QED
      BY <2>1, <2>2, <3>1 DEF Unjudged
  <2>3. CASE ~config.dynamic
    <3>1. PICK t \in Threads : i \in (Eff * t) \div T .. (Eff * (t + 1)) \div T - 1
      BY <1>2, <2>1, Shards
    <3>2. i \in at[t].d .. at[t].hi - 1
      BY <2>3, <3>1 DEF Init
    <3>3. QED
      BY <2>1, <3>2 DEF Unjudged
  <2>4. QED
    BY <2>2, <2>3
<1>5. SeenIsFirm /\ CapsAreHeld
  BY DEF Init, SeenIsFirm, CapsAreHeld
<1>6. StoresRep
  BY DEF Init, StoresRep, Storing
<1>7. QED
  BY <1>1, <1>3, <1>4, <1>5, <1>6 DEF IInv, Places, JudgedIsFirm

-----------------------------------------------------------------------------
(* Where a thread goes.                                                    *)

LEMMA EmptyIs ==
  ASSUME NEW S, NEW s \in Seq(S)
  PROVE  (s = << >> <=> Len(s) = 0) /\ Len(s) \in Nat
<1>1. s # << >> => Len(s) \in Nat \ {0}
  BY EmptySeq
<1>2. s = << >> => Len(s) = 0
  OBVIOUS
<1>3. QED
  BY <1>1, <1>2

LEMMA NextGrows ==
  ASSUME TypeOK, NEW t \in Threads, Work(t)
  PROVE  next' \in Nat /\ next' >= next
<1>1. next' = next \/ next' = next + Chunk
  BY DEF Work, Pull, Map1, Judge, Probe, ReadVictim, StoreSlot, WriteVictim,
     DrainExact, DrainBegin, DrainBatch, DrainNext, DrainEnd
<1>2. next \in Nat /\ Chunk \in Nat
  BY Shape DEF TypeOK
<1>3. QED
  BY <1>1, <1>2

LEMMA PlaceOthers ==
  ASSUME TypeOK, Places, NEW t \in Threads, Work(t), NEW u \in Threads \ {t}
  PROVE  PlaceOf(u)' /\ SpanOf(u)'
<1>1. UNCHANGED LocalsOf(u)
  BY OthersKept
<1>2. config' = config /\ Eff' = Eff
  BY ConfigKept DEF Next
<1>3. next' \in Nat /\ next' >= next /\ next \in Nat /\ Eff \in Nat
  BY NextGrows, WindowType DEF TypeOK
<1>4. PlaceOf(u) /\ SpanOf(u)
  BY DEF Places
<1>5. (Draining(u)' <=> Draining(u)) /\ (Judging(u)' <=> Judging(u))
  BY <1>1 DEF Draining, Judging, Storing, LocalsOf
<1>6. PlaceOf(u)'
  BY <1>1, <1>2, <1>3, <1>4, <1>5 DEF PlaceOf, LocalsOf
<1>7. SpanOf(u)'
  BY <1>1, <1>2, <1>4, <1>5 DEF SpanOf, LocalsOf
<1>8. QED
  BY <1>6, <1>7

LEMMA PullPlace ==
  ASSUME TypeOK, NEW t \in Threads, PlaceOf(t), SpanOf(t), Pull(t)
  PROVE  PlaceOf(t)' /\ SpanOf(t)'
<1>1. /\ UNCHANGED <<config, lanes[t], wave[t], span[t], out[t], look[t]>> /\ Eff' = Eff
      /\ lanes[t] = << >> /\ ~Draining(t) /\ out[t] = << >> /\ span[t] = NoSpan
  BY DEF Pull, PlaceOf, SpanOf, Eff
<1>2. ~Draining(t)'
  BY <1>1 DEF Draining
<1>3. span'[t].level # LastCap
  BY <1>1, Shape DEF NoSpan
<1>4. at[t].d = at[t].hi /\ at[t].d \in Nat /\ next \in Nat /\ Eff \in Nat
  BY WindowType DEF Pull, PlaceOf, TypeOK
<1>5. CASE config.dynamic /\ next < Eff
  <2>1. at'[t] = [d |-> next, hi |-> Min({next + Chunk, Eff})] /\ pc'[t] = "map1" /\ ending'[t] = ending[t]
    BY <1>5 DEF Pull, TypeOK
  <2>2. at'[t].d <= at'[t].hi
    BY <1>4, <1>5, <2>1, MinIs, Shape
  <2>3. ~ending[t]
    BY DEF Pull, PlaceOf
  <2>4. QED
    BY <1>1, <1>2, <1>3, <2>1, <2>2, <2>3 DEF PlaceOf, SpanOf, Judging, Storing
<1>6. CASE ~(config.dynamic /\ next < Eff)
  <2>1. /\ at'[t] = at[t] /\ ending'[t] = TRUE /\ pc'[t] = IF wave[t] = << >> THEN "done" ELSE "drain"
        /\ next' = IF config.dynamic THEN next + Chunk ELSE next
    BY <1>6 DEF Pull, Flush, TypeOK
  <2>2. config.dynamic => next' >= Eff
    BY <1>4, <1>6, <2>1, Shape
  <2>3. config.engine = "map1_screen" => wave[t] = << >>
    BY DEF PlaceOf
  <2>4. look[t].second => config.engine = "map1_screen"
    BY DEF PlaceOf
  <2>5. QED
    BY <1>1, <1>2, <1>3, <1>4, <2>1, <2>2, <2>3, <2>4 DEF PlaceOf, SpanOf, Judging, Storing
<1>7. QED
  BY <1>5, <1>6

LEMMA Map1Place ==
  ASSUME TypeOK, NEW t \in Threads, PlaceOf(t), SpanOf(t), Map1(t)
  PROVE  PlaceOf(t)' /\ SpanOf(t)'
<1>1. /\ UNCHANGED <<config, next, wave[t], span[t], out[t], look[t], ending[t]>> /\ Eff' = Eff
      /\ lanes[t] = << >> /\ ~Draining(t) /\ out[t] = << >> /\ span[t] = NoSpan /\ ~ending[t]
  BY DEF Map1, PlaceOf, SpanOf, Eff
<1>2. ~Draining(t)'
  BY <1>1 DEF Draining
<1>3. span'[t].level # LastCap
  BY <1>1, Shape DEF NoSpan
<1>4. /\ config.engine = "map1_screen" => wave[t] = << >>
      /\ look[t].second => config.engine = "map1_screen"
      /\ at[t].d <= at[t].hi
  BY DEF PlaceOf
<1>5. CASE at[t].d = at[t].hi
  <2>1. at'[t] = at[t] /\ pc'[t] = "pull" /\ lanes'[t] = lanes[t]
    BY <1>5 DEF Map1, TypeOK
  <2>2. QED
    BY <1>1, <1>2, <1>3, <1>4, <1>5, <2>1 DEF PlaceOf, SpanOf, Judging, Storing
<1>6. CASE at[t].d # at[t].hi
  <2>1. /\ lanes'[t] = [k \in 1 .. Batch(t) |-> window[at[t].d + k - 1]]
        /\ at'[t].d = at[t].d + Batch(t) /\ at'[t].hi = at[t].hi /\ pc'[t] = "judge"
    BY <1>6 DEF Map1, TypeOK
  <2>2. Batch(t) \in Nat /\ Batch(t) > 0 /\ at[t].d + Batch(t) <= at[t].hi
    BY <1>6, Map1Range
  <2>3. lanes'[t] # << >>
    <3>1. DOMAIN lanes'[t] = 1 .. Batch(t)
      BY <2>1
    <3>2. 1 \in DOMAIN lanes'[t]
      BY <2>2, <3>1
    <3>3. DOMAIN << >> = {}
      OBVIOUS
    <3>4. QED
      BY <3>2, <3>3
  <2>4. QED
    BY <1>1, <1>2, <1>3, <1>4, <2>1, <2>2, <2>3 DEF PlaceOf, SpanOf, Judging, Storing
<1>7. QED
  BY <1>5, <1>6

LEMMA StreamPlace ==
  ASSUME TypeOK, NEW t \in Threads, PlaceOf(t), SpanOf(t), Judging(t), ~Draining(t), NEW keep \in BOOLEAN,
         StreamRep(t, keep), UNCHANGED <<config, next, at[t], span[t], out[t], ending[t]>>, Eff' = Eff,
         look'[t].second => config.engine = "map1_screen"
  PROVE  PlaceOf(t)' /\ SpanOf(t)'
<1>1. /\ lanes' = [lanes EXCEPT ![t] = Tail(@)] /\ pc'[t] \in {"drain", "judge", "map1"}
      /\ wave'[t] = wave[t] \/ config.engine = "raceway"
      /\ Len(wave'[t]) = WaveN => pc'[t] = "drain"
      /\ pc'[t] = "drain" => Len(wave'[t]) = WaveN
      /\ pc'[t] = "judge" <=> Len(wave'[t]) # WaveN /\ Len(lanes[t]) > 1
  BY StreamRepEffect, Zenon
<1>2. /\ lanes[t] # << >> /\ Len(Tail(lanes[t])) = Len(lanes[t]) - 1 /\ Tail(lanes[t]) \in Seq(Values)
      /\ Len(lanes[t]) \in Nat
  BY RepType, LocalTypes
<1>3. lanes'[t] = Tail(lanes[t]) /\ (lanes'[t] = << >> <=> Len(lanes[t]) = 1) /\ Len(lanes[t]) > 0
  <2>1. lanes'[t] = Tail(lanes[t])
    BY <1>1 DEF TypeOK
  <2>2. Tail(lanes[t]) = << >> <=> Len(Tail(lanes[t])) = 0
    BY <1>2, EmptyIs
  <2>3. Len(lanes[t]) # 0
    <3>1. lanes[t] \in Seq(Values)
      BY DEF TypeOK
    <3>2. QED
      BY <1>2, <3>1, EmptyIs
  <2>4. QED
    BY <1>2, <2>1, <2>2, <2>3
<1>4. /\ ~ending[t] /\ at[t].d <= at[t].hi
      /\ config.engine = "map1_screen" => wave[t] = << >>
  BY <1>2 DEF PlaceOf
<1>5. span[t] = NoSpan /\ out[t] = << >> /\ ~Draining(t)' /\ span'[t].level # LastCap
  BY Shape DEF SpanOf, Draining, NoSpan
<1>6. pc'[t] = "judge" => lanes'[t] # << >>
  BY <1>1, <1>2, <1>3
<1>7. pc'[t] = "map1" => lanes'[t] = << >>
  <2>1. pc'[t] = "map1" => ~(Len(lanes[t]) > 1)
    BY <1>1, Zenon
  <2>2. ~(Len(lanes[t]) > 1) => Len(lanes[t]) = 1
    BY <1>2, <1>3
  <2>3. QED
    BY <1>3, <2>1, <2>2, Zenon
<1>8. config.engine = "map1_screen" => wave'[t] = << >> /\ pc'[t] # "drain"
  <2>1. SUFFICES ASSUME config.engine = "map1_screen" PROVE wave'[t] = << >> /\ pc'[t] # "drain"
    OBVIOUS
  <2>2. wave'[t] = << >>
    BY <1>1, <1>4, <2>1
  <2>3. Len(wave'[t]) # WaveN
    BY <2>2, Shape
  <2>4. QED
    BY <1>1, <2>2, <2>3
<1>9. PlaceOf(t)'
  BY <1>1, <1>4, <1>5, <1>6, <1>7, <1>8 DEF PlaceOf, Judging, Storing
<1>10. SpanOf(t)'
  BY <1>5 DEF SpanOf
<1>11. QED
  BY <1>9, <1>10

LEMMA VerdictPlace ==
  ASSUME TypeOK, NEW t \in Threads, PlaceOf(t), SpanOf(t), Judging(t), NEW keep \in BOOLEAN,
         Verdict(t, keep), UNCHANGED <<config, next, at, ending>>, Eff' = Eff
  PROVE  PlaceOf(t)' /\ SpanOf(t)'
<1>1. look'[t].second = FALSE
  <2>1. look' = [look EXCEPT ![t] = NoLook]
    BY DEF Verdict
  <2>2. QED
    BY <2>1 DEF TypeOK, NoLook
<1>2. CASE ~Draining(t)
  <2>1. StreamRep(t, Streams(t, keep)) /\ Streams(t, keep) \in BOOLEAN /\ UNCHANGED <<span, out>>
    BY <1>2, VerdictEffect, Zenon
  <2>2. QED
    BY <1>1, <1>2, <2>1, StreamPlace
<1>3. CASE Draining(t)
  <2>1. /\ UNCHANGED lanes /\ out' = [out EXCEPT ![t] = Tail(@)]
        /\ pc' = [pc EXCEPT ![t] = IF Len(out[t]) > 1 THEN "judge" ELSE "drain"]
        /\ span[t].w + 1 \in 1 .. Len(wave[t]) /\ span[t].w + Len(out[t]) <= span[t].pi
        /\ \/ /\ wave' = [wave EXCEPT ![t] = [wave[t] EXCEPT ![span[t].w + 1] = Rep(t)]]
              /\ span' = [span EXCEPT ![t] = [span[t] EXCEPT !.w = span[t].w + 1]]
           \/ UNCHANGED <<wave, span>>
    BY <1>3, VerdictEffect, Zenon
  <2>2. /\ out[t] # << >> /\ Tail(out[t]) \in Seq(Values) /\ Len(Tail(out[t])) = Len(out[t]) - 1
        /\ Len(out[t]) \in Nat /\ Len(wave[t]) \in Nat
        /\ span[t].level \in 0 .. LastCap /\ span[t].pi \in Nat /\ span[t].w \in Nat
    BY <1>3, RepType, LocalTypes DEF Spans
  <2>3. /\ lanes'[t] = lanes[t] /\ out'[t] = Tail(out[t])
        /\ pc'[t] = IF Len(out[t]) > 1 THEN "judge" ELSE "drain"
    BY <2>1 DEF TypeOK
  <2>4. /\ span'[t].level = span[t].level /\ span'[t].pi = span[t].pi /\ span'[t].w \in {span[t].w, span[t].w + 1}
        /\ Len(wave'[t]) = Len(wave[t])
    BY <2>1, <2>2, SMTT(30) DEF TypeOK
  <2>5. IF Len(out[t]) > 1 THEN out'[t] # << >> ELSE out'[t] = << >>
    <3>1. Len(out[t]) # 0
      <4>1. out[t] \in Seq(Values)
        BY DEF TypeOK
      <4>2. QED
        BY <2>2, <4>1, EmptyIs
    <3>2. Tail(out[t]) = << >> <=> Len(Tail(out[t])) = 0
      BY <2>2, EmptyIs
    <3>3. out'[t] = << >> <=> Len(out[t]) - 1 = 0
      BY <2>2, <2>3, <3>2, Zenon
    <3>4. Len(out[t]) \in Nat
      BY <2>2
    <3>5. \A k \in Nat : k # 0 => (k - 1 = 0 <=> ~(k > 1))
      OBVIOUS
    <3>6. QED
      BY <3>1, <3>3, <3>4, <3>5, Zenon
  <2>6. config.engine # "map1_screen" /\ config.cap_on /\ span[t].pi <= Len(wave[t]) /\ span[t].level # LastCap
    BY <1>3 DEF PlaceOf, SpanOf, Judging, Storing
  <2>7. Draining(t)'
    BY <1>3, <2>4 DEF Draining
  <2>8. ending[t] => at[t].d = at[t].hi /\ lanes[t] = << >> /\ (config.dynamic => next >= Eff)
    BY DEF PlaceOf
  <2>9. at[t].d <= at[t].hi
    BY DEF PlaceOf
  <2>10. PlaceOf(t)'
    <3>1. Judging(t)' <=> Len(out[t]) > 1
      BY <2>3 DEF Judging, Storing
    <3>2. pc'[t] \in {"judge", "drain"} /\ config' = config /\ at' = at /\ ending' = ending /\ next' = next
      BY <2>3
    <3>3. QED
      BY <1>1, <2>3, <2>5, <2>6, <2>7, <2>8, <2>9, <3>1, <3>2 DEF PlaceOf
  <2>11. SpanOf(t)'
    <3>1. span'[t].w + Len(out'[t]) <= span'[t].pi
      <4>1. Len(out'[t]) = Len(out[t]) - 1
        BY <2>2, <2>3
      <4>2. span[t].w + Len(out[t]) <= span[t].pi
        BY <2>1
      <4>3. QED
        BY <2>2, <2>4, <4>1, <4>2, SMTT(30)
    <3>2. QED
      BY <2>4, <2>6, <2>7, <3>1 DEF SpanOf
  <2>12. QED
    BY <2>10, <2>11
<1>4. QED
  BY <1>2, <1>3

LEMMA CapPlace ==
  ASSUME TypeOK, NEW t \in Threads, PlaceOf(t), SpanOf(t), Judging(t), Judging(t)',
         UNCHANGED <<config, next, at, lanes, wave, span, out, ending>>, Eff' = Eff,
         look'[t].second => config.engine = "map1_screen"
  PROVE  PlaceOf(t)' /\ SpanOf(t)'
<1>1. (Draining(t)' <=> Draining(t)) /\ pc'[t] \notin {"pull", "map1", "drain", "done"}
  BY DEF Draining, Judging, Storing
<1>2. pc[t] # "drain"
  BY DEF Judging, Storing
<1>3. PlaceOf(t)'
  BY <1>1 DEF PlaceOf
<1>4. SpanOf(t)'
  BY <1>1, <1>2 DEF SpanOf
<1>5. QED
  BY <1>3, <1>4

LEMMA FinalsPlace ==
  ASSUME TypeOK, NEW t \in Threads, PlaceOf(t), SpanOf(t), NEW reps, Finals(t, reps), pc[t] = "drain",
         UNCHANGED <<config, next, at, lanes, out, look, ending>>, Eff' = Eff
  PROVE  PlaceOf(t)' /\ SpanOf(t)'
<1>1. wave'[t] = << >> /\ span'[t] = NoSpan /\ pc'[t] = Resume(t)
  BY DEF Finals, TypeOK
<1>2. out[t] = << >> /\ config.engine # "map1_screen"
  BY DEF PlaceOf, Judging, Storing
<1>3. ~Draining(t)' /\ span'[t].level # LastCap
  BY <1>1, Shape DEF Draining, NoSpan
<1>4. PlaceOf(t)'
  BY <1>1, <1>2, <1>3 DEF PlaceOf, Judging, Storing, Resume
<1>5. SpanOf(t)'
  BY <1>1, <1>2, <1>3 DEF SpanOf
<1>6. QED
  BY <1>4, <1>5

LEMMA DrainPlace ==
  ASSUME TypeOK, NEW t \in Threads, PlaceOf(t), SpanOf(t), DrainBegin(t) \/ DrainBatch(t) \/ DrainNext(t)
  PROVE  PlaceOf(t)' /\ SpanOf(t)'
<1>1. /\ UNCHANGED <<config, window, next, at, lanes, look, ending>> /\ Eff' = Eff
      /\ pc[t] = "drain"
  BY DEF DrainBegin, DrainBatch, DrainNext, Eff
<1>2. out[t] = << >> /\ config.engine # "map1_screen"
  BY <1>1 DEF PlaceOf, Judging, Storing
<1>3. CASE DrainBegin(t)
  <2>1. span'[t] = [level |-> 1, pi |-> 0, w |-> 0] /\ UNCHANGED <<pc, wave, out>> /\ config.cap_on
    BY <1>3 DEF DrainBegin, TypeOK
  <2>2. Draining(t)' /\ Len(wave[t]) \in Nat /\ Len(out[t]) = 0
    BY <1>2, <2>1, LocalTypes DEF Draining
  <2>3. PlaceOf(t)'
    BY <1>1, <1>2, <2>1 DEF PlaceOf, Judging, Storing
  <2>4. SpanOf(t)'
    BY <1>1, <2>1, <2>2 DEF SpanOf
  <2>5. QED
    BY <2>3, <2>4
<1>4. CASE DrainBatch(t)
  <2>1. PICK to \in span[t].pi + 1 .. Len(wave[t]) :
           /\ out' = [out EXCEPT ![t] = SubSeq(wave[t], span[t].pi + 1, to)]
           /\ Len(SubSeq(wave[t], span[t].pi + 1, to)) = to - span[t].pi
           /\ span' = [span EXCEPT ![t] = [span[t] EXCEPT !.pi = to]]
           /\ pc' = [pc EXCEPT ![t] = "judge"]
    BY <1>4, BatchOut
  <2>2. /\ out'[t] = SubSeq(wave[t], span[t].pi + 1, to) /\ Len(out'[t]) = to - span[t].pi
        /\ span'[t] = [span[t] EXCEPT !.pi = to] /\ pc'[t] = "judge" /\ wave' = wave
    BY <1>4, <2>1 DEF TypeOK, DrainBatch
  <2>3. /\ span[t].level \in 1 .. Caps /\ span[t].w \in Nat /\ span[t].pi \in Nat /\ Len(wave[t]) \in Nat
        /\ span[t] \in Spans
    BY <1>4, LocalTypes DEF Spans, DrainBatch
  <2>4. span'[t].level = span[t].level /\ span'[t].pi = to /\ span'[t].w = span[t].w
    BY <2>2, <2>3 DEF Spans
  <2>5. out'[t] # << >>
    <3>1. Len(out'[t]) # 0
      BY <2>1, <2>2, <2>3, SMTT(30)
    <3>2. QED
      BY <3>1
  <2>6. Draining(t) /\ Draining(t)' /\ span[t].level # LastCap
    BY <2>3, <2>4, Shape DEF Draining
  <2>7. PlaceOf(t)'
    BY <1>1, <1>2, <2>2, <2>5, <2>6 DEF PlaceOf, Judging, Storing
  <2>8. SpanOf(t)'
    <3>1. span[t].w <= span[t].pi /\ config.cap_on
      BY <1>2, <2>3, <2>6 DEF SpanOf
    <3>2. span'[t].w + Len(out'[t]) <= span'[t].pi /\ span'[t].pi <= Len(wave'[t])
      BY <2>1, <2>2, <2>3, <2>4, <3>1, SMTT(30)
    <3>3. QED
      BY <1>1, <2>2, <2>4, <2>6, <3>1, <3>2 DEF SpanOf
  <2>9. QED
    BY <2>7, <2>8
<1>5. CASE DrainNext(t)
  <2>1. /\ wave' = [wave EXCEPT ![t] = SubSeq(wave[t], 1, span[t].w)]
        /\ Len(SubSeq(wave[t], 1, span[t].w)) = span[t].w
        /\ SubSeq(wave[t], 1, span[t].w) \in Seq(Values)
        /\ span[t].level + 1 \in 0 .. LastCap
        /\ IF span[t].w = 0
           THEN span' = [span EXCEPT ![t] = NoSpan] /\ pc' = [pc EXCEPT ![t] = Resume(t)]
           ELSE span' = [span EXCEPT ![t] = [level |-> span[t].level + 1, pi |-> 0, w |-> 0]] /\ UNCHANGED pc
    BY <1>5, NextWave
  <2>2. /\ wave'[t] \in Seq(Values) /\ Len(wave'[t]) = span[t].w /\ out' = out
        /\ span[t].level \in 1 .. Caps /\ span[t].w \in Nat
    BY <1>5, <2>1, LocalTypes DEF TypeOK, DrainNext, Spans
  <2>3. CASE span[t].w = 0
    <3>1. span'[t] = NoSpan /\ pc'[t] = Resume(t) /\ wave'[t] = << >>
      BY <2>1, <2>2, <2>3, EmptySeq DEF TypeOK
    <3>2. ~Draining(t)' /\ span'[t].level # LastCap
      BY <3>1, Shape DEF Draining, NoSpan
    <3>3. PlaceOf(t)'
      BY <1>1, <1>2, <2>2, <3>1, <3>2 DEF PlaceOf, Judging, Storing, Resume
    <3>4. SpanOf(t)'
      BY <1>2, <2>2, <3>1, <3>2 DEF SpanOf
    <3>5. QED
      BY <3>3, <3>4
  <2>4. CASE span[t].w # 0
    <3>1. span'[t] = [level |-> span[t].level + 1, pi |-> 0, w |-> 0] /\ pc' = pc
      BY <2>1, <2>4 DEF TypeOK
    <3>2. Draining(t)' /\ Draining(t) /\ config.cap_on
      BY <2>2, <3>1, Shape DEF Draining, SpanOf
    <3>3. PlaceOf(t)'
      BY <1>1, <1>2, <2>2, <3>1, <3>2 DEF PlaceOf, Judging, Storing
    <3>4. SpanOf(t)'
      BY <1>1, <1>2, <2>2, <3>1, <3>2 DEF SpanOf
    <3>5. QED
      BY <3>3, <3>4
  <2>5. QED
    BY <2>3, <2>4
<1>6. QED
  BY <1>3, <1>4, <1>5

LEMMA PlacesStep ==
  ASSUME TypeOK, Places, StoresRep, [Next]_vars
  PROVE  Places'
<1>1. ASSUME NEW t \in Threads, Work(t) PROVE PlaceOf(t)' /\ SpanOf(t)'
  <2>1. PlaceOf(t) /\ SpanOf(t) /\ UNCHANGED <<config, window>> /\ Eff' = Eff
    BY <1>1, ConfigKept DEF Places, Next
  <2>2. look[t].second => config.engine = "map1_screen"
    BY <2>1 DEF PlaceOf
  <2>3. CASE Judge(t)
    <3>1. PICK keep \in BOOLEAN : StreamRep(t, keep)
      BY <2>3 DEF Judge, HasSeen
    <3>2. QED
      BY <2>1, <2>2, <2>3, <3>1, StreamPlace DEF Judge, Judging
  <2>4. CASE Probe(t)
    <3>1. Judging(t) /\ UNCHANGED <<config, next, at, ending>>
      BY <2>4, ProbeCases DEF Probing, Judging
    <3>2. CASE Verdict(t, FALSE)
      BY <2>1, <3>1, <3>2, VerdictPlace
    <3>3. CASE \E puts, keep : WillPut(t, puts, keep)
      <4>1. pc'[t] = "victim" /\ look'[t].second = FALSE /\ UNCHANGED <<lanes, wave, span, out>>
        BY <3>3 DEF WillPut, TypeOK, NoLook
      <4>2. QED
        BY <2>1, <3>1, <4>1, CapPlace DEF Judging, Storing
    <3>4. CASE \E second, way : WillLook(t, second, way) /\ (second => config.engine = "map1_screen")
      <4>1. /\ pc'[t] = pc[t] /\ UNCHANGED <<lanes, wave, span, out>>
            /\ look'[t].second => config.engine = "map1_screen"
        BY <3>4 DEF WillLook, TypeOK
      <4>2. Judging(t)'
        BY <3>1, <4>1 DEF Judging, Storing
      <4>3. QED
        BY <2>1, <3>1, <4>1, <4>2, CapPlace
    <3>5. QED
      BY <2>2, <2>4, <3>2, <3>3, <3>4, ProbeCases DEF Deep
  <2>5. CASE ReadVictim(t) \/ StoreSlot(t)
    <3>1. Judging(t) /\ Judging(t)' /\ look'[t].second = look[t].second
      BY <2>5 DEF ReadVictim, StoreSlot, TypeOK, Judging, Storing
    <3>2. UNCHANGED <<config, next, at, lanes, wave, span, out, ending>>
      BY <2>5 DEF ReadVictim, StoreSlot
    <3>3. QED
      BY <2>1, <2>2, <3>1, <3>2, CapPlace
  <2>6. CASE WriteVictim(t)
    <3>1. Judging(t) /\ UNCHANGED <<config, next, at, ending>> /\ look[t].keep \in BOOLEAN
      BY <2>6, LocalTypes DEF WriteVictim, Judging, Storing, Looks
    <3>2. CASE Verdict(t, look[t].keep)
      BY <2>1, <3>1, <3>2, VerdictPlace
    <3>3. CASE ~Verdict(t, look[t].keep)
      <4>1. Judging(t)' /\ look'[t].second = look[t].second /\ UNCHANGED <<lanes, wave, span, out>>
        BY <2>6, <3>3 DEF WriteVictim, TypeOK, Judging, Storing
      <4>2. QED
        BY <2>1, <2>2, <3>1, <4>1, CapPlace
    <3>4. QED
      BY <3>2, <3>3
  <2>7. CASE DrainExact(t)
    <3>1. PICK reps : Finals(t, reps)
      BY <2>7, DrainExactEffect
    <3>2. QED
      BY <2>1, <2>7, <3>1, FinalsPlace DEF DrainExact
  <2>8. CASE DrainEnd(t)
    <3>1. PICK reps : Finals(t, reps)
      BY <2>8 DEF DrainEnd
    <3>2. QED
      BY <2>1, <2>8, <3>1, FinalsPlace DEF DrainEnd
  <2>9. QED
    BY <1>1, <2>1, <2>3, <2>4, <2>5, <2>6, <2>7, <2>8, PullPlace, Map1Place, DrainPlace DEF Work
<1>2. ASSUME NEW t \in Threads, Work(t), NEW u \in Threads PROVE PlaceOf(u)' /\ SpanOf(u)'
  BY <1>1, <1>2, PlaceOthers
<1>3. CASE UNCHANGED vars
  <2>1. Eff' = Eff
    BY <1>3 DEF vars, Eff
  <2>2. QED
    BY <1>3, <2>1 DEF vars, Places, PlaceOf, SpanOf, Draining, Judging, Storing
<1>4. QED
  BY <1>2, <1>3 DEF Next, Joined, Places

-----------------------------------------------------------------------------
(* What is carried on.                                                     *)

InKept(t, l, e) == l <= span[t].level /\ \E n \in 1 .. span[t].w : e = wave[t][n]
InRest(t, l, e) ==
  /\ l < span[t].level \/ (l = 0 /\ ~Draining(t))
  /\ \/ \E n \in span[t].pi + 1 .. Len(wave[t]) : e = wave[t][n]
     \/ \E n \in DOMAIN out[t] : e = out[t][n]
Sure(t) == Draining(t) \/ ~Shadow

LEMMA FirmIs ==
  \A t, l, e : e \in FirmOf(t, l) <=> InKept(t, l, e) \/ InRest(t, l, e) \/ (Pending(t, l) /\ Sure(t) /\ e = Rep(t))
BY DEF FirmOf, InKept, InRest, Sure

LEMMA FirmIsNext ==
  \A t, l, e : e \in FirmOf(t, l)' <=>
    InKept(t, l, e)' \/ InRest(t, l, e)' \/ (Pending(t, l)' /\ Sure(t)' /\ e = Rep(t)')
BY DEF FirmOf, InKept, InRest, Sure

LEMMA PassedIs ==
  \A t, l, e : e \in Passed(t, l) <=> InKept(t, l, e) \/ InRest(t, l, e) \/ (Pending(t, l) /\ e = Rep(t))
BY DEF Passed, InKept, InRest, Pending, Storing

LEMMA PassedIsNext ==
  \A t, l, e : e \in Passed(t, l)' <=> InKept(t, l, e)' \/ InRest(t, l, e)' \/ (Pending(t, l)' /\ e = Rep(t)')
BY DEF Passed, InKept, InRest, Pending, Storing

LEMMA InFirm ==
  \A l, x : x \in Firm(l) <=> \/ \E t \in Threads : x \in fin[t]
                              \/ \E t \in Threads : \E e \in FirmOf(t, l) : x = Final(e)
BY DEF Firm, Done

LEMMA InFirmNext ==
  ASSUME config' = config
  PROVE  \A l, x : x \in Firm(l)' <=> \/ \E t \in Threads : x \in fin'[t]
                                      \/ \E t \in Threads : \E e \in FirmOf(t, l)' : x = Final(e)
<1>1. \A e : Final(e)' = Final(e)
  BY DEF Final, FinalLevel
<1>2. QED
  BY <1>1 DEF Firm, Done

LEMMA InHeld ==
  \A l, x : x \in HeldFrom(l) <=> \/ \E t \in Threads : x \in fin[t]
                                  \/ \E t \in Threads : \E e \in Passed(t, l) : x = Final(e)
BY DEF HeldFrom, Done

LEMMA InHeldNext ==
  ASSUME config' = config
  PROVE  \A l, x : x \in HeldFrom(l)' <=> \/ \E t \in Threads : x \in fin'[t]
                                          \/ \E t \in Threads : \E e \in Passed(t, l)' : x = Final(e)
<1>1. \A e : Final(e)' = Final(e)
  BY DEF Final, FinalLevel
<1>2. QED
  BY <1>1 DEF HeldFrom, Done

(* Past a boundary less is firm than before it.                            *)
LEMMA FirmShrinks ==
  ASSUME TypeOK, NEW l \in Nat, NEW m \in Nat, l <= m
  PROVE  /\ \A t \in Threads : FirmOf(t, m) \subseteq FirmOf(t, l)
         /\ Firm(m) \subseteq Firm(l)
<1>1. ASSUME NEW t \in Threads, NEW e \in FirmOf(t, m) PROVE e \in FirmOf(t, l)
  <2>1. span[t].level \in Nat
    BY LocalTypes DEF Spans
  <2>2. InKept(t, m, e) => InKept(t, l, e)
    BY <2>1 DEF InKept
  <2>3. InRest(t, m, e) => InRest(t, l, e)
    BY <2>1 DEF InRest
  <2>4. Pending(t, m) => Pending(t, l)
    BY <2>1 DEF Pending
  <2>5. QED
    BY <2>2, <2>3, <2>4, FirmIs
<1>2. QED
  BY <1>1, InFirm

LEMMA HeldIsFirm ==
  ASSUME TypeOK, Places, NEW l \in Nat
  PROVE  /\ Firm(l) \subseteq HeldFrom(l)
         /\ l # 0 \/ ~Shadow => HeldFrom(l) = Firm(l)
<1>1. \A t, e : e \in FirmOf(t, l) => e \in Passed(t, l)
  BY FirmIs, PassedIs
<1>2. ASSUME l # 0 \/ ~Shadow, NEW t \in Threads, NEW e \in Passed(t, l) PROVE e \in FirmOf(t, l)
  <2>1. span[t].level \in Nat
    BY LocalTypes DEF Spans
  <2>2. Pending(t, l) => Sure(t)
    BY <1>2, <2>1 DEF Pending, Sure, Draining
  <2>3. QED
    BY <1>2, <2>2, FirmIs, PassedIs
<1>3. Firm(l) \subseteq HeldFrom(l)
  BY <1>1, InFirm, InHeld
<1>4. ASSUME l # 0 \/ ~Shadow PROVE HeldFrom(l) \subseteq Firm(l)
  BY <1>2, <1>4, InFirm, InHeld
<1>5. QED
  BY <1>3, <1>4

LEMMA FirmOthers ==
  ASSUME TypeOK, NEW t \in Threads, Work(t), NEW u \in Threads \ {t}, NEW l
  PROVE  FirmOf(u, l)' = FirmOf(u, l) /\ Passed(u, l)' = Passed(u, l)
<1>1. UNCHANGED LocalsOf(u)
  BY OthersKept
<1>2. Shadow' = Shadow
  BY ConfigKept DEF Next
<1>3. (Draining(u)' <=> Draining(u)) /\ Rep(u)' = Rep(u) /\ (Pending(u, l)' <=> Pending(u, l))
  BY <1>1 DEF Draining, Rep, Pending, Storing, LocalsOf
<1>4. FirmOf(u, l)' = FirmOf(u, l)
  BY <1>1, <1>2, <1>3 DEF FirmOf, LocalsOf
<1>5. Passed(u, l)' = Passed(u, l)
  BY <1>1, <1>2, <1>3 DEF Passed, LocalsOf
<1>6. QED
  BY <1>4, <1>5

LEMMA FirmIsHeldNext ==
  ASSUME config' = config
  PROVE  \A l : Firm(l)' \subseteq HeldFrom(l)'
<1>1. \A t, l, e : e \in FirmOf(t, l)' => e \in Passed(t, l)'
  BY FirmIsNext, PassedIsNext
<1>2. QED
  BY <1>1, InFirmNext, InHeldNext

LEMMA KeepsWave ==
  ASSUME TypeOK, NEW t \in Threads, UNCHANGED <<config, wave[t], span[t], out[t]>>,
         Pending(t, 0) => Storing(t)' /\ look'[t].keep /\ Rep(t)' = Rep(t)
  PROVE  \A l \in Nat : FirmOf(t, l) \subseteq FirmOf(t, l)' /\ Passed(t, l) \subseteq Passed(t, l)'
<1>1. ASSUME NEW l \in Nat PROVE Pending(t, l) => Pending(t, l)' /\ Rep(t)' = Rep(t)
  <2>1. span[t].level \in Nat
    BY LocalTypes DEF Spans
  <2>2. QED
    BY <2>1 DEF Pending
<1>2. \A l, e : InKept(t, l, e)' <=> InKept(t, l, e)
  BY DEF InKept
<1>3. (Draining(t)' <=> Draining(t)) /\ (Sure(t)' <=> Sure(t))
  BY DEF Draining, Sure, Shadow
<1>4. \A l, e : InRest(t, l, e)' <=> InRest(t, l, e)
  BY <1>3 DEF InRest
<1>5. QED
  BY <1>1, <1>2, <1>3, <1>4, FirmIs, FirmIsNext, PassedIs, PassedIsNext

LEMMA StreamCarries ==
  ASSUME TypeOK, NEW t \in Threads, PlaceOf(t), SpanOf(t), Judging(t), ~Draining(t), NEW keep \in BOOLEAN,
         StreamRep(t, keep), UNCHANGED <<config, window, span, out>>
  PROVE  /\ \A l \in Nat : \A e : InKept(t, l, e) \/ InRest(t, l, e) => Final(e) \in Firm(l)'
         /\ keep => Final(Rep(t)) \in Firm(0)'
<1>1. span[t] = NoSpan /\ out[t] = << >> /\ wave[t] \in Seq(Values) /\ Len(wave[t]) \in Nat
  BY LocalTypes DEF SpanOf
<1>2. /\ span[t].level = 0 /\ span[t].pi = 0 /\ span[t].w = 0
      /\ span'[t].level = 0 /\ span'[t].pi = 0 /\ ~Draining(t)'
  BY <1>1 DEF NoSpan, Draining
<1>3. /\ wave'[t] = wave[t] \/ (config.engine = "raceway" /\ keep /\ wave'[t] = Append(wave[t], Rep(t)))
      /\ keep /\ config.engine = "raceway" /\ wave'[t] = wave[t] =>
           \E n \in DOMAIN wave[t] : CodeAt(0, wave[t][n]) = CodeAt(0, Rep(t))
      /\ keep /\ config.engine = "map1_screen" => fin' = [fin EXCEPT ![t] = @ \union {Final(Rep(t))}]
  BY StreamRepEffect, Zenon
<1>4. ASSUME NEW n \in 1 .. Len(wave'[t]), NEW e, e = wave'[t][n] PROVE Final(e) \in Firm(0)'
  <2>1. InRest(t, 0, e)'
    BY <1>2, <1>4 DEF InRest
  <2>2. QED
    BY <2>1, FirmIsNext, InFirmNext
<1>5. ASSUME NEW n \in 1 .. Len(wave[t]) PROVE Final(wave[t][n]) \in Firm(0)'
  <2>1. CASE wave'[t] = wave[t]
    BY <1>4, <2>1
  <2>2. CASE wave'[t] = Append(wave[t], Rep(t))
    <3>1. Len(wave'[t]) = Len(wave[t]) + 1 /\ wave'[t][n] = wave[t][n]
      BY <1>1, <2>2, RepType, AppendProperties
    <3>2. n \in 1 .. Len(wave'[t])
      BY <1>1, <3>1
    <3>3. QED
      BY <1>4, <3>1, <3>2
  <2>3. QED
    BY <1>3, <2>1, <2>2
<1>6. ASSUME NEW l \in Nat, NEW e, InKept(t, l, e) \/ InRest(t, l, e) PROVE Final(e) \in Firm(l)'
  <2>1. ~InKept(t, l, e)
    BY <1>2 DEF InKept
  <2>2. l = 0 /\ \E n \in 1 .. Len(wave[t]) : e = wave[t][n]
    <3>1. DOMAIN out[t] = {}
      BY <1>1
    <3>2. ~(l < 0)
      OBVIOUS
    <3>3. QED
      BY <1>2, <1>6, <2>1, <3>1, <3>2 DEF InRest
  <2>3. QED
    BY <1>5, <2>2
<1>7. ASSUME keep PROVE Final(Rep(t)) \in Firm(0)'
  <2>1. CASE wave'[t] = Append(wave[t], Rep(t))
    <3>1. Len(wave'[t]) = Len(wave[t]) + 1 /\ wave'[t][Len(wave[t]) + 1] = Rep(t)
      BY <1>1, <2>1, RepType, AppendProperties
    <3>2. Len(wave[t]) + 1 \in 1 .. Len(wave'[t])
      BY <1>1, <3>1
    <3>3. QED
      BY <1>4, <3>1, <3>2
  <2>2. CASE config.engine = "raceway" /\ wave'[t] = wave[t]
    <3>1. PICK n \in DOMAIN wave[t] : CodeAt(0, wave[t][n]) = CodeAt(0, Rep(t))
      BY <1>3, <1>7, <2>2
    <3>2. n \in 1 .. Len(wave[t])
      BY <1>1, LocalTypes
    <3>3. wave[t][n] \in Values /\ Rep(t) \in Values
      BY <1>1, <3>2, ElementOfSeq, RepType
    <3>4. 0 \in 0 .. FinalLevel
      BY Levels, Shape
    <3>5. Final(wave[t][n]) = Final(Rep(t))
      BY <3>1, <3>3, <3>4, EqualEnds
    <3>6. QED
      BY <1>5, <3>2, <3>5
  <2>3. CASE config.engine = "map1_screen"
    <3>1. Final(Rep(t)) \in fin'[t]
      BY <1>3, <1>7, <2>3 DEF TypeOK
    <3>2. QED
      BY <3>1, InFirmNext
  <2>4. QED
    BY <1>3, <2>1, <2>2, <2>3, ConfigType
<1>8. QED
  BY <1>6, <1>7

LEMMA DrainVerdictCarries ==
  ASSUME TypeOK, NEW t \in Threads, PlaceOf(t), SpanOf(t), Judging(t), Draining(t), NEW keep \in BOOLEAN,
         Verdict(t, keep), UNCHANGED <<config, window>>
  PROVE  /\ \A l \in Nat : \A e : InKept(t, l, e) => e \in FirmOf(t, l)'
         /\ \A l \in Nat : \A e : InRest(t, l, e) /\ e # Rep(t) => e \in FirmOf(t, l)'
         /\ keep => \A l \in 0 .. span[t].level : Rep(t) \in FirmOf(t, l)'
<1>1. /\ out' = [out EXCEPT ![t] = Tail(@)]
      /\ span[t].w + 1 \in 1 .. Len(wave[t]) /\ span[t].w + Len(out[t]) <= span[t].pi
      /\ IF keep
         THEN /\ wave' = [wave EXCEPT ![t] = [wave[t] EXCEPT ![span[t].w + 1] = Rep(t)]]
              /\ span' = [span EXCEPT ![t] = [span[t] EXCEPT !.w = span[t].w + 1]]
         ELSE UNCHANGED <<wave, span>>
  BY VerdictEffect, Zenon
<1>2. /\ span[t].level \in Nat /\ span[t].pi \in Nat /\ span[t].w \in Nat /\ span[t] \in Spans
      /\ Len(wave[t]) \in Nat /\ Len(out[t]) \in Nat /\ wave[t] \in Seq(Values)
      /\ DOMAIN out[t] = 1 .. Len(out[t]) /\ DOMAIN wave[t] = 1 .. Len(wave[t])
  BY LocalTypes DEF Spans
<1>3. /\ out[t] # << >> /\ Rep(t) = out[t][1] /\ Tail(out[t]) \in Seq(Values) /\ Len(Tail(out[t])) = Len(out[t]) - 1
      /\ \A n \in 1 .. Len(out[t]) - 1 : Tail(out[t])[n] = out[t][n + 1]
  BY RepType
<1>4. Len(out[t]) > 0
  BY <1>2, <1>3, LocalTypes, EmptyIs
<1>5. /\ span'[t].level = span[t].level /\ span'[t].pi = span[t].pi
      /\ span'[t].w = IF keep THEN span[t].w + 1 ELSE span[t].w
      /\ Len(wave'[t]) = Len(wave[t]) /\ (Draining(t)' <=> Draining(t))
  <2>1. CASE keep
    <3>1. span'[t] = [span[t] EXCEPT !.w = span[t].w + 1] /\ wave'[t] = [wave[t] EXCEPT ![span[t].w + 1] = Rep(t)]
      BY <1>1, <2>1 DEF TypeOK
    <3>2. span'[t].level = span[t].level /\ span'[t].pi = span[t].pi /\ span'[t].w = span[t].w + 1
      BY <1>2, <3>1 DEF Spans
    <3>3. Len(wave'[t]) = Len(wave[t])
      BY <1>1, <1>2, <3>1, RepType, ExceptSeq
    <3>4. QED
      BY <2>1, <3>2, <3>3 DEF Draining
  <2>2. CASE ~keep
    BY <1>1, <2>2 DEF Draining
  <2>3. QED
    BY <2>1, <2>2
<1>6. ASSUME NEW n \in 1 .. Len(wave[t]), n # span[t].w + 1 \/ ~keep PROVE wave'[t][n] = wave[t][n]
  <2>1. CASE keep
    <3>1. wave'[t] = [wave[t] EXCEPT ![span[t].w + 1] = Rep(t)]
      BY <1>1, <2>1 DEF TypeOK
    <3>2. QED
      BY <1>2, <1>6, <2>1, <3>1
  <2>2. CASE ~keep
    BY <1>1, <2>2
  <2>3. QED
    BY <2>1, <2>2
<1>7. ASSUME NEW l \in Nat, NEW e, InKept(t, l, e) PROVE InKept(t, l, e)'
  <2>1. PICK n \in 1 .. span[t].w : e = wave[t][n]
    BY <1>7 DEF InKept
  <2>2. n \in 1 .. Len(wave[t]) /\ n # span[t].w + 1 /\ n \in 1 .. span'[t].w
    BY <1>1, <1>2, <1>4, <1>5, <2>1, SMTT(30)
  <2>3. e = wave'[t][n]
    BY <1>6, <2>1, <2>2
  <2>4. l <= span'[t].level
    BY <1>5, <1>7 DEF InKept
  <2>5. QED
    BY <2>2, <2>3, <2>4 DEF InKept
<1>8. ASSUME NEW l \in Nat, NEW e, InRest(t, l, e), e # Rep(t) PROVE InRest(t, l, e)'
  <2>1. l < span'[t].level \/ (l = 0 /\ ~Draining(t)')
    BY <1>5, <1>8 DEF InRest
  <2>2. CASE \E n \in span[t].pi + 1 .. Len(wave[t]) : e = wave[t][n]
    <3>1. PICK n \in span[t].pi + 1 .. Len(wave[t]) : e = wave[t][n]
      BY <2>2
    <3>2. n \in 1 .. Len(wave[t]) /\ n # span[t].w + 1 /\ n \in span'[t].pi + 1 .. Len(wave'[t])
      BY <1>1, <1>2, <1>4, <1>5, <3>1, SMTT(30)
    <3>3. e = wave'[t][n]
      BY <1>6, <3>1, <3>2
    <3>4. QED
      BY <2>1, <3>2, <3>3 DEF InRest
  <2>3. CASE \E n \in DOMAIN out[t] : e = out[t][n]
    <3>1. PICK n \in 1 .. Len(out[t]) : e = out[t][n]
      BY <1>2, <2>3
    <3>2. n # 1
      BY <1>3, <1>8, <3>1
    <3>3. n - 1 \in 1 .. Len(out[t]) - 1 /\ (n - 1) + 1 = n
      BY <1>2, <3>1, <3>2
    <3>4. Tail(out[t])[n - 1] = e
      BY <1>3, <3>1, <3>3
    <3>5. out'[t] = Tail(out[t])
      BY <1>1 DEF TypeOK
    <3>6. n - 1 \in DOMAIN Tail(out[t])
      BY <1>3, <3>3, LenProperties
    <3>7. QED
      BY <2>1, <3>4, <3>5, <3>6 DEF InRest
  <2>4. QED
    BY <1>8, <2>2, <2>3 DEF InRest
<1>9. ASSUME keep, NEW l \in 0 .. span[t].level, NEW e, e = Rep(t) PROVE InKept(t, l, e)'
  <2>1. wave'[t] = [wave[t] EXCEPT ![span[t].w + 1] = Rep(t)]
    BY <1>1, <1>9 DEF TypeOK
  <2>2. wave'[t][span[t].w + 1] = e
    BY <1>1, <1>2, <1>9, <2>1
  <2>3. span[t].w + 1 \in 1 .. span'[t].w /\ l <= span'[t].level
    BY <1>2, <1>5, <1>9
  <2>4. QED
    BY <2>2, <2>3 DEF InKept
<1>10. \A l \in Nat : \A e : InKept(t, l, e) => e \in FirmOf(t, l)'
  BY <1>7, FirmIsNext
<1>11. \A l \in Nat : \A e : InRest(t, l, e) /\ e # Rep(t) => e \in FirmOf(t, l)'
  BY <1>8, FirmIsNext
<1>12. keep => \A l \in 0 .. span[t].level : Rep(t) \in FirmOf(t, l)'
  BY <1>9, FirmIsNext
<1>13. QED
  BY <1>10, <1>11, <1>12

LEMMA FinalsCarry ==
  ASSUME TypeOK, NEW t \in Threads, PlaceOf(t), SpanOf(t), NEW reps, Finals(t, reps), pc[t] = "drain",
         span[t].w = 0, UNCHANGED <<config, window>>,
         {CodeAt(LastCap, d) : d \in reps} = {CodeAt(LastCap, wave[t][n]) : n \in DOMAIN wave[t]}
  PROVE  \A l \in Nat : \A e \in Passed(t, l) : Final(e) \in fin'[t]
<1> SUFFICES ASSUME NEW l \in Nat, NEW e \in Passed(t, l) PROVE Final(e) \in fin'[t]
  OBVIOUS
<1>1. out[t] = << >> /\ config.engine = "raceway" /\ ~Pending(t, l)
  BY ConfigType DEF PlaceOf, Judging, Storing, Pending
<1>2. span[t].pi \in Nat /\ Len(wave[t]) \in Nat /\ DOMAIN wave[t] = 1 .. Len(wave[t])
  BY LocalTypes DEF Spans
<1>3. ~InKept(t, l, e)
  BY DEF InKept
<1>4. InRest(t, l, e)
  BY <1>1, <1>3, PassedIs
<1>5. PICK n \in span[t].pi + 1 .. Len(wave[t]) : e = wave[t][n]
  <2>1. DOMAIN out[t] = {}
    BY <1>1
  <2>2. QED
    BY <1>4, <2>1 DEF InRest
<1>6. n \in DOMAIN wave[t]
  BY <1>2
<1>7. Final(e) = CodeAt(LastCap, wave[t][n])
  BY <1>1, <1>5 DEF Final, FinalLevel
<1>8. Final(e) \in {CodeAt(LastCap, d) : d \in reps}
  BY <1>6, <1>7
<1>9. fin'[t] = fin[t] \union {CodeAt(LastCap, d) : d \in reps}
  BY DEF Finals, TypeOK
<1>10. QED
  BY <1>8, <1>9

LEMMA DrainCarries ==
  ASSUME TypeOK, NEW t \in Threads, PlaceOf(t), SpanOf(t), DrainBegin(t) \/ DrainBatch(t) \/ DrainNext(t)
  PROVE  \A l \in Nat : \A e \in Passed(t, l) : e \in FirmOf(t, l)'
<1> SUFFICES ASSUME NEW l \in Nat, NEW e \in Passed(t, l) PROVE InKept(t, l, e)' \/ InRest(t, l, e)'
  BY FirmIsNext
<1>1. pc[t] = "drain" /\ out[t] = << >> /\ ~Pending(t, l)
  BY DEF DrainBegin, DrainBatch, DrainNext, PlaceOf, Judging, Storing, Pending
<1>2. /\ span[t].level \in Nat /\ span[t].pi \in Nat /\ span[t].w \in Nat /\ span[t] \in Spans
      /\ Len(wave[t]) \in Nat /\ wave[t] \in Seq(Values)
  BY LocalTypes DEF Spans
<1>3. InKept(t, l, e) \/ InRest(t, l, e)
  BY <1>1, PassedIs
<1>4. DOMAIN out[t] = {}
  BY <1>1
<1>5. InRest(t, l, e) => /\ l < span[t].level \/ (l = 0 /\ ~Draining(t))
                         /\ \E n \in span[t].pi + 1 .. Len(wave[t]) : e = wave[t][n]
  BY <1>4 DEF InRest
<1>6. CASE DrainBegin(t)
  <2>1. span[t] = NoSpan /\ span'[t] = [level |-> 1, pi |-> 0, w |-> 0] /\ UNCHANGED wave
    BY <1>6 DEF DrainBegin, TypeOK, SpanOf
  <2>2. span[t].level = 0 /\ span[t].pi = 0 /\ span[t].w = 0 /\ span'[t].level = 1 /\ span'[t].pi = 0
    BY <2>1 DEF NoSpan
  <2>3. ~InKept(t, l, e)
    BY <2>2 DEF InKept
  <2>4. l = 0 /\ \E n \in span'[t].pi + 1 .. Len(wave'[t]) : e = wave'[t][n]
    BY <1>3, <1>5, <2>1, <2>2, <2>3
  <2>5. QED
    BY <2>2, <2>4 DEF InRest
<1>7. CASE DrainBatch(t)
  <2>1. PICK to \in span[t].pi + 1 .. Len(wave[t]) :
           /\ out' = [out EXCEPT ![t] = SubSeq(wave[t], span[t].pi + 1, to)]
           /\ SubSeq(wave[t], span[t].pi + 1, to) \in Seq(Values)
           /\ Len(SubSeq(wave[t], span[t].pi + 1, to)) = to - span[t].pi
           /\ \A n \in 1 .. to - span[t].pi : SubSeq(wave[t], span[t].pi + 1, to)[n] = wave[t][span[t].pi + n]
           /\ span' = [span EXCEPT ![t] = [span[t] EXCEPT !.pi = to]]
    BY <1>7, BatchOut
  <2>2. wave' = wave /\ span'[t] = [span[t] EXCEPT !.pi = to]
    BY <1>7, <2>1 DEF DrainBatch, TypeOK
  <2>3. span'[t].level = span[t].level /\ span'[t].pi = to /\ span'[t].w = span[t].w
    BY <1>2, <2>2 DEF Spans
  <2>4. Draining(t)' <=> Draining(t)
    BY <2>3 DEF Draining
  <2>5. CASE InKept(t, l, e)
    BY <2>2, <2>3, <2>5 DEF InKept
  <2>6. CASE InRest(t, l, e)
    <3>1. PICK n \in span[t].pi + 1 .. Len(wave[t]) : e = wave[t][n]
      BY <1>5, <2>6
    <3>2. l < span'[t].level \/ (l = 0 /\ ~Draining(t)')
      BY <1>5, <2>3, <2>4, <2>6
    <3>3. CASE n \in to + 1 .. Len(wave[t])
      BY <2>2, <2>3, <3>1, <3>2, <3>3 DEF InRest
    <3>4. CASE n \notin to + 1 .. Len(wave[t])
      <4>1. n - span[t].pi \in 1 .. to - span[t].pi /\ span[t].pi + (n - span[t].pi) = n
        <5>1. span[t].pi \in Nat /\ Len(wave[t]) \in Nat /\ to \in span[t].pi + 1 .. Len(wave[t])
          BY <1>2, <2>1
        <5>2. QED
          BY <3>1, <3>4, <5>1
      <4>2. SubSeq(wave[t], span[t].pi + 1, to)[n - span[t].pi] = e
        BY <2>1, <3>1, <4>1
      <4>3. out'[t] = SubSeq(wave[t], span[t].pi + 1, to)
        BY <2>1 DEF TypeOK
      <4>4. n - span[t].pi \in DOMAIN out'[t]
        BY <2>1, <4>1, <4>3, LenProperties
      <4>5. QED
        BY <3>2, <4>2, <4>3, <4>4 DEF InRest
    <3>5. QED
      BY <3>3, <3>4
  <2>7. QED
    BY <1>3, <2>5, <2>6
<1>8. CASE DrainNext(t)
  <2>1. /\ wave' = [wave EXCEPT ![t] = SubSeq(wave[t], 1, span[t].w)]
        /\ Len(SubSeq(wave[t], 1, span[t].w)) = span[t].w
        /\ \A n \in 1 .. span[t].w : SubSeq(wave[t], 1, span[t].w)[n] = wave[t][n]
        /\ span[t].w # 0 => span' = [span EXCEPT ![t] = [level |-> span[t].level + 1, pi |-> 0, w |-> 0]]
    BY <1>8, NextWave, Zenon
  <2>2. wave'[t] = SubSeq(wave[t], 1, span[t].w)
    BY <2>1 DEF TypeOK
  <2>3. ~InRest(t, l, e)
    <3>1. span[t].pi = Len(wave[t])
      BY <1>8 DEF DrainNext
    <3>2. QED
      BY <1>2, <1>5, <3>1
  <2>4. PICK n \in 1 .. span[t].w : l <= span[t].level /\ e = wave[t][n]
    BY <1>3, <2>3 DEF InKept
  <2>5. span'[t] = [level |-> span[t].level + 1, pi |-> 0, w |-> 0]
    BY <1>2, <2>1, <2>4, SMTT(30) DEF TypeOK
  <2>6. l < span'[t].level /\ n \in span'[t].pi + 1 .. Len(wave'[t]) /\ e = wave'[t][n]
    BY <1>2, <2>1, <2>2, <2>4, <2>5
  <2>7. QED
    BY <2>6 DEF InRest
<1>9. QED
  BY <1>6, <1>7, <1>8

LEMMA DoneGrows ==
  ASSUME TypeOK, NEW t \in Threads, PlaceOf(t), SpanOf(t), Work(t), NEW u \in Threads
  PROVE  fin[u] \subseteq fin'[u]
<1>1. CASE u # t
  BY <1>1, OthersKept DEF LocalsOf
<1>2. ASSUME NEW keep \in BOOLEAN, StreamRep(t, keep) PROVE fin[t] \subseteq fin'[t]
  <2>1. \/ fin' = fin
        \/ fin' = [fin EXCEPT ![t] = fin[t] \union {CodeAt(0, Head(lanes[t]))}]
    BY <1>2 DEF StreamRep
  <2>2. fin \in [Threads -> SUBSET Ends]
    BY DEF TypeOK
  <2>3. QED
    BY <2>1, <2>2
<1>3. ASSUME NEW keep \in BOOLEAN, Judging(t), Verdict(t, keep) PROVE fin[t] \subseteq fin'[t]
  BY <1>2, <1>3, VerdictEffect
<1>4. ASSUME NEW reps, Finals(t, reps) PROVE fin[t] \subseteq fin'[t]
  BY <1>4 DEF Finals, TypeOK
<1>5. ASSUME Judge(t) PROVE fin[t] \subseteq fin'[t]
  BY <1>2, <1>5 DEF Judge, HasSeen
<1>6. ASSUME Probe(t) PROVE fin[t] \subseteq fin'[t]
  BY <1>3, <1>6, ProbeCases DEF Probing, Judging, WillPut, WillLook
<1>7. ASSUME WriteVictim(t) PROVE fin[t] \subseteq fin'[t]
  <2>1. look[t].keep \in BOOLEAN /\ Judging(t)
    BY <1>7, LocalTypes DEF Looks, WriteVictim, Judging, Storing
  <2>2. QED
    BY <1>3, <1>7, <2>1 DEF WriteVictim
<1>8. ASSUME DrainExact(t) PROVE fin[t] \subseteq fin'[t]
  BY <1>4, <1>8, DrainExactEffect
<1>9. ASSUME DrainEnd(t) PROVE fin[t] \subseteq fin'[t]
  BY <1>4, <1>9 DEF DrainEnd
<1>10. ASSUME ~(Judge(t) \/ Probe(t) \/ WriteVictim(t) \/ DrainExact(t) \/ DrainEnd(t)) PROVE fin[t] \subseteq fin'[t]
  BY <1>10 DEF Work, Pull, Map1, ReadVictim, StoreSlot, DrainBegin, DrainBatch, DrainNext
<1>11. QED
  BY <1>1, <1>5, <1>6, <1>7, <1>8, <1>9, <1>10

(* It is enough to know what the thread itself carries.                    *)
LEMMA FirmFrom ==
  ASSUME TypeOK, Places, NEW t \in Threads, Work(t), NEW l
  PROVE  /\ (\A e \in FirmOf(t, l) : Final(e) \in Firm(l)') => Firm(l) \subseteq Firm(l)'
         /\ (\A e \in Passed(t, l) : Final(e) \in HeldFrom(l)') => HeldFrom(l) \subseteq HeldFrom(l)'
<1>1. config' = config /\ \A u \in Threads : fin[u] \subseteq fin'[u]
  BY ConfigKept, DoneGrows DEF Next, Places
<1>2. \A u \in Threads \ {t} : FirmOf(u, l)' = FirmOf(u, l) /\ Passed(u, l)' = Passed(u, l)
  BY FirmOthers
<1>3. ASSUME \A e \in FirmOf(t, l) : Final(e) \in Firm(l)', NEW x \in Firm(l) PROVE x \in Firm(l)'
  <2>1. CASE \E u \in Threads : x \in fin[u]
    BY <1>1, <2>1, InFirmNext
  <2>2. CASE \E u \in Threads : \E e \in FirmOf(u, l) : x = Final(e)
    <3>1. PICK u \in Threads : \E e \in FirmOf(u, l) : x = Final(e)
      BY <2>2
    <3>2. CASE u = t
      BY <1>3, <3>1, <3>2
    <3>3. CASE u # t
      BY <1>1, <1>2, <3>1, <3>3, InFirmNext
    <3>4. QED
      BY <3>2, <3>3
  <2>3. QED
    BY <1>3, <2>1, <2>2, InFirm
<1>4. ASSUME \A e \in Passed(t, l) : Final(e) \in HeldFrom(l)', NEW x \in HeldFrom(l) PROVE x \in HeldFrom(l)'
  <2>1. CASE \E u \in Threads : x \in fin[u]
    BY <1>1, <2>1, InHeldNext
  <2>2. CASE \E u \in Threads : \E e \in Passed(u, l) : x = Final(e)
    <3>1. PICK u \in Threads : \E e \in Passed(u, l) : x = Final(e)
      BY <2>2
    <3>2. CASE u = t
      BY <1>4, <3>1, <3>2
    <3>3. CASE u # t
      BY <1>1, <1>2, <3>1, <3>3, InHeldNext
    <3>4. QED
      BY <3>2, <3>3
  <2>3. QED
    BY <1>4, <2>1, <2>2, InHeld
<1>5. QED
  BY <1>3, <1>4

(* A code met before in a cap, or in the thread's own set, is carried on.  *)
LEMMA HitIsHeld ==
  ASSUME TypeOK, Places, CapsAreHeld, NEW t \in Threads, Probing(t), Hit(t)
  PROVE  /\ Final(Rep(t)) \in HeldFrom(span[t].level)
         /\ Sure(t) => Final(Rep(t)) \in Firm(span[t].level)
<1>1. PlaceOf(t) /\ SpanOf(t) /\ Judging(t)
  BY DEF Places, Probing, Judging
<1>2. span[t].level \in 0 .. Caps /\ RepFp(t) \in Nat \ {0} /\ span[t].level <= FinalLevel /\ Rep(t) \in Values
  BY <1>1, RepFpType, RepType
<1>3. look[t].way \in 0 .. Ways - 1 /\ look[t].second \in BOOLEAN
  BY LocalTypes DEF Looks
<1>4. CapOf(t) \in 0 .. LastCap /\ LevelOf(CapOf(t)) = span[t].level
  <2>1. look[t].second => span[t].level = 0
    BY <1>1, <1>2 DEF PlaceOf, Draining
  <2>2. QED
    BY <1>2, <1>3, <2>1, Shape DEF CapOf, LevelOf
<1>5. SlotOf(RepFp(t), look[t].way) \in 0 .. MaxSlot
  BY <1>2, <1>3, SlotInCap
<1>6. RepFp(t) \in FpsOf(span[t].level, HeldFrom(span[t].level))
  <2>1. slots[CapOf(t)][SlotOf(RepFp(t), look[t].way)] # 0
    BY <1>2 DEF Hit
  <2>2. QED
    BY <1>4, <1>5, <2>1 DEF CapsAreHeld, Hit
<1>7. Final(Rep(t)) \in HeldFrom(span[t].level)
  BY <1>2, <1>6, EqualFps DEF RepFp
<1>8. Sure(t) => Final(Rep(t)) \in Firm(span[t].level)
  <2>1. span[t].level \in Nat /\ (Draining(t) => span[t].level # 0)
    BY <1>2 DEF Draining
  <2>2. QED
    BY <1>7, <2>1, HeldIsFirm DEF Sure
<1>9. QED
  BY <1>7, <1>8

LEMMA SeenRep ==
  ASSUME TypeOK, Places, SeenIsFirm, NEW t \in Threads, Judging(t), ~Draining(t), HasSeen(t)
  PROVE  Final(Rep(t)) \in Firm(0)
<1>1. PlaceOf(t)
  BY DEF Places
<1>2. Rep(t) \in Values /\ FpOf(CodeAt(0, Rep(t))) \in FpsOf(0, Firm(0))
  BY <1>1, RepType DEF HasSeen, SeenIsFirm
<1>3. 0 \in 0 .. Caps /\ 0 <= FinalLevel
  BY Levels, Shape
<1>4. QED
  BY <1>2, <1>3, EqualFps

(* A lane judged: streamed, or dropped for one that is carried on.         *)
Streamed(t, keep) ==
  /\ Judging(t) /\ ~Draining(t) /\ StreamRep(t, keep)
  /\ keep \/ Final(Rep(t)) \in Firm(0)
  /\ Pending(t, 0) /\ ~Shadow => keep
  /\ seen' \in {seen, [seen EXCEPT ![t] = @ \union {RepFp(t)}]}
  /\ UNCHANGED <<config, window, next, slots, at, span, out, ending>>
  /\ look' \in {look, [look EXCEPT ![t] = NoLook]}

LEMMA VerdictStreams ==
  ASSUME TypeOK, Places, SeenIsFirm, NEW t \in Threads, Judging(t), ~Draining(t), NEW keep \in BOOLEAN,
         Verdict(t, keep), UNCHANGED <<config, window, next, slots, at, ending>>,
         keep \/ Shadow \/ Final(Rep(t)) \in Firm(0), Pending(t, 0) => keep
  PROVE  \E k \in BOOLEAN : Streamed(t, k)
<1>1. PlaceOf(t) /\ SpanOf(t)
  BY DEF Places
<1>2. /\ StreamRep(t, Streams(t, keep)) /\ Streams(t, keep) \in BOOLEAN
      /\ seen' = IF Shadow THEN [seen EXCEPT ![t] = @ \union {RepFp(t)}] ELSE seen
      /\ UNCHANGED <<span, out>> /\ look' = [look EXCEPT ![t] = NoLook]
  BY <1>1, VerdictEffect, Zenon
<1>3. Streams(t, keep) \/ Final(Rep(t)) \in Firm(0)
  BY SeenRep DEF Streams
<1>4. Pending(t, 0) /\ ~Shadow => Streams(t, keep)
  BY DEF Streams
<1>5. QED
  BY <1>2, <1>3, <1>4 DEF Streamed

LEMMA JudgeStreams ==
  ASSUME TypeOK, Places, SeenIsFirm, NEW t \in Threads, Judge(t)
  PROVE  \E k \in BOOLEAN : Streamed(t, k)
<1>1. PlaceOf(t) /\ SpanOf(t) /\ Judging(t) /\ ~Draining(t) /\ ~Pending(t, 0)
  BY DEF Places, Judge, Judging, Pending, Storing
<1>2. UNCHANGED <<config, window, next, slots, at, span, out, look, ending>>
  BY DEF Judge
<1>3. CASE config.pcap = "production"
  <2>1. StreamRep(t, TRUE) /\ UNCHANGED seen
    BY <1>3 DEF Judge
  <2>2. QED
    BY <1>1, <1>2, <2>1 DEF Streamed
<1>4. CASE config.pcap # "production"
  <2>1. StreamRep(t, ~HasSeen(t)) /\ Remember(t)
    BY <1>4 DEF Judge
  <2>2. HasSeen(t) \in BOOLEAN /\ RepFp(t) = FpOf(CodeAt(0, Rep(t)))
    BY <1>1 DEF HasSeen, RepFp, SpanOf, NoSpan
  <2>3. ~HasSeen(t) \/ Final(Rep(t)) \in Firm(0)
    BY <1>1, SeenRep
  <2>4. seen' = [seen EXCEPT ![t] = @ \union {RepFp(t)}]
    BY <2>1, <2>2 DEF Remember
  <2>5. Streamed(t, ~HasSeen(t))
    BY <1>1, <1>2, <2>1, <2>3, <2>4 DEF Streamed
  <2>6. QED
    BY <2>2, <2>5
<1>5. QED
  BY <1>3, <1>4

LEMMA StreamStep ==
  ASSUME TypeOK, Places, NEW t \in Threads, Work(t), NEW keep \in BOOLEAN, Streamed(t, keep)
  PROVE  /\ \A l \in Nat : Firm(l) \subseteq Firm(l)' /\ HeldFrom(l) \subseteq HeldFrom(l)'
         /\ Final(Rep(t)) \in Firm(0)'
<1>1. PlaceOf(t) /\ SpanOf(t) /\ Judging(t) /\ ~Draining(t)
  BY DEF Places, Streamed
<1>2. /\ \A l \in Nat : \A e : InKept(t, l, e) \/ InRest(t, l, e) => Final(e) \in Firm(l)'
      /\ keep => Final(Rep(t)) \in Firm(0)'
  BY <1>1, StreamCarries DEF Streamed
<1>3. \A l \in Nat : Pending(t, l) => l = 0
  BY <1>1 DEF Pending, SpanOf, NoSpan
<1>4. ASSUME NEW l \in Nat, NEW e \in FirmOf(t, l) PROVE Final(e) \in Firm(l)'
  <2>1. CASE InKept(t, l, e) \/ InRest(t, l, e)
    BY <1>2, <2>1
  <2>2. CASE Pending(t, l) /\ Sure(t) /\ e = Rep(t)
    BY <1>1, <1>2, <1>3, <2>2 DEF Sure, Streamed
  <2>3. QED
    BY <2>1, <2>2, FirmIs
<1>5. \A l \in Nat : Firm(l) \subseteq Firm(l)'
  BY <1>4, FirmFrom
<1>6. Final(Rep(t)) \in Firm(0)'
  BY <1>2, <1>5 DEF Streamed
<1>7. config' = config
  BY DEF Streamed
<1>8. ASSUME NEW l \in Nat, NEW e \in Passed(t, l) PROVE Final(e) \in HeldFrom(l)'
  <2>1. CASE InKept(t, l, e) \/ InRest(t, l, e)
    BY <1>2, <1>7, <2>1, FirmIsHeldNext
  <2>2. CASE Pending(t, l) /\ e = Rep(t)
    BY <1>3, <1>6, <1>7, <2>2, FirmIsHeldNext
  <2>3. QED
    BY <2>1, <2>2, PassedIs
<1>9. \A l \in Nat : HeldFrom(l) \subseteq HeldFrom(l)'
  BY <1>8, FirmFrom
<1>10. QED
  BY <1>5, <1>6, <1>9

(* A code of a wave judged: kept, or dropped for one that is carried on.   *)
LEMMA DrainVerdictStep ==
  ASSUME TypeOK, Places, NEW t \in Threads, Work(t), Judging(t), Draining(t), NEW keep \in BOOLEAN,
         Verdict(t, keep), keep \/ Final(Rep(t)) \in Firm(span[t].level), Pending(t, 0) => keep
  PROVE  \A l \in Nat : Firm(l) \subseteq Firm(l)' /\ HeldFrom(l) \subseteq HeldFrom(l)'
<1>1. PlaceOf(t) /\ SpanOf(t) /\ config' = config /\ UNCHANGED <<config, window>>
  BY ConfigKept DEF Places, Next
<1>2. /\ \A l \in Nat : \A e : InKept(t, l, e) => e \in FirmOf(t, l)'
      /\ \A l \in Nat : \A e : InRest(t, l, e) /\ e # Rep(t) => e \in FirmOf(t, l)'
      /\ keep => \A l \in 0 .. span[t].level : Rep(t) \in FirmOf(t, l)'
  BY <1>1, DrainVerdictCarries
<1>3. span[t].level \in Nat /\ span[t].level > 0
  BY LocalTypes DEF Spans, Draining
<1>4. ASSUME NEW l \in Nat, NEW e \in FirmOf(t, l) PROVE Final(e) \in Firm(l)'
  <2>1. CASE e \in FirmOf(t, l)'
    BY <1>1, <2>1, InFirmNext
  <2>2. CASE e \notin FirmOf(t, l)'
    <3>1. e = Rep(t) /\ (InRest(t, l, e) \/ Pending(t, l))
      BY <1>2, <1>4, <2>2, FirmIs
    <3>2. l <= span[t].level
      BY <1>3, <3>1 DEF InRest, Pending, Draining
    <3>3. ~keep
      BY <1>2, <1>3, <2>2, <3>1, <3>2
    <3>4. ~Pending(t, l) /\ ~Pending(t, span[t].level)
      BY <1>3, <3>3 DEF Pending
    <3>5. Final(Rep(t)) \in Firm(span[t].level)
      BY <3>3
    <3>6. CASE \E u \in Threads : Final(Rep(t)) \in fin[u]
      BY <1>1, <3>1, <3>6, DoneGrows, InFirmNext
    <3>7. CASE \E u \in Threads : \E x \in FirmOf(u, span[t].level) : Final(Rep(t)) = Final(x)
      <4>1. PICK u \in Threads : \E x \in FirmOf(u, span[t].level) : Final(Rep(t)) = Final(x)
        BY <3>7
      <4>2. PICK x \in FirmOf(u, span[t].level) : Final(Rep(t)) = Final(x)
        BY <4>1
      <4>3. CASE u # t
        <5>1. x \in FirmOf(u, l)
          BY <1>3, <3>2, <4>2, FirmShrinks
        <5>2. x \in FirmOf(u, l)'
          BY <4>3, <5>1, FirmOthers
        <5>3. QED
          BY <1>1, <3>1, <4>2, <5>2, InFirmNext
      <4>4. CASE u = t
        <5>1. ~InRest(t, span[t].level, x)
          BY <1>3 DEF InRest
        <5>2. InKept(t, span[t].level, x)
          BY <3>4, <4>2, <4>4, <5>1, FirmIs
        <5>3. InKept(t, l, x)
          BY <3>2, <5>2 DEF InKept
        <5>4. QED
          BY <1>1, <1>2, <3>1, <4>2, <5>3, InFirmNext
      <4>5. QED
        BY <4>3, <4>4
    <3>8. QED
      BY <3>5, <3>6, <3>7, InFirm
  <2>3. QED
    BY <2>1, <2>2
<1>5. \A l \in Nat : Firm(l) \subseteq Firm(l)'
  BY <1>4, FirmFrom
<1>6. ASSUME NEW l \in Nat, NEW e \in Passed(t, l) PROVE Final(e) \in HeldFrom(l)'
  <2>1. e \in FirmOf(t, l)
    BY FirmIs, PassedIs DEF Sure
  <2>2. QED
    BY <1>1, <1>4, <2>1, FirmIsHeldNext
<1>7. QED
  BY <1>5, <1>6, FirmFrom

Dropped(t, keep) ==
  /\ Judging(t) /\ Draining(t) /\ Verdict(t, keep)
  /\ keep \/ Final(Rep(t)) \in Firm(span[t].level)
  /\ Pending(t, 0) => keep
  /\ UNCHANGED <<next, slots, at>>

(* Steps that leave the wave alone.                                        *)
Stays(t) ==
  /\ UNCHANGED <<wave, span, out, seen, fin>>
  /\ Pending(t, 0) => Storing(t)' /\ look'[t].keep /\ Rep(t)' = Rep(t)

LEMMA ProbeCarries ==
  ASSUME TypeOK, Places, CapsAreHeld, SeenIsFirm, NEW t \in Threads, Probe(t)
  PROVE  \/ \E keep \in BOOLEAN : Streamed(t, keep) \/ Dropped(t, keep)
         \/ Stays(t) /\ UNCHANGED <<next, slots, at, lanes>>
<1>1. PlaceOf(t) /\ SpanOf(t) /\ Judging(t) /\ ~Pending(t, 0) /\ Probing(t)
  BY ProbeCases DEF Places, Probing, Judging, Pending, Storing
<1>2. UNCHANGED <<config, window, next, slots, at, ending>>
  BY ProbeCases
<1>3. CASE Hit(t) /\ Verdict(t, FALSE)
  <2>1. CASE Draining(t)
    <3>1. Final(Rep(t)) \in Firm(span[t].level)
      BY <1>1, <1>3, <2>1, HitIsHeld DEF Sure
    <3>2. Dropped(t, FALSE)
      BY <1>1, <1>2, <1>3, <2>1, <3>1 DEF Dropped
    <3>3. QED
      BY <3>2
  <2>2. CASE ~Draining(t)
    <3>1. span[t].level = 0
      BY <1>1, <2>2 DEF SpanOf, NoSpan
    <3>2. Shadow \/ Final(Rep(t)) \in Firm(0)
      BY <1>1, <1>3, <3>1, HitIsHeld DEF Sure
    <3>3. QED
      BY <1>1, <1>2, <1>3, <2>2, <3>2, VerdictStreams
  <2>3. QED
    BY <2>1, <2>2
<1>4. CASE ~(Hit(t) /\ Verdict(t, FALSE))
  <2>1. UNCHANGED <<wave, span, out, seen, fin, lanes>>
    BY <1>4, ProbeCases DEF WillPut, WillLook
  <2>2. QED
    BY <1>1, <1>2, <2>1 DEF Stays
<1>5. QED
  BY <1>3, <1>4

LEMMA WriteCarries ==
  ASSUME TypeOK, Places, SeenIsFirm, StoresRep, NEW t \in Threads, WriteVictim(t)
  PROVE  \/ \E keep \in BOOLEAN : Streamed(t, keep) \/ Dropped(t, keep)
         \/ Stays(t) /\ UNCHANGED <<next, slots, at, lanes>>
<1>1. PlaceOf(t) /\ SpanOf(t) /\ Judging(t) /\ Storing(t) /\ look[t].keep \in BOOLEAN
  BY LocalTypes DEF Places, WriteVictim, Storing, Judging, Looks
<1>2. UNCHANGED <<config, window, next, slots, at, ending>>
  BY DEF WriteVictim
<1>3. look[t].keep \/ (~Draining(t) /\ ~Shadow /\ Final(Rep(t)) \in Firm(0))
  BY <1>1 DEF StoresRep
<1>4. Pending(t, 0) => look[t].keep
  BY DEF Pending
<1>5. CASE Verdict(t, look[t].keep)
  <2>1. CASE Draining(t)
    <3>1. Dropped(t, look[t].keep)
      BY <1>1, <1>2, <1>3, <1>4, <1>5, <2>1 DEF Dropped
    <3>2. QED
      BY <1>1, <3>1
  <2>2. CASE ~Draining(t)
    BY <1>1, <1>2, <1>3, <1>4, <1>5, <2>2, VerdictStreams
  <2>3. QED
    BY <2>1, <2>2
<1>6. CASE ~Verdict(t, look[t].keep)
  <2>1. /\ look' = [look EXCEPT ![t].puts = Tail(@)] /\ pc' = [pc EXCEPT ![t] = "victim"]
        /\ UNCHANGED <<lanes, wave, span, out, seen, fin, hits>>
    BY <1>6 DEF WriteVictim
  <2>2. pc'[t] = "victim" /\ look'[t].keep = look[t].keep
    BY <2>1 DEF TypeOK
  <2>3. Rep(t)' = Rep(t)
    BY <2>1 DEF Rep, Draining
  <2>4. Stays(t)
    BY <1>4, <2>1, <2>2, <2>3 DEF Stays, Storing
  <2>5. QED
    BY <1>2, <2>1, <2>4
<1>7. QED
  BY <1>5, <1>6

LEMMA StaysCarries ==
  ASSUME TypeOK, Places, NEW t \in Threads, Pull(t) \/ Map1(t) \/ ReadVictim(t) \/ StoreSlot(t)
  PROVE  Stays(t)
<1>1. UNCHANGED <<wave, span, out, seen, fin>>
  BY DEF Pull, Map1, ReadVictim, StoreSlot
<1>2. CASE Pull(t) \/ Map1(t)
  BY <1>1, <1>2 DEF Pull, Map1, Stays, Pending, Storing
<1>3. CASE ReadVictim(t) \/ StoreSlot(t)
  <2>1. Storing(t)' /\ look'[t].keep = look[t].keep /\ lanes' = lanes
    BY <1>3 DEF ReadVictim, StoreSlot, TypeOK, Storing
  <2>2. Rep(t)' = Rep(t)
    BY <1>1, <2>1 DEF Rep, Draining
  <2>3. QED
    BY <1>1, <2>1, <2>2 DEF Stays, Pending
<1>4. QED
  BY <1>2, <1>3

LEMMA FirmStep ==
  ASSUME TypeOK, Places, CapsAreHeld, SeenIsFirm, StoresRep, NEW t \in Threads, Work(t)
  PROVE  \A l \in Nat : Firm(l) \subseteq Firm(l)' /\ HeldFrom(l) \subseteq HeldFrom(l)'
<1>1. PlaceOf(t) /\ SpanOf(t) /\ UNCHANGED <<config, window>> /\ config' = config
  BY ConfigKept DEF Places, Next
<1>2. CASE Stays(t)
  <2>1. \A l \in Nat : FirmOf(t, l) \subseteq FirmOf(t, l)' /\ Passed(t, l) \subseteq Passed(t, l)'
    BY <1>1, <1>2, KeepsWave DEF Stays
  <2>2. ASSUME NEW l \in Nat, NEW e \in FirmOf(t, l) PROVE Final(e) \in Firm(l)'
    BY <1>1, <2>1, InFirmNext
  <2>3. ASSUME NEW l \in Nat, NEW e \in Passed(t, l) PROVE Final(e) \in HeldFrom(l)'
    BY <1>1, <2>1, InHeldNext
  <2>4. QED
    BY <2>2, <2>3, FirmFrom
<1>3. CASE DrainBegin(t) \/ DrainBatch(t) \/ DrainNext(t)
  <2>1. ASSUME NEW l \in Nat, NEW e \in Passed(t, l) PROVE Final(e) \in Firm(l)'
    BY <1>1, <1>3, DrainCarries, InFirmNext
  <2>2. ASSUME NEW l \in Nat, NEW e \in FirmOf(t, l) PROVE Final(e) \in Firm(l)'
    BY <2>1, FirmIs, PassedIs
  <2>3. ASSUME NEW l \in Nat, NEW e \in Passed(t, l) PROVE Final(e) \in HeldFrom(l)'
    BY <1>1, <2>1, FirmIsHeldNext
  <2>4. QED
    BY <2>2, <2>3, FirmFrom
<1>4. CASE DrainExact(t) \/ DrainEnd(t)
  <2>1. pc[t] = "drain" /\ span[t].w = 0
    BY <1>1, <1>4 DEF DrainExact, DrainEnd, SpanOf, NoSpan
  <2>2. \E reps : Finals(t, reps) /\
          {CodeAt(LastCap, d) : d \in reps} = {CodeAt(LastCap, wave[t][n]) : n \in DOMAIN wave[t]}
    <3>1. CASE DrainExact(t)
      BY <3>1, DrainExactEffect
    <3>2. CASE DrainEnd(t)
      BY <3>2 DEF DrainEnd
    <3>3. QED
      BY <1>4, <3>1, <3>2
  <2>3. ASSUME NEW l \in Nat, NEW e \in Passed(t, l) PROVE Final(e) \in fin'[t]
    BY <1>1, <2>1, <2>2, FinalsCarry
  <2>4. ASSUME NEW l \in Nat, NEW e \in FirmOf(t, l) PROVE Final(e) \in Firm(l)'
    BY <1>1, <2>3, FirmIs, PassedIs, InFirmNext
  <2>5. ASSUME NEW l \in Nat, NEW e \in Passed(t, l) PROVE Final(e) \in HeldFrom(l)'
    BY <1>1, <2>3, InHeldNext
  <2>6. QED
    BY <2>4, <2>5, FirmFrom
<1>5. ASSUME NEW keep \in BOOLEAN, Streamed(t, keep)
      PROVE  \A l \in Nat : Firm(l) \subseteq Firm(l)' /\ HeldFrom(l) \subseteq HeldFrom(l)'
  BY <1>5, StreamStep
<1>6. ASSUME NEW keep \in BOOLEAN, Dropped(t, keep)
      PROVE  \A l \in Nat : Firm(l) \subseteq Firm(l)' /\ HeldFrom(l) \subseteq HeldFrom(l)'
  BY <1>6, DrainVerdictStep DEF Dropped
<1>7. CASE Probe(t) \/ WriteVictim(t)
  BY <1>2, <1>5, <1>6, <1>7, ProbeCarries, WriteCarries
<1>8. CASE Judge(t)
  BY <1>5, <1>8, JudgeStreams
<1>9. CASE Pull(t) \/ Map1(t) \/ ReadVictim(t) \/ StoreSlot(t)
  BY <1>2, <1>9, StaysCarries
<1>10. QED
  BY <1>3, <1>4, <1>7, <1>8, <1>9 DEF Work

-----------------------------------------------------------------------------
(* What is judged, what is remembered, what is about to be written.        *)

Ahead(t, d) ==
  \/ \E i \in at[t].d .. at[t].hi - 1 : d = window[i]
  \/ \E n \in DOMAIN lanes[t] : d = lanes[t][n]

LEMMA InUnjudged ==
  \A d : d \in Unjudged <=> \/ config.dynamic /\ \E i \in next .. Eff - 1 : d = window[i]
                            \/ \E t \in Threads : Ahead(t, d)
BY DEF Unjudged, Ahead

LEMMA InUnjudgedNext ==
  ASSUME UNCHANGED <<config, window>>, Eff' = Eff
  PROVE  \A d : d \in Unjudged' <=> \/ config.dynamic /\ \E i \in next' .. Eff - 1 : d = window[i]
                                    \/ \E t \in Threads : Ahead(t, d)'
BY DEF Unjudged, Ahead

LEMMA AheadOthers ==
  ASSUME TypeOK, NEW t \in Threads, Work(t), NEW u \in Threads \ {t}, NEW d
  PROVE  Ahead(u, d)' <=> Ahead(u, d)
<1>1. UNCHANGED <<at[u], lanes[u], window>>
  BY OthersKept, ConfigKept DEF LocalsOf, Next
<1>2. QED
  BY <1>1 DEF Ahead

(* A value not yet judged is judged by a verdict only.                     *)
LEMMA AheadStep ==
  ASSUME TypeOK, Places, NEW t \in Threads, Work(t), NEW d, d \in Unjudged,
         UNCHANGED next, Ahead(t, d) => Ahead(t, d)' \/ Final(d) \in Firm(0)'
  PROVE  d \in Unjudged' \/ Final(d) \in Firm(0)'
<1>1. UNCHANGED <<config, window>> /\ Eff' = Eff
  BY ConfigKept DEF Next
<1>2. CASE config.dynamic /\ \E i \in next .. Eff - 1 : d = window[i]
  BY <1>1, <1>2, InUnjudgedNext
<1>3. CASE \E u \in Threads : Ahead(u, d)
  <2>1. PICK u \in Threads : Ahead(u, d)
    BY <1>3
  <2>2. CASE u = t
    BY <1>1, <2>1, <2>2, InUnjudgedNext
  <2>3. CASE u # t
    BY <1>1, <2>1, <2>3, AheadOthers, InUnjudgedNext
  <2>4. QED
    BY <2>2, <2>3
<1>4. QED
  BY <1>2, <1>3, InUnjudged

LEMMA PullAhead ==
  ASSUME TypeOK, Places, NEW t \in Threads, Pull(t), NEW d, d \in Unjudged
  PROVE  d \in Unjudged'
<1>1. UNCHANGED <<config, window>> /\ Eff' = Eff /\ UNCHANGED lanes
  BY DEF Pull, Eff
<1>2. PlaceOf(t) /\ next \in Nat /\ Eff \in Nat /\ at[t].d \in Nat /\ at[t].hi \in Nat /\ Chunk \in Nat
  <2>1. Eff \in Nat /\ Chunk \in Nat
    BY WindowType, Shape
  <2>2. at[t] \in Ranges
    BY LocalTypes
  <2>3. QED
    BY <2>1, <2>2 DEF Places, TypeOK, Ranges
<1>3. ~Ahead(t, d)
  <2>1. at[t].d = at[t].hi /\ lanes[t] = << >>
    BY <1>2 DEF Pull, PlaceOf
  <2>2. at[t].d .. at[t].hi - 1 = {} /\ DOMAIN lanes[t] = {}
    BY <1>2, <2>1
  <2>3. QED
    BY <2>2 DEF Ahead
<1>4. CASE \E u \in Threads : Ahead(u, d)
  <2>1. PICK u \in Threads \ {t} : Ahead(u, d)
    BY <1>3, <1>4
  <2>2. Work(t)
    BY DEF Work
  <2>3. QED
    BY <1>1, <2>1, <2>2, AheadOthers, InUnjudgedNext
<1>5. CASE config.dynamic /\ \E i \in next .. Eff - 1 : d = window[i]
  <2>1. PICK i \in next .. Eff - 1 : d = window[i]
    BY <1>5
  <2>2. next < Eff /\ config.dynamic
    BY <1>2, <1>5, <2>1
  <2>3. next' = next + Chunk /\ at' = [at EXCEPT ![t] = [d |-> next, hi |-> Min({next + Chunk, Eff})]]
    BY <2>2 DEF Pull
  <2>4. at'[t].d = next /\ at'[t].hi = IF next + Chunk <= Eff THEN next + Chunk ELSE Eff
    <3>1. at'[t] = [d |-> next, hi |-> Min({next + Chunk, Eff})]
      BY <2>3 DEF TypeOK
    <3>2. Min({next + Chunk, Eff}) = IF next + Chunk <= Eff THEN next + Chunk ELSE Eff
      BY <1>2, MinIs
    <3>3. QED
      BY <3>1, <3>2
  <2>5. CASE i \in next' .. Eff - 1
    BY <1>1, <2>1, <2>2, <2>5, InUnjudgedNext
  <2>6. CASE i \notin next' .. Eff - 1
    <3>1. i \in at'[t].d .. at'[t].hi - 1
      <4>1. i \in next .. Eff - 1 /\ i \notin next + Chunk .. Eff - 1
        BY <2>1, <2>3, <2>6
      <4>2. i < next + Chunk
        BY <1>2, <4>1
      <4>3. QED
        BY <1>2, <2>4, <4>1, <4>2
    <3>2. Ahead(t, d)'
      BY <1>1, <2>1, <3>1 DEF Ahead
    <3>3. QED
      BY <1>1, <3>2, InUnjudgedNext
  <2>7. QED
    BY <2>5, <2>6
<1>6. QED
  BY <1>4, <1>5, InUnjudged

LEMMA Map1Ahead ==
  ASSUME TypeOK, Places, NEW t \in Threads, Map1(t), NEW d, Ahead(t, d)
  PROVE  Ahead(t, d)'
<1>1. PlaceOf(t) /\ window' = window /\ lanes[t] = << >> /\ at[t].d \in Nat /\ at[t].hi \in Nat
  BY DEF Places, Map1, PlaceOf, TypeOK
<1>2. CASE at[t].d = at[t].hi
  BY <1>1, <1>2 DEF Map1, Ahead
<1>3. CASE at[t].d # at[t].hi
  <2>1. PICK i \in at[t].d .. at[t].hi - 1 : d = window[i]
    <3>1. DOMAIN lanes[t] = {}
      BY <1>1
    <3>2. QED
      BY <3>1 DEF Ahead
  <2>2. Batch(t) \in Nat /\ Batch(t) > 0 /\ at[t].d + Batch(t) <= at[t].hi
    BY <1>1, <1>3, Map1Range
  <2>3. /\ lanes'[t] = [k \in 1 .. Batch(t) |-> window[at[t].d + k - 1]]
        /\ at'[t].d = at[t].d + Batch(t) /\ at'[t].hi = at[t].hi
    BY <1>3 DEF Map1, TypeOK
  <2>4. CASE i \in at'[t].d .. at'[t].hi - 1
    BY <1>1, <2>1, <2>4 DEF Ahead
  <2>5. CASE i \notin at'[t].d .. at'[t].hi - 1
    <3>1. i - at[t].d + 1 \in 1 .. Batch(t) /\ at[t].d + (i - at[t].d + 1) - 1 = i
      BY <1>1, <2>1, <2>2, <2>3, <2>5
    <3>2. i - at[t].d + 1 \in DOMAIN lanes'[t] /\ lanes'[t][i - at[t].d + 1] = d
      BY <2>1, <2>3, <3>1
    <3>3. QED
      BY <3>2 DEF Ahead
  <2>6. QED
    BY <2>4, <2>5
<1>4. QED
  BY <1>2, <1>3

LEMMA StreamAhead ==
  ASSUME TypeOK, Places, NEW t \in Threads, Work(t), NEW keep \in BOOLEAN, Streamed(t, keep), NEW d, Ahead(t, d)
  PROVE  Ahead(t, d)' \/ Final(d) \in Firm(0)'
<1>1. PlaceOf(t) /\ SpanOf(t) /\ Judging(t) /\ ~Draining(t) /\ UNCHANGED <<at, window>>
  BY DEF Places, Streamed
<1>2. /\ lanes[t] # << >> /\ Rep(t) = lanes[t][1] /\ Tail(lanes[t]) \in Seq(Values)
      /\ Len(Tail(lanes[t])) = Len(lanes[t]) - 1
      /\ \A n \in 1 .. Len(lanes[t]) - 1 : Tail(lanes[t])[n] = lanes[t][n + 1]
  BY <1>1, RepType
<1>3. lanes'[t] = Tail(lanes[t])
  <2>1. lanes' = [lanes EXCEPT ![t] = Tail(@)]
    BY DEF Streamed, StreamRep
  <2>2. QED
    BY <2>1 DEF TypeOK
<1>4. Final(Rep(t)) \in Firm(0)'
  BY StreamStep
<1>5. CASE \E i \in at[t].d .. at[t].hi - 1 : d = window[i]
  BY <1>1, <1>5 DEF Ahead
<1>6. CASE \E n \in DOMAIN lanes[t] : d = lanes[t][n]
  <2>1. PICK n \in 1 .. Len(lanes[t]) : d = lanes[t][n]
    BY <1>6, LocalTypes
  <2>2. CASE n = 1
    BY <1>2, <1>4, <2>1, <2>2
  <2>3. CASE n # 1
    <3>1. n - 1 \in 1 .. Len(lanes[t]) - 1 /\ (n - 1) + 1 = n
      <4>1. Len(lanes[t]) \in Nat
        BY LocalTypes
      <4>2. QED
        BY <2>1, <2>3, <4>1
    <3>2. Tail(lanes[t])[n - 1] = d
      BY <1>2, <2>1, <3>1
    <3>3. n - 1 \in DOMAIN Tail(lanes[t])
      BY <1>2, <3>1, LenProperties
    <3>4. QED
      BY <1>3, <3>2, <3>3 DEF Ahead
  <2>4. QED
    BY <2>2, <2>3
<1>7. QED
  BY <1>5, <1>6 DEF Ahead

LEMMA JudgedStep ==
  ASSUME IInv, NEW t \in Threads, Work(t)
  PROVE  JudgedIsFirm'
<1>1. TypeOK /\ Places /\ CapsAreHeld /\ SeenIsFirm /\ StoresRep
  BY DEF IInv
<1>2. Values' = Values /\ config' = config /\ \A d : Final(d)' = Final(d)
  BY ConfigKept DEF Next
<1>3. Firm(0) \subseteq Firm(0)'
  BY <1>1, FirmStep
<1>4. ASSUME NEW d, d \in Unjudged PROVE d \in Unjudged' \/ Final(d) \in Firm(0)'
  <2>1. CASE Pull(t)
    BY <1>1, <1>4, <2>1, PullAhead
  <2>2. CASE Map1(t)
    <3>1. UNCHANGED next
      BY <2>2 DEF Map1
    <3>2. QED
      BY <1>1, <1>4, <2>2, <3>1, Map1Ahead, AheadStep
  <2>3. ASSUME NEW keep \in BOOLEAN, Streamed(t, keep) PROVE d \in Unjudged' \/ Final(d) \in Firm(0)'
    BY <1>1, <1>4, <2>3, StreamAhead, AheadStep DEF Streamed
  <2>4. ASSUME UNCHANGED <<next, at, lanes>> PROVE d \in Unjudged' \/ Final(d) \in Firm(0)'
    <3>1. Ahead(t, d) => Ahead(t, d)'
      <4>1. window' = window
        BY ConfigKept DEF Next
      <4>2. QED
        BY <2>4, <4>1 DEF Ahead
    <3>2. QED
      BY <1>1, <1>4, <2>4, <3>1, AheadStep
  <2>5. ASSUME NEW keep \in BOOLEAN, Dropped(t, keep) PROVE UNCHANGED <<next, at, lanes>>
    BY <2>5 DEF Dropped, Verdict
  <2>6. CASE Probe(t) \/ WriteVictim(t)
    BY <1>1, <2>3, <2>4, <2>5, <2>6, ProbeCarries, WriteCarries
  <2>7. CASE Judge(t)
    BY <1>1, <2>3, <2>7, JudgeStreams
  <2>8. CASE ~(Pull(t) \/ Map1(t) \/ Judge(t) \/ Probe(t) \/ WriteVictim(t))
    BY <2>4, <2>8 DEF Work, ReadVictim, StoreSlot, DrainExact, DrainBegin, DrainBatch, DrainNext, DrainEnd
  <2>9. QED
    BY <2>1, <2>2, <2>6, <2>7, <2>8
<1>5. QED
  BY <1>1, <1>2, <1>3, <1>4 DEF IInv, JudgedIsFirm

LEMMA InFps ==
  \A l, x, finals : x \in FpsOf(l, finals) <=> \E e \in Values : Final(e) \in finals /\ x = FpOf(CodeAt(l, e))
BY DEF FpsOf

LEMMA InFpsNext ==
  ASSUME Values' = Values, config' = config
  PROVE  /\ \A l, x : x \in FpsOf(l, Firm(l))' <=>
                        \E e \in Values : Final(e) \in Firm(l)' /\ x = FpOf(CodeAt(l, e))
         /\ \A l, x : x \in FpsOf(l, HeldFrom(l))' <=>
                        \E e \in Values : Final(e) \in HeldFrom(l)' /\ x = FpOf(CodeAt(l, e))
<1>1. \A e : Final(e)' = Final(e)
  BY DEF Final, FinalLevel
<1>2. QED
  BY <1>1 DEF FpsOf

LEMMA SeenStep ==
  ASSUME IInv, NEW t \in Threads, Work(t)
  PROVE  SeenIsFirm'
<1>1. TypeOK /\ Places /\ CapsAreHeld /\ SeenIsFirm /\ StoresRep
  BY DEF IInv
<1>2. Values' = Values /\ config' = config
  BY ConfigKept DEF Next
<1>3. Firm(0) \subseteq Firm(0)'
  BY <1>1, FirmStep
<1>4. ASSUME NEW u \in Threads, NEW x \in seen[u] PROVE x \in FpsOf(0, Firm(0))'
  <2>1. PICK e \in Values : Final(e) \in Firm(0) /\ x = FpOf(CodeAt(0, e))
    BY <1>1, <1>4, InFps DEF SeenIsFirm
  <2>2. QED
    BY <1>2, <1>3, <2>1, InFpsNext
<1>5. ASSUME UNCHANGED seen PROVE SeenIsFirm'
  BY <1>4, <1>5 DEF SeenIsFirm
<1>6. ASSUME NEW keep \in BOOLEAN, Streamed(t, keep) PROVE SeenIsFirm'
  <2>1. PlaceOf(t) /\ SpanOf(t) /\ Judging(t) /\ ~Draining(t)
    BY <1>1, <1>6 DEF Places, Streamed
  <2>2. Rep(t) \in Values /\ Final(Rep(t)) \in Firm(0)'
    BY <1>1, <1>6, <2>1, RepType, StreamStep
  <2>3. RepFp(t) = FpOf(CodeAt(0, Rep(t)))
    BY <2>1 DEF RepFp, SpanOf, NoSpan
  <2>4. RepFp(t) \in FpsOf(0, Firm(0))'
    BY <1>2, <2>2, <2>3, InFpsNext
  <2>5. ASSUME NEW u \in Threads, NEW x \in seen'[u] PROVE x \in seen[u] \/ x = RepFp(t)
    <3>1. seen' = seen \/ seen' = [seen EXCEPT ![t] = seen[t] \union {RepFp(t)}]
      BY <1>6 DEF Streamed
    <3>2. seen \in [Threads -> SUBSET Nat]
      BY <1>1 DEF TypeOK
    <3>3. QED
      BY <2>5, <3>1, <3>2
  <2>6. QED
    BY <1>4, <2>4, <2>5 DEF SeenIsFirm
<1>7. ASSUME NEW keep \in BOOLEAN, Dropped(t, keep) PROVE UNCHANGED seen
  BY <1>7 DEF Dropped, Verdict
<1>8. CASE Probe(t) \/ WriteVictim(t)
  BY <1>1, <1>5, <1>6, <1>7, <1>8, ProbeCarries, WriteCarries DEF Stays
<1>9. CASE Judge(t)
  BY <1>1, <1>6, <1>9, JudgeStreams
<1>10. CASE ~(Judge(t) \/ Probe(t) \/ WriteVictim(t))
  BY <1>5, <1>10 DEF Work, Pull, Map1, ReadVictim, StoreSlot, DrainExact, DrainBegin, DrainBatch, DrainNext, DrainEnd
<1>11. QED
  BY <1>8, <1>9, <1>10

LEMMA CapsStep ==
  ASSUME IInv, NEW t \in Threads, Work(t)
  PROVE  CapsAreHeld'
<1>1. TypeOK /\ Places /\ CapsAreHeld /\ SeenIsFirm /\ StoresRep
  BY DEF IInv
<1>2. Values' = Values /\ config' = config
  BY ConfigKept DEF Next
<1>3. \A l \in Nat : Firm(l) \subseteq Firm(l)' /\ HeldFrom(l) \subseteq HeldFrom(l)'
  BY <1>1, FirmStep
<1>4. \A c \in 0 .. LastCap : LevelOf(c) \in 0 .. Caps
  BY Shape DEF LevelOf
<1>5. ASSUME NEW c \in 0 .. LastCap, NEW x \in FpsOf(LevelOf(c), HeldFrom(LevelOf(c)))
      PROVE  x \in FpsOf(LevelOf(c), HeldFrom(LevelOf(c)))'
  <2> DEFINE l == LevelOf(c)
  <2>1. l \in Nat
    BY <1>4
  <2>2. PICK e \in Values : Final(e) \in HeldFrom(l) /\ x = FpOf(CodeAt(l, e))
    BY <1>5, InFps
  <2>3. QED
    BY <1>2, <1>3, <2>1, <2>2, InFpsNext
<1>6. CASE UNCHANGED slots
  BY <1>1, <1>5, <1>6 DEF CapsAreHeld
<1>7. CASE StoreSlot(t)
  <2>1. PlaceOf(t) /\ SpanOf(t) /\ Storing(t) /\ Judging(t)
    BY <1>1, <1>7 DEF Places, StoreSlot, Storing, Judging
  <2> DEFINE c == Head(look[t].puts)
             s == SlotOf(RepFp(t), look[t].v)
  <2>2. c \in 0 .. LastCap /\ LevelOf(c) = span[t].level /\ s \in 0 .. MaxSlot /\ RepFp(t) \in Nat
    BY <1>1, <2>1, StoringPlace
  <2>3. slots' = [slots EXCEPT ![c][s] = RepFp(t)]
    BY <1>7 DEF StoreSlot
  <2>4. Rep(t) \in Values /\ span[t].level \in 0 .. Caps
    BY <1>1, <2>1, RepType, RepFpType
  <2>5. Final(Rep(t)) \in HeldFrom(span[t].level)
    <3>1. CASE look[t].keep
      <4>1. Pending(t, span[t].level)
        BY <2>1, <2>4, <3>1 DEF Pending
      <4>2. QED
        BY <4>1, PassedIs, InHeld
    <3>2. CASE ~look[t].keep
      <4>1. ~Draining(t) /\ Final(Rep(t)) \in Firm(0)
        BY <1>1, <2>1, <3>2 DEF StoresRep
      <4>2. span[t].level = 0
        BY <2>1, <4>1 DEF SpanOf, NoSpan
      <4>3. QED
        BY <1>1, <4>1, <4>2, HeldIsFirm
    <3>3. QED
      BY <3>1, <3>2
  <2>6. RepFp(t) \in FpsOf(LevelOf(c), HeldFrom(LevelOf(c)))
    BY <2>2, <2>4, <2>5, InFps DEF RepFp
  <2>7. slots \in [0 .. LastCap -> [0 .. MaxSlot -> Nat]]
    BY <1>1 DEF TypeOK
  <2> HIDE DEF c, s
  <2>8. ASSUME NEW b \in 0 .. LastCap, NEW r \in 0 .. MaxSlot, slots'[b][r] # 0
        PROVE  slots'[b][r] \in FpsOf(LevelOf(b), HeldFrom(LevelOf(b)))
    <3>1. slots'[b][r] = IF b = c /\ r = s THEN RepFp(t) ELSE slots[b][r]
      <4>1. [slots EXCEPT ![c][s] = RepFp(t)][b][r] = IF b = c /\ r = s THEN RepFp(t) ELSE slots[b][r]
        <5>1. c \in 0 .. LastCap /\ s \in 0 .. MaxSlot /\ RepFp(t) \in Nat
          BY <2>2
        <5>2. QED
          BY <2>7, <5>1
      <4>2. QED
        BY <2>3, <4>1, Zenon
    <3>2. CASE b = c /\ r = s
      BY <2>6, <3>1, <3>2
    <3>3. CASE ~(b = c /\ r = s)
      BY <1>1, <2>8, <3>1, <3>3 DEF CapsAreHeld
    <3>4. QED
      BY <3>2, <3>3
  <2>9. QED
    BY <1>5, <2>8 DEF CapsAreHeld
<1>8. CASE ~StoreSlot(t)
  <2>1. UNCHANGED slots
    BY <1>8 DEF Work, Pull, Map1, Judge, Probe, ReadVictim, WriteVictim, DrainExact, DrainBegin, DrainBatch,
       DrainNext, DrainEnd
  <2>2. QED
    BY <1>6, <2>1
<1>9. QED
  BY <1>7, <1>8

StoresOf(t) ==
  Storing(t) =>
    /\ look[t].puts # << >>
    /\ \A n \in DOMAIN look[t].puts : LevelOf(look[t].puts[n]) = span[t].level
    /\ look[t].keep \/ (~Draining(t) /\ ~Shadow /\ Final(Rep(t)) \in Firm(0))

LEMMA StoresOthers ==
  ASSUME IInv, NEW t \in Threads, Work(t), NEW u \in Threads \ {t}
  PROVE  StoresOf(u)'
<1>1. TypeOK /\ Places /\ CapsAreHeld /\ SeenIsFirm /\ StoresRep
  BY DEF IInv
<1>2. UNCHANGED LocalsOf(u) /\ Shadow' = Shadow /\ \A d : Final(d)' = Final(d)
  BY <1>1, OthersKept, ConfigKept DEF Next
<1>3. Firm(0) \subseteq Firm(0)'
  BY <1>1, FirmStep
<1>4. StoresOf(u)
  BY <1>1 DEF StoresRep, StoresOf
<1>5. (Storing(u)' <=> Storing(u)) /\ (Draining(u)' <=> Draining(u)) /\ Rep(u)' = Rep(u)
  BY <1>2 DEF Storing, Draining, Rep, LocalsOf
<1>6. QED
  BY <1>2, <1>3, <1>4, <1>5 DEF StoresOf, LocalsOf

LEMMA StoresStep ==
  ASSUME IInv, NEW t \in Threads, Work(t)
  PROVE  StoresRep'
<1>1. TypeOK /\ Places /\ CapsAreHeld /\ SeenIsFirm /\ StoresRep
  BY DEF IInv
<1>2. Shadow' = Shadow /\ config' = config /\ \A d : Final(d)' = Final(d)
  BY ConfigKept DEF Next
<1>3. Firm(0) \subseteq Firm(0)'
  BY <1>1, FirmStep
<1>4. PlaceOf(t) /\ SpanOf(t)
  BY <1>1 DEF Places
<1>5. ASSUME ~Storing(t)' PROVE StoresOf(t)'
  BY <1>5 DEF StoresOf
<1>6. ASSUME Judging(t), NEW keep \in BOOLEAN, Verdict(t, keep) PROVE ~Storing(t)'
  <2>1. CASE Draining(t)
    <3>1. pc' = [pc EXCEPT ![t] = IF Len(out[t]) > 1 THEN "judge" ELSE "drain"]
      BY <1>1, <1>4, <1>6, <2>1, VerdictEffect, Zenon
    <3>2. QED
      BY <1>1, <3>1 DEF TypeOK, Storing
  <2>2. CASE ~Draining(t)
    <3>1. StreamRep(t, Streams(t, keep)) /\ Streams(t, keep) \in BOOLEAN
      BY <1>1, <1>4, <1>6, <2>2, VerdictEffect, Zenon
    <3>2. pc'[t] \in {"drain", "judge", "map1"}
      BY <1>1, <1>4, <1>6, <2>2, <3>1, StreamRepEffect, Zenon
    <3>3. QED
      BY <3>2 DEF Storing
  <2>3. QED
    BY <2>1, <2>2
<1>7. ASSUME Judging(t), Judging(t)', UNCHANGED <<lanes, span, out>>, StoresOf(t),
             look'[t].puts # << >>, look'[t].keep = look[t].keep, Storing(t),
             \A n \in DOMAIN look'[t].puts : LevelOf(look'[t].puts[n]) = span[t].level
      PROVE  StoresOf(t)'
  <2>1. (Draining(t)' <=> Draining(t)) /\ Rep(t)' = Rep(t)
    BY <1>7 DEF Draining, Rep
  <2>2. QED
    BY <1>2, <1>3, <1>7, <2>1 DEF StoresOf
<1>8. StoresOf(t)
  BY <1>1 DEF StoresRep, StoresOf
<1>9. ASSUME Probe(t) PROVE StoresOf(t)'
  <2>1. Probing(t) /\ Judging(t) /\ pc[t] = "judge"
    BY <1>1, <1>9, ProbeCases DEF Probing, Judging
  <2>2. span[t].level \in 0 .. Caps
    BY <1>1, <1>4, <2>1, RepFpType
  <2>3. CASE Verdict(t, FALSE)
    BY <1>5, <1>6, <2>1, <2>3
  <2>4. ASSUME NEW second, NEW way, WillLook(t, second, way) PROVE ~Storing(t)'
    BY <2>1, <2>4 DEF WillLook, Storing
  <2>5. ASSUME NEW puts, NEW keep \in BOOLEAN, WillPut(t, puts, keep), puts # << >>,
               \A n \in DOMAIN puts : LevelOf(puts[n]) = span[t].level,
               keep \/ (~Draining(t) /\ ~Shadow /\ Final(Rep(t)) \in Firm(0))
        PROVE  StoresOf(t)'
    <3>1. look'[t].puts = puts /\ look'[t].keep = keep /\ UNCHANGED <<lanes, span, out>>
      <4>1. NoLook = [second |-> FALSE, way |-> 0, puts |-> << >>, v |-> 0, keep |-> FALSE]
        BY DEF NoLook
      <4>2. look'[t] = [NoLook EXCEPT !.puts = puts, !.keep = keep]
        BY <1>1, <2>5 DEF WillPut, TypeOK
      <4>3. look'[t].puts = puts /\ look'[t].keep = keep
        BY <4>1, <4>2
      <4>4. QED
        BY <2>5, <4>3, Zenon DEF WillPut
    <3>2. (Draining(t)' <=> Draining(t)) /\ Rep(t)' = Rep(t)
      BY <3>1 DEF Draining, Rep
    <3>3. QED
      BY <1>2, <1>3, <2>5, <3>1, <3>2 DEF StoresOf
  <2>6. ASSUME config.engine = "map1_screen" PROVE span[t].level = 0 /\ ~Draining(t) /\ ~Shadow
    BY <1>4, <2>2, <2>6 DEF PlaceOf, Draining, Shadow
  <2>7. CASE Hit(t) /\ look[t].second /\ WillPut(t, <<0>>, FALSE)
    <3>1. config.engine = "map1_screen"
      BY <1>4, <2>7 DEF PlaceOf
    <3>2. Final(Rep(t)) \in Firm(0)
      BY <1>1, <2>1, <2>6, <2>7, <3>1, HitIsHeld DEF Sure
    <3>3. <<0>> # << >> /\ \A n \in DOMAIN <<0>> : LevelOf(<<0>>[n]) = 0
      BY Shape DEF LevelOf
    <3>4. QED
      BY <2>5, <2>6, <2>7, <3>1, <3>2, <3>3
  <2>8. CASE Deep /\ WillPut(t, <<0, LastCap>>, TRUE)
    <3>1. <<0, LastCap>> # << >> /\ \A n \in DOMAIN <<0, LastCap>> : LevelOf(<<0, LastCap>>[n]) = 0
      BY Shape DEF LevelOf
    <3>2. QED
      BY <2>5, <2>6, <2>8, <3>1 DEF Deep
  <2>9. CASE WillPut(t, <<span[t].level>>, TRUE)
    <3>1. <<span[t].level>> # << >> /\
          \A n \in DOMAIN <<span[t].level>> : LevelOf(<<span[t].level>>[n]) = span[t].level
      BY <2>2, Shape DEF LevelOf
    <3>2. QED
      BY <2>5, <2>9, <3>1
  <2>10. QED
    BY <1>1, <1>5, <1>9, <2>3, <2>4, <2>7, <2>8, <2>9, ProbeCases
<1>10. ASSUME ReadVictim(t) \/ StoreSlot(t) PROVE StoresOf(t)'
  <2>1. /\ Judging(t) /\ Judging(t)' /\ Storing(t) /\ look'[t].puts = look[t].puts /\ look'[t].keep = look[t].keep
        /\ UNCHANGED <<lanes, span, out>>
    BY <1>1, <1>10, SMTT(30) DEF ReadVictim, StoreSlot, TypeOK, Judging, Storing
  <2>2. QED
    BY <1>7, <1>8, <2>1 DEF StoresOf
<1>11. ASSUME WriteVictim(t) PROVE StoresOf(t)'
  <2>1. Judging(t) /\ Storing(t) /\ look[t].keep \in BOOLEAN
    BY <1>1, <1>11, LocalTypes DEF WriteVictim, Judging, Storing, Looks
  <2>2. CASE Verdict(t, look[t].keep)
    BY <1>5, <1>6, <2>1, <2>2
  <2>3. CASE ~Verdict(t, look[t].keep)
    <3>1. /\ Len(look[t].puts) > 1 /\ look' = [look EXCEPT ![t].puts = Tail(@)] /\ pc' = [pc EXCEPT ![t] = "victim"]
          /\ UNCHANGED <<lanes, span, out>>
      BY <1>11, <2>3 DEF WriteVictim
    <3>2. look'[t].puts = Tail(look[t].puts) /\ look'[t].keep = look[t].keep /\ Judging(t)'
      BY <1>1, <3>1 DEF TypeOK, Judging, Storing
    <3>3. look[t].puts \in Seq(0 .. LastCap) /\ look[t].puts # << >>
      BY <1>1, <1>8, <2>1, LocalTypes DEF Looks, StoresOf
    <3>4. ASSUME NEW puts \in Seq(0 .. LastCap), puts # << >>, Len(puts) > 1,
                 \A n \in DOMAIN puts : LevelOf(puts[n]) = span[t].level
          PROVE  Tail(puts) # << >> /\ \A n \in DOMAIN Tail(puts) : LevelOf(Tail(puts)[n]) = span[t].level
      <4>1. /\ Tail(puts) \in Seq(0 .. LastCap) /\ Len(Tail(puts)) = Len(puts) - 1 /\ Len(puts) \in Nat
            /\ \A n \in 1 .. Len(Tail(puts)) : Tail(puts)[n] = puts[n + 1]
        BY <3>4, HeadTailProperties, LenProperties
      <4>2. Tail(puts) # << >>
        BY <3>4, <4>1, EmptyIs
      <4>3. ASSUME NEW n \in DOMAIN Tail(puts) PROVE LevelOf(Tail(puts)[n]) = span[t].level
        <5>1. n \in 1 .. Len(puts) - 1 /\ n + 1 \in DOMAIN puts
          BY <4>1, LenProperties
        <5>2. QED
          BY <3>4, <4>1, <5>1
      <4>4. QED
        BY <4>2, <4>3
    <3>5. QED
      BY <1>7, <1>8, <2>1, <3>1, <3>2, <3>3, <3>4 DEF StoresOf
  <2>4. QED
    BY <2>2, <2>3
<1>12. ASSUME Judge(t) PROVE StoresOf(t)'
  <2>1. PICK keep \in BOOLEAN : StreamRep(t, keep)
    BY <1>12 DEF Judge, HasSeen
  <2>2. Judging(t) /\ ~Draining(t)
    BY <1>12 DEF Judge, Judging
  <2>3. pc'[t] \in {"drain", "judge", "map1"}
    BY <1>1, <1>4, <2>1, <2>2, StreamRepEffect, Zenon
  <2>4. QED
    BY <1>5, <2>3 DEF Storing
<1>13. ASSUME Pull(t) \/ Map1(t) PROVE StoresOf(t)'
  <2>1. ~Storing(t)'
    BY <1>1, <1>13 DEF Pull, Flush, Map1, TypeOK, Storing
  <2>2. QED
    BY <1>5, <2>1
<1>14. ASSUME DrainExact(t) \/ DrainBegin(t) \/ DrainBatch(t) \/ DrainNext(t) \/ DrainEnd(t) PROVE StoresOf(t)'
  <2>1. pc'[t] \in {"drain", "judge", "done", "map1"}
    <3>1. Resume(t) \in {"done", "judge", "map1"}
      BY ResumeType
    <3>2. pc[t] = "drain" /\ pc \in [Threads -> PCs]
      BY <1>1, <1>14 DEF DrainExact, DrainBegin, DrainBatch, DrainNext, DrainEnd, TypeOK, PCs
    <3>3. pc' = pc \/ pc' = [pc EXCEPT ![t] = "judge"] \/ pc' = [pc EXCEPT ![t] = Resume(t)]
      BY <1>14 DEF DrainExact, DrainBegin, DrainBatch, DrainNext, DrainEnd, Finals
    <3>4. QED
      BY <3>1, <3>2, <3>3
  <2>2. QED
    BY <1>5, <2>1 DEF Storing
<1>15. StoresOf(t)'
  BY <1>9, <1>10, <1>11, <1>12, <1>13, <1>14 DEF Work
<1>16. \A u \in Threads : StoresOf(u)'
  BY <1>15, StoresOthers
<1>17. QED
  BY <1>16 DEF StoresRep, StoresOf

-----------------------------------------------------------------------------

LEMMA IInvStep ==
  ASSUME IInv, [Next]_vars
  PROVE  IInv'
<1>1. TypeOK' /\ Places'
  BY TypeStep, PlacesStep DEF IInv
<1>2. ASSUME NEW t \in Threads, Work(t) PROVE IInv'
  BY <1>1, <1>2, JudgedStep, SeenStep, CapsStep, StoresStep DEF IInv
<1>3. CASE UNCHANGED vars
  <2>1. /\ UNCHANGED <<config, window, next, slots, at, lanes, seen>> /\ UNCHANGED <<pc, look, wave, span, out, fin>>
    BY <1>3 DEF vars
  <2>2. /\ Values' = Values /\ Eff' = Eff /\ Shadow' = Shadow /\ \A d : Final(d)' = Final(d)
    BY <2>1 DEF Values, Eff, Shadow, Final, FinalLevel
  <2>3. \A t : (Draining(t)' <=> Draining(t)) /\ (Storing(t)' <=> Storing(t)) /\ Rep(t)' = Rep(t)
    BY <2>1 DEF Draining, Storing, Rep
  <2>4. \A t, l : FirmOf(t, l)' = FirmOf(t, l) /\ Passed(t, l)' = Passed(t, l)
    BY <2>1, <2>2, <2>3 DEF FirmOf, Pending, Passed, Storing
  <2>5. \A l : Firm(l)' = Firm(l) /\ HeldFrom(l)' = HeldFrom(l)
    BY <2>1, <2>2, <2>4 DEF Firm, HeldFrom, Done
  <2>6. Unjudged' = Unjudged
    BY <2>1, <2>2 DEF Unjudged
  <2>7. JudgedIsFirm'
    BY <2>2, <2>5, <2>6 DEF IInv, JudgedIsFirm
  <2>8. SeenIsFirm' /\ CapsAreHeld'
    BY <2>1, <2>2, <2>5 DEF IInv, SeenIsFirm, CapsAreHeld, FpsOf
  <2>9. StoresRep'
    BY <2>1, <2>2, <2>3, <2>5 DEF IInv, StoresRep
  <2>10. QED
    BY <1>1, <2>7, <2>8, <2>9 DEF IInv
<1>4. QED
  BY <1>2, <1>3 DEF Next, Joined

LEMMA IInvHolds == Spec => []IInv
<1>1. Init => IInv
  BY InitHolds
<1>2. IInv /\ [Next]_vars => IInv'
  BY IInvStep
<1>3. QED
  BY <1>1, <1>2, PTL DEF Spec

(* Every value of the threads' variables is of its kind, and a thread is   *)
(* where its wave, its batch and its range say.                            *)
THEOREM TypeCorrect == Spec => [](TypeOK /\ Places)
<1>1. IInv => TypeOK /\ Places
  BY DEF IInv
<1>2. QED
  BY <1>1, IInvHolds, PTL

LEMMA IInvHeld ==
  ASSUME IInv
  PROVE  EveryLossIsHeld
<1>1. TypeOK /\ Places /\ JudgedIsFirm /\ CapsAreHeld
  BY DEF IInv
<1>2. {Final(window[i]) : i \in {j \in DOMAIN window : window[j] \notin Unjudged}} \subseteq HeldFrom(0)
  <2>1. \A d \in Values : d \in Unjudged \/ Final(d) \in HeldFrom(0)
    BY <1>1, HeldIsFirm DEF JudgedIsFirm
  <2>2. QED
    BY <2>1 DEF Values
<1>3. ASSUME NEW l \in 0 .. Caps, NEW s \in 0 .. MaxSlot, slots[l][s] # 0
      PROVE  slots[l][s] \in {FpOf(CodeAt(l, d)) : d \in {window[i] : i \in {j \in DOMAIN window :
                                                             Final(window[j]) \in HeldFrom(l)}}}
  <2>1. l \in 0 .. LastCap /\ LevelOf(l) = l
    BY Shape DEF LevelOf
  <2>2. slots[l][s] \in FpsOf(l, HeldFrom(l))
    BY <1>1, <1>3, <2>1 DEF CapsAreHeld
  <2>3. PICK e \in Values : Final(e) \in HeldFrom(l) /\ slots[l][s] = FpOf(CodeAt(l, e))
    BY <2>2, InFps
  <2>4. PICK j \in DOMAIN window : e = window[j]
    BY DEF Values
  <2>5. e \in {window[i] : i \in {k \in DOMAIN window : Final(window[k]) \in HeldFrom(l)}}
    BY <2>3, <2>4
  <2>6. QED
    BY <2>3, <2>5
<1>4. QED
  BY <1>2, <1>3 DEF EveryLossIsHeld

(* At every moment, of every data value judged, and of every fingerprint a *)
(* cap remembers, a thread still carries an equal code on, or has its      *)
(* final code: no race of the threads over the unlocked caps (screen and   *)
(* Tier::put of SharedCap) makes a drop rely on one that is dropped.       *)
THEOREM EveryLossIsHeldCorrect == Spec => []EveryLossIsHeld
<1>1. IInv => EveryLossIsHeld
  BY IInvHeld
<1>2. QED
  BY <1>1, IInvHolds, PTL

-----------------------------------------------------------------------------
(* What a thread has reported.                                             *)

PassingOf(S) == {x \in S : Passing(x)}
HitsOf(t) ==
  /\ IsFiniteSet(fin[t])
  /\ config.engine = "map1_screen" => Cardinality(fin[t]) <= hits[t]
  /\ config.screen => /\ Cardinality(PassingOf(fin[t])) <= hits[t]
                      /\ PassingOf(fin[t]) = {} => hits[t] = 0
HitsCount == \A t \in Threads : HitsOf(t)

LEMMA UnionBound ==
  ASSUME NEW A, IsFiniteSet(A), NEW B, IsFiniteSet(B)
  PROVE  /\ IsFiniteSet(A \union B) /\ Cardinality(A) \in Nat /\ Cardinality(B) \in Nat
         /\ Cardinality(A \union B) \in Nat /\ Cardinality(A \union B) <= Cardinality(A) + Cardinality(B)
<1>1. IsFiniteSet(A \union B) /\ Cardinality(A \union B) = Cardinality(A) + Cardinality(B) - Cardinality(A \cap B)
  BY FS_Union
<1>2. IsFiniteSet(A \cap B)
  BY FS_Subset
<1>3. /\ Cardinality(A) \in Nat /\ Cardinality(B) \in Nat
      /\ Cardinality(A \union B) \in Nat /\ Cardinality(A \cap B) \in Nat
  BY <1>1, <1>2, FS_CardinalityType
<1>4. QED
  BY <1>1, <1>3

LEMMA PassingIs ==
  ASSUME NEW A, NEW B
  PROVE  /\ PassingOf(A \union B) = PassingOf(A) \union PassingOf(B)
         /\ IsFiniteSet(A) => IsFiniteSet(PassingOf(A))
<1>1. PassingOf(A) \in SUBSET A
  BY DEF PassingOf
<1>2. IsFiniteSet(A) => IsFiniteSet(PassingOf(A))
  BY <1>1, FS_Subset
<1>3. QED
  BY <1>2 DEF PassingOf

(* A drain ends with the codes g of the places D, and counts the places    *)
(* with a passing code.                                                    *)
LEMMA DrainHits ==
  ASSUME TypeOK, NEW t \in Threads, HitsOf(t), config' = config, config.engine = "raceway",
         NEW D, IsFiniteSet(D), NEW g, g \in [D -> {g[d] : d \in D}],
         fin' = [fin EXCEPT ![t] = @ \union {g[d] : d \in D}],
         hits' = IF config.screen THEN [hits EXCEPT ![t] = @ + Cardinality({d \in D : Passing(g[d])})] ELSE hits
  PROVE  HitsOf(t)'
<1> DEFINE more == {g[d] : d \in D}
           places == {d \in D : Passing(g[d])}
           p == [d \in places |-> g[d]]
           old == PassingOf(fin[t])
           added == PassingOf(more)
<1>1. fin'[t] = fin[t] \union more /\ IsFiniteSet(fin[t]) /\ hits[t] \in Nat
  BY DEF TypeOK, HitsOf
<1>2. config.screen => hits'[t] = hits[t] + Cardinality(places)
  BY DEF TypeOK
<1>3. IsFiniteSet(more)
  <2>1. g \in [D -> more] /\ \A y \in more : \E d \in D : g[d] = y
    OBVIOUS
  <2> HIDE DEF more
  <2>2. g \in Surjection(D, more)
    BY <2>1 DEF Surjection
  <2>3. QED
    BY <2>2, FS_Surjection
<1>4. places \in SUBSET D /\ added = {p[d] : d \in places} /\ (added = {} <=> places = {})
  BY DEF PassingOf
<1>5. p \in [places -> added] /\ \A x \in added : \E d \in places : p[d] = x
  BY <1>4
<1>6. PassingOf(fin'[t]) = old \union added
  BY <1>1 DEF PassingOf
<1>7. IsFiniteSet(old)
  BY <1>1, PassingIs
<1> HIDE DEF more, places, p, old, added
<1>8. p \in Surjection(places, added)
  BY <1>5 DEF Surjection
<1>9. /\ IsFiniteSet(added) /\ Cardinality(added) <= Cardinality(places)
      /\ Cardinality(places) \in Nat /\ Cardinality(added) \in Nat
  <2>1. IsFiniteSet(places)
    BY <1>4, FS_Subset
  <2>2. IsFiniteSet(added) /\ Cardinality(added) <= Cardinality(places)
    BY <1>8, <2>1, FS_Surjection
  <2>3. QED
    BY <2>1, <2>2, FS_CardinalityType
<1>10. IsFiniteSet(fin'[t])
  <2>1. IsFiniteSet(fin[t] \union more)
    BY <1>1, <1>3, UnionBound, Zenon
  <2>2. QED
    BY <1>1, <2>1, Zenon
<1>11. ASSUME config.screen
       PROVE  /\ Cardinality(PassingOf(fin'[t])) <= hits'[t]
              /\ PassingOf(fin'[t]) = {} => hits'[t] = 0
  <2>1. Cardinality(old) <= hits[t] /\ (old = {} => hits[t] = 0)
    BY <1>11 DEF HitsOf, old
  <2>2. Cardinality(old \union added) <= Cardinality(old) + Cardinality(added) /\ Cardinality(old) \in Nat
        /\ Cardinality(old \union added) \in Nat
    BY <1>7, <1>9, UnionBound
  <2>3. places = {} => Cardinality(places) = 0
    BY FS_EmptySet
  <2>4. old \union added = {} => old = {} /\ places = {}
    BY <1>4
  <2>5. Cardinality(old \union added) <= hits[t] + Cardinality(places)
    BY <1>1, <1>9, <2>1, <2>2
  <2>6. old \union added = {} => hits[t] + Cardinality(places) = 0
    BY <1>1, <2>1, <2>3, <2>4
  <2>7. hits'[t] = hits[t] + Cardinality(places)
    BY <1>2, <1>11
  <2>8. QED
    BY <1>6, <2>5, <2>6, <2>7, Zenon
<1>12. QED
  BY <1>10, <1>11 DEF HitsOf, PassingOf

LEMMA StreamHits ==
  ASSUME TypeOK, NEW t \in Threads, PlaceOf(t), Judging(t), ~Draining(t), NEW keep \in BOOLEAN,
         StreamRep(t, keep), HitsOf(t), config' = config
  PROVE  HitsOf(t)'
<1>1. IF keep /\ config.engine = "map1_screen"
      THEN fin' = [fin EXCEPT ![t] = @ \union {Final(Rep(t))}] /\ hits' = [hits EXCEPT ![t] = @ + 1]
      ELSE UNCHANGED <<fin, hits>>
  BY StreamRepEffect
<1>2. CASE UNCHANGED <<fin, hits>>
  BY <1>2 DEF HitsOf, PassingOf
<1>3. CASE keep /\ config.engine = "map1_screen"
  <2>1. fin'[t] = fin[t] \union {Final(Rep(t))} /\ hits'[t] = hits[t] + 1 /\ hits[t] \in Nat
    BY <1>1, <1>3 DEF TypeOK
  <2>2. IsFiniteSet(fin[t]) /\ Cardinality(fin[t]) <= hits[t] /\ Cardinality(fin[t]) \in Nat
    BY <1>3, FS_CardinalityType DEF HitsOf
  <2>3. IsFiniteSet(fin'[t]) /\ Cardinality(fin'[t]) <= Cardinality(fin[t]) + 1
    <3>1. ASSUME NEW S, NEW x, IsFiniteSet(S), Cardinality(S) \in Nat
          PROVE  IsFiniteSet(S \union {x}) /\ Cardinality(S \union {x}) <= Cardinality(S) + 1
      BY <3>1, FS_AddElement
    <3>2. QED
      BY <2>1, <2>2, <3>1
  <2>6. Cardinality(fin'[t]) \in Nat
    BY <2>3, FS_CardinalityType
  <2>4. ~config.screen
    BY <1>3, ConfigType
  <2>5. QED
    BY <2>1, <2>2, <2>3, <2>4, <2>6 DEF HitsOf
<1>4. QED
  BY <1>1, <1>2, <1>3

LEMMA HitsStep ==
  ASSUME IInv, HitsCount, NEW t \in Threads, Work(t)
  PROVE  HitsCount'
<1>1. TypeOK /\ PlaceOf(t) /\ SpanOf(t) /\ HitsOf(t) /\ config' = config
  BY ConfigKept DEF IInv, Places, HitsCount, Next
<1>2. ASSUME UNCHANGED <<fin, hits>> PROVE HitsOf(t)'
  BY <1>1, <1>2 DEF HitsOf, PassingOf
<1>3. ASSUME NEW keep \in BOOLEAN, Judging(t), Verdict(t, keep) PROVE HitsOf(t)'
  <2>1. CASE Draining(t)
    BY <1>1, <1>2, <1>3, <2>1, VerdictEffect, Zenon
  <2>2. CASE ~Draining(t)
    <3>1. StreamRep(t, Streams(t, keep)) /\ Streams(t, keep) \in BOOLEAN
      BY <1>1, <1>3, <2>2, VerdictEffect, Zenon
    <3>2. QED
      BY <1>1, <1>3, <2>2, <3>1, StreamHits
  <2>3. QED
    BY <2>1, <2>2
<1>4. ASSUME Judge(t) PROVE HitsOf(t)'
  <2>1. PICK keep \in BOOLEAN : StreamRep(t, keep)
    BY <1>4 DEF Judge, HasSeen
  <2>2. Judging(t) /\ ~Draining(t)
    BY <1>4 DEF Judge, Judging
  <2>3. QED
    BY <1>1, <2>1, <2>2, StreamHits
<1>5. ASSUME Probe(t) PROVE HitsOf(t)'
  <2>1. Judging(t)
    BY <1>5 DEF Probe, Probing, Judging
  <2>2. \A puts, keep : WillPut(t, puts, keep) => UNCHANGED <<fin, hits>>
    BY DEF WillPut
  <2>3. \A second, way : WillLook(t, second, way) => UNCHANGED <<fin, hits>>
    BY DEF WillLook
  <2>4. Verdict(t, FALSE) \/ UNCHANGED <<fin, hits>>
    BY <1>1, <1>5, <2>2, <2>3, ProbeCases
  <2>5. QED
    BY <1>2, <1>3, <2>1, <2>4
<1>6. ASSUME WriteVictim(t) PROVE HitsOf(t)'
  <2>1. Judging(t) /\ look[t].keep \in BOOLEAN
    BY <1>1, <1>6, LocalTypes DEF WriteVictim, Judging, Storing, Looks
  <2>2. Verdict(t, look[t].keep) \/ UNCHANGED <<fin, hits>>
    BY <1>6 DEF WriteVictim
  <2>3. QED
    BY <1>2, <1>3, <2>1, <2>2
<1>7. ASSUME pc[t] = "drain" PROVE config.engine = "raceway" /\ IsFiniteSet(DOMAIN wave[t])
                                   /\ IsFiniteSet({wave[t][n] : n \in DOMAIN wave[t]})
  <2>1. config.engine = "raceway"
    BY <1>1, <1>7, ConfigType DEF PlaceOf
  <2>2. DOMAIN wave[t] = 1 .. Len(wave[t]) /\ Len(wave[t]) \in Nat
    BY <1>1, LocalTypes
  <2>3. QED
    <3>1. IsFiniteSet(1 .. Len(wave[t]))
      BY <2>2, FS_Interval
    <3>2. QED
      BY <1>1, <2>1, <2>2, <3>1, WaveValues
<1>8. ASSUME DrainExact(t) PROVE HitsOf(t)'
  <2>1. PICK reps \in SUBSET {wave[t][n] : n \in DOMAIN wave[t]} :
          /\ Finals(t, reps)
          /\ hits' = IF config.screen
                     THEN [hits EXCEPT ![t] = @ + Cardinality({d \in reps : Passing(CodeAt(LastCap, d))})]
                     ELSE hits
    BY <1>1, <1>8, DrainExactEffect
  <2> DEFINE g == [d \in reps |-> CodeAt(LastCap, d)]
  <2>2. /\ {CodeAt(LastCap, d) : d \in reps} = {g[d] : d \in reps}
        /\ {d \in reps : Passing(CodeAt(LastCap, d))} = {d \in reps : Passing(g[d])}
        /\ g \in [reps -> {g[d] : d \in reps}]
    OBVIOUS
  <2>3. IsFiniteSet(reps) /\ config.engine = "raceway"
    <3>1. pc[t] = "drain"
      BY <1>8 DEF DrainExact
    <3>2. QED
      BY <1>7, <3>1, FS_Subset
  <2>4. fin' = [fin EXCEPT ![t] = @ \union {CodeAt(LastCap, d) : d \in reps}]
    BY <2>1 DEF Finals
  <2> HIDE DEF g
  <2>5. QED
    BY <1>1, <2>1, <2>2, <2>3, <2>4, DrainHits
<1>9. ASSUME DrainEnd(t) PROVE HitsOf(t)'
  <2> DEFINE D == DOMAIN wave[t]
             g == [n \in D |-> CodeAt(LastCap, wave[t][n])]
  <2>1. fin' = [fin EXCEPT ![t] = @ \union {CodeAt(LastCap, d) : d \in {wave[t][n] : n \in D}}]
    BY <1>9 DEF DrainEnd, Finals
  <2>2. {CodeAt(LastCap, d) : d \in {wave[t][n] : n \in D}} = {g[n] : n \in D}
    OBVIOUS
  <2>3. /\ {n \in D : Passing(CodeAt(LastCap, wave[t][n]))} = {n \in D : Passing(g[n])}
        /\ g \in [D -> {g[n] : n \in D}]
    OBVIOUS
  <2>4. hits' = IF config.screen
                THEN [hits EXCEPT ![t] = @ + Cardinality({n \in D : Passing(CodeAt(LastCap, wave[t][n]))})]
                ELSE hits
    BY <1>9 DEF DrainEnd
  <2>5. IsFiniteSet(D) /\ config.engine = "raceway"
    BY <1>7, <1>9 DEF DrainEnd
  <2> HIDE DEF g, D
  <2>6. QED
    BY <1>1, <2>1, <2>2, <2>3, <2>4, <2>5, DrainHits
<1>10. ASSUME Pull(t) \/ Map1(t) \/ ReadVictim(t) \/ StoreSlot(t) \/ DrainBegin(t) \/ DrainBatch(t) \/ DrainNext(t)
       PROVE  UNCHANGED <<fin, hits>>
  BY <1>10 DEF Pull, Map1, ReadVictim, StoreSlot, DrainBegin, DrainBatch, DrainNext
<1>11. HitsOf(t)'
  BY <1>2, <1>4, <1>5, <1>6, <1>8, <1>9, <1>10 DEF Work
<1>12. ASSUME NEW u \in Threads \ {t} PROVE HitsOf(u)'
  <2>1. fin'[u] = fin[u] /\ hits'[u] = hits[u] /\ HitsOf(u)
    BY <1>1, OthersKept DEF LocalsOf, HitsCount
  <2>2. QED
    BY <1>1, <2>1 DEF HitsOf, PassingOf
<1>13. QED
  BY <1>11, <1>12 DEF HitsCount

LEMMA HitsHold == Spec => []HitsCount
<1>1. Init => HitsCount
  BY FS_EmptySet DEF Init, HitsCount, HitsOf, PassingOf
<1>2. IInv /\ HitsCount /\ [Next]_vars => HitsCount'
  <2>1. SUFFICES ASSUME IInv, HitsCount, [Next]_vars PROVE HitsCount'
    OBVIOUS
  <2>2. CASE UNCHANGED vars
    BY <2>1, <2>2 DEF vars, HitsCount, HitsOf, PassingOf
  <2>3. QED
    BY <2>1, <2>2, HitsStep DEF Next, Joined
<1>3. QED
  BY <1>1, <1>2, IInvHolds, PTL DEF Spec

(* The sum of the threads' hits.                                           *)
Choice(s) == CHOOSE x \in s : TRUE
Small(n) == {s \in SUBSET Threads : Cardinality(s) <= n}
Summing(f, sets) ==
  f = [s \in sets |-> IF s = {} THEN 0 ELSE hits[Choice(s)] + f[s \ {Choice(s)}]]

LEMMA ThreadsFinite ==
  /\ IsFiniteSet(Threads) /\ Cardinality(Threads) = T
  /\ \A s \in SUBSET Threads : IsFiniteSet(s) /\ Cardinality(s) \in Nat /\ Cardinality(s) <= T
  /\ \A s \in SUBSET Threads : s # {} =>
       /\ Choice(s) \in s /\ s \ {Choice(s)} \in SUBSET Threads
       /\ Cardinality(s \ {Choice(s)}) = Cardinality(s) - 1
<1>1. IsFiniteSet(Threads) /\ Cardinality(Threads) = T
  <2>1. 0 \in Int /\ T - 1 \in Int /\ T \in Nat /\ T > 0
    BY Shape
  <2>2. \A b \in Int : IsFiniteSet(0 .. b) /\ Cardinality(0 .. b) = IF 0 > b THEN 0 ELSE b - 0 + 1
    BY FS_Interval
  <2>3. IsFiniteSet(0 .. T - 1) /\ Cardinality(0 .. T - 1) = IF 0 > T - 1 THEN 0 ELSE (T - 1) - 0 + 1
    BY <2>1, <2>2
  <2>4. QED
    BY <2>1, <2>3 DEF Threads
<1>2. ASSUME NEW s \in SUBSET Threads
      PROVE  IsFiniteSet(s) /\ Cardinality(s) \in Nat /\ Cardinality(s) <= T
  BY <1>1, FS_Subset, FS_CardinalityType
<1>3. ASSUME NEW s \in SUBSET Threads, s # {}
      PROVE  /\ Choice(s) \in s /\ s \ {Choice(s)} \in SUBSET Threads
             /\ Cardinality(s \ {Choice(s)}) = Cardinality(s) - 1
  <2>1. Choice(s) \in s
    BY <1>3 DEF Choice
  <2>2. QED
    BY <1>2, <2>1, FS_RemoveElement
<1>4. QED
  BY <1>1, <1>2, <1>3

LEMMA SumExists ==
  \A n \in Nat : \E f : Summing(f, Small(n))
<1> DEFINE S == {n \in Nat : ~ \E f : Summing(f, Small(n))}
<1>1. SUFFICES ASSUME S # {} PROVE FALSE
  OBVIOUS
<1>2. PICK n \in S : \A k \in 0 .. n - 1 : k \notin S
  BY <1>1, LeastElement
<1>3. CASE n = 0
  <2> DEFINE f == [s \in Small(0) |-> 0]
  <2>1. ASSUME NEW s \in Small(0) PROVE s = {}
    BY ThreadsFinite, FS_EmptySet DEF Small
  <2>2. Summing(f, Small(0))
    BY <2>1 DEF Summing
  <2>3. QED
    BY <1>2, <1>3, <2>2
<1>4. CASE n # 0
  <2>1. n \in Nat /\ n - 1 \in Nat /\ n - 1 \in 0 .. n - 1
    BY <1>2, <1>4
  <2>2. PICK f : Summing(f, Small(n - 1))
    BY <1>2, <2>1
  <2> DEFINE g == [s \in Small(n) |-> IF s = {} THEN 0 ELSE hits[Choice(s)] + f[s \ {Choice(s)}]]
  <2>3. ASSUME NEW s \in Small(n), s # {} PROVE s \ {Choice(s)} \in Small(n - 1)
    <3>1. s \in SUBSET Threads /\ Cardinality(s) <= n
      BY DEF Small
    <3>2. /\ s \ {Choice(s)} \in SUBSET Threads /\ Cardinality(s \ {Choice(s)}) = Cardinality(s) - 1
          /\ Cardinality(s) \in Nat
      BY <2>3, <3>1, ThreadsFinite
    <3>3. QED
      BY <2>1, <3>1, <3>2 DEF Small
  <2>4. ASSUME NEW u \in Small(n - 1) PROVE u \in Small(n) /\ f[u] = g[u]
    <3>1. u \in Small(n)
      BY <2>1, ThreadsFinite DEF Small
    <3>2. f[u] = IF u = {} THEN 0 ELSE hits[Choice(u)] + f[u \ {Choice(u)}]
      BY <2>2 DEF Summing
    <3>3. QED
      BY <3>1, <3>2
  <2>5. ASSUME NEW s \in Small(n)
        PROVE  g[s] = IF s = {} THEN 0 ELSE hits[Choice(s)] + g[s \ {Choice(s)}]
    <3>1. s # {} => f[s \ {Choice(s)}] = g[s \ {Choice(s)}]
      BY <2>3, <2>4
    <3>2. g[s] = IF s = {} THEN 0 ELSE hits[Choice(s)] + f[s \ {Choice(s)}]
      OBVIOUS
    <3> HIDE DEF g
    <3>3. QED
      BY <3>1, <3>2
  <2>6. g = [s \in Small(n) |-> g[s]]
    OBVIOUS
  <2> HIDE DEF g
  <2>7. Summing(g, Small(n))
    BY <2>5, <2>6 DEF Summing
  <2>8. QED
    BY <1>2, <2>7
<1>5. QED
  BY <1>3, <1>4

LEMMA TotalIs ==
  \E f : Summing(f, SUBSET Threads) /\ TotalHits = f[Threads]
<1> DEFINE f == CHOOSE g : Summing(g, SUBSET Threads)
<1>1. TotalHits = f[Threads]
  BY DEF TotalHits, MapThenSumSet, MapThenFoldSet, Summing, Choice
<1>2. Small(T) = SUBSET Threads
  BY ThreadsFinite DEF Small
<1>3. \E g : Summing(g, SUBSET Threads)
  BY <1>2, SumExists, Shape
<1>4. Summing(f, SUBSET Threads)
  BY <1>3
<1> HIDE DEF f
<1>5. QED
  BY <1>1, <1>4

(* Together the threads report at least every code they found.             *)
FinOf(s) == UNION {fin[t] : t \in s}
HitsOfSet(s, h) ==
  /\ h \in Nat /\ IsFiniteSet(FinOf(s))
  /\ config.engine = "map1_screen" => Cardinality(FinOf(s)) <= h
  /\ config.screen => /\ Cardinality(PassingOf(FinOf(s))) <= h
                      /\ PassingOf(FinOf(s)) = {} => h = 0

LEMMA OneMore ==
  ASSUME TypeOK, HitsCount, NEW s \in SUBSET Threads, NEW t \in s, NEW h, HitsOfSet(s \ {t}, h)
  PROVE  HitsOfSet(s, hits[t] + h)
<1> DEFINE F == fin[t]
           R == FinOf(s \ {t})
<1>1. FinOf(s) = F \union R
  BY DEF FinOf
<1>2. h \in Nat /\ hits[t] \in Nat /\ HitsOf(t)
  BY DEF HitsOfSet, TypeOK, HitsCount
<1>3. IsFiniteSet(F) /\ IsFiniteSet(R)
  BY <1>2 DEF HitsOf, HitsOfSet
<1>4. PassingOf(FinOf(s)) = PassingOf(F) \union PassingOf(R)
  BY <1>1, PassingIs
<1>5. config.engine = "map1_screen" => Cardinality(F) <= hits[t] /\ Cardinality(R) <= h
  BY <1>2 DEF HitsOf, HitsOfSet
<1>6. config.screen => /\ Cardinality(PassingOf(F)) <= hits[t] /\ Cardinality(PassingOf(R)) <= h
                       /\ PassingOf(F) = {} => hits[t] = 0
                       /\ PassingOf(R) = {} => h = 0
  BY <1>2 DEF HitsOf, HitsOfSet
<1> HIDE DEF F, R
<1>7. IsFiniteSet(PassingOf(F)) /\ IsFiniteSet(PassingOf(R))
  BY <1>3, PassingIs
<1>8. /\ IsFiniteSet(F \union R) /\ Cardinality(F) \in Nat /\ Cardinality(R) \in Nat
      /\ Cardinality(F \union R) \in Nat /\ Cardinality(F \union R) <= Cardinality(F) + Cardinality(R)
  BY <1>3, UnionBound, Zenon
<1> DEFINE PF == PassingOf(F)
           PR == PassingOf(R)
<1> HIDE DEF PF, PR
<1>9. /\ Cardinality(PF) \in Nat /\ Cardinality(PR) \in Nat /\ Cardinality(PF \union PR) \in Nat
      /\ Cardinality(PF \union PR) <= Cardinality(PF) + Cardinality(PR)
  BY <1>7, UnionBound, Zenon DEF PF, PR
<1>10. config.engine = "map1_screen" => Cardinality(FinOf(s)) <= hits[t] + h
  BY <1>1, <1>2, <1>5, <1>8
<1>11. config.screen => Cardinality(PassingOf(FinOf(s))) <= hits[t] + h
  BY <1>2, <1>4, <1>6, <1>9 DEF PF, PR
<1>12. config.screen /\ PassingOf(FinOf(s)) = {} => hits[t] + h = 0
  BY <1>2, <1>4, <1>6
<1>13. hits[t] + h \in Nat /\ IsFiniteSet(FinOf(s))
  BY <1>1, <1>2, <1>8
<1>14. QED
  BY <1>10, <1>11, <1>12, <1>13 DEF HitsOfSet

LEMMA TotalBound ==
  ASSUME TypeOK, HitsCount
  PROVE  HitsOfSet(Threads, TotalHits)
<1>1. PICK f : Summing(f, SUBSET Threads) /\ TotalHits = f[Threads]
  BY TotalIs
<1> DEFINE S == {n \in Nat : \E s \in SUBSET Threads : Cardinality(s) = n /\ ~HitsOfSet(s, f[s])}
<1>2. \A s \in SUBSET Threads : f[s] = IF s = {} THEN 0 ELSE hits[Choice(s)] + f[s \ {Choice(s)}]
  BY <1>1 DEF Summing
<1>3. ASSUME S # {} PROVE FALSE
  <2>1. PICK n \in S : \A k \in 0 .. n - 1 : k \notin S
    BY <1>3, LeastElement
  <2>2. PICK s \in SUBSET Threads : Cardinality(s) = n /\ ~HitsOfSet(s, f[s])
    BY <2>1
  <2>3. CASE s = {}
    <3>1. FinOf({}) = {} /\ PassingOf({}) = {}
      BY DEF FinOf, PassingOf
    <3>2. f[s] = 0
      BY <1>2, <2>3
    <3>3. IsFiniteSet({}) /\ Cardinality({}) = 0
      BY FS_EmptySet
    <3>4. HitsOfSet({}, 0)
      BY <3>1, <3>3 DEF HitsOfSet
    <3>5. QED
      BY <2>2, <2>3, <3>2, <3>4
  <2>4. CASE s # {}
    <3> DEFINE t == Choice(s)
               u == s \ {t}
    <3>1. t \in s /\ u \in SUBSET Threads /\ Cardinality(u) = n - 1 /\ Cardinality(u) \in Nat /\ n \in Nat
      BY <2>1, <2>2, <2>4, ThreadsFinite
    <3>2. n - 1 \notin S /\ n - 1 \in Nat
      BY <2>1, <3>1
    <3>3. HitsOfSet(u, f[u])
      BY <3>1, <3>2
    <3>4. f[s] = hits[t] + f[u]
      BY <1>2, <2>4
    <3> HIDE DEF t
    <3>5. HitsOfSet(s, hits[t] + f[u])
      BY <3>1, <3>3, OneMore
    <3>6. QED
      BY <2>2, <3>4, <3>5
  <2>5. QED
    BY <2>3, <2>4
<1>4. Cardinality(Threads) \in Nat /\ Threads \in SUBSET Threads
  BY ThreadsFinite
<1>5. HitsOfSet(Threads, f[Threads])
  BY <1>3, <1>4
<1>6. QED
  BY <1>1, <1>5

-----------------------------------------------------------------------------
(* What a search is about, and what it has found when it is over.          *)

LEMMA RepresentedIs ==
  ASSUME TypeOK
  PROVE  Represented = DataOf(config) /\ AllFinals = Ends
<1> DEFINE shed == IF PrecertActive(config) THEN SUBSET Certified ELSE {{}}
<1>1. /\ DOMAIN window = 0 .. EffOf(config) - 1
      /\ \A i \in DOMAIN window : window[i] = win_map_data(config, i)
  BY DEF TypeOK, WindowOf
<1>2. Represented = UNION {{window[i] \union s : s \in shed} : i \in DOMAIN window}
  BY DEF Represented
<1>3. DataOf(config) = UNION {{win_map_data(config, i) \union s : s \in shed} : i \in 0 .. EffOf(config) - 1}
  BY DEF DataOf
<1>4. {} \in shed /\ (~PrecertActive(config) => shed = {{}}) /\ (PrecertActive(config) => shed = SUBSET Certified)
  OBVIOUS
<1> HIDE DEF shed
<1>5. \A d : d \in Represented <=> \E i \in DOMAIN window : \E s \in shed : d = window[i] \union s
  BY <1>2
<1>6. \A d : d \in DataOf(config) <=> \E i \in 0 .. EffOf(config) - 1 : \E s \in shed : d = win_map_data(config, i) \union s
  BY <1>3
<1>7. Represented = DataOf(config)
  <2>1. \A d : d \in Represented <=> d \in DataOf(config)
    BY <1>1, <1>5, <1>6
  <2> HIDE DEF Represented, DataOf
  <2>2. QED
    BY <2>1
<1>8. ASSUME NEW i \in DOMAIN window, NEW s \in shed PROVE Final(window[i] \union s) = Final(window[i])
  <2>1. CASE PrecertActive(config)
    <3>1. config \in Configs /\ Runs(config) /\ s \in SUBSET Certified /\ i \in 0 .. EffOf(config) - 1
      BY <1>1, <1>4, <2>1 DEF TypeOK
    <3>2. CodeAt(0, window[i] \union s) = CodeAt(0, window[i])
      <4>1. \A r \in SUBSET Certified : CodeAt(0, win_map_data(config, i) \union r) = CodeAt(0, win_map_data(config, i))
        BY <2>1, <3>1, CodeAssumption, Zenon
      <4>2. QED
        BY <1>1, <3>1, <4>1
    <3>3. window[i] \union s \in DataOf(config) /\ window[i] \in DataOf(config)
      BY <1>5, <1>7, WindowType DEF Values
    <3>4. 0 \in 0 .. Caps + 1 /\ FinalLevel \in 0 .. Caps + 1 /\ 0 <= FinalLevel
      BY Levels, Shape
    <3>5. QED
      BY <3>1, <3>2, <3>3, <3>4, CodeAssumption DEF Final
  <2>2. CASE ~PrecertActive(config)
    <3>1. window[i] \union s = window[i]
      BY <1>4, <2>2
    <3>2. QED
      BY <3>1
  <2>3. QED
    BY <2>1, <2>2
<1>9. AllFinals = Ends
  <2>1. ASSUME NEW x \in AllFinals PROVE x \in Ends
    <3>1. PICK d \in Represented : x = Final(d)
      BY DEF AllFinals
    <3>2. PICK i \in DOMAIN window, s \in shed : d = window[i] \union s
      BY <1>5
    <3>3. QED
      BY <1>8, <3>1, <3>2 DEF Ends, Values
  <2>2. ASSUME NEW x \in Ends PROVE x \in AllFinals
    <3>1. PICK i \in DOMAIN window : x = Final(window[i])
      BY DEF Ends, Values
    <3>2. window[i] \union {} \in Represented /\ window[i] \union {} = window[i]
      BY <1>4, <1>5
    <3>3. QED
      BY <3>1, <3>2 DEF AllFinals
  <2>3. QED
    BY <2>1, <2>2
<1>10. QED
  BY <1>7, <1>9

LEMMA DoneIsAll ==
  ASSUME IInv, AllDone
  PROVE  Done = AllFinals
<1>1. TypeOK /\ Places /\ JudgedIsFirm
  BY DEF IInv
<1>2. ASSUME NEW t \in Threads
      PROVE  /\ wave[t] = << >> /\ ending[t] /\ lanes[t] = << >> /\ at[t].d = at[t].hi /\ ~Draining(t)
             /\ out[t] = << >> /\ span[t] = NoSpan /\ ~Storing(t) /\ (config.dynamic => next >= Eff)
             /\ at[t].d \in Nat
  <2>1. pc[t] = "done" /\ PlaceOf(t) /\ SpanOf(t)
    BY <1>1 DEF AllDone, Places
  <2>2. ~Judging(t) /\ ~Storing(t)
    BY <2>1 DEF Judging, Storing
  <2>3. at[t].d \in Nat
    BY <1>1, LocalTypes DEF Ranges
  <2>4. QED
    BY <2>1, <2>2, <2>3 DEF PlaceOf, SpanOf
<1>3. ASSUME NEW d PROVE d \notin Unjudged
  <2>1. ASSUME NEW t \in Threads PROVE ~Ahead(t, d)
    <3>1. at[t].d .. at[t].hi - 1 = {} /\ DOMAIN lanes[t] = {}
      BY <1>2
    <3>2. QED
      BY <3>1 DEF Ahead
  <2>2. 0 \in Threads /\ Eff \in Nat /\ next \in Nat
    <3>1. 0 \in Threads
      BY Shape DEF Threads
    <3>2. Eff \in Nat
      BY <1>1, WindowType
    <3>3. QED
      BY <1>1, <3>1, <3>2 DEF TypeOK
  <2>3. config.dynamic => next .. Eff - 1 = {}
    BY <1>2, <2>2
  <2>4. QED
    BY <2>1, <2>3, InUnjudged
<1>4. ASSUME NEW t \in Threads, NEW e PROVE e \notin FirmOf(t, 0)
  <2>1. span[t].w = 0 /\ span[t].pi = 0 /\ Len(wave[t]) = 0 /\ DOMAIN out[t] = {}
    BY <1>2 DEF NoSpan
  <2>2. ~InKept(t, 0, e)
    BY <2>1 DEF InKept
  <2>3. ~InRest(t, 0, e)
    BY <2>1 DEF InRest
  <2>4. ~Pending(t, 0)
    BY <1>2 DEF Pending
  <2>5. QED
    BY <2>2, <2>3, <2>4, FirmIs
<1>5. Ends \subseteq Done
  <2>1. ASSUME NEW d \in Values PROVE Final(d) \in Done
    <3>1. Final(d) \in Firm(0)
      BY <1>1, <1>3 DEF JudgedIsFirm
    <3>2. QED
      BY <1>4, <3>1, InFirm DEF Done
  <2>2. QED
    BY <2>1 DEF Ends
<1>6. Done \subseteq Ends
  BY <1>1 DEF Done, TypeOK
<1>7. QED
  BY <1>1, <1>5, <1>6, RepresentedIs

(* When the workers have been joined, the search has covered as many data  *)
(* values as asked for, found their final codes and no other, and reported *)
(* at least every passing one, for any number of threads and any shape of  *)
(* ranges, waves and caps (worker and main of cpu_raceway, SharedCap).     *)
THEOREM NothingMissedCorrect == Spec => []NothingMissed
<1>1. IInv /\ HitsCount => NothingMissed
  <2>1. SUFFICES ASSUME IInv, HitsCount, AllDone
                 PROVE  /\ Cardinality(Represented) = config.window
                        /\ UNION {fin[t] : t \in Threads} = AllFinals
                        /\ config.engine = "map1_screen" => TotalHits >= Cardinality(AllFinals)
                        /\ config.screen =>
                             /\ TotalHits >= Cardinality({x \in AllFinals : Passing(x)})
                             /\ {x \in AllFinals : Passing(x)} = {} => TotalHits = 0
    BY Zenon DEF NothingMissed
  <2>2. TypeOK
    BY <2>1 DEF IInv
  <2>3. Cardinality(Represented) = config.window
    BY <2>2, RepresentedIs, WindowAssumption DEF TypeOK
  <2>4. FinOf(Threads) = AllFinals
    BY <2>1, DoneIsAll DEF Done, FinOf
  <2>5. HitsOfSet(Threads, TotalHits)
    BY <2>1, <2>2, TotalBound
  <2>6. TotalHits \in Nat /\ IsFiniteSet(AllFinals) /\ IsFiniteSet(PassingOf(AllFinals))
    BY <2>4, <2>5, PassingIs DEF HitsOfSet
  <2>7. Cardinality(AllFinals) \in Nat /\ Cardinality(PassingOf(AllFinals)) \in Nat
    BY <2>6, FS_CardinalityType
  <2>8. QED
    BY <2>3, <2>4, <2>5, <2>6, <2>7 DEF HitsOfSet, FinOf, PassingOf
<1>2. QED
  BY <1>1, IInvHolds, HitsHold, PTL

=============================================================================
