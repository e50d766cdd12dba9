------------------------ MODULE RacewayWorkerProofs -------------------------
(***************************************************************************)
(* Two slots are enough: for any number of keys, batches, windows and      *)
(* memory, whatever the prepare thread and the copy engine do meanwhile, a *)
(* key's kernels read its own offset stream from a slot nobody writes.     *)
(***************************************************************************)
EXTENDS RacewayWorker, TLAPS

Busy == {"schedule", "size", "offset", "compute"}
Active == Busy \cup {"get"}

(* A prepare thread past its build has staged its key; one that issued an  *)
(* upload has it in flight or done.                                        *)
StagedInv ==
  /\ future.at \in {"upload", "issued"} => prefetch /\ future.slot \in Slots
  /\ future.at \in {"upload", "issued", "ready"} /\ future.slot \in Slots
       => pinned[future.slot] = future.key
  /\ future.at = "issued" => dma[future.slot] \/ dbuf[future.slot] = future.key

(* The key prepared is the one the main thread will ask for, in the slot   *)
(* of its parity; without overlap nothing is prepared.                     *)
AheadInv ==
  /\ pc \in Active => InBatch(idx)
  /\ pc \in {"top", "get"} /\ overlap /\ InBatch(idx)
       => future.key = key /\ future.slot \in {NoSlot, idx % 2}
  /\ pc \in Busy /\ overlap /\ InBatch(idx + 1)
       => future.key = key + 1 /\ future.slot = (idx + 1) % 2
  /\ pc \in Busy /\ ~(overlap /\ InBatch(idx + 1)) => future = NoFuture
  /\ ~overlap => future = NoFuture

(* What was taken from the prepare thread stays what it was, because the   *)
(* prepare thread has the other slot now.                                  *)
TakenInv ==
  pc \in Busy =>
    /\ prepared.key = key
    /\ prepared.pinned \in {NoSlot, idx % 2}
    /\ prepared.pinned # NoSlot => pinned[prepared.pinned] = key
    /\ prepared.upload # NoSlot =>
         /\ prefetch
         /\ prepared.upload = idx % 2
         /\ prepared.pinned = prepared.upload
         /\ dma[prepared.upload] \/ dbuf[prepared.upload] = key

(* What the kernels were launched with.                                    *)
LaunchedInv ==
  /\ pc = "offset" => size \in {0, chosen}
  /\ pc = "compute" =>
       /\ size = chosen
       /\ caps = {key}
       /\ source # FromCache => /\ source = prepared.upload
                                /\ prepared.upload # NoSlot
                                /\ ~dma[source]
       /\ source = FromCache => ostream = key

IInv == TypeOK /\ StagedInv /\ AheadInv /\ TakenInv /\ LaunchedInv

-----------------------------------------------------------------------------
LEMMA InitInv == Init => IInv
<1> SUFFICES ASSUME Init PROVE IInv
  OBVIOUS
<1> USE NumKeysAssumption
<1>1. TypeOK
  <2>1. /\ overlap \in BOOLEAN /\ prefetch \in BOOLEAN /\ daemon \in BOOLEAN
        /\ stopFile \in BOOLEAN
    BY DEF Init
  <2>2. /\ first \in Keys /\ last \in Keys /\ idx \in Nat /\ schedule \in Keys
    BY DEF Init, Keys
  <2>3. future \in [key : Keys \cup {None}, slot : Slots \cup {NoSlot},
                   at : {"none", "build", "upload", "ready", "issued"}]
    <3>1. NoFuture.key \in Keys \cup {None} /\ 1 \in Keys
      BY DEF NoFuture, Keys
    <3>2. future = NoFuture \/ future = Prepare(1, NoSlot)
      BY DEF Init
    <3>3. QED
      BY <3>1, <3>2 DEF NoFuture, Prepare
  <2>4. /\ pc \in {"top", "get", "schedule", "size", "offset", "compute", "done",
                   "stdin", "gone"}
        /\ prepared \in [key : Keys \cup {None}, pinned : Slots \cup {NoSlot},
                         upload : Slots \cup {NoSlot}]
        /\ pinned \in [Slots -> Keys \cup {None}]
        /\ dbuf \in [Slots -> Keys \cup {None}]
        /\ dma \in [Slots -> BOOLEAN]
    BY DEF Init, Unprepared
  <2>5. /\ ostream \in Keys \cup {None, Unallocated}
        /\ size \in Nat /\ chosen \in Nat
        /\ source \in Slots \cup {FromCache}
        /\ caps \in SUBSET Keys
    BY DEF Init
  <2>6. QED
    BY <2>1, <2>2, <2>3, <2>4, <2>5 DEF TypeOK
<1>2. StagedInv
  BY DEF Init, StagedInv, NoFuture, Prepare
<1>3. AheadInv
  BY DEF Init, AheadInv, Active, Busy, InBatch, key, Prepare, Keys
<1>4. TakenInv /\ LaunchedInv
  BY DEF Init, TakenInv, LaunchedInv, Busy
<1>5. QED
  BY <1>1, <1>2, <1>3, <1>4 DEF IInv

(* The prepare thread and the copy engine leave the main thread where it   *)
(* is, and change a slot the main thread does not read.                    *)
LEMMA BuildInv == IInv /\ PrepareBuild => IInv'
<1> SUFFICES ASSUME IInv, PrepareBuild PROVE IInv'
  OBVIOUS
<1>1. TypeOK'
  BY DEF IInv, TypeOK, PrepareBuild, options, cacheVars, Slots, NoSlot
<1>2. StagedInv'
  BY DEF IInv, TypeOK, StagedInv, PrepareBuild, options, Slots, NoSlot
<1>3. AheadInv'
  BY DEF IInv, TypeOK, AheadInv, PrepareBuild, options, NoFuture, InBatch, key
<1>4. TakenInv'
  BY DEF IInv, TypeOK, AheadInv, TakenInv, PrepareBuild, options, NoFuture, InBatch,
         key, Slots, NoSlot
<1>5. LaunchedInv'
  BY DEF IInv, LaunchedInv, PrepareBuild, options, cacheVars, key
<1>6. QED
  BY <1>1, <1>2, <1>3, <1>4, <1>5 DEF IInv

LEMMA UploadInv == IInv /\ PrepareUpload => IInv'
<1> SUFFICES ASSUME IInv, PrepareUpload PROVE IInv'
  OBVIOUS
<1>1. TypeOK'
  <2>1. future.slot \in Slots
    BY DEF IInv, StagedInv, PrepareUpload
  <2>2. dma' \in [Slots -> BOOLEAN]
    BY <2>1 DEF IInv, TypeOK, PrepareUpload
  <2>3. future' \in [key : Keys \cup {None}, slot : Slots \cup {NoSlot},
                    at : {"none", "build", "upload", "ready", "issued"}]
    BY DEF IInv, TypeOK, PrepareUpload
  <2>4. QED
    BY <2>2, <2>3 DEF IInv, TypeOK, PrepareUpload, options, cacheVars
<1>2. StagedInv'
  BY DEF IInv, TypeOK, StagedInv, PrepareUpload, options
<1>3. AheadInv'
  BY DEF IInv, TypeOK, AheadInv, PrepareUpload, options, NoFuture, InBatch, key
<1>4. TakenInv'
  BY DEF IInv, TypeOK, StagedInv, AheadInv, TakenInv, PrepareUpload, options, NoFuture,
         InBatch, key, Slots, NoSlot
<1>5. LaunchedInv'
  BY DEF IInv, TypeOK, StagedInv, AheadInv, TakenInv, LaunchedInv, PrepareUpload, options,
         cacheVars, NoFuture, InBatch, key, Busy, Slots, NoSlot, FromCache
<1>6. QED
  BY <1>1, <1>2, <1>3, <1>4, <1>5 DEF IInv

LEMMA CopyInv == ASSUME IInv, NEW s \in Slots, CopyDone(s) PROVE IInv'
<1>1. TypeOK'
  BY DEF IInv, TypeOK, CopyDone, options, cacheVars
<1>2. StagedInv'
  BY DEF IInv, TypeOK, StagedInv, CopyDone, options
<1>3. AheadInv'
  BY DEF IInv, AheadInv, CopyDone, options, InBatch, key
<1>4. TakenInv'
  BY DEF IInv, TypeOK, TakenInv, CopyDone, options, key, Slots, NoSlot
<1>5. LaunchedInv'
  BY DEF IInv, TypeOK, LaunchedInv, CopyDone, options, cacheVars, key, Slots, FromCache
<1>6. QED
  BY <1>1, <1>2, <1>3, <1>4, <1>5 DEF IInv

-----------------------------------------------------------------------------
(* The main thread between keys: nothing a running key reads is at stake.  *)
Pausing == CreateStopFile \/ StopAtKey \/ BatchOver \/ Refuse \/ EndBatch \/ LastLine

LEMMA PausingInv == IInv /\ Pausing => IInv'
<1> SUFFICES ASSUME IInv, Pausing PROVE IInv'
  OBVIOUS
<1>1. UNCHANGED <<options, first, last, idx, future, prepared, bufferVars, schedule,
                  cacheVars, chosen, source>>
  BY DEF Pausing, CreateStopFile, StopAtKey, BatchOver, Refuse, EndBatch, LastLine
<1>2. stopFile' \in BOOLEAN /\ (pc' = pc \/ pc' \in {"done", "gone", "stdin"})
  BY DEF IInv, TypeOK, Pausing, CreateStopFile, StopAtKey, BatchOver, Refuse, EndBatch,
         LastLine
<1>3. TypeOK'
  BY <1>1, <1>2 DEF IInv, TypeOK, options, bufferVars, cacheVars
<1>4. StagedInv'
  BY <1>1 DEF IInv, StagedInv, options, bufferVars
<1>5. AheadInv'
  BY <1>1, <1>2 DEF IInv, AheadInv, options, InBatch, key, Active, Busy
<1>6. TakenInv'
  BY <1>1, <1>2 DEF IInv, TakenInv, options, bufferVars, key, Busy
<1>7. LaunchedInv'
  BY <1>1, <1>2 DEF IInv, LaunchedInv, bufferVars, cacheVars, key
<1>8. QED
  BY <1>3, <1>4, <1>5, <1>6, <1>7 DEF IInv

LEMMA BeginInv == IInv /\ BeginKey => IInv'
<1> SUFFICES ASSUME IInv, BeginKey PROVE IInv'
  OBVIOUS
<1>1. TypeOK'
  BY DEF IInv, TypeOK, BeginKey, Release, options, bufferVars, cacheVars
<1>2. StagedInv'
  BY DEF IInv, StagedInv, BeginKey, options, bufferVars
<1>3. AheadInv'
  BY DEF IInv, AheadInv, BeginKey, options, InBatch, key, Active, Busy
<1>4. TakenInv' /\ LaunchedInv'
  BY DEF BeginKey, TakenInv, LaunchedInv, Busy
<1>5. QED
  BY <1>1, <1>2, <1>3, <1>4 DEF IInv

(* Taking a key hands the prepare thread the other slot.                   *)
LEMMA GetInv == IInv /\ GetPrepared => IInv'
<1> SUFFICES ASSUME IInv, GetPrepared PROVE IInv'
  OBVIOUS
<1> USE NumKeysAssumption
<1>1. InBatch(idx) /\ key \in Keys /\ (InBatch(idx + 1) => key + 1 \in Keys)
  BY DEF IInv, TypeOK, AheadInv, GetPrepared, InBatch, key, Keys, Active
<1>2. (idx + 1) % 2 \in Slots /\ idx % 2 \in Slots /\ (idx + 1) % 2 # idx % 2
  BY DEF IInv, TypeOK, Slots
<1>3. CASE overlap
  <2>1. /\ FutureReady
        /\ prepared' = [key |-> future.key, pinned |-> future.slot,
                        upload |-> IF future.at = "issued" THEN future.slot ELSE NoSlot]
        /\ future' = IF InBatch(idx + 1) THEN Prepare(key + 1, (idx + 1) % 2) ELSE NoFuture
    BY <1>3 DEF GetPrepared
  <2>2. future.key = key /\ future.slot \in {NoSlot, idx % 2}
    BY <1>1, <1>3 DEF IInv, AheadInv, GetPrepared
  <2>3. TypeOK'
    BY <1>1, <1>2, <2>1 DEF IInv, TypeOK, GetPrepared, Prepare, NoFuture, options,
                            bufferVars, cacheVars
  <2>4. StagedInv'
    BY <2>1 DEF StagedInv, Prepare, NoFuture
  <2>5. AheadInv'
    BY <1>1, <1>3, <2>1 DEF GetPrepared, AheadInv, Prepare, options, InBatch, key, Active, Busy
  <2>6. TakenInv'
    BY <1>2, <2>1, <2>2 DEF IInv, TypeOK, StagedInv, TakenInv, GetPrepared, FutureReady,
                            options, bufferVars, key, Slots, NoSlot
  <2>7. LaunchedInv'
    BY DEF GetPrepared, LaunchedInv
  <2>8. QED
    BY <2>3, <2>4, <2>5, <2>6, <2>7 DEF IInv
<1>4. CASE ~overlap
  <2>1. prepared' = [Unprepared EXCEPT !.key = key] /\ future' = future
    BY <1>4 DEF GetPrepared
  <2>2. TypeOK'
    BY <1>1, <2>1 DEF IInv, TypeOK, GetPrepared, Unprepared, options, bufferVars, cacheVars
  <2>3. StagedInv'
    BY <2>1 DEF IInv, StagedInv, GetPrepared, options, bufferVars
  <2>4. AheadInv'
    BY <1>1, <1>4, <2>1 DEF IInv, AheadInv, GetPrepared, options, InBatch, key, Active, Busy
  <2>5. TakenInv'
    BY <2>1 DEF TakenInv, GetPrepared, Unprepared, key
  <2>6. LaunchedInv'
    BY DEF GetPrepared, LaunchedInv
  <2>7. QED
    BY <2>2, <2>3, <2>4, <2>5, <2>6 DEF IInv
<1>5. QED
  BY <1>3, <1>4

LEMMA ScheduleInv == IInv /\ UploadSchedule => IInv'
<1> SUFFICES ASSUME IInv, UploadSchedule PROVE IInv'
  OBVIOUS
<1>1. prepared.key = key /\ key \in Keys
  BY NumKeysAssumption DEF IInv, TypeOK, AheadInv, TakenInv, UploadSchedule, InBatch, key,
                           Keys, Active, Busy
<1>2. TypeOK'
  BY <1>1 DEF IInv, TypeOK, UploadSchedule, options, bufferVars, cacheVars
<1>3. StagedInv'
  BY DEF IInv, StagedInv, UploadSchedule, options, bufferVars
<1>4. AheadInv'
  BY DEF IInv, AheadInv, UploadSchedule, options, InBatch, key, Active, Busy
<1>5. TakenInv'
  BY DEF IInv, TakenInv, UploadSchedule, options, bufferVars, key, Busy
<1>6. LaunchedInv'
  BY DEF LaunchedInv, UploadSchedule
<1>7. QED
  BY <1>2, <1>3, <1>4, <1>5, <1>6 DEF IInv

LEMMA SizeInv == IInv /\ ChooseSize => IInv'
<1> SUFFICES ASSUME IInv, ChooseSize PROVE IInv'
  OBVIOUS
<1>1. /\ chosen' \in Nat
      /\ size' \in {0, chosen'}
      /\ caps' \in {caps, {}} /\ ostream' \in {ostream, Unallocated}
  BY DEF ChooseSize, Fitting, Release, cacheVars
<1>2. TypeOK'
  BY <1>1 DEF IInv, TypeOK, ChooseSize, options, bufferVars
<1>3. StagedInv'
  BY DEF IInv, StagedInv, ChooseSize, options, bufferVars
<1>4. AheadInv'
  BY DEF IInv, AheadInv, ChooseSize, options, InBatch, key, Active, Busy
<1>5. TakenInv'
  BY DEF IInv, TakenInv, ChooseSize, options, bufferVars, key, Busy
<1>6. LaunchedInv'
  BY <1>1 DEF LaunchedInv, ChooseSize
<1>7. QED
  BY <1>2, <1>3, <1>4, <1>5, <1>6 DEF IInv

(* The upload awaited is the key's own, and so is the pinned copy the cache *)
(* is filled from.                                                         *)
LEMMA LaunchInv == IInv /\ LaunchKernels => IInv'
<1> SUFFICES ASSUME IInv, LaunchKernels PROVE IInv'
  OBVIOUS
<1> USE DEF LaunchKernels, Launch
<1>1. prepared.key = key /\ key \in Keys
  BY NumKeysAssumption DEF IInv, TypeOK, AheadInv, TakenInv, InBatch, key, Keys, Active, Busy
<1>2. prepared.pinned \in Slots \cup {NoSlot} /\ prepared.upload \in Slots \cup {NoSlot}
  BY DEF IInv, TypeOK
<1>3. /\ source' \in Slots => source' = prepared.upload /\ ~dma[source']
      /\ source' \in Slots \cup {FromCache}
      /\ ostream' \in {ostream, key}
      /\ source' = FromCache => ostream' = key
  BY <1>1, <1>2 DEF IInv, TakenInv, UploadDone, Busy, Slots, NoSlot, FromCache
<1>4. size' = chosen
  BY DEF IInv, LaunchedInv
<1>5. TypeOK'
  BY <1>1, <1>3, <1>4 DEF IInv, TypeOK, options, bufferVars
<1>6. StagedInv'
  BY DEF IInv, StagedInv, options, bufferVars
<1>7. AheadInv'
  BY DEF IInv, AheadInv, options, InBatch, key, Active, Busy
<1>8. TakenInv'
  BY DEF IInv, TakenInv, options, bufferVars, key, Busy
<1>9. LaunchedInv'
  BY <1>1, <1>3, <1>4 DEF LaunchedInv, bufferVars, key, Slots, NoSlot, FromCache
<1>10. QED
  BY <1>5, <1>6, <1>7, <1>8, <1>9 DEF IInv

LEMMA FinishInv == IInv /\ FinishKey => IInv'
<1> SUFFICES ASSUME IInv, FinishKey PROVE IInv'
  OBVIOUS
<1>1. TypeOK'
  BY DEF IInv, TypeOK, FinishKey, options, bufferVars, cacheVars
<1>2. StagedInv'
  BY DEF IInv, StagedInv, FinishKey, options, bufferVars
<1>3. AheadInv'
  BY DEF IInv, TypeOK, AheadInv, FinishKey, options, InBatch, key, Keys, Active, Busy
<1>4. TakenInv' /\ LaunchedInv'
  BY DEF TakenInv, LaunchedInv, FinishKey, Busy
<1>5. QED
  BY <1>1, <1>2, <1>3, <1>4 DEF IInv

LEMMA BatchInv == IInv /\ NextBatch => IInv'
<1> SUFFICES ASSUME IInv, NextBatch PROVE IInv'
  OBVIOUS
<1>1. first' \in Keys /\ last' \in Keys /\ first' <= last' /\ idx' = 0
  BY NumKeysAssumption DEF IInv, TypeOK, NextBatch, Keys
<1>2. future' = IF overlap THEN Prepare(first', NoSlot) ELSE NoFuture
  BY DEF NextBatch
<1>3. TypeOK'
  BY <1>1, <1>2 DEF IInv, TypeOK, NextBatch, Prepare, NoFuture, options, bufferVars, cacheVars
<1>4. StagedInv'
  BY <1>2 DEF StagedInv, Prepare, NoFuture
<1>5. AheadInv'
  BY <1>1, <1>2 DEF AheadInv, NextBatch, Prepare, options, InBatch, key, Keys, Active, Busy
<1>6. TakenInv' /\ LaunchedInv'
  BY DEF TakenInv, LaunchedInv, NextBatch, Busy
<1>7. QED
  BY <1>3, <1>4, <1>5, <1>6 DEF IInv

LEMMA StepInv == IInv /\ [Next]_vars => IInv'
<1> SUFFICES ASSUME IInv, [Next]_vars PROVE IInv'
  OBVIOUS
<1>1. CASE UNCHANGED vars
  BY <1>1 DEF IInv, TypeOK, StagedInv, AheadInv, TakenInv, LaunchedInv, vars, options,
              bufferVars, cacheVars, InBatch, key
<1>2. CASE MainStep
  BY <1>2, PausingInv, BeginInv, GetInv, ScheduleInv, SizeInv, LaunchInv, FinishInv
     DEF MainStep, Pausing
<1>3. CASE PrepareStep
  BY <1>3, BuildInv, UploadInv DEF PrepareStep
<1>4. CASE \E s \in Slots : CopyDone(s)
  BY <1>4, CopyInv
<1>5. CASE CreateStopFile \/ NextBatch \/ LastLine
  BY <1>5, PausingInv, BatchInv DEF Pausing
<1>6. QED
  BY <1>1, <1>2, <1>3, <1>4, <1>5 DEF Next

LEMMA Invariance == Spec => []IInv
<1>1. QED
  BY InitInv, StepInv, PTL DEF Spec

-----------------------------------------------------------------------------
(* The worker's state is well typed, whatever options it was started with. *)
THEOREM TypeCorrect == Spec => []TypeOK
<1>1. IInv => TypeOK
  BY DEF IInv
<1>2. QED
  BY <1>1, Invariance, PTL

(* For as long as a key's kernels run, the offset stream they read is the  *)
(* key's own, with any interleaving of prepare thread and copy engine,     *)
(* stops and daemon batches (race_prepare and the wait on ev_upload).      *)
THEOREM OffsetIsOwnCorrect == Spec => []OffsetIsOwn
<1>1. IInv => OffsetIsOwn
  BY DEF IInv, TypeOK, TakenInv, LaunchedInv, OffsetIsOwn, OffsetStream, Computing, Busy,
         Slots, NoSlot, FromCache
<1>2. QED
  BY <1>1, Invariance, PTL

(* No upload ever targets the device slot a running key reads.             *)
THEOREM ReadSlotIsQuietCorrect == Spec => []ReadSlotIsQuiet
<1>1. IInv => ReadSlotIsQuiet
  BY DEF IInv, LaunchedInv, ReadSlotIsQuiet, Computing
<1>2. QED
  BY <1>1, Invariance, PTL

(* Kernels run with the key's own shed mask over caps cleared for it.      *)
THEOREM CapsAreOwnCorrect == Spec => []CapsAreOwn
<1>1. IInv => CapsAreOwn
  BY DEF IInv, TakenInv, LaunchedInv, CapsAreOwn, Computing, Busy
<1>2. QED
  BY <1>1, Invariance, PTL

(* Cached buffers have the size the key was launched for, after any        *)
(* sequence of windows, releases and upload paths.                         *)
THEOREM BuffersFitCorrect == Spec => []BuffersFit
<1>1. IInv => BuffersFit
  BY DEF IInv, LaunchedInv, BuffersFit, Computing
<1>2. QED
  BY <1>1, Invariance, PTL

=============================================================================
