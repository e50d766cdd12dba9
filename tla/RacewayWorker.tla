--------------------------- MODULE RacewayWorker ----------------------------
(***************************************************************************)
(* The key loop of the persistent CUDA worker (--raceway-key-file): while  *)
(* the GPU runs one key, a prepare thread builds the next key's schedule,  *)
(* shed mask and offset stream, stages the stream in a pinned buffer and   *)
(* starts its upload on a copy stream.  Pinned and device buffers come in  *)
(* pairs, used by the parity of the key's index in its batch; allocations  *)
(* are cached across keys.                                                 *)
(*                                                                         *)
(* A buffer is described by the key whose data it holds; None is what it   *)
(* holds before anything was written.  Key k is the k-th a worker is given;*)
(* a batch is an interval of keys.                                         *)
(***************************************************************************)
EXTENDS Integers, FiniteSets

CONSTANTS
  NumKeys,       \* keys a behaviour may feed; bounds the behaviours
  MaxBatch,      \* longest batch
  KeyBatchSize,  \* --raceway-key-batch-size, more than 1 (allocation reuse)
  Ceil,          \* wave and cap size the window of a key asks for
  Memory         \* VRAM units the sizing may spend

Keys == 1..NumKeys
None == 0
Slots == {0, 1}
NoSlot == -1

ASSUME NumKeysAssumption == NumKeys \in Nat \ {0}
ASSUME MaxBatchAssumption == MaxBatch \in Nat \ {0}
ASSUME KeyBatchAssumption == KeyBatchSize \in Nat \ {0, 1}
ASSUME CeilAssumption == Ceil \in [1..NumKeys -> Nat \ {0}]
ASSUME MemoryAssumption == Memory \in Nat

VARIABLES
  overlap, prefetch,  \* --raceway-overlap-setup, race_prefetch_active
  daemon,     \* --raceway-daemon
  pc,         \* where the main thread stands
  first, last,\* the batch: keys first..last
  idx,        \* raceway_worker_index
  stopFile,   \* the worker's stop file exists
  future,     \* the prepare thread: key, slot it may use, how far it is
  prepared,   \* race_prepared: key, slot of pinned data, slot uploaded to
  pinned,     \* race_stage.pinned
  dbuf,       \* race_stage.dbuf
  dma,        \* upload into a slot in flight on the copy stream
  schedule,   \* assets.schedule_data
  ostream,    \* raceway_worker_cache.d_direct_ostream; -1: not allocated
  size,       \* wave and cap size of the cached buffers; 0: not allocated
  chosen,     \* wave and cap size chosen for this key
  source,     \* what the kernels read offsets from: a slot, or the cache
  caps        \* keys whose states the cap tables hold

bufferVars == <<pinned, dbuf, dma>>
cacheVars == <<ostream, size, caps>>
options == <<overlap, prefetch, daemon>>
vars == <<options, pc, first, last, idx, stopFile, future, prepared, bufferVars,
          schedule, cacheVars, chosen, source>>

NoFuture == [key |-> None, slot |-> NoSlot, at |-> "none"]
Unprepared == [key |-> None, pinned |-> NoSlot, upload |-> NoSlot]
Unallocated == -1
FromCache == 2

TypeOK ==
  /\ overlap \in BOOLEAN /\ prefetch \in BOOLEAN /\ daemon \in BOOLEAN
  /\ pc \in {"top", "get", "schedule", "size", "offset", "compute", "done",
             "stdin", "gone"}
  /\ first \in Keys /\ last \in Keys /\ idx \in Nat
  /\ stopFile \in BOOLEAN
  /\ future \in [key : Keys \cup {None}, slot : Slots \cup {NoSlot},
                 at : {"none", "build", "upload", "ready", "issued"}]
  /\ prepared \in [key : Keys \cup {None}, pinned : Slots \cup {NoSlot},
                   upload : Slots \cup {NoSlot}]
  /\ pinned \in [Slots -> Keys \cup {None}]
  /\ dbuf \in [Slots -> Keys \cup {None}]
  /\ dma \in [Slots -> BOOLEAN]
  /\ schedule \in Keys
  /\ ostream \in Keys \cup {None, Unallocated}
  /\ size \in Nat /\ chosen \in Nat
  /\ source \in Slots \cup {FromCache}
  /\ caps \in SUBSET Keys

key == first + idx
InBatch(i) == first + i <= last

(* std::async of race_prepare for a key, with a slot or cold.              *)
Prepare(k, slot) == [key |-> k, slot |-> slot, at |-> "build"]

Init ==
  /\ overlap \in BOOLEAN /\ prefetch \in BOOLEAN /\ daemon \in BOOLEAN
  /\ prefetch => overlap
  /\ pc = "top"
  /\ first = 1 /\ idx = 0
  /\ last \in {k \in Keys : k <= MaxBatch}
  /\ stopFile = FALSE
  /\ future = IF overlap THEN Prepare(1, NoSlot) ELSE NoFuture
  /\ prepared = Unprepared
  /\ pinned = [s \in Slots |-> None]
  /\ dbuf = [s \in Slots |-> None]
  /\ dma = [s \in Slots |-> FALSE]
  /\ schedule = 1        \* build_kernel_assets(args.key_id)
  /\ ostream = Unallocated
  /\ size = 0 /\ chosen = 0
  /\ source = FromCache
  /\ caps = {}

-----------------------------------------------------------------------------
(* The prepare thread and the copy engine.                                 *)

(* Build the blobs, which never fails, and stage the stream.               *)
PrepareBuild ==
  /\ future.at = "build"
  /\ IF future.slot = NoSlot
     THEN /\ future' = [future EXCEPT !.at = "ready"]
          /\ UNCHANGED pinned
     ELSE /\ pinned' = [pinned EXCEPT ![future.slot] = future.key]
          /\ future' = [future EXCEPT !.at = IF prefetch THEN "upload" ELSE "ready"]
  /\ UNCHANGED <<options, pc, first, last, idx, stopFile, prepared, dbuf, dma,
                 schedule, cacheVars, chosen, source>>

(* Wait for the slot's last upload, then start this one; a driver error    *)
(* leaves the key to a synchronous upload.                                 *)
PrepareUpload ==
  /\ future.at = "upload"
  /\ ~dma[future.slot]
  /\ \/ /\ dma' = [dma EXCEPT ![future.slot] = TRUE]
        /\ future' = [future EXCEPT !.at = "issued"]
     \/ /\ future' = [future EXCEPT !.at = "ready"]
        /\ UNCHANGED dma
  /\ UNCHANGED <<options, pc, first, last, idx, stopFile, prepared, pinned,
                 dbuf, schedule, cacheVars, chosen, source>>

(* The copy engine finishes an upload, from what the pinned buffer holds.  *)
CopyDone(s) ==
  /\ dma[s]
  /\ dma' = [dma EXCEPT ![s] = FALSE]
  /\ dbuf' = [dbuf EXCEPT ![s] = pinned[s]]
  /\ UNCHANGED <<options, pc, first, last, idx, stopFile, future, prepared,
                 pinned, schedule, cacheVars, chosen, source>>

-----------------------------------------------------------------------------
(* The main thread.                                                        *)

FutureReady == future.at \in {"ready", "issued"}

CreateStopFile ==
  /\ ~stopFile
  /\ stopFile' = TRUE
  /\ UNCHANGED <<options, pc, first, last, idx, future, prepared, bufferVars,
                 schedule, cacheVars, chosen, source>>

(* The stop file, looked at before every key but the first: the prepare    *)
(* thread is awaited, the upload it started is not.                        *)
StopAtKey ==
  /\ pc = "top"
  /\ InBatch(idx)
  /\ idx # 0 /\ stopFile
  /\ overlap => FutureReady
  /\ pc' = "done"
  /\ UNCHANGED <<options, first, last, idx, stopFile, future, prepared,
                 bufferVars, schedule, cacheVars, chosen, source>>

BatchOver ==
  /\ pc = "top"
  /\ ~InBatch(idx)
  /\ pc' = "done"
  /\ UNCHANGED <<options, first, last, idx, stopFile, future, prepared,
                 bufferVars, schedule, cacheVars, chosen, source>>

(* raceway_worker_cache.release()                                          *)
Release ==
  /\ ostream' = Unallocated
  /\ size' = 0
  /\ caps' = {}

(* Begin the next key; every KeyBatchSize keys the cache starts afresh.    *)
BeginKey ==
  /\ pc = "top"
  /\ InBatch(idx)
  /\ ~(idx # 0 /\ stopFile)
  /\ IF idx # 0 /\ idx % KeyBatchSize = 0 THEN Release ELSE UNCHANGED cacheVars
  /\ pc' = "get"
  /\ UNCHANGED <<options, first, last, idx, stopFile, future, prepared,
                 bufferVars, schedule, chosen, source>>

GetPrepared_SameSlot ==  \* mutant: every key is given the same slots
  /\ pc = "get"
  /\ IF overlap
     THEN /\ FutureReady
          /\ prepared' = [key |-> future.key, pinned |-> future.slot,
                          upload |-> IF future.at = "issued" THEN future.slot ELSE NoSlot]
          /\ future' = IF InBatch(idx + 1) THEN Prepare(key + 1, 0) ELSE NoFuture
     ELSE /\ prepared' = [Unprepared EXCEPT !.key = key]
          /\ UNCHANGED future
  /\ pc' = "schedule"
  /\ UNCHANGED <<options, first, last, idx, stopFile, bufferVars, schedule,
                 cacheVars, chosen, source>>

(* Take this key's blobs from the prepare thread and hand it the next key  *)
(* with the slots of that key's parity; without overlap, build inline.     *)
GetPrepared ==
  /\ pc = "get"
  /\ IF overlap
     THEN /\ FutureReady
          /\ prepared' = [key |-> future.key, pinned |-> future.slot,
                          upload |-> IF future.at = "issued" THEN future.slot ELSE NoSlot]
          /\ future' = IF InBatch(idx + 1) THEN Prepare(key + 1, (idx + 1) % 2) ELSE NoFuture
     ELSE /\ prepared' = [Unprepared EXCEPT !.key = key]
          /\ UNCHANGED future
  /\ pc' = "schedule"
  /\ UNCHANGED <<options, first, last, idx, stopFile, bufferVars, schedule,
                 cacheVars, chosen, source>>

(* The schedule is uploaded for every key of a batch but its first.        *)
UploadSchedule ==
  /\ pc = "schedule"
  /\ schedule' = IF idx # 0 THEN prepared.key ELSE schedule
  /\ pc' = "size"
  /\ UNCHANGED <<options, first, last, idx, stopFile, future, prepared,
                 bufferVars, cacheVars, chosen, source>>

(* Memory the sizing believes free: the cached buffers count as free again *)
(* when the cache holds an offset stream of its own.                       *)
Room == IF ostream # Unallocated THEN Memory ELSE Memory - size

Fitting(k) == {n \in 1..Ceil[k] : n <= Room}

ChooseSize_StreamGuard ==
  /\ pc = "size"
  /\ \E n \in Fitting(prepared.key) :
       /\ \A m \in Fitting(prepared.key) : m <= n
       /\ chosen' = n
       /\ IF ostream # Unallocated /\ size # n THEN Release ELSE UNCHANGED cacheVars
  /\ pc' = "offset"
  /\ UNCHANGED <<options, first, last, idx, stopFile, future, prepared,
                 bufferVars, schedule, source>>

(* The largest wave and caps that fit, up to what the window asks for; a   *)
(* cache of another shape is released.                                     *)
ChooseSize ==
  /\ pc = "size"
  /\ \E n \in Fitting(prepared.key) :
       /\ \A m \in Fitting(prepared.key) : m <= n
       /\ chosen' = n
       /\ IF size # 0 /\ size # n THEN Release ELSE UNCHANGED cacheVars
  /\ pc' = "offset"
  /\ UNCHANGED <<options, first, last, idx, stopFile, future, prepared,
                 bufferVars, schedule, source>>

(* "no wave/cap fit": the worker dies.                                     *)
Refuse ==
  /\ pc = "size"
  /\ Fitting(prepared.key) = {}
  /\ pc' = "gone"
  /\ UNCHANGED <<options, first, last, idx, stopFile, future, prepared,
                 bufferVars, schedule, cacheVars, chosen, source>>

(* Where this key's offset stream is read from: the slot it was uploaded   *)
(* to, once its upload event was reached, or the cache, uploaded now from  *)
(* the pinned buffer or the blob.  Buffers not cached are allocated, the   *)
(* caps cleared, and the first kernel launched.                            *)
Launch(mayLaunch, ready) ==
  /\ pc = "offset"
  /\ mayLaunch
  /\ IF prefetch /\ prepared.upload # NoSlot
     THEN /\ ready
          /\ source' = prepared.upload
          /\ UNCHANGED ostream
     ELSE /\ source' = FromCache
          /\ ostream' = IF prepared.pinned # NoSlot THEN pinned[prepared.pinned]
                        ELSE prepared.key
  /\ size' = IF size = 0 THEN chosen ELSE size
  /\ pc' = "compute"
  /\ UNCHANGED <<options, first, last, idx, stopFile, future, prepared,
                 bufferVars, schedule, chosen>>

UploadDone == prepared.upload = NoSlot \/ ~dma[prepared.upload]

LaunchKernels_NoEventWait == Launch(TRUE, TRUE) /\ caps' = {prepared.key}

LaunchKernels_KeepsCaps == Launch(TRUE, UploadDone) /\ caps' = caps \cup {prepared.key}

LaunchKernels == Launch(TRUE, UploadDone) /\ caps' = {prepared.key}

(* The last wave is back: hits, then the key's row.                        *)
FinishKey ==
  /\ pc = "compute"
  /\ idx' = idx + 1
  /\ pc' = "top"
  /\ UNCHANGED <<options, first, last, stopFile, future, prepared, bufferVars,
                 schedule, cacheVars, chosen, source>>

(* After a batch a daemon answers DAEMON_DONE and reads on; any other      *)
(* worker drains the copy stream and exits.                                *)
EndBatch ==
  /\ pc = "done"
  /\ pc' = IF daemon THEN "stdin" ELSE "gone"
  /\ UNCHANGED <<options, first, last, idx, stopFile, future, prepared,
                 bufferVars, schedule, cacheVars, chosen, source>>

(* A line on stdin names the next batch; its first key is prepared cold.   *)
NextBatch ==
  /\ pc = "stdin"
  /\ last < NumKeys
  /\ first' = last + 1
  /\ last' \in {k \in Keys : last < k /\ k <= last + MaxBatch}
  /\ idx' = 0
  /\ future' = IF overlap THEN Prepare(last + 1, NoSlot) ELSE NoFuture
  /\ pc' = "top"
  /\ UNCHANGED <<options, stopFile, prepared, bufferVars, schedule, cacheVars,
                 chosen, source>>

(* STOP, or the end of stdin.                                              *)
LastLine ==
  /\ pc = "stdin"
  /\ pc' = "gone"
  /\ UNCHANGED <<options, first, last, idx, stopFile, future, prepared,
                 bufferVars, schedule, cacheVars, chosen, source>>

-----------------------------------------------------------------------------
MainStep ==
  \/ StopAtKey \/ BatchOver \/ BeginKey \/ GetPrepared \/ UploadSchedule
  \/ ChooseSize \/ Refuse \/ LaunchKernels \/ FinishKey \/ EndBatch

PrepareStep == PrepareBuild \/ PrepareUpload

Next ==
  \/ MainStep \/ PrepareStep
  \/ \E s \in Slots : CopyDone(s)
  \/ CreateStopFile \/ NextBatch \/ LastLine

Spec == Init /\ [][Next]_vars

(* Threads are scheduled and the copy engine makes progress; lines on      *)
(* stdin and stop files are not owed.                                      *)
FairSpec ==
  /\ Spec
  /\ WF_vars(MainStep) /\ WF_vars(PrepareStep)
  /\ \A s \in Slots : WF_vars(CopyDone(s))

-----------------------------------------------------------------------------
(* Safety.                                                                 *)

Computing == pc = "compute"
OffsetStream == IF source = FromCache THEN ostream ELSE dbuf[source]

(* For as long as a key's kernels run, the offset stream they read is the  *)
(* key's own, whatever the prepare thread and the copy engine do meanwhile *)
(* ("The in-flight prepare writes the OTHER parity slot [...] so there is  *)
(* no overwrite"), also after a stop cut a batch with an upload in flight. *)
OffsetIsOwn == Computing => OffsetStream = key

(* The slot a running key reads is never the target of an upload.          *)
ReadSlotIsQuiet == Computing /\ source # FromCache => ~dma[source]

(* The shed mask and window are this key's, and its states meet only its   *)
(* own in the caps: a state left by another key would drop candidates.     *)
CapsAreOwn == Computing => prepared.key = key /\ caps = {key}

(* The kernels never run over buffers of another size than they were       *)
(* launched for ("wave buffers frozen at a stale size -> memset overflow").*)
BuffersFit == Computing => size = chosen

(* The schedule the kernels read is the key's own: the first key of each   *)
(* daemon batch "fall[s] back to the synchronous upload" too.              *)
ScheduleIsOwn == Computing => schedule = key

-----------------------------------------------------------------------------
(* Main thread, prepare thread and copy engine never wait for each other   *)
(* for good: a batch is answered, or ends the worker.                      *)
BatchEnds == pc = "top" ~> pc \in {"stdin", "gone"}
=============================================================================
