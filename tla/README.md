# Treasure Master search: a verification project in TLA+

The repository searches the 32-bit keys of *Treasure Master* (NES, 1991): for
each key a 26-map transform is run over a 2^32 data window, candidates whose
final state looks like valid code are kept, and a durable queue spreads the
keys over CUDA devices for days or weeks. This directory models the parts of
that program whose behaviour depends on order, interleaving, failure or
limits, checks them with TLC, and proves the central results with TLAPS.

## 1. Inventory

| part | where | state | operations | what is hard |
|---|---|---|---|---|
| durable queue | `scripts/cert_tier_ops.py` 143-317, 857-961, 1392-1496, 1924-2012 | SQLite tables `keys`, `runs`, `alerts`, `meta` | `init`, `lease_batch`, progress and final `ingest_summary`, `reset-running`, `request-stop`, `clear-stop` | several processes on one database, reset while a worker still writes, late ingests |
| supervisor | same, `command_run` 1531-1921 | per-device slot, pending verifiers, stop latch | reap, launch, harvest, progress ingest, drain, interrupt handler | order of commit, spawn, register, ingest and verify; crash, Ctrl-C and pause between any two |
| daemon mode | same, 1681-1806; `cuda/src/main.cpp` 3908-3976, 6183-6219 | one resident worker per device, stdin/stdout protocol, launch stop file | feed, `DAEMON_DONE`, `STOP`, exit event | two queues between two processes, a stop file that outlives its batch |
| alert verification | same, 1131-1338; `src/bruteforce/inspect_bonus2_survivors.cpp` | hit files, candidate and verdict CSVs | collect, start, harvest, cleanup | evidence removed before the verdict is durable |
| raceway worker | `cuda/src/main.cpp` 3780-6230, `tm_raceway_worker_cache.h`, `tm_raceway_offset_prefetch.h`, `tm_offset_stream.h` | schedule and offset buffers, pinned ping-pong, copy stream, cap tables | per-key loop, background prepare, async upload, cache reuse, hit file, summary row | buffers of one key used for another, prefetch one key ahead |
| wave cadence | `cuda/src/main.cpp` 4886-5345, `tm_cuda_raceway.cuh` | live lists, per-boundary cap tables | span, drain by cap, compact, continue, screen | racy caps that may only lose duplicates |
| CPU raceway | `src/bruteforce/cpu_raceway` | shared caps, thread-local waves | drain, continue, screen | benign races of the shared caps |
| state dedup | `src/common/state_dedup*.h`, `strong_hash.h` | open-addressing tables | exact and lossy dedup, origin tracking | full tables, collisions |
| window policy, certifier, routing, key files | `src/common/window_policy.h`, `map1_certifier.h`, `routing.h`, `key_file.h` | none | bit bijections, shed-mask certificates, parsing | off-by-one at 32 bits |
| game transform | `src/common/rng*.cpp`, `key_schedule.cpp`, `tm_base.cpp`, `tm_8.cpp` | 128-byte working state | eight algorithms, RNG tables, key schedule | agreement of many implementations |
| shard builder | `scripts/build_cert_tier_shards.py` | none | reads a certificate table, writes shards | pure file conversion |
| FPGA | `src/fpga` | pipeline registers, FIFOs | valid/ready streams | handshake, in-flight limits |
| SIMD kernels | `src/bruteforce/cpu` | a code in registers | the same transform, in twenty layouts; block searches | bytes that cross a register's end, partial batches, full buffers |
| CUDA screens | `cuda/src/tm_cuda_primitives.cuh`, `tm_cuda_screen.cuh`, `main.cpp` 1991-2284, 11077-11294 | a code in the lanes of a warp | ten runners over four memories, the launches that store their flags, the host's loop | shuffles, positions off a row's start, the last warp of a launch |
| CUDA dedup and calibration kernels | `cuda/src/tm_cuda_dedup.cuh`, `main.cpp` | device hash tables, wide merges | state counting on the device | the same transform, racy inserts |
| OpenCL, benches | `opencl`, `src/bruteforce/*_bench` | - | the same transform again, statistics | no interaction |

How the parts interact. `init` imports shards into the queue. A supervisor
leases a batch (one transaction), writes a key file, starts a CUDA worker per
device and reads nothing from it but its exit code and two kinds of files:
per-key hit files and a summary with one flushed row per finished key. The
supervisor turns rows into `done` keys, and hit files into a candidate CSV that
`inspect_bonus2_survivors` verifies on the CPU; its verdicts become alerts. A
worker is stopped by the existence of a *stop file*; operators stop a
supervisor through `meta.stop_requested_at`. `operate` is a console that issues
the same commands, and `monitor`, `status` only read.

What makes the queue correct: no key is screened under two leases, no key is
lost or written off, nothing leaves `done`, a `done` key is backed by a row of
the run that leased it last, and the candidate of every done key ends up as an
alert.

## 2. Plan

Modules, most important behaviour first; *done* means modelled, checked and,
where listed, proved.

1. `TierStore`, `TierOps`, `TierQueue`: queue, spawn-mode supervisors, workers,
   verifiers, operators, and the abstract queue they implement. *Done.*
2. `TierStoreProofs`, `TierOpsProofs`: type correctness, the
   queue's safety and its refinement for all constants. *Done.*
3. `TierDaemon`: the resident worker of `--daemon` on top of `TierStore`, with
   the stdin/stdout protocol, the launch stop file, the stop latch, unexpected
   exits. *Done.*
4. `RacewayWorker`, `RacewayWorkerProofs`: which key's schedule, offset stream
   and caps a kernel launch sees, with the prepare thread, the pinned and device
   double buffers, the copy stream and the shape-guarded cache; batches in
   sequence. *Done.*
5. `WindowPolicy`, `CpuRaceway`, `CpuRacewayProofs`: the enumeration of a window, the cap without
   locks and the waves over it, with the races the comments call benign; what
   is promised is a search that may keep too much and never drops a distinct
   code. *Done.*
6. `FlatTable`, `FlatTableProofs`, `StateDedup`: insertion, growth, generations and
   limits of the tables, and the drivers that count a window's states with them. *Done.*
7. `Tm8`, `Transform` and the kernel modules under `TmKernels`: the transform
   every kernel is to compute, each CPU kernel in its own registers, the CUDA
   screens in the lanes of a warp (`CudaWarp`), their block searches, and the
   analyses that let values be skipped (`Routing`, `Certifier`,
   `SourceClasses`). *Done.*
8. `TierDaemonProofs`: the daemon's queue through the same transaction lemmas,
   and its conversation with its workers; `TierOpsSupervisorProofs`: slots, stop
   files and evidence of the spawn mode. *Done.*
9. `FpgaPipeline`: valid/ready stages and in-flight limits. *Open.*
10. `CudaRaceway`, `CudaRacewayProofs`: the wave cadence of the CUDA worker
    over its device caps, as a second implementation of what `CpuRaceway`
    promises. *Done.*
11. The inserts of the CUDA dedup kernels into one device table (`atomicCAS`
    on a slot), beside `FlatTable`. *Open.*

Not planned: the OpenCL kernels (the transform once more), benches, report
formatting.

## 3. Modules

### The queue and its workers

**TierStore** holds what survives a process: the tables `keys`, `runs`,
`alerts`, `meta`, and a run's files. Its operators are the transactions:
`ImportKeys` (`INSERT OR IGNORE` of a shard chunk), `LeaseBatch`, `MarkRunning`,
`IngestSummary`, `ResetRunning`, and the steps of verification `StartVerify`,
`HarvestVerify`. A key is named by its `source_order`; a candidate by its key;
a run by the uuid drawn for it, from the finite supply `Runs`. `status`,
`lease`, `lastRun` are the columns of `keys`; the error text, timings and paths
of a row are left out. `IngestSummary` is one transaction over the batch: with
`final = FALSE` it only credits rows (`WHERE last_run_id`), with `final = TRUE`
it also gives up the keys without a row (`WHERE lease_id`) and settles the run.

**TierOps** adds the processes. A supervisor's `pc` is its place in the loop of
`command_run`: `top` (read the stop flag and the deadline), `reap`, `launch`,
`register` (a worker is marked as running and not yet in `dev_state`), `tend`
(harvest, progress ingest, leave or loop), `interrupted` (the handler), and
`idle`, `exited`, `dead` outside. `finish_device` is `ReapIngest`, `FinishStart`
(which starts the verifier), then `FinishPending`, or `FinishWait` with
`--sync-verify`; `launch_device` is `LaunchLease`, `LaunchSpawn`, `LaunchMark`
(the commit of `status='running'`), `LaunchRegister`: a crash or an interrupt may
fall between any two. Taken together are only the last statements of a reap: the
append to `pending_verifies`, or the harvest, with `st.update(proc=None)`. After
a Ctrl-C between those two the handler ingests a settled summary again, which
changes nothing, and verifies what is left of its hit directory, which is
nothing, or (kept provenance) inserts the same alerts, which are ignored. The stop flag is read once per iteration (`stopSeen`), as in
the code, and may be stale when used. A worker boots (opens its summary),
screens a key (its hit file is closed), appends the key's row, and looks at its
stop file before every key but the first. Devices are reaped and offered a
batch in any order; the code's order (that of `--devices`) is one of them.

**TierDaemon** is `run --daemon`: one run process, and per device a resident
worker that is fed batch after batch. The run's `pc` follows `command_run`
1681-1806: `start`, `spawn`, `register` launch a worker per device with its first
batch; `top` reads the stop flag and the deadline and, the first time it sees
either, writes every resident worker's *launch* stop file; `tend` harvests and
decides whether to leave; `get` takes one event of the queue the reader threads
fill; `done` ingests a finished batch and starts its verifier; `next`, `leased`
and `feed` lease the next batch and write its line, or `STOP`. A worker's answer
`DAEMON_DONE` and the end of its output are the events of that queue; the line
it is fed and the closing of its stdin are the other direction. A worker that
dies while the run is about to feed it breaks the pipe, which nothing catches:
the run process ends there. The event "resume" is a clear-stop while no run is
alive, "lift" one at any time. A worker is named by the run it was launched
with, `work` is the run whose batch it screens. The events of different
workers are taken in any order.

**RacewayWorker** is the key loop inside the worker. A buffer is described by
the key whose data it holds. `future` is the prepare thread (built, staged,
upload issued), `prepared` what the main thread took from it, `pinned` and
`dbuf` the two slots, `dma` an upload in flight, `ostream`, `size` and `caps`
the allocation cache; the wave and the caps, which the code sizes together, are
one size. The main thread's steps are those of the loop: `BeginKey`,
`GetPrepared`, `UploadSchedule`, `ChooseSize`, `LaunchKernels`, `FinishKey`,
then `EndBatch` and `NextBatch`. The copy engine reads the pinned buffer when an
upload *ends*, the worst case of a copy that overlaps a write. The options
(`--raceway-overlap-setup`, prefetch, `--raceway-daemon`) are chosen initially,
so every run covers all of them.

**TierQueue** is the promise: a key waits, is claimed by one run, is settled by
a screening of its last claimant or given back; a run claims once; nothing else
happens. `TierStore!Queue` is the refinement mapping (`state <- status`,
`claimant <- lastRun`, `claims` from batches, `screened` from summaries).

**CudaRaceway** is what `LaunchKernels` stands for, one key on the device. The
host goes through the window in batches (`BeginBatch`, `CollectHits`, `EndKey`);
`stage` is the launch in progress, and launches follow one another on one
stream. Within a launch a warp's `Take` claims the next `ilp` candidates from
the counter and runs them to the boundary; `ProbeWay` is one load of a cap and
`StoreWay` its store, after which the lane is `Judged`: kept or dropped, the
next lane probed, in the fused tail the next boundary run to, and at last the
states and alive bytes stored (`StoreLanes`) or the codes screened
(`ScreenLanes`). `CompactBlock` is a block of the ordered compaction. A cap's
slot is the sequence of the stores made to it since the launch began: a load may
find any of them, but none older than the warp's own last one, since nothing
keeps a multiprocessor from reading what it has cached; the next launch sees the
last (`Settled`). A state is a data value and the number of maps it has run,
`StateAfter` says which of them are equal.

### The searches on the CPU

**WindowPolicy** gives the bit positions a window of 2^n values runs over, for
every policy, and the deposit of an index into them. A mask and a data value are
sets of positions.

**CpuRaceway** is one search by `T` threads over the values of `WindowOf`
(PRECERT's outer product, the window policies, tiles): `Pull` (static or dynamic
shards), `Map1` on a few values at a time, `Judge` or the producer cap's probe,
`StreamRep` into the thread's wave, and the drain of a wave: `DrainExact`, or
`DrainBegin`, `DrainBatch`, `DrainNext` and `DrainEnd` with each of its codes
against the cap of a boundary. The shared caps are arrays that are read and written one slot per step
(`Probe`, `ReadVictim`, `StoreSlot`, `WriteVictim`): two threads may probe the same bucket, overwrite
each other's entry and lose a step of the victim index. A code is named by the
data value it comes from and its level; `CodeAt` says which of them are equal.
The engine "map1_screen" is the capped screen of `state_dedup.h`, which has the
same caps. Counters that are only printed are left out.

**FlatTable** is one open-addressing table: slots with epoch tag, fingerprint
and pool index, the front cache, `Reset` (a new generation), probing, `Insert`
with its multiplicity, and growth. Sizes and multiplicities are kept modulo
`Word`, tags modulo `Tags`, as the code's integers are.

**StateDedup** is the drivers over two such tables: a call is a record of the
options (`Call`), a step is one group of maps, and a program makes several calls
on the same tables. It models the source prefilter with its gate, the routing
by scored or raw taint, the enumeration mask, the checkpoints, the skipped last
merge, the batched, batch-hashed and interleaved expansions, the origin tracking
and the fingerprint set. The prefilter ignores `data_stride`, as the code does,
and no call of the model combines them.

### The transform and its kernels

**TmLanes**, **RngTables**: bytes, registers as functions from lanes to bytes, the
16-bit generator and the rows the kernels read in place of running it. A row is
an operator from its seed, where the code keeps 65536 of them.

**Tm8** is the scalar kernel: expansion, the eight algorithms, one map, all maps,
the masked checksum and the order in which the two worlds are tried. It is the
reference. **Transform** is the abstract specification made of it: a client
expands or loads codes and asks for algorithms, maps, ranges of maps or blocks;
the state is the codes in natural order.

**NaturalKernels** (eleven kernels that differ in register width, 16-bit lanes,
half registers and split rows), **ShuffledKernels** (even bytes in one register,
odd bytes in the next, with the four ways a byte crosses a register's end),
**MapKernels** (a map's 2048 drawn bytes laid out backwards and walked by a
position; the branching, merged and branchless dispatches), **R512MapKernel**,
**R256MapKernel**, **R512sKernels**: each kernel in its own layout, with every
interleaved range, scored range and dispatch it offers.

**CudaWarp** is the code in a warp: lane `l` of 32 holds bytes `4l .. 4l+3`, lanes
speak by shuffles. What an algorithm draws comes from one of four memories: the
tables of all seeds (`run_schedule_t`), an offset stream with the rows of the
seed at each position (`OffsetStream`), the same kept map by map
(`InterleavedStream`), or a map's 2048 drawn bytes, as they are (`MapRng`), with
the bits taken out beforehand (`MapRngPreext`), or with segments reversed for the
lanes (`MapRngCoalesced`). A runner is a memory, a way to name the algorithm
(a shift, or two fixed shifts and a choice) and a step; the `quad` and `ilp`
runners carry 4, or up to 16, codes through a map, each at its own position.
`screen_candidate` is the checksum by five shuffles. A `ScreenKernel` is a
runner, the number of values per warp, and its store (bytes, packed words, groups
of four, with what each leaves out behind the last value); `Launch` is the grid,
the warps that leave at once, and the flags written. `screen_and_hll`,
`dump_state` and `materialize_survivor` are the other kernels of
`tm_cuda_screen.cuh`. The host is `cuda_search`: launches of `BATCH_SIZE` values,
the survivors in order, each run again and judged by its machine code; and
`cpu_forward`, the host's own transform for its parity tests.

**MachineCode** is the walk over the 6502 code of a finished state that yields
the flags of a record; **Blocks** the block searches: batched, one by one for the
rest, interleaved, with the room test each of them makes.

**Routing** carries the mask of bits that two codes of one key can differ in
through the algorithms, and the proxies made of it. **Certifier** traces map 1 and
finds the data bits it loses. **SourceClasses** runs map 1 on the 256 values of a
page at once, on bits that know which bits of the offset they depend on.
**KeySchedule** is the constructor of a key's maps, with either map list.

**TmKernels** is the client's session with one kernel: `kernel`, its `images` in
its own layout, the seed, the calls made, what a call answered. `T` maps the
images back to natural order (`Fetched`) and claims `Transform`. "cuda" is the
warp, whose ranges of maps use any of the runners and whose `RunLaunch` any of
the screens; "cuda_host" is the host beside it, "cuda_coalesced" the one runner
that the search never picks.

**MCTierOps**, **MCTierDaemon**, **MCRacewayWorker**, **MCCpuSearch** and
**MCTmKernels** name the instances. `MCCpuSearch` composes `CpuRaceway` and
`StateDedup` as the programs do: a process either runs the threads or makes
driver calls. `MCRacewayWorker` has the worker's loop over keys (`RacewayWorker`)
and the cadence of one key (`CudaRaceway`); a behaviour is of one or the other,
because between launches the loop leaves the wave buffers alone, and within a
key it leaves them to the cadence. `WorkerSpec` is the loop by itself.

The proofs are in modules of their own. **TierStoreProofs** has the lemmas about
the transactions, which both modes cite; **TierOpsProofs** the types of the spawn
mode, its queue and the refinement,
**TierOpsSupervisorProofs** what concerns slots, stop files and evidence;
**TierDaemonProofs** all of this for the daemon mode; **RacewayWorkerProofs** the
worker's buffers; **CpuRacewayProofs** the threads of a CPU search;
**CudaRacewayProofs** the warps and launches of a key's cadence;
**FlatTableProofs** the tables of `state_dedup.h`, as operators.

Operators `X_Y` are faulty variants of `X`: each property is confirmed to fail
when `X` is replaced by one of them.

## 4. Runs

| run | instance | shows |
|---|---|---|
| `tier_crash` | batch of 2; import again, worker deaths, SIGKILL, recovering reset, restart | the queue is consistent and `done` final at every crash point; no two workers screen one key, even with orphaned workers about; evidence outlives its alert |
| `tier_reset` | 2 supervisors, `--sync-verify`; `reset-running` at any time, pause, failing workers and verifiers, Ctrl-C | rows and final ingests that come after the reset never settle, nor give back, a key another run has leased; every transaction is a step of the abstract queue; a worker leaves its slot, reaped or interrupted, only when its run is settled and each of its rows still credited to the run has made its key `done`, or it never opened its summary |
| `tier_pause` | 2 devices, 3 keys, request-stop, deadline, worker deaths | a pause writes no key off, records cut batches as stopped, reaches every worker, strands no lease, and all alerts are in when the run exits |
| `tier_live` | fair, 2 devices on one queue partition, pause, resume, restart | a run that is not paused drains the queue; candidates become alerts; a pause ends every run |
| `tier_daemon` | fair, 3 keys on one of 2 devices; pause, resume, deadline, worker deaths, SIGKILL, recovering reset | worker and supervisor agree on the batch and never wait for each other; a pause that stays cuts batches without writing keys off; every lease left at a normal exit belongs to a worker that died; the run and every worker end; the abstract queue is implemented |
| `raceway_worker` | fair, 7 keys in batches of 1 to 4, cache released every 2 keys, two window sizes; 8 cadences of two warps over caps of one bucket | a key's kernels read their own offset stream from a quiet slot, over caps of their own and buffers of their size; at every step of the cadence a hit that was begun is carried on by someone or written, and each is written once; every batch is answered or ends the worker, every key ends |
| `cpu_search` | fair; 2 threads, one boundary, caps of one bucket of 2 ways, 8 command lines; 18 calls, up to 3 in a row, on 3 kinds of tables | no distinct final code of the window is missed, and whoever drops a code does so because its equal is held by someone who will go on with it; the drivers count every state exactly; every thread ends |
| `tm_kernels` | 20 CPU kernels, the CUDA warp with 10 runners and 20 screens, and its host; one key with two data values, two maps, 2 single algorithms, 3 blocks, 2 pages | every kernel computes the scalar codes, scores, screen verdicts and block records; the routing mask covers every difference; classes and certificates drop no value |

and four runs show behaviour the text of the repository denies:
`tier_daemon_lift`, `raceway_schedule`, `kernel_one_map`, `dedup_front_cache`
(section 7).

### Bounds

The queue's instances have one or two devices, two or three keys, two or three run
ids. Run ids bound how often a batch can be leased; when they are used up no
supervisor can lease, so deadlock is not checked (a finished queue stops too).
Two keys per batch are the smallest batch that can be cut short, three keys
force a second lease on a device, two devices let one pipeline act between the
steps of the other, two supervisors compete for the queue. `Events` says which
commands and mishaps an instance has; every event is in some run. `batches` is
counted only with `--loops`, so `--loops 0` stays finite.

`tier_daemon` gives the second device no key, so that one worker is never
launched while the other runs; two keys per batch and three keys make a second
feed happen, and three run ids a third lease. `raceway_worker` needs seven keys
for a batch of four (each slot used twice) after a batch cut by a stop with an
upload in flight; windows of size 1 and 3 with 3 units of memory make the cache
grow, shrink, and not fit.

Its cadences have two warps, enough for any race over one cap. A warp takes two
candidates at a time, for the 3 to 6 of the kernels, or one; batches of 2 to 4
positions end within a warp's share and within a block of the compaction (of 2
here), and the last batch of a window is shorter than those before. The plans
have one to three boundaries, of the four maps; counts on the host and on the
device, the fused tail with and without a boundary to probe, PRECERT with one
shed bit, on and refused, and a window that does not start at zero all occur.
The caps are one bucket of two ways, so that every state can evict every other.

`cpu_search`: a bucket of two ways is the smallest that can be full, so that
aging starts; waves of 2 are filled, left half full, and drained in the middle
of a range; shards of 3 values do not divide the windows of 4 to 8. Codes merge
at every level, and one of them has the fingerprint that marks an empty slot.
For the tables, windows of 3 to 16 values suffice for growth (from 4 slots),
fingerprint collisions, wrapped probes and partial batches; `Tags = 4` and `Word = 16` stand
for 2^16 and 2^32, so that tags wrap within three calls. A front cache appears
there only with tables that grow on insert; the other case is
`dedup_front_cache`. A table's entry behind its pool (`HeapRepeats`) is the
adverse value the memory there may hold.

`tm_kernels` is not a small model of the arithmetic: codes have their 128 bytes,
seeds their 16 bits, maps their 16 steps. What is bounded is the number of
inputs: one key whose two data values part in map 1, schedules of two maps with
every range of them, every pair of single algorithms, and requests chosen so that a block has right codes at both ends and
a buffer runs full in the batch and in the rest. `NWAY_BATCH` is 16 in the code
and 4 here; so is `BATCH_SIZE`, the command line's, so that a search of 5 values
makes two launches. Blocks of 5 and of 2 values end inside a warp of every width
the screens have (1, 2, 4, 5, 6, 8, 12, 16) but 1, and at the end of one of
width 5. One of the two pages splits into 32 classes, the other into one.
Expanded codes, and finished codes right for either world, both or none, are
screened. Sampling is all
this is: it finds a lane that is moved wrongly, not a wrong entry of a table.

### Fairness

A supervisor's loop never blocks for good (its wait has a one second
timeout, its verifiers end), so `SupervisorStep(s)` is weakly fair per process;
a worker finishes its key and a verifier its file, so `WorkerStep` and
`VerifierStep` are weakly fair per run. Commands, crashes and interrupts are
never owed. The liveness runs contain no mishap: a key whose worker dies every
time is rightly retried for ever.

In `TierDaemon` the instance may run out of run ids while keys are pending
(`Starved`): the program has no such limit, and the liveness properties excuse
exactly those states. There the run waits for an event with a timeout and each worker and
verifier is a process of its own, so each is weakly fair; a worker that is fed
nothing waits without an obligation, which is why `RunEnds` says of the
workers, too, that they end. In `RacewayWorker` the main thread, the prepare thread and
the copy engine are weakly fair; lines on stdin and stop files are not owed. In
`CudaRaceway` the device and the host's next launch are weakly fair as a whole:
a kernel's warps wait for nobody, so no order among them is assumed. In
`CpuRaceway` each thread is weakly fair, as an operating system schedules
threads that never block.

### Seen beside the runs

`reset-running` appears as two events: "recover", as its help advises (no `run`
process alive), and "reset", at any time. `WorkerHoldsLease` exempts runs that
were reset under a live worker: there two workers on one key are possible, cost
time, and are harmless to the queue (`tier_reset`).

With "kill" and "restart", `AlertsComplete` fails: a supervisor killed between
starting a background verifier and harvesting it leaves done keys that nothing
verifies again, and `reset-running` looks at running keys only. With "verifier",
it fails as well: a verifier that exits with an error is reported, the `finally`
clause (1319-1320) deletes its candidate CSV all the same, the hit directory
being gone since it was started, and the run exits with the candidates of done
keys lost, where a comment (1851-1853) says that alerts are complete. With
"interrupt", `EvidenceKept` fails: Ctrl-C in a terminal ends the background
verifiers, and the handler's drain deletes their evidence.

`InterruptSettles` is about the workers in a slot. A Ctrl-C that reaches the run
process alone after `LaunchMark` and before `LaunchRegister`
(`cert_tier_ops.py` 1619-1622) leaves a running run whose worker the handler
(1899-1904) does not know: it is neither terminated nor ingested, it screens its
batch to the end, and the keys stay running until `reset-running`, as they do
after a Ctrl-C anywhere between lease and registration. `WorkerHoldsLease` and
`LeaseAgrees` say that such a worker harms nothing. Likewise a Ctrl-C after
`FinishStart` and before `FinishPending` leaves a verifier nobody harvests: the
handler ingests the run again and finds its hits gone, unless provenance is kept,
so that the candidates stay in a CSV nobody reads.

With "resume" beside "stop", `PauseSignalsWorkers` fails: `stop_announced` is
never cleared (1816), so when a pause is lifted while batches still run, a second
`request-stop` signals none of the workers it meets, where its help (2195) says
that it signals the active ones. In `TierDaemon` the launch stop file is never
removed, so a worker that outlives a lifted pause cuts each later batch after
one key.

The sizing of the raceway worker counts the cache as free memory only when the
cache owns an offset stream, which on the prefetch path it no longer does after a
release. Where the cache takes most of the card, the next key is given a smaller
size, the cache is rebuilt, and so on for every key; on a card with little to
spare the worker stops with "no wave/cap fit". The guard below had the same test
once, and its comment tells why it was changed.

A packed hit of the cadence has 24 bits for its position
(`tm_cuda_raceway.cuh` 1961-1981). The comment there says that a batch is at most
2^23; the automatic size and the launcher's are, but
`--raceway-direct-wave-continue-batch` takes any number and nothing compares it:
beyond 2^24 a hit would be reported at another position. `PackedPositions` is
never below the batch in the instance. The kernels that end the cadence run to
map 27, where the skip-car list has 26 maps; the parity modes and the direct ILP
kernels insist on 27 maps, the cadence does not. And with
`--raceway-direct-wave-span-ilp 1` the first kernel
(`tm_raceway_boundary_cap_state_offset_cuda`, 542-566) declares three parameters
more than the 21 that `main.cpp` 5019-5024 passes; it does not use them.

A block search that stops because its buffer is full sets `*result_size` to
`result_max_size`, not to what it wrote, unless it is one of the interleaved
ones; `bench_cpu` then counts records that were never written. The first
field of a record is the data value itself in `tm_avx_r128s_8` and the index in
the block elsewhere. `BlocksAgree` states both as they are.

A comment of the CUDA dedup kernels (`tm_cuda_dedup.cuh` 4781-4782) calls the
offset streams "only screen-equivalent, not full-state-faithful". The runners of
`tm_cuda_screen.cuh` over offset streams leave the scalar kernel's 128 bytes in
every call of `tm_kernels`; the runner the comment may have had in mind,
`run_alg_offset_sw`, is not modelled.

## 5. Proofs

Every theorem about the queue and its workers is about any keys, devices, runs,
supervisors, batch lengths and `Events`; where one does not hold with every event, its hypothesis names the
events it excludes, and the runs that check the property satisfy it. The
assumptions are those of the modules: keys are a finite set of naturals,
`DeviceOf` is total, `NoRun` is no run, strong hits are candidates, the line
`STOP` names no batch.

**The queue.** `TierStoreProofs` argues about transactions: `Transaction` is the
five of `TierStore` and the steps of verification, and for each property of the
queue one lemma says that a transaction keeps it, and `TransactionRefines` that
it is a step of `TierQueue` or a stutter. What a mode has to show is that its
steps are transactions (`QueueSteps`), and for two of the properties that its
final ingests are *honest* (`HonestIngest`): without the stop flag the batch has all
its rows. `LeaseAgrees` is inductive on its own: a final ingest ends
*every* lease of its run, because a leased key is in the run's batch and so is
either credited or orphaned.

In the spawn mode (`TierOpsProofs`) honesty is a fact about one worker,
`WorkerAccounts`: a worker owes exactly the keys of its batch without a row, and
a worker that exited with code 0 owes something only if its stop file exists.
`IInv == TypeOK /\ LeaseAgrees /\ WorkerAccounts` is inductive; `LeaseAgrees`,
`DoneHasRow`, `NoKeyWrittenOff`, `DoneRunIsComplete`, `DoneIsFinal` and
`KeepsQueuePromise` follow, with all events at once.

**Supervisors and the runs in their hands.** `TierOpsSupervisorProofs` adds to
`IInv` where a run can be: being launched, in a slot, or pending its background
verifier, in one place of one supervisor (`OneHolder`), with what a supervisor's
locals say at each place of its loop (`Places`) and which events a failed
verifier needs (`VerifierFails`). `HInv` is inductive with all events; each
property then needs one more part and excludes what really breaks it:

- `WorkerHoldsLease`, with `HoldsLease` for the launches on their way, needs no
  "reset": a run reset between its commit and its registration is set running
  again without a key.
- `LeaseIsSupervised` is inductive beside `HInv`; "kill" and "interrupt" strand a
  lease between two steps, and so does a verifier whose failure ends the run.
- `PauseSignalsWorkers` needs that the latch, the flag and the stop files agree
  (`PauseLatch`), which a "resume" ends.
- `InterruptSettles`, an action property, needs that the rows of a run are of its
  batch and that a run whose ingest is over and whose slot is still taken has its
  rows settled (`FinishedIsSettled`): the verifier comes between the two, and
  with it every other process. It excludes "kill"; and, with more than one
  device, that a verifier fails at all: the handler, interrupted by the failure on
  one device, leaves the runs of the others as they were.
- `EvidenceKept` (through `RowEvidence`: a row's candidate is in a file of the
  run or an alert, and a run about to be verified has no CSV yet) and
  `AlertsComplete` (through `Tracked`: somebody will verify it) exclude failing
  verifiers and interrupts, `AlertsComplete` kills too.

**Daemon mode.** In `TierDaemonProofs` the supervisor and a resident worker know
of each other only by what is on its way: `Conversation` lists the six situations of
the protocol (who has to speak, what was said), `FreshRuns` and `Accounts` say
whose hands a batch is in from its lease to its answer, `Places`, `PauseOrder`,
`LeaseIsHeld` and `RowEvidence` do as in the spawn mode. With `TypeOK` and
`LeaseAgrees` they are one inductive invariant, with all events.
`WorkerOnItsLease`, `NobodyWaitsForever`, `PauseReachesDaemons`, `ExitSettles`,
`EvidenceKept`, `LeaseAgrees`, `DoneHasRow` follow without a hypothesis.
`NoKeyWrittenOff`, `DoneRunIsComplete` and `KeepsQueuePromise` need that no
pause is lifted while the run goes on (`"lift" \notin Events`): a final
ingest goes by the stop flag as last read, a worker by a stop file that nobody
removes, and `tier_daemon_lift` (section 7) is what follows when the two part.

**The worker's buffers.** `RacewayWorkerProofs` proves, for any number of keys, batch length, release
period, window sizes and memory, that two slots are enough. `OffsetIsOwn` is not
inductive: an upload started now is read two steps later. `IInv` says what holds
in between: a prepare thread past its build has its own key in the slot it was
given (`StagedInv`), it works on the key after the one running, in the slot of
that key's parity (`AheadInv`), so what the main thread took stays as it was
(`TakenInv`) until and while the kernels run (`LaunchedInv`). It follows that a
stop with an upload in flight is harmless to the next batch: the stale copy
lands in a slot whose next upload waits for it.

**The threads of a CPU search.** `CpuRacewayProofs` proves `EveryLossIsHeld` and
`NothingMissed` for any number of threads, any shape of ranges, batches, waves and caps, any
command line and any window. The assumptions are about what the module takes as
parameters: sizes are positive (`ShapeAssumption`), the capped screen has no
screen mode (`ConfigAssumption`), what is enumerated has as many data values as the window
asks for (`WindowAssumption`: the first conjunct of `NothingMissed` is no more than
that), equal codes stay equal from map to map and a certified bit does not reach
map 1's code (`CodeAssumption`), and no two codes share a fingerprint
(`FingerprintAssumption`; a collision would drop a code, which the code accepts).
TLC evaluates each of them for the instance it checks.

The argument is about what a drop relies on. A cap remembers a code as soon as it
is written, which may be before the thread that writes it has put it into its wave;
another thread that meets the code then drops it, relying on that thread. So a
code counts as carried at a boundary from the moment its thread is bound
to keep it (`Pending`), not from when it is in a wave. `Firm(l)` are the final
codes of what is carried past boundary `l` or finished, and of every step it is
shown (`FirmStep`) that it takes nothing out of `Firm(l)`: a code that is compacted in place
is not overwritten before it is read, a wave that is drained ends in the table, a
drop has an equal code elsewhere. In shadow mode the producer's cap decides nothing, and a
code on its way into it may yet be dropped by the thread's own set: `Firm`
leaves it out, `HeldFrom`, which the caps rely on, does not.
`IInv == TypeOK /\ Places /\ JudgedIsFirm /\ SeenIsFirm /\ CapsAreHeld /\ StoresRep`
is inductive: what is not ahead of a thread any more is firm, what a
thread's own set remembers is firm, what a cap remembers is held, and
what is about to be stored is carried or was found in the second tier. A slot
can be read while it is overwritten by another thread and a victim
index can be lost, and the proof needs no more of the caps than that: they hold
only fingerprints somebody wrote. `NothingMissed` follows, since at the end nothing
is ahead and nothing is carried; its counts need that each thread has at least as many hits
as passing codes (`HitsCount`), summed over the threads.

**The wave cadence of the CUDA raceway.** `CudaRacewayProofs` proves
`NoHitIsLost` for any number of warps and of lanes, any plan, batch, window,
caps and blocks, host or device counts, with or without the fused tail and
PRECERT. It assumes what the module's constants stand for: sizes are positive
and warps are there (`ShapeAssumption`); a plan is what
`completed_maps_to_cap_indices` returns, the window ends where the 32-bit indices
over the bits that are not shed do, and a batch fits the 24 bits of a packed hit,
as the comment at the kernel says and no code checks (`CadenceAssumption`); equal
states stay equal from map to map and a certified bit is in no state from map 1
on (`StateAssumption`); states of one window that meet in a cap do not share a
fingerprint (`FingerprintAssumption`; a collision drops a state, which the code
accepts). TLC evaluates each for the instance it checks.

The argument is that of the CPU search, over launches instead of threads. A lane
is dropped only for a fingerprint that somebody stored, and a warp that is about
to store one is bound to carry its state past that boundary. So a position of a
batch is `Carries(p, b)`, carried past boundary `b`, in one of the places
a launch keeps it: ahead of the counter, in a warp's lane, stored behind the
counter, in the list being compacted, in a flag. `HeldBy(x, b)` says that a
position carried past `b`, or a hit written, ends in `x`. Of every action it is
proved that what is held and would be a hit stays held (`StaysHeld`, which
`CarriedStays` and `SlotsStay` reduce to single positions): each carried position
is still carried, or has become a hit. The one step that lets a lane go is a
probe (`ProbeHolds`); there `DroppedIsHeld` shows that what the cap showed
belongs to another position that ends alike and is carried further, or to a hit.
Nothing is assumed of the caps but that a load returns what some warp stored at
that slot: neither the order of stores nor a lost victim matters.

`NoHitIsLost` alone is not inductive: that a launch finds the states of *this*
batch is a fact about five buffers that are kept for the whole key.
`IInv == Shape /\ BegunAreHeld /\ CapsAreHeld /\ EndsWhole`. `Shape` says where
each launch is and what it may rely on: states behind it are run to its
boundary, the flags of the batch are zero or the position's own (`FlagsOK`; this is what
fails when `BeginBatch` keeps flags), no two warps have a slot in hand and no
position is twice in a list (`WarpsOK`, `LiveOK`, `PackedOK`), hits are true and
of earlier batches, so that none is written twice (`HitsOK`). `EndsWhole` says that
a key that is done has begun its whole window. For the rest of `NoHitIsLost`
`DepositInjective` shows that different indices deposit to different data values,
and `StandsForSize` counts them: the window's values, each with the subsets of the shed
bits, are as many as were asked for.

**The dedup tables.** `FlatTableProofs` is about the operators of `FlatTable`, not
about a behaviour: what `insert` and `reset` of `state_dedup.h` do to any table
the program can have. `Merge` is the promise, a search of the whole pool;
`InsertMerges` says that an insert does just that, through the front cache, the
tags of 16 bits, colliding fingerprints, the probes and the growth of the slots.
`TableOK` is what a table in use satisfies: `Stands` says that every slot of this
generation is of an entry of the pool, no two of the same, and that each entry is
reached from its fingerprint over slots in use, which is what makes the first free
slot on the way a proof that the state is new (`StopTells`). Placing an entry in the
first free slot keeps it (`PlaceStands`), and with it the rehash, entry by entry
(`GrowStands`); there always is a free slot, because `at` maps the slots in use
one-to-one to entries (`SomeSlotIsFree`, `PoolFits`). `ResetIsFresh` says that a
reset begins a generation none of whose slots an earlier one occupies, also
where the tag wraps (without the `Restale` it is false), and `GenerationMerges`
puts both together: after a reset, any run of inserts leaves the pool that
merging its entries one by one leaves, with exactly their states.

Assumed are fingerprints that are naturals (they may collide), a static
table with a slot per entry (the code makes two; the size of a static table is
assumed positive, `StaticSize` looks no further than 2^16 floors), and for
`ResetIsFresh` that no slots are rebuilt under a front cache in use:
the run `dedup_front_cache` shows what happens there. Tables that grow from their first reset on meet
this, as they never have fewer slots than a reset asks for. A fold over a sequence is
taken as the library defines it, over sets of indices: that the
function it recurs with exists, and what it is on a prefix, is proved for each
fold from the least number for which it would fail (`RehashingExists`,
`FoldingExists`), which needs no induction theorem. What the drivers feed their tables
(`BlockIsExact`) is beyond these theorems.

Only model-checked: liveness (that a cadence ends, in `EveryKeyEnds`, among it), which is
outside the prover's reach; and the
kernels on either side, the analyses and the drivers of the tables (`ScreenAgrees`,
`TaintCovers`, `BlocksAgree`, `AnalysisIsSound`, `BlockIsExact`), whose definitions recur
over drawn bytes, maps and groups of maps and so are out of the prover's reach.

## 6. Not modelled

In the modelled parts: the BFS engine's verified stream and `scan-alerts` (a
re-import of finished CSVs), `--dry-run`, BFS row return codes other than 0 (the
raceway worker writes the literal 0), failures of SQLite itself, an interrupt
between the last two statements of a reap (section 3) or in the middle of one
transaction, a second Ctrl-C inside the handler, and the
console `operate` (it issues commands that are actions here). In `TierDaemon`:
`--sync-verify`, `--loops` and failing verifiers (the same calls as in spawn
mode), a second run process. In `RacewayWorker`: `--raceway-key-batch-size 1`
(no cache), calibration and parity runs, exceptions other than a window that does
not fit, and the bytes of schedule and offset stream (`CudaWarp` has them). In `CudaRaceway`: the continuation that recomputes from the data value when no wave
state is kept, the sweep over several plans (the same loop, over cleared caps),
the calibration, the parity branch, a fingerprint collision, and the other
kernels of `tm_cuda_raceway.cuh`, which comparisons and benches launch. In
`CpuRaceway`: counters, and the interleaving of the maps inside one call. In
`StateDedup`: timings, boundary records and memory statistics. In the
transform: the registers of the HyperLogLog sketch (`screen_and_hll` says which
codes are hashed), `run_alg_offset_sw` (used by dedup kernels only), the threads
of a block beyond their warps, the table statistics of `rng.cpp`, the routing of hit files, and
`compute_entry*` of `key_schedule.cpp` (10-160, 193-290), which nothing calls.

Not yet: the tables of the CUDA dedup and calibration kernels, and the FPGA
pipeline (section 2). Of `tm_cuda_dedup.cuh` only the coalesced screen, the
fingerprint and the compaction are modelled.

Never: OpenCL kernels and their host, which run the modelled transform without
interaction between steps; the comparisons of screens in the CUDA host, which
time what `tm_kernels` compares; the shard builder
and key files, which are text input; benches and the matrix bench's statistics.

## 7. Findings

- `tier_daemon_lift`: in daemon mode whether a batch was cut is decided by the
  stop flag as last read; a pause lifted before the cut batch is handled makes
  its skipped keys `failed`.
- `raceway_schedule`: the schedule buffer is refreshed for every key but the
  first of a batch; in daemon mode the first key of each later batch is
  screened with the schedule of the key that ran last, and recorded as done.
- `kernel_one_map`: three kernels run one map in another way than the map it
  stands for. `run_one_map` of `tm_avx_r256_16` reads byte `i` of an array
  of 16-bit lanes, and that of `tm_sse2_m128s_8` reads the shuffled code at an
  unshuffled place, where `run_all_maps` of the same kernels reads the right
  byte: one map asked for alone picks its algorithms from other bytes than
  the same map in a schedule. The CUDA screen over coalesced bytes
  (`tm_cuda_dedup.cuh` 4637-4660) reads the bytes of a lane forward where they
  are drawn backward, once an alg_2 or alg_5 has moved the position off a
  row's start; it runs in the `--screen-coalesced` comparison only.
  `ImplementsTransform` holds of every other kernel and of every other call.
- `dedup_front_cache`: a table that grows in `reset` starts its epoch at 1 again
  and leaves the front cache as it is, so entries tagged 1 by an earlier
  generation count as current and point into, or behind, a pool of other states.
  It takes a front cache on tables without dynamic growth that are reused, which
  `state_dedup_matrix_bench` allows.
