------------------------------ MODULE TierOps -------------------------------
(***************************************************************************)
(* `cert_tier_ops.py run` in its spawn-per-batch mode with the raceway     *)
(* engine: any number of supervisor processes share the queue; each leases *)
(* batches, spawns one worker per device and batch, ingests summaries      *)
(* while the worker runs and when it exits, and verifies the candidates on *)
(* the CPU in the background.  Operators pause, resume, reset, restart,    *)
(* interrupt and kill; workers and verifiers fail.                         *)
(*                                                                         *)
(* One action is one stretch of code with a single effect another process  *)
(* can see: a committed transaction, a file written, a process started.    *)
(***************************************************************************)
EXTENDS TierStore

CONSTANTS
  Supervisors,   \* `run` processes
  Loops,         \* --loops; 0: until no pending work
  IngestEvery,   \* --ingest-every-keys; 0: no progress ingest
  SyncVerify,    \* --sync-verify
  Events         \* what operators and the environment may do, a subset of
                 \* AllEvents; bounds the behaviours of an instance

AllEvents == {"init", "stop", "resume", "recover", "reset", "restart",
              "deadline", "interrupt", "kill", "worker", "verifier"}

ASSUME LoopsAssumption == Loops \in Nat
ASSUME IngestAssumption == IngestEvery \in Nat
ASSUME SyncAssumption == SyncVerify \in BOOLEAN
ASSUME EventsAssumption == Events \subseteq AllEvents

VARIABLES
  pc,            \* where a supervisor's loop stands
  stopSeen,      \* stop or time_up, as read at the top of the loop
  announced,     \* stop_announced
  timeUp,        \* the deadline of --stop-after-min has passed
  slot,          \* dev_state[d]["batch"] of a registered worker
  launch,        \* the device and run launch_device is working on
  batches,       \* dev_state[d]["batches"], counted when Loops > 0
  drained,       \* dev_state[d]["drained"]
  pending,       \* pending_verifies
  finishing,     \* the run ingested whose verification is not settled
  waiting,       \* the verifier of that run was started
  worker,        \* process spawned for a run
  left,          \* keys the worker has yet to write a row for
  lastIngested   \* dev_state[d]["last_ingested"] for the run

localVars == <<stopSeen, announced, timeUp, slot, launch, batches, drained,
               pending, finishing, waiting>>
supVars == <<pc, localVars>>
workerVars == <<worker, left>>
vars == <<storeVars, supVars, workerVars, lastIngested>>

NoLaunch == <<>>
LoopPc == {"top", "reap", "launch", "register", "tend"}
Live == {"boot", "key", "row"}       \* a worker process that is running
Exited == {"ok", "fail", "stillborn"} \* stillborn: before it opened its summary

TypeOK ==
  /\ StoreTypeOK
  /\ pc \in [Supervisors -> LoopPc \cup {"idle", "interrupted", "exited", "dead"}]
  /\ stopSeen \in [Supervisors -> BOOLEAN]
  /\ announced \in [Supervisors -> BOOLEAN]
  /\ timeUp \in [Supervisors -> BOOLEAN]
  /\ slot \in [Supervisors -> [Devices -> Runs \cup {NoRun}]]
  /\ launch \in [Supervisors -> (Devices \X Runs) \cup {NoLaunch}]
  /\ batches \in [Supervisors -> [Devices -> Nat]]
  /\ drained \in [Supervisors -> [Devices -> BOOLEAN]]
  /\ pending \in [Supervisors -> SUBSET Runs]
  /\ finishing \in [Supervisors -> Runs \cup {NoRun}]
  /\ waiting \in [Supervisors -> BOOLEAN]
  /\ worker \in [Runs -> {"none"} \cup Live \cup Exited]
  /\ left \in [Runs -> SUBSET Keys]
  /\ lastIngested \in [Runs -> Nat]

Init ==
  /\ StoreInit
  /\ pc = [s \in Supervisors |-> "idle"]
  /\ stopSeen = [s \in Supervisors |-> FALSE]
  /\ announced = [s \in Supervisors |-> FALSE]
  /\ timeUp = [s \in Supervisors |-> FALSE]
  /\ slot = [s \in Supervisors |-> [d \in Devices |-> NoRun]]
  /\ launch = [s \in Supervisors |-> NoLaunch]
  /\ batches = [s \in Supervisors |-> [d \in Devices |-> 0]]
  /\ drained = [s \in Supervisors |-> [d \in Devices |-> FALSE]]
  /\ pending = [s \in Supervisors |-> {}]
  /\ finishing = [s \in Supervisors |-> NoRun]
  /\ waiting = [s \in Supervisors |-> FALSE]
  /\ worker = [r \in Runs |-> "none"]
  /\ left = [r \in Runs |-> {}]
  /\ lastIngested = [r \in Runs |-> 0]

-----------------------------------------------------------------------------
(* Operators' commands.                                                    *)

Idle(s) == pc[s] \in {"idle", "exited", "dead"}

(* init commits the shards chunk by chunk; it may be run again at any time. *)
CommandInit ==
  /\ \/ "init" \in Events
     \/ \A s \in Supervisors : pc[s] = "idle"
  /\ \E shard \in SUBSET Keys : ImportKeys(shard)
  /\ UNCHANGED <<stopMeta, alerts, fileVars, verifier, supVars, workerVars, lastIngested>>

(* A new `run` process.                                                    *)
StartRun(s) ==
  /\ pc[s] = "idle" \/ ("restart" \in Events /\ Idle(s))
  /\ \E k \in Keys : status[k] # "absent"
  /\ pc' = [pc EXCEPT ![s] = "top"]
  /\ UNCHANGED <<storeVars, localVars, workerVars, lastIngested>>

CommandRequestStop ==
  /\ "stop" \in Events
  /\ ~stopMeta
  /\ stopMeta' = TRUE
  /\ UNCHANGED <<queueVars, alerts, fileVars, verifier, supVars, workerVars, lastIngested>>

CommandClearStop ==
  /\ "resume" \in Events
  /\ stopMeta
  /\ stopMeta' = FALSE
  /\ UNCHANGED <<queueVars, alerts, fileVars, verifier, supVars, workerVars, lastIngested>>

(* "reset-running only after an uncontrolled crash" is advice: as "recover"*)
(* the command is used so, as "reset" while run processes go on.           *)
CommandResetRunning ==
  /\ "reset" \in Events \/ ("recover" \in Events /\ \A s \in Supervisors : Idle(s))
  /\ ResetRunning
  /\ UNCHANGED <<stopMeta, alerts, fileVars, verifier, supVars, workerVars, lastIngested>>

-----------------------------------------------------------------------------
(* The supervisor's loop.                                                  *)

Active(s) == {slot[s][d] : d \in Devices} \ {NoRun}

Goto(s, where) == pc' = [pc EXCEPT ![s] = where]

(* The process of s ends: its locals go with it.                           *)
Leave(s, how) ==
  /\ Goto(s, how)
  /\ stopSeen' = [stopSeen EXCEPT ![s] = FALSE]
  /\ announced' = [announced EXCEPT ![s] = FALSE]
  /\ timeUp' = [timeUp EXCEPT ![s] = FALSE]
  /\ slot' = [slot EXCEPT ![s] = [d \in Devices |-> NoRun]]
  /\ launch' = [launch EXCEPT ![s] = NoLaunch]
  /\ batches' = [batches EXCEPT ![s] = [d \in Devices |-> 0]]
  /\ drained' = [drained EXCEPT ![s] = [d \in Devices |-> FALSE]]
  /\ pending' = [pending EXCEPT ![s] = {}]
  /\ finishing' = [finishing EXCEPT ![s] = NoRun]
  /\ waiting' = [waiting EXCEPT ![s] = FALSE]

(* time.monotonic() passes --stop-after-min.                               *)
DeadlinePasses(s) ==
  /\ "deadline" \in Events
  /\ pc[s] \in LoopPc
  /\ ~timeUp[s]
  /\ timeUp' = [timeUp EXCEPT ![s] = TRUE]
  /\ UNCHANGED <<storeVars, pc, stopSeen, announced, slot, launch, batches,
                 drained, pending, finishing, waiting, workerVars, lastIngested>>

LoopTop_SignalsOne(s) ==
  LET stop == stopMeta \/ timeUp[s] IN
  /\ pc[s] = "top"
  /\ Goto(s, "reap")
  /\ stopSeen' = [stopSeen EXCEPT ![s] = stop]
  /\ announced' = [announced EXCEPT ![s] = @ \/ stop]
  /\ stopFile' = [r \in Runs |->
       stopFile[r] \/ (stop /\ ~announced[s] /\ Active(s) = {r})]
  /\ UNCHANGED <<queueVars, stopMeta, alerts, summary, hits, csv, verifier,
                 timeUp, slot, launch, batches, drained, pending, finishing,
                 waiting, workerVars, lastIngested>>

(* Read the stop flag; the first time it is seen, write the stop files of  *)
(* the active workers.                                                     *)
LoopTop(s) ==
  LET stop == stopMeta \/ timeUp[s] IN
  /\ pc[s] = "top"
  /\ Goto(s, "reap")
  /\ stopSeen' = [stopSeen EXCEPT ![s] = stop]
  /\ announced' = [announced EXCEPT ![s] = @ \/ stop]
  /\ stopFile' = [r \in Runs |->
       stopFile[r] \/ (stop /\ ~announced[s] /\ r \in Active(s))]
  /\ UNCHANGED <<queueVars, stopMeta, alerts, summary, hits, csv, verifier,
                 timeUp, slot, launch, batches, drained, pending, finishing,
                 waiting, workerVars, lastIngested>>

(* finish_device, up to the commit of the final ingest.                    *)
ReapIngest(s, d) ==
  LET r == slot[s][d] IN
  /\ pc[s] = "reap"
  /\ finishing[s] = NoRun
  /\ r # NoRun
  /\ worker[r] \in Exited
  /\ IngestSummary(r, worker[r] = "ok", TRUE, stopFile[r])
  /\ finishing' = [finishing EXCEPT ![s] = r]
  /\ UNCHANGED <<stopMeta, alerts, fileVars, verifier, pc, stopSeen, announced,
                 timeUp, slot, launch, batches, drained, pending, waiting,
                 workerVars, lastIngested>>

(* st.update(proc=None, batch=None) for the run being finished.            *)
FreeSlot(s) ==
  /\ slot' = [slot EXCEPT ![s] =
       [d \in Devices |-> IF slot[s][d] = finishing[s] THEN NoRun ELSE slot[s][d]]]
  /\ finishing' = [finishing EXCEPT ![s] = NoRun]
  /\ waiting' = [waiting EXCEPT ![s] = FALSE]

FinishStart_ForgetsVerifier(s) ==
  LET r == finishing[s] IN
  /\ pc[s] = "reap"
  /\ r # NoRun
  /\ StartVerify(r)
  /\ FreeSlot(s)
  /\ UNCHANGED <<queueVars, stopMeta, alerts, summary, stopFile, pc, stopSeen,
                 announced, timeUp, launch, batches, drained, pending, workerVars,
                 lastIngested>>

(* The verification of an ingested run: nothing to verify, or a verifier   *)
(* is started.                                                             *)
FinishStart(s) ==
  LET r == finishing[s] IN
  /\ pc[s] \in {"reap", "interrupted"}
  /\ r # NoRun
  /\ ~waiting[s]
  /\ StartVerify(r)
  /\ IF hits[r] = {}
     THEN FreeSlot(s)
     ELSE /\ waiting' = [waiting EXCEPT ![s] = TRUE]
          /\ UNCHANGED <<slot, finishing>>
  /\ UNCHANGED <<queueVars, stopMeta, alerts, summary, stopFile, pc, stopSeen,
                 announced, timeUp, launch, batches, drained, pending, workerVars,
                 lastIngested>>

(* The verifier is left to itself: the loop will harvest it.  A Ctrl-C     *)
(* before this step leaves it to nobody.                                   *)
FinishPending(s) ==
  /\ pc[s] = "reap" /\ ~SyncVerify
  /\ finishing[s] # NoRun /\ waiting[s]
  /\ pending' = [pending EXCEPT ![s] = @ \cup {finishing[s]}]
  /\ FreeSlot(s)
  /\ UNCHANGED <<storeVars, pc, stopSeen, announced, timeUp, launch, batches,
                 drained, workerVars, lastIngested>>

(* --sync-verify and the interrupt handler wait for the verifier.          *)
WaitsForVerifier(s) ==
  /\ pc[s] = "interrupted" \/ (pc[s] = "reap" /\ SyncVerify)
  /\ finishing[s] # NoRun /\ waiting[s]

FinishWait_IgnoresFailure(s) ==
  /\ WaitsForVerifier(s)
  /\ HarvestVerify(finishing[s])
  /\ FreeSlot(s)
  /\ UNCHANGED <<queueVars, stopMeta, summary, hits, stopFile, pc, stopSeen,
                 announced, timeUp, launch, batches, drained, pending, workerVars,
                 lastIngested>>

(* A synchronous verifier exited.  A failure raises RuntimeError, which    *)
(* neither command_run nor its interrupt handler catches.                  *)
FinishWait(s) ==
  LET r == finishing[s] IN
  /\ WaitsForVerifier(s)
  /\ HarvestVerify(r)
  /\ IF verifier[r] = "ok"
     THEN /\ FreeSlot(s)
          /\ UNCHANGED <<pc, stopSeen, announced, timeUp, launch, batches,
                         drained, pending>>
     ELSE Leave(s, "dead")
  /\ UNCHANGED <<queueVars, stopMeta, summary, hits, stopFile, workerVars, lastIngested>>

ReapDone(s) ==
  /\ pc[s] = "reap"
  /\ finishing[s] = NoRun
  /\ \A r \in Active(s) : worker[r] \notin Exited
  /\ Goto(s, "launch")
  /\ UNCHANGED <<storeVars, stopSeen, announced, timeUp, slot, launch, batches,
                 drained, pending, finishing, waiting, workerVars, lastIngested>>

(* A device that may take another batch in this run.                       *)
MayLaunch(s, d) ==
  ~drained[s][d] /\ (Loops = 0 \/ batches[s][d] < Loops)

(* The launch phase offers every idle device one lease.                    *)
Launchable(s, d) ==
  /\ ~stopSeen[s]
  /\ slot[s][d] = NoRun
  /\ MayLaunch(s, d)

(* launch_device: lease_batch commits.                                     *)
LaunchLease(s, d) ==
  /\ pc[s] = "launch"
  /\ launch[s] = NoLaunch
  /\ Launchable(s, d)
  /\ \E r \in Runs :
       /\ LeaseBatch(r, d)
       /\ launch' = [launch EXCEPT ![s] = <<d, r>>]
  /\ UNCHANGED <<stopMeta, alerts, fileVars, verifier, pc, stopSeen, announced,
                 timeUp, slot, batches, drained, pending, finishing, waiting,
                 workerVars, lastIngested>>

LaunchNothing_AllDrained(s, d) ==
  /\ pc[s] = "launch"
  /\ launch[s] = NoLaunch
  /\ Launchable(s, d)
  /\ NextBatch(d) = {}
  /\ drained' = [drained EXCEPT ![s] = [e \in Devices |-> TRUE]]
  /\ UNCHANGED <<storeVars, pc, stopSeen, announced, timeUp, slot, launch,
                 batches, pending, finishing, waiting, workerVars, lastIngested>>

(* launch_device found no pending key: the device is drained for good.     *)
LaunchNothing(s, d) ==
  /\ pc[s] = "launch"
  /\ launch[s] = NoLaunch
  /\ Launchable(s, d)
  /\ NextBatch(d) = {}
  /\ drained' = [drained EXCEPT ![s][d] = TRUE]
  /\ UNCHANGED <<storeVars, pc, stopSeen, announced, timeUp, slot, launch,
                 batches, pending, finishing, waiting, workerVars, lastIngested>>

(* launch_batch: write the key file, remove a stale stop file, Popen.      *)
LaunchSpawn(s) ==
  /\ pc[s] = "launch"
  /\ launch[s] # NoLaunch
  /\ LET r == launch[s][2] IN
       /\ worker[r] = "none"
       /\ stopFile' = [stopFile EXCEPT ![r] = FALSE]
       /\ worker' = [worker EXCEPT ![r] = "boot"]
       /\ left' = [left EXCEPT ![r] = batch[r]]
  /\ UNCHANGED <<queueVars, stopMeta, alerts, summary, hits, csv, verifier,
                 supVars, lastIngested>>

(* launch_device: UPDATE runs SET status='running', and its commit.        *)
LaunchMark(s) ==
  /\ pc[s] = "launch"
  /\ launch[s] # NoLaunch
  /\ LET r == launch[s][2] IN worker[r] # "none" /\ MarkRunning(r)
  /\ Goto(s, "register")
  /\ UNCHANGED <<stopMeta, alerts, fileVars, verifier, localVars, workerVars,
                 lastIngested>>

LaunchRegister_OtherSlots(s) ==
  /\ pc[s] = "register" /\ launch[s] # NoLaunch
  /\ LET r == launch[s][2]
     IN /\ slot' = [slot EXCEPT ![s] = [d \in Devices |->
             IF d = launch[s][1] THEN r ELSE NoRun]]
        /\ lastIngested' = [lastIngested EXCEPT ![r] = 0]
  /\ launch' = [launch EXCEPT ![s] = NoLaunch]
  /\ Goto(s, "launch")
  /\ UNCHANGED <<storeVars, stopSeen, announced, timeUp, batches, drained,
                 pending, finishing, waiting, workerVars>>

(* launch_device: register the worker in dev_state.  A Ctrl-C before this  *)
(* step leaves a running run the interrupt handler does not know of.       *)
LaunchRegister(s) ==
  /\ pc[s] = "register" /\ launch[s] # NoLaunch
  /\ LET d == launch[s][1]
         r == launch[s][2]
     IN /\ slot' = [slot EXCEPT ![s][d] = r]
        /\ batches' = [batches EXCEPT ![s][d] = IF Loops = 0 THEN @ ELSE @ + 1]
        /\ lastIngested' = [lastIngested EXCEPT ![r] = 0]
  /\ launch' = [launch EXCEPT ![s] = NoLaunch]
  /\ Goto(s, "launch")
  /\ UNCHANGED <<storeVars, stopSeen, announced, timeUp, drained, pending,
                 finishing, waiting, workerVars>>

LaunchDone(s) ==
  /\ pc[s] = "launch"
  /\ launch[s] = NoLaunch
  /\ \A d \in Devices : ~Launchable(s, d)
  /\ Goto(s, "tend")
  /\ UNCHANGED <<storeVars, stopSeen, announced, timeUp, slot, launch, batches,
                 drained, pending, finishing, waiting, workerVars, lastIngested>>

(* harvest_pending_verifies, drain_pending_verifies: a failed verifier is  *)
(* reported and forgotten.  The interrupt handler drains after its workers.*)
Harvest(s, r) ==
  /\ pc[s] = "tend" \/ (pc[s] = "interrupted" /\ Active(s) = {})
  /\ r \in pending[s]
  /\ HarvestVerify(r)
  /\ pending' = [pending EXCEPT ![s] = @ \ {r}]
  /\ UNCHANGED <<queueVars, stopMeta, summary, hits, stopFile, pc, stopSeen,
                 announced, timeUp, slot, launch, batches, drained, finishing,
                 waiting, workerVars, lastIngested>>

(* Progress ingest of an active worker once enough rows are new.           *)
PollIngest(s, r) ==
  /\ pc[s] = "tend"
  /\ r \in Active(s)
  /\ IngestEvery > 0
  /\ Cardinality(summary[r]) >= lastIngested[r] + IngestEvery
  /\ IngestSummary(r, FALSE, FALSE, FALSE)
  /\ lastIngested' = [lastIngested EXCEPT ![r] = Cardinality(summary[r])]
  /\ UNCHANGED <<stopMeta, alerts, fileVars, verifier, supVars, workerVars>>

LoopEnd_NoDrain(s) ==
  LET leave == stopSeen[s] \/ \A d \in Devices : ~MayLaunch(s, d) IN
  /\ pc[s] = "tend"
  /\ IF Active(s) = {} /\ leave
     THEN Leave(s, "exited")
     ELSE Goto(s, "top") /\ UNCHANGED localVars
  /\ UNCHANGED <<storeVars, workerVars, lastIngested>>

LoopEnd_StaysPaused(s) ==
  /\ pc[s] = "tend"
  /\ \A r \in pending[s] : verifier[r] = "live" /\ Active(s) # {}
  /\ IF Active(s) = {} /\ \A d \in Devices : ~MayLaunch(s, d)
     THEN Leave(s, "exited")
     ELSE Goto(s, "top") /\ UNCHANGED localVars
  /\ UNCHANGED <<storeVars, workerVars, lastIngested>>

(* The loop harvests every exited verifier and may poll (--ingest-poll-s   *)
(* need not have elapsed); then, with a worker active, it waits and loops. *)
(* Otherwise it drains the verifiers and leaves, unless some device may    *)
(* still launch.                                                           *)
LoopEnd(s) ==
  LET leave == stopSeen[s] \/ \A d \in Devices : ~MayLaunch(s, d) IN
  /\ pc[s] = "tend"
  /\ \A r \in pending[s] : verifier[r] = "live" /\ Active(s) # {}
  /\ IF Active(s) = {} /\ leave
     THEN Leave(s, "exited")
     ELSE Goto(s, "top") /\ UNCHANGED localVars
  /\ UNCHANGED <<storeVars, workerVars, lastIngested>>

-----------------------------------------------------------------------------
(* Interrupts and crashes of a supervisor.                                 *)

(* KeyboardInterrupt between two steps: the handler terminates the         *)
(* registered workers.  From a terminal the signal also reaches the worker *)
(* being launched and the background verifiers.                            *)
Interrupt(s) ==
  /\ "interrupt" \in Events
  /\ pc[s] \in LoopPc
  /\ Goto(s, "interrupted")
  /\ \E terminal \in BOOLEAN :
       LET ours == Active(s) \cup
             {r \in Runs : terminal /\ \E d \in Devices : launch[s] = <<d, r>>}
       IN /\ worker' = [r \in Runs |->
               IF r \in ours /\ worker[r] \in Live
               THEN IF worker[r] = "boot" THEN "stillborn" ELSE "fail"
               ELSE worker[r]]
          /\ verifier' = [r \in Runs |->
               IF terminal /\ verifier[r] = "live" /\
                  (r \in pending[s] \/ (waiting[s] /\ r = finishing[s]))
               THEN "fail" ELSE verifier[r]]
  /\ launch' = [launch EXCEPT ![s] = NoLaunch]
  /\ finishing' = [finishing EXCEPT ![s] = NoRun]
  /\ waiting' = [waiting EXCEPT ![s] = FALSE]
  /\ UNCHANGED <<queueVars, stopMeta, alerts, fileVars, stopSeen, announced,
                 timeUp, slot, batches, drained, pending, left, lastIngested>>

InterruptIngest_SkipsStopped(s, d) ==
  LET r == slot[s][d] IN
  /\ pc[s] = "interrupted"
  /\ finishing[s] = NoRun
  /\ r # NoRun
  /\ IF worker[r] = "stillborn" \/ stopFile[r]
     THEN /\ slot' = [slot EXCEPT ![s][d] = NoRun]
          /\ UNCHANGED <<queueVars, finishing>>
     ELSE /\ IngestSummary(r, worker[r] = "ok", TRUE, stopFile[r])
          /\ finishing' = [finishing EXCEPT ![s] = r]
          /\ UNCHANGED slot
  /\ UNCHANGED <<stopMeta, alerts, fileVars, verifier, pc, stopSeen, announced,
                 timeUp, launch, batches, drained, pending, waiting, workerVars,
                 lastIngested>>

(* The handler ingests a worker's summary and goes on to verify, or skips  *)
(* a worker that never opened its summary.                                 *)
InterruptIngest(s, d) ==
  LET r == slot[s][d] IN
  /\ pc[s] = "interrupted"
  /\ finishing[s] = NoRun
  /\ r # NoRun
  /\ IF worker[r] = "stillborn"
     THEN /\ slot' = [slot EXCEPT ![s][d] = NoRun]
          /\ UNCHANGED <<queueVars, finishing>>
     ELSE /\ IngestSummary(r, worker[r] = "ok", TRUE, stopFile[r])
          /\ finishing' = [finishing EXCEPT ![s] = r]
          /\ UNCHANGED slot
  /\ UNCHANGED <<stopMeta, alerts, fileVars, verifier, pc, stopSeen, announced,
                 timeUp, launch, batches, drained, pending, waiting, workerVars,
                 lastIngested>>

(* The handler re-raises after draining.                                   *)
InterruptDone(s) ==
  /\ pc[s] = "interrupted"
  /\ Active(s) = {}
  /\ pending[s] = {}
  /\ Leave(s, "dead")
  /\ UNCHANGED <<storeVars, workerVars, lastIngested>>

(* The supervisor dies without a handler: its workers and verifiers go on. *)
KillSupervisor(s) ==
  /\ "kill" \in Events
  /\ ~Idle(s)
  /\ Leave(s, "dead")
  /\ UNCHANGED <<storeVars, workerVars, lastIngested>>

-----------------------------------------------------------------------------
(* The worker of a run (test_cuda --raceway-key-file) and the verifier.    *)

WorkerBoot(r) ==
  /\ worker[r] = "boot"
  /\ worker' = [worker EXCEPT ![r] = "key"]
  /\ UNCHANGED <<storeVars, supVars, left, lastIngested>>

(* The stop file is looked at before every key but the first.              *)
StopAtBoundary(r) == left[r] # batch[r] /\ stopFile[r]

(* Screen the next key and close its hit file.                             *)
WorkerScreen(r, k) ==
  /\ worker[r] = "key"
  /\ k \in left[r] /\ \A j \in left[r] : k <= j
  /\ ~StopAtBoundary(r)
  /\ hits' = [hits EXCEPT ![r] = @ \cup ({k} \cap Candidate)]
  /\ worker' = [worker EXCEPT ![r] = "row"]
  /\ UNCHANGED <<queueVars, stopMeta, alerts, summary, csv, stopFile, verifier,
                 supVars, left, lastIngested>>

(* Append and flush the key's summary row.                                 *)
WorkerRow(r, k) ==
  /\ worker[r] = "row"
  /\ k \in left[r] /\ \A j \in left[r] : k <= j
  /\ summary' = [summary EXCEPT ![r] = @ \cup {k}]
  /\ left' = [left EXCEPT ![r] = @ \ {k}]
  /\ worker' = [worker EXCEPT ![r] = "key"]
  /\ UNCHANGED <<queueVars, stopMeta, alerts, hits, csv, stopFile, verifier,
                 supVars, lastIngested>>

WorkerExit(r) ==
  /\ worker[r] = "key"
  /\ left[r] = {} \/ StopAtBoundary(r)
  /\ worker' = [worker EXCEPT ![r] = "ok"]
  /\ UNCHANGED <<storeVars, supVars, left, lastIngested>>

WorkerFail(r) ==
  /\ "worker" \in Events
  /\ worker[r] \in Live
  /\ worker' = [worker EXCEPT ![r] = IF @ = "boot" THEN "stillborn" ELSE "fail"]
  /\ UNCHANGED <<storeVars, supVars, left, lastIngested>>

VerifierStep(r) ==
  /\ VerifierExit(r, "ok") \/ ("verifier" \in Events /\ VerifierExit(r, "fail"))
  /\ UNCHANGED <<queueVars, stopMeta, alerts, fileVars, supVars, workerVars, lastIngested>>

-----------------------------------------------------------------------------
SupervisorStep(s) ==
  \/ LoopTop(s)
  \/ \E d \in Devices : ReapIngest(s, d)
  \/ FinishStart(s) \/ FinishPending(s) \/ FinishWait(s) \/ ReapDone(s)
  \/ \E d \in Devices : LaunchLease(s, d) \/ LaunchNothing(s, d)
  \/ LaunchSpawn(s) \/ LaunchMark(s) \/ LaunchRegister(s) \/ LaunchDone(s)
  \/ \E r \in Runs : Harvest(s, r) \/ PollIngest(s, r)
  \/ LoopEnd(s)
  \/ \E d \in Devices : InterruptIngest(s, d)
  \/ InterruptDone(s)

WorkerStep(r) ==
  \/ WorkerBoot(r) \/ WorkerExit(r)
  \/ \E k \in Keys : WorkerScreen(r, k) \/ WorkerRow(r, k)

Command ==
  \/ CommandInit \/ CommandRequestStop \/ CommandClearStop \/ CommandResetRunning
  \/ \E s \in Supervisors : StartRun(s)

Mishap ==
  \/ \E s \in Supervisors : DeadlinePasses(s) \/ Interrupt(s) \/ KillSupervisor(s)
  \/ \E r \in Runs : WorkerFail(r)

Next ==
  \/ Command \/ Mishap
  \/ \E s \in Supervisors : SupervisorStep(s)
  \/ \E r \in Runs : WorkerStep(r) \/ VerifierStep(r)

Spec == Init /\ [][Next]_vars

(* A process the operating system schedules keeps taking its steps: the    *)
(* supervisor's loop polls on a one second timeout, a worker ends its key, *)
(* a verifier its file.  Commands and mishaps are never owed.              *)
Fairness ==
  /\ \A s \in Supervisors : WF_vars(SupervisorStep(s))
  /\ \A r \in Runs : WF_vars(WorkerStep(r)) /\ WF_vars(VerifierStep(r))

FairSpec == Spec /\ Fairness

-----------------------------------------------------------------------------
(* Safety.                                                                 *)

(* Every key a live worker has still to screen is leased to its run, so no *)
(* two workers ever screen the same key, even when supervisors die, leave  *)
(* workers behind and are started again; only the runs that reset-running  *)
(* took the keys from are exempt.                                          *)
WorkerHoldsLease ==
  \A r \in Runs : worker[r] \in Live /\ runStatus[r] # "reset" =>
    \A k \in left[r] : lease[k] = r

(* When the run processes have ended by themselves, the candidate of every *)
(* done key is an alert ("All hits are verified exactly once at batch end",*)
(* step 3 of the loop in command_run).                                     *)
Accounted(k) == \E r \in Runs : <<r, k>> \in alerts
AlertsComplete ==
  (\A s \in Supervisors : pc[s] = "exited") =>
    \A k \in Strong : status[k] = "done" => Accounted(k)

(* Only a crash or an interrupt strands a lease ("reset-running recover    *)
(* stuck 'running' leases (after a hard crash)"): a leased run is in a slot*)
(* of a supervisor or being launched by one.                               *)
LeaseIsSupervised ==
  \A k \in Keys : lease[k] # NoRun =>
    \E s \in Supervisors :
      \/ lease[k] \in Active(s)
      \/ \E d \in Devices : launch[s] = <<d, lease[k]>>

(* "request-stop PAUSE: [...] signal active workers to stop at the next    *)
(* key": once a supervisor has read the stop flag, each of its workers has *)
(* its stop file.                                                          *)
PauseSignalsWorkers ==
  \A s \in Supervisors : pc[s] \in {"launch", "register", "tend"} /\ stopSeen[s] =>
    \A r \in Active(s) : stopFile[r]

-----------------------------------------------------------------------------
(* Steps.                                                                  *)

(* A done key is never queued, leased or failed again.                     *)
DoneIsFinal == [][\A k \in Keys : status[k] = "done" => status'[k] = "done"]_vars

(* "completed summary rows were ingested" (the interrupt handler's report): *)
(* a worker leaves its device's slot, at the reap, in the handler or with   *)
(* the end of the run process, only when its run is settled and each of its *)
(* rows has settled the key, unless another run leased the key since.  A    *)
(* worker that never opened its summary is let go as it is.                 *)
InterruptSettles ==
  [][\A s \in Supervisors, d \in Devices :
       LET r == slot[s][d] IN
       r # NoRun /\ slot'[s][d] # r =>
         \/ worker'[r] = "stillborn"
         \/ /\ runStatus'[r] \in {"done", "stopped", "failed"}
            /\ \A k \in summary'[r] : lastRun'[k] = r => status'[k] = "done"]_vars

-----------------------------------------------------------------------------
(* Liveness.                                                               *)

(* A run that is not paused brings every imported key to done, through as  *)
(* many batches as that takes.                                             *)
QueueDrains ==
  \A k \in Keys, s \in Supervisors :
    status[k] = "pending" /\ pc[s] \in LoopPc /\ ~stopSeen[s] ~>
      status[k] = "done" \/ stopMeta

(* The candidate of a done key becomes an alert.                           *)
AlertsArrive == \A k \in Strong : status[k] = "done" ~> Accounted(k)

(* A pause that is not lifted ends every run process.                      *)
PausedRunExits ==
  \A s \in Supervisors : stopMeta ~> ~stopMeta \/ Idle(s)

=============================================================================
