----------------------------- MODULE TierDaemon -----------------------------
(***************************************************************************)
(* `cert_tier_ops.py run --daemon`: one resident worker per device, fed    *)
(* batch after batch over its stdin, answers DAEMON_DONE on its stdout; a  *)
(* reader thread turns that line, and the end of the stream, into events   *)
(* for the supervisor.  The worker is told to stop between batches by a    *)
(* STOP line and within a batch by the stop file of the batch it was       *)
(* LAUNCHED with, the only one it ever looks at.                           *)
(*                                                                         *)
(* A resident worker is named by the run it was launched with.  Candidates *)
(* are verified in the background (--sync-verify is modelled in TierOps).  *)
(***************************************************************************)
EXTENDS TierStore, Sequences

CONSTANTS
  Loops,    \* --loops; 0: until no pending work
  Events    \* what operators and the environment may do, within AllEvents

AllEvents == {"stop", "resume", "lift", "recover", "deadline", "kill", "worker"}

ASSUME LoopsAssumption == Loops \in Nat
ASSUME EventsAssumption == Events \subseteq AllEvents
ASSUME StopAssumption == "STOP" \notin Runs       \* a line names a batch or is STOP
ASSUME DeviceNameAssumption == "none" \notin Devices

VARIABLES
  pc,           \* where the supervisor stands
  stopSeen,     \* stop or time_up, as read at the top of the loop
  signalled,    \* daemon_stop_signalled
  timeUp,       \* the deadline of --stop-after-min has passed
  untried,      \* devices launch_daemon has not been called for
  focus,        \* the device being launched or whose event is handled
  newRun,       \* the run leased for focus and not yet handed over
  stopping,     \* the local of that name
  daemon,       \* dev_state[d]["daemon"], named by its launch run
  current,      \* dev_state[d]["batch"]
  batches,      \* dev_state[d]["batches"], counted when Loops > 0
  drained,      \* dev_state[d]["drained"]
  pending,      \* pending_verifies
  lost,         \* devices counted in failures
  proc,         \* the resident worker launched with a run
  work,         \* the run whose batch it works on
  left,         \* keys of that batch it has yet to write a row for
  stdin,        \* lines on their way to it
  events        \* completion_q events of its reader thread

localVars == <<stopSeen, signalled, timeUp, untried, focus, newRun, stopping,
               daemon, current, batches, drained, pending, lost>>
procVars == <<proc, work, left, stdin, events>>
vars == <<storeVars, pc, localVars, procVars>>

Stop == "STOP"
NoDevice == "none"
Live == {"boot", "key", "row", "wait"}    \* wait: blocked in getline(stdin)
Handling == {"done", "next", "leased", "feed"}

TypeOK ==
  /\ StoreTypeOK
  /\ pc \in {"idle", "start", "spawn", "register", "top", "tend", "get",
             "exited", "dead"} \cup Handling
  /\ stopSeen \in BOOLEAN /\ signalled \in BOOLEAN /\ timeUp \in BOOLEAN
  /\ untried \in SUBSET Devices
  /\ focus \in Devices \cup {NoDevice}
  /\ newRun \in Runs \cup {NoRun}
  /\ stopping \in BOOLEAN
  /\ daemon \in [Devices -> Runs \cup {NoRun}]
  /\ current \in [Devices -> Runs \cup {NoRun}]
  /\ batches \in [Devices -> Nat]
  /\ drained \in [Devices -> BOOLEAN]
  /\ pending \in SUBSET Runs
  /\ lost \in SUBSET Devices
  /\ proc \in [Runs -> {"none", "gone"} \cup Live]
  /\ work \in [Runs -> Runs \cup {NoRun}]
  /\ left \in [Runs -> SUBSET Keys]
  /\ stdin \in [Runs -> Seq(Runs \cup {Stop})]
  /\ events \in [Runs -> Seq({"done", "exit"})]

Init ==
  /\ StoreInit
  /\ pc = "idle"
  /\ stopSeen = FALSE /\ signalled = FALSE /\ timeUp = FALSE /\ stopping = FALSE
  /\ untried = {} /\ focus = NoDevice /\ newRun = NoRun
  /\ daemon = [d \in Devices |-> NoRun]
  /\ current = [d \in Devices |-> NoRun]
  /\ batches = [d \in Devices |-> 0]
  /\ drained = [d \in Devices |-> FALSE]
  /\ pending = {}
  /\ lost = {}
  /\ proc = [r \in Runs |-> "none"]
  /\ work = [r \in Runs |-> NoRun]
  /\ left = [r \in Runs |-> {}]
  /\ stdin = [r \in Runs |-> <<>>]
  /\ events = [r \in Runs |-> <<>>]

-----------------------------------------------------------------------------
(* Operators' commands.                                                    *)

Idle == pc \in {"idle", "exited", "dead"}

(* init commits the shards chunk by chunk, in source order.                *)
CommandInit ==
  /\ pc = "idle"
  /\ \E k \in Keys : ImportKeys({j \in Keys : j <= k})
  /\ UNCHANGED <<stopMeta, alerts, fileVars, verifier, pc, localVars, procVars>>

(* A new `run --daemon` process sets out to launch a worker per device.    *)
(* One in a behaviour: TierOps has several run processes on one queue.     *)
StartRun ==
  /\ pc = "idle"
  /\ \E k \in Keys : status[k] # "absent"
  /\ pc' = "start"
  /\ untried' = Devices
  /\ lost' = {}
  /\ UNCHANGED <<storeVars, stopSeen, signalled, timeUp, focus, newRun, stopping,
                 daemon, current, batches, drained, pending, procVars>>

CommandRequestStop ==
  /\ "stop" \in Events
  /\ ~stopMeta
  /\ stopMeta' = TRUE
  /\ UNCHANGED <<queueVars, alerts, fileVars, verifier, pc, localVars, procVars>>

(* "resume" clears a pause that has ended the run, "lift" one at any time. *)
CommandClearStop ==
  /\ ("resume" \in Events /\ Idle) \/ "lift" \in Events
  /\ stopMeta
  /\ stopMeta' = FALSE
  /\ UNCHANGED <<queueVars, alerts, fileVars, verifier, pc, localVars, procVars>>

CommandResetRunning ==
  /\ "recover" \in Events
  /\ Idle
  /\ ResetRunning
  /\ UNCHANGED <<stopMeta, alerts, fileVars, verifier, pc, localVars, procVars>>

DeadlinePasses ==
  /\ "deadline" \in Events
  /\ ~Idle
  /\ ~timeUp
  /\ timeUp' = TRUE
  /\ UNCHANGED <<storeVars, pc, stopSeen, signalled, untried, focus, newRun, stopping,
                 daemon, current, batches, drained, pending, lost, procVars>>

-----------------------------------------------------------------------------
(* Launching the resident workers.                                         *)

(* The supervisor process ends; its pipes are closed and its threads gone; *)
(* the devices it lost are in its exit code.                               *)
Leave(how) ==
  /\ pc' = how
  /\ stopSeen' = FALSE /\ signalled' = FALSE /\ timeUp' = FALSE /\ stopping' = FALSE
  /\ untried' = {} /\ focus' = NoDevice /\ newRun' = NoRun
  /\ daemon' = [d \in Devices |-> NoRun]
  /\ current' = [d \in Devices |-> NoRun]
  /\ batches' = [d \in Devices |-> 0]
  /\ drained' = [d \in Devices |-> FALSE]
  /\ pending' = {}
  /\ UNCHANGED lost

(* launch_daemon: lease the first batch.                                   *)
LaunchLease(d) ==
  /\ pc = "start"
  /\ d \in untried
  /\ \E r \in Runs : LeaseBatch(r, d) /\ newRun' = r
  /\ focus' = d
  /\ pc' = "spawn"
  /\ UNCHANGED <<stopMeta, alerts, fileVars, verifier, stopSeen, signalled, timeUp,
                 untried, stopping, daemon, current, batches, drained, pending, lost,
                 procVars>>

LaunchNothing(d) ==
  /\ pc = "start"
  /\ d \in untried
  /\ NextBatch(d) = {}
  /\ untried' = untried \ {d}
  /\ drained' = [drained EXCEPT ![d] = TRUE]
  /\ UNCHANGED <<storeVars, pc, stopSeen, signalled, timeUp, focus, newRun, stopping,
                 daemon, current, batches, pending, lost, procVars>>

LaunchSpawn ==
  /\ pc = "spawn"
  /\ proc' = [proc EXCEPT ![newRun] = "boot"]
  /\ work' = [work EXCEPT ![newRun] = newRun]
  /\ left' = [left EXCEPT ![newRun] = batch[newRun]]
  /\ pc' = "register"
  /\ UNCHANGED <<storeVars, localVars, stdin, events>>

LaunchRegister ==
  /\ pc = "register"
  /\ MarkRunning(newRun)
  /\ daemon' = [daemon EXCEPT ![focus] = newRun]
  /\ current' = [current EXCEPT ![focus] = newRun]
  /\ batches' = [batches EXCEPT ![focus] = IF Loops = 0 THEN @ ELSE @ + 1]
  /\ untried' = untried \ {focus}
  /\ newRun' = NoRun
  /\ focus' = NoDevice
  /\ pc' = "start"
  /\ UNCHANGED <<stopMeta, alerts, fileVars, verifier, stopSeen, signalled, timeUp,
                 stopping, drained, pending, lost, procVars>>

LaunchDone ==
  /\ pc = "start"
  /\ untried = {}
  /\ pc' = "top"
  /\ UNCHANGED <<storeVars, localVars, procVars>>

-----------------------------------------------------------------------------
(* The supervisor's loop.                                                  *)

Watched == {daemon[d] : d \in {e \in Devices : ~drained[e]}} \ {NoRun}

LoopTop_CurrentStopFile ==
  LET stop == stopMeta \/ timeUp
      cur == {current[d] : d \in {e \in Devices : daemon[e] # NoRun /\ ~drained[e]}}
  IN
  /\ pc = "top"
  /\ stopSeen' = stop
  /\ signalled' = (signalled \/ stop)
  /\ stopFile' = [r \in Runs |-> stopFile[r] \/ (stop /\ ~signalled /\ r \in cur)]
  /\ pc' = "tend"
  /\ UNCHANGED <<queueVars, stopMeta, alerts, summary, hits, csv, verifier, timeUp,
                 untried, focus, newRun, stopping, daemon, current, batches, drained,
                 pending, lost, procVars>>

(* Read the stop flag and the clock; the first time either says stop, write*)
(* the launch stop file of every worker that was not told to end.          *)
LoopTop ==
  LET stop == stopMeta \/ timeUp IN
  /\ pc = "top"
  /\ stopSeen' = stop
  /\ signalled' = (signalled \/ stop)
  /\ stopFile' = [r \in Runs |-> stopFile[r] \/ (stop /\ ~signalled /\ r \in Watched)]
  /\ pc' = "tend"
  /\ UNCHANGED <<queueVars, stopMeta, alerts, summary, hits, csv, verifier, timeUp,
                 untried, focus, newRun, stopping, daemon, current, batches, drained,
                 pending, lost, procVars>>

(* harvest_pending_verifies, drain_pending_verifies                        *)
Harvest(r) ==
  /\ pc = "tend"
  /\ r \in pending
  /\ HarvestVerify(r)
  /\ pending' = pending \ {r}
  /\ UNCHANGED <<queueVars, stopMeta, summary, hits, stopFile, pc, stopSeen, signalled,
                 timeUp, untried, focus, newRun, stopping, daemon, current, batches,
                 drained, lost, procVars>>

LoopTend_AnyDrained ==
  /\ pc = "tend"
  /\ IF \E d \in Devices : drained[d]
     THEN /\ pending = {}
          /\ Leave("exited")
     ELSE /\ \A r \in pending : verifier[r] = "live"
          /\ pc' = "get"
          /\ UNCHANGED localVars
  /\ UNCHANGED <<storeVars, procVars>>

(* Without a worker left, drain the verifiers and end the run; otherwise   *)
(* wait for an event.                                                      *)
LoopTend ==
  /\ pc = "tend"
  /\ IF \A d \in Devices : daemon[d] = NoRun
     THEN /\ pending = {}
          /\ Leave("exited")
     ELSE /\ \A r \in pending : verifier[r] = "live"
          /\ pc' = "get"
          /\ UNCHANGED localVars
  /\ UNCHANGED <<storeVars, procVars>>

(* completion_q.get times out after a second.                              *)
GetNothing ==
  /\ pc = "get"
  /\ \A d \in Devices : daemon[d] # NoRun => events[daemon[d]] = <<>>
  /\ pc' = "top"
  /\ UNCHANGED <<storeVars, localVars, procVars>>

(* The next event of device d; events of one worker arrive in order.       *)
GetEvent(d, ev) ==
  /\ pc = "get"
  /\ daemon[d] # NoRun
  /\ events[daemon[d]] # <<>>
  /\ Head(events[daemon[d]]) = ev
  /\ events' = [events EXCEPT ![daemon[d]] = Tail(@)]

GetDone_ForgetsDeadline(d) ==
  LET stop == (stopSeen /\ stopMeta) \/ (Loops # 0 /\ batches[d] >= Loops) IN
  /\ GetEvent(d, "done")
  /\ IngestSummary(current[d], TRUE, TRUE, stop)
  /\ stopping' = stop
  /\ focus' = d
  /\ pc' = "done"
  /\ UNCHANGED <<stopMeta, alerts, fileVars, verifier, stopSeen, signalled, timeUp,
                 untried, newRun, daemon, current, batches, drained, pending, lost,
                 proc, work, left, stdin>>

(* DAEMON_DONE, up to the commit of the ingest.  Whether keys without a row*)
(* are given back is decided by the stop flag read at the top of the loop. *)
GetDone(d) ==
  LET stop == stopSeen \/ (Loops # 0 /\ batches[d] >= Loops) IN
  /\ GetEvent(d, "done")
  /\ IngestSummary(current[d], TRUE, TRUE, stop)
  /\ stopping' = stop
  /\ focus' = d
  /\ pc' = "done"
  /\ UNCHANGED <<stopMeta, alerts, fileVars, verifier, stopSeen, signalled, timeUp,
                 untried, newRun, daemon, current, batches, drained, pending, lost,
                 proc, work, left, stdin>>

(* The worker's stdout ended.                                              *)
GetExit(d) ==
  /\ GetEvent(d, "exit")
  /\ daemon' = [daemon EXCEPT ![d] = NoRun]
  /\ lost' = IF drained[d] THEN lost ELSE lost \cup {d}
  /\ pc' = "top"
  /\ UNCHANGED <<storeVars, stopSeen, signalled, timeUp, untried, focus, newRun,
                 stopping, current, batches, drained, pending, proc, work, left, stdin>>

DoneVerify_Forgets ==
  /\ pc = "done"
  /\ StartVerify(current[focus])
  /\ pc' = "next"
  /\ UNCHANGED <<queueVars, stopMeta, alerts, summary, stopFile, stopSeen, signalled,
                 timeUp, untried, focus, newRun, stopping, daemon, current, batches,
                 drained, pending, lost, procVars>>

(* The candidates of the batch go to a background verifier.                *)
DoneVerify ==
  LET r == current[focus] IN
  /\ pc = "done"
  /\ StartVerify(r)
  /\ pending' = IF hits[r] = {} THEN pending ELSE pending \cup {r}
  /\ pc' = "next"
  /\ UNCHANGED <<queueVars, stopMeta, alerts, summary, stopFile, stopSeen, signalled,
                 timeUp, untried, focus, newRun, stopping, daemon, current, batches,
                 drained, lost, procVars>>

Send(r, line) ==
  stdin' = [stdin EXCEPT ![r] = IF proc[r] = "gone" THEN @ ELSE Append(@, line)]

(* send_stop: told to stop, or nothing is pending.  A broken pipe is fine. *)
NextStop ==
  /\ pc = "next"
  /\ stopping \/ NextBatch(focus) = {}
  /\ Send(daemon[focus], Stop)
  /\ drained' = [drained EXCEPT ![focus] = TRUE]
  /\ stopping' = FALSE
  /\ focus' = NoDevice
  /\ pc' = "top"
  /\ UNCHANGED <<storeVars, stopSeen, signalled, timeUp, untried, newRun, daemon,
                 current, batches, pending, lost, proc, work, left, events>>

NextLease ==
  /\ pc = "next"
  /\ ~stopping
  /\ \E r \in Runs : LeaseBatch(r, focus) /\ newRun' = r
  /\ pc' = "leased"
  /\ UNCHANGED <<stopMeta, alerts, fileVars, verifier, stopSeen, signalled, timeUp,
                 untried, focus, stopping, daemon, current, batches, drained, pending,
                 lost, procVars>>

NextMark_KeepsBatch ==
  /\ pc = "leased"
  /\ MarkRunning(newRun)
  /\ batches' = [batches EXCEPT ![focus] = IF Loops = 0 THEN @ ELSE @ + 1]
  /\ newRun' = NoRun
  /\ pc' = "feed"
  /\ UNCHANGED <<stopMeta, alerts, fileVars, verifier, stopSeen, signalled, timeUp,
                 untried, focus, stopping, daemon, current, drained, pending, lost,
                 procVars>>

NextMark ==
  /\ pc = "leased"
  /\ MarkRunning(newRun)
  /\ current' = [current EXCEPT ![focus] = newRun]
  /\ batches' = [batches EXCEPT ![focus] = IF Loops = 0 THEN @ ELSE @ + 1]
  /\ newRun' = NoRun
  /\ pc' = "feed"
  /\ UNCHANGED <<stopMeta, alerts, fileVars, verifier, stopSeen, signalled, timeUp,
                 untried, focus, stopping, daemon, drained, pending, lost, procVars>>

NextFeed_NeverWrites ==
  /\ pc = "feed"
  /\ focus' = NoDevice
  /\ pc' = "top"
  /\ UNCHANGED <<storeVars, stopSeen, signalled, timeUp, untried, newRun, stopping,
                 daemon, current, batches, drained, pending, lost, procVars>>

(* feed_batch: a worker that died since DAEMON_DONE breaks the pipe, and   *)
(* nothing catches that: the run process ends.                             *)
NextFeed ==
  /\ pc = "feed"
  /\ IF proc[daemon[focus]] = "gone"
     THEN /\ Leave("dead")
          /\ UNCHANGED stdin
     ELSE /\ Send(daemon[focus], current[focus])
          /\ focus' = NoDevice
          /\ pc' = "top"
          /\ UNCHANGED <<stopSeen, signalled, timeUp, untried, newRun, stopping, daemon,
                         current, batches, drained, pending, lost>>
  /\ UNCHANGED <<storeVars, proc, work, left, events>>

(* SIGKILL, or Ctrl-C: this mode has no interrupt handler.                 *)
KillSupervisor ==
  /\ "kill" \in Events
  /\ ~Idle
  /\ Leave("dead")
  /\ UNCHANGED <<storeVars, procVars>>

-----------------------------------------------------------------------------
(* The resident worker (test_cuda --raceway-daemon).                       *)

(* Its pipes are held by the living supervisor.                            *)
Attached(r) ==
  \/ \E d \in Devices : daemon[d] = r
  \/ pc = "register" /\ newRun = r

Emit(r, ev) == events' = [events EXCEPT ![r] = IF Attached(r) THEN Append(@, ev) ELSE @]

WorkerBoot(r) ==
  /\ proc[r] = "boot"
  /\ proc' = [proc EXCEPT ![r] = "key"]
  /\ UNCHANGED <<storeVars, pc, localVars, work, left, stdin, events>>

(* Before every key but the first of a batch: the launch stop file.        *)
StopAtBoundary(r) == left[r] # batch[work[r]] /\ stopFile[r]

WorkerScreen(r, k) ==
  /\ proc[r] = "key"
  /\ k \in left[r] /\ \A j \in left[r] : k <= j
  /\ ~StopAtBoundary(r)
  /\ hits' = [hits EXCEPT ![work[r]] = @ \cup ({k} \cap Candidate)]
  /\ proc' = [proc EXCEPT ![r] = "row"]
  /\ UNCHANGED <<queueVars, stopMeta, alerts, summary, csv, stopFile, verifier, pc,
                 localVars, work, left, stdin, events>>

WorkerRow_LaunchSummary(r, k) ==
  /\ proc[r] = "row"
  /\ k \in left[r] /\ \A j \in left[r] : k <= j
  /\ summary' = [summary EXCEPT ![r] = @ \cup {k}]
  /\ left' = [left EXCEPT ![r] = @ \ {k}]
  /\ proc' = [proc EXCEPT ![r] = "key"]
  /\ UNCHANGED <<queueVars, stopMeta, alerts, hits, csv, stopFile, verifier, pc,
                 localVars, work, stdin, events>>

WorkerRow(r, k) ==
  /\ proc[r] = "row"
  /\ k \in left[r] /\ \A j \in left[r] : k <= j
  /\ summary' = [summary EXCEPT ![work[r]] = @ \cup {k}]
  /\ left' = [left EXCEPT ![r] = @ \ {k}]
  /\ proc' = [proc EXCEPT ![r] = "key"]
  /\ UNCHANGED <<queueVars, stopMeta, alerts, hits, csv, stopFile, verifier, pc,
                 localVars, work, stdin, events>>

(* The batch ended or was cut: DAEMON_DONE, then block for the next line.  *)
WorkerDone(r) ==
  /\ proc[r] = "key"
  /\ left[r] = {} \/ StopAtBoundary(r)
  /\ Emit(r, "done")
  /\ proc' = [proc EXCEPT ![r] = "wait"]
  /\ UNCHANGED <<storeVars, pc, localVars, work, left, stdin>>

(* The next batch: its summary file is opened, its hit directory adopted.  *)
WorkerNext(r) ==
  /\ proc[r] = "wait"
  /\ stdin[r] # <<>> /\ Head(stdin[r]) # Stop
  /\ work' = [work EXCEPT ![r] = Head(stdin[r])]
  /\ left' = [left EXCEPT ![r] = batch[Head(stdin[r])]]
  /\ stdin' = [stdin EXCEPT ![r] = Tail(@)]
  /\ proc' = [proc EXCEPT ![r] = "key"]
  /\ UNCHANGED <<storeVars, pc, localVars, events>>

WorkerStop_NoEof(r) ==
  /\ proc[r] = "wait"
  /\ stdin[r] # <<>> /\ Head(stdin[r]) = Stop
  /\ Emit(r, "exit")
  /\ proc' = [proc EXCEPT ![r] = "gone"]
  /\ UNCHANGED <<storeVars, pc, localVars, work, left, stdin>>

(* STOP, or the end of stdin once the supervisor is gone.                  *)
WorkerStop(r) ==
  /\ proc[r] = "wait"
  /\ \/ stdin[r] # <<>> /\ Head(stdin[r]) = Stop
     \/ stdin[r] = <<>> /\ ~Attached(r)
  /\ Emit(r, "exit")
  /\ proc' = [proc EXCEPT ![r] = "gone"]
  /\ UNCHANGED <<storeVars, pc, localVars, work, left, stdin>>

(* The process dies; without a supervisor its next output already kills it.*)
WorkerFail(r) ==
  /\ "worker" \in Events
  /\ proc[r] \in Live
  /\ Emit(r, "exit")
  /\ proc' = [proc EXCEPT ![r] = "gone"]
  /\ UNCHANGED <<storeVars, pc, localVars, work, left, stdin>>

VerifierStep(r) ==
  /\ VerifierExit(r, "ok")
  /\ UNCHANGED <<queueVars, stopMeta, alerts, fileVars, pc, localVars, procVars>>

-----------------------------------------------------------------------------
SupervisorStep ==
  \/ \E d \in Devices : LaunchLease(d) \/ LaunchNothing(d)
  \/ LaunchSpawn \/ LaunchRegister \/ LaunchDone
  \/ LoopTop \/ LoopTend \/ GetNothing
  \/ \E r \in Runs : Harvest(r)
  \/ \E d \in Devices : GetDone(d) \/ GetExit(d)
  \/ DoneVerify \/ NextStop \/ NextLease \/ NextMark \/ NextFeed

WorkerStep(r) ==
  \/ WorkerBoot(r) \/ WorkerDone(r) \/ WorkerNext(r) \/ WorkerStop(r)
  \/ \E k \in Keys : WorkerScreen(r, k) \/ WorkerRow(r, k)

Next ==
  \/ CommandInit \/ StartRun
  \/ CommandRequestStop \/ CommandClearStop \/ CommandResetRunning
  \/ DeadlinePasses \/ KillSupervisor
  \/ SupervisorStep
  \/ \E r \in Runs : WorkerStep(r) \/ WorkerFail(r) \/ VerifierStep(r)

Spec == Init /\ [][Next]_vars

(* Processes are scheduled; commands, crashes and the clock are not owed.  *)
Fairness ==
  /\ WF_vars(SupervisorStep)
  /\ \A r \in Runs : WF_vars(WorkerStep(r)) /\ WF_vars(VerifierStep(r))

FairSpec == Spec /\ Fairness

-----------------------------------------------------------------------------
(* Safety; LeaseAgrees, DoneHasRow, NoKeyWrittenOff, DoneRunIsComplete and *)
(* EvidenceKept of TierStore are proved of this mode in TierDaemonProofs.  *)

(* A worker in the middle of a batch works on the batch its supervisor     *)
(* thinks it works on ("Re-target per-batch outputs so the orchestrator    *)
(* ingests each batch independently"), and every key it has still to       *)
(* screen is leased to that batch's run unless reset-running took it away. *)
WorkerOnItsLease ==
  \A r \in Runs : proc[r] \in {"key", "row"} =>
    /\ \A d \in Devices : daemon[d] = r => current[d] = work[r]
    /\ \A k \in left[r] : lease[k] = work[r] \/ runStatus[work[r]] = "reset"

(* Supervisor and worker never wait for each other: a worker that has      *)
(* answered and has no line to read is being dealt with.                   *)
NobodyWaitsForever ==
  \A d \in Devices :
    daemon[d] # NoRun /\ proc[daemon[d]] = "wait" /\ stdin[daemon[d]] = <<>> =>
      events[daemon[d]] # <<>> \/ (pc \in Handling /\ focus = d)

(* "writing the daemon's LAUNCH stop-file [...] makes the engine break at  *)
(* its next key boundary": once a stop was seen, each worker that may get  *)
(* or hold a batch has the stop file it looks at.                          *)
PauseReachesDaemons ==
  pc \in {"tend", "get"} /\ stopSeen =>
    \A d \in Devices : daemon[d] # NoRun /\ ~drained[d] => stopFile[daemon[d]]

(* A run that ends by itself without reporting a lost worker leaves no     *)
(* lease behind ("in-flight batch keys remain 'running' (run reset-running *)
(* to recover)" is said of lost workers only).                             *)
ExitSettles == pc = "exited" /\ lost = {} => \A k \in Keys : lease[k] = NoRun

-----------------------------------------------------------------------------
(* Liveness.                                                               *)

(* Every run process ends, whatever its workers do: they are fed until     *)
(* nothing is pending, and an answer or an exit is never missed.  A        *)
(* resident worker never outlives its work: it ends after its supervisor   *)
(* has, by a STOP line or by the end of its stdin.  (Starved: the instance *)
(* has no run id left for a batch.)                                        *)
Starved ==
  /\ pc \in {"start", "next"}
  /\ \A r \in Runs : runStatus[r] # "absent"
  /\ \E d \in Devices : NextBatch(d) # {}
RunEnds ==
  /\ pc = "start" ~> Idle \/ Starved
  /\ \A r \in Runs : proc[r] = "boot" ~> proc[r] = "gone" \/ Starved

(* The candidate of a done key becomes an alert unless the run process     *)
(* crashes first.                                                          *)
AlertsArrive ==
  \A k \in Strong :
    status[k] = "done" ~> <<lastRun[k], k>> \in alerts \/ pc = "dead" \/ Starved

=============================================================================
