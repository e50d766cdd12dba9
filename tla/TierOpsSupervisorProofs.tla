---------------------- MODULE TierOpsSupervisorProofs -----------------------
(***************************************************************************)
(* The supervisors and the runs in their hands.  Each run is in one place  *)
(* (OneHolder): being launched, in a device's slot, or waiting for its     *)
(* background verifier, of one supervisor.  From that follow what a live   *)
(* worker may count on, what a pause reaches, what is left when every run  *)
(* process has ended, and that no candidate is forgotten on the way.       *)
(***************************************************************************)
EXTENDS TierOpsProofs

Settled == {"done", "stopped", "failed"}

(* What a supervisor's locals say at each place of its loop.               *)
PlacesOf(s) ==
  /\ Idle(s) =>
       /\ \A d \in Devices : slot[s][d] = NoRun
       /\ launch[s] = NoLaunch /\ pending[s] = {} /\ finishing[s] = NoRun
       /\ ~stopSeen[s] /\ ~announced[s]
  /\ launch[s] # NoLaunch =>
       pc[s] \in {"launch", "register"} /\ ~stopSeen[s] /\ slot[s][launch[s][1]] = NoRun
  /\ pc[s] = "register" => launch[s] # NoLaunch /\ worker[launch[s][2]] # "none"
  /\ finishing[s] # NoRun =>
       /\ pc[s] \in {"reap", "interrupted"}
       /\ \E d \in Devices : slot[s][d] = finishing[s]
       /\ worker[finishing[s]] \in Exited /\ runStatus[finishing[s]] \in Settled
  /\ waiting[s] => finishing[s] # NoRun
  /\ pc[s] = "interrupted" =>
       /\ "interrupt" \in Events
       /\ \A d \in Devices : slot[s][d] # NoRun => worker[slot[s][d]] \in Exited

Places == \A s \in Supervisors : PlacesOf(s)

(* A run is in the hands of one supervisor, in one place.                  *)
OneHolder ==
  /\ \A s \in Supervisors, d \in Devices : slot[s][d] # NoRun =>
       /\ worker[slot[s][d]] # "none"
       /\ \A t \in Supervisors, e \in Devices : slot[t][e] = slot[s][d] => t = s /\ e = d
  /\ \A s \in Supervisors, d \in Devices, r \in Runs : launch[s] = <<d, r>> =>
       \A t \in Supervisors :
         /\ \A e \in Devices : slot[t][e] # r
         /\ r \notin pending[t]
         /\ \A e \in Devices : launch[t] = <<e, r>> => t = s
  /\ \A s \in Supervisors : \A r \in pending[s] :
       /\ worker[r] \in Exited
       /\ \A t \in Supervisors : r \in pending[t] => t = s
       /\ \A t \in Supervisors, e \in Devices : slot[t][e] # r

(* A worker, and a launch that will start one, has its keys.               *)
HoldsLease ==
  /\ WorkerHoldsLease
  /\ \A s \in Supervisors, d \in Devices, r \in Runs : launch[s] = <<d, r>> =>
       /\ runStatus[r] # "reset"
       /\ worker[r] = "none" => \A k \in batch[r] : lease[k] = r

(* The stop latch of a supervisor and the stop files of its workers.       *)
PauseLatch ==
  \A s \in Supervisors :
    /\ announced[s] = stopSeen[s]
    /\ announced[s] => stopMeta \/ timeUp[s]
    /\ announced[s] => \A d \in Devices : slot[s][d] # NoRun => stopFile[slot[s][d]]

(* A verifier's failure can end a run process.                             *)
VerifierEndsRun == "verifier" \in Events /\ (SyncVerify \/ "interrupt" \in Events)

VerifierFails ==
  /\ \A r \in Runs : verifier[r] = "fail" => Events \cap {"verifier", "interrupt"} # {}
  /\ \A s \in Supervisors : waiting[s] /\ verifier[finishing[s]] = "fail" => "verifier" \in Events

Slotted(r) == \E s \in Supervisors, d \in Devices : slot[s][d] = r
Launching(r) == \E s \in Supervisors, d \in Devices : launch[s] = <<d, r>>
Pending(r) == \E s \in Supervisors : r \in pending[s]

(* The rows of a run have settled their keys, unless leased since.         *)
RowsSettled(r) == \A k \in summary[r] : lastRun[k] = r => status[k] = "done"

FinishedIsSettled ==
  /\ \A r \in Runs : summary[r] \subseteq batch[r]
  /\ \A s \in Supervisors, r \in Runs : finishing[s] = r => RowsSettled(r)

(* The candidate of a row is in the run's files or an alert.               *)
RowEvidence ==
  /\ \A r \in Runs : verifier[r] # "fail"
  /\ \A r \in Runs : \A k \in Strong \cap summary[r] :
       <<r, k>> \in alerts \/ k \in hits[r] \cup csv[r]
  /\ \A r \in Runs : worker[r] = "row" =>
       \A k \in left[r] \cap Candidate : (\A j \in left[r] : k <= j) => k \in hits[r]
  /\ \A r \in Runs : worker[r] = "none" \/ Launching(r) => csv[r] = {}
  /\ \A s \in Supervisors, d \in Devices :
       slot[s][d] # NoRun /\ ~(waiting[s] /\ finishing[s] = slot[s][d]) => csv[slot[s][d]] = {}

Tracked ==
  /\ \A r \in Runs : \A k \in Strong \cap summary[r] :
       <<r, k>> \in alerts \/ Slotted(r) \/ Launching(r) \/ Pending(r)
  /\ \A r \in Runs : worker[r] \in Live => Slotted(r) \/ Launching(r)
  /\ \A s \in Supervisors : \A r \in Runs :
        r \in pending[s] \/ (waiting[s] /\ finishing[s] = r) => hits[r] \subseteq csv[r]

-----------------------------------------------------------------------------
(* Who acts, and what the others may count on.                             *)

Kept(t) ==
  UNCHANGED <<pc[t], stopSeen[t], announced[t], timeUp[t], slot[t], launch[t],
              pending[t], finishing[t], waiting[t]>>

SupervisorAct(s) ==
  SupervisorStep(s) \/ StartRun(s) \/ DeadlinePasses(s) \/ Interrupt(s) \/ KillSupervisor(s)

LEMMA SlotType ==
  ASSUME TypeOK, NEW s \in Supervisors, NEW d \in Devices
  PROVE  slot[s][d] \in Runs \cup {NoRun} /\ slot[s] \in [Devices -> Runs \cup {NoRun}]
BY DEF TypeOK

LEMMA LaunchType ==
  ASSUME TypeOK, NEW s \in Supervisors, launch[s] # NoLaunch
  PROVE  \E d \in Devices, r \in Runs : launch[s] = <<d, r>> /\ launch[s][1] = d /\ launch[s][2] = r
BY DEF TypeOK

LEMMA LeaveEffect ==
  ASSUME TypeOK, NEW s \in Supervisors, NEW how, Leave(s, how)
  PROVE  /\ pc'[s] = how /\ ~stopSeen'[s] /\ ~announced'[s] /\ ~timeUp'[s]
         /\ \A d \in Devices : slot'[s][d] = NoRun
         /\ launch'[s] = NoLaunch /\ pending'[s] = {} /\ finishing'[s] = NoRun /\ ~waiting'[s]
         /\ \A t \in Supervisors \ {s} : Kept(t)
BY DEF TypeOK, Leave, Goto, Kept

LEMMA LeaveLatch ==
  ASSUME TypeOK, NEW s \in Supervisors, NEW how, Leave(s, how)
  PROVE  stopSeen'[s] = FALSE /\ announced'[s] = FALSE
BY DEF TypeOK, Leave

LEMMA FreeSlotEffect ==
  ASSUME TypeOK, NEW s \in Supervisors, FreeSlot(s)
  PROVE  /\ \A d \in Devices : slot'[s][d] = IF slot[s][d] = finishing[s] THEN NoRun ELSE slot[s][d]
         /\ finishing'[s] = NoRun /\ ~waiting'[s]
         /\ \A t \in Supervisors \ {s} :
              slot'[t] = slot[t] /\ finishing'[t] = finishing[t] /\ waiting'[t] = waiting[t]
BY DEF TypeOK, FreeSlot

LEMMA MarkEffect ==
  ASSUME TypeOK, NEW s \in Supervisors, LaunchMark(s)
  PROVE  \E d \in Devices, r \in Runs :
           /\ launch[s] = <<d, r>> /\ worker[r] # "none" /\ pc[s] = "launch" /\ pc'[s] = "register"
           /\ runStatus'[r] = "running" /\ \A q \in Runs \ {r} : runStatus'[q] = runStatus[q]
           /\ UNCHANGED <<localVars, workerVars, status, lease, lastRun, batch,
                          stopMeta, alerts, fileVars, verifier>>
           /\ \A t \in Supervisors \ {s} : pc'[t] = pc[t]
<1>1. PICK d \in Devices, r \in Runs : launch[s] = <<d, r>> /\ launch[s][1] = d /\ launch[s][2] = r
  BY LaunchType DEF LaunchMark
<1>2. /\ worker[r] # "none" /\ pc[s] = "launch" /\ MarkRunning(r) /\ pc' = [pc EXCEPT ![s] = "register"]
      /\ UNCHANGED <<localVars, workerVars, stopMeta, alerts, fileVars, verifier>>
  BY <1>1 DEF LaunchMark, Goto
<1>3. pc'[s] = "register" /\ \A t \in Supervisors \ {s} : pc'[t] = pc[t]
  BY <1>2 DEF TypeOK
<1>4. /\ runStatus'[r] = "running" /\ \A q \in Runs \ {r} : runStatus'[q] = runStatus[q]
      /\ UNCHANGED <<status, lease, lastRun, batch>>
  BY <1>2 DEF MarkRunning, TypeOK, StoreTypeOK, QueueTypeOK
<1>5. QED
  BY <1>1, <1>2, <1>3, <1>4

LEMMA RegisterEffect ==
  ASSUME TypeOK, NEW s \in Supervisors, LaunchRegister(s)
  PROVE  \E d \in Devices, r \in Runs :
           /\ launch[s] = <<d, r>> /\ launch[s][2] = r /\ pc[s] = "register" /\ pc'[s] = "launch"
           /\ slot'[s][d] = r /\ \A e \in Devices \ {d} : slot'[s][e] = slot[s][e]
           /\ launch'[s] = NoLaunch
           /\ UNCHANGED <<storeVars, stopSeen, announced, timeUp, pending, finishing, waiting, workerVars>>
           /\ \A t \in Supervisors \ {s} : Kept(t)
<1>1. PICK d \in Devices, r \in Runs : launch[s] = <<d, r>> /\ launch[s][1] = d /\ launch[s][2] = r
  BY LaunchType DEF LaunchRegister
<1>2. /\ pc[s] = "register" /\ pc' = [pc EXCEPT ![s] = "launch"]
      /\ slot' = [slot EXCEPT ![s][d] = r] /\ launch' = [launch EXCEPT ![s] = NoLaunch]
      /\ UNCHANGED <<storeVars, stopSeen, announced, timeUp, pending, finishing, waiting, workerVars>>
  BY <1>1 DEF LaunchRegister, Goto
<1>3. slot'[s][d] = r /\ \A e \in Devices \ {d} : slot'[s][e] = slot[s][e]
  BY <1>2 DEF TypeOK
<1>4. launch'[s] = NoLaunch /\ pc'[s] = "launch" /\ \A t \in Supervisors \ {s} : Kept(t)
  BY <1>2 DEF TypeOK, Kept
<1>5. QED
  BY <1>1, <1>2, <1>3, <1>4

LEMMA OthersKept ==
  ASSUME TypeOK, NEW s \in Supervisors, SupervisorAct(s)
  PROVE  \A t \in Supervisors \ {s} : Kept(t)
<1> USE DEF localVars, supVars
<1> DEFINE Goal == \A t \in Supervisors \ {s} : Kept(t)
<1>1. ASSUME FinishStart(s) PROVE Goal
  <2>1. CASE FreeSlot(s)
    BY <1>1, <2>1, FreeSlotEffect DEF FinishStart, Kept, TypeOK
  <2>2. CASE ~FreeSlot(s)
    BY <1>1, <2>2 DEF FinishStart, Kept, TypeOK
  <2>3. QED
    BY <2>1, <2>2
<1>2. ASSUME FinishWait(s) PROVE Goal
  <2>1. CASE Leave(s, "dead")
    BY <2>1, LeaveEffect
  <2>2. CASE ~Leave(s, "dead")
    BY <1>2, <2>2, FreeSlotEffect DEF FinishWait, Kept
  <2>3. QED
    BY <2>1, <2>2
<1>3. ASSUME LaunchRegister(s) \/ LaunchMark(s) PROVE Goal
  BY <1>3, RegisterEffect, MarkEffect DEF Kept
<1>3a. ASSUME FinishPending(s) PROVE Goal
  BY <1>3a, FreeSlotEffect DEF FinishPending, Kept, TypeOK
<1>4. ASSUME LoopEnd(s) PROVE Goal
  <2>1. CASE Leave(s, "exited")
    BY <2>1, LeaveEffect
  <2>2. CASE ~Leave(s, "exited")
    BY <1>4, <2>2 DEF LoopEnd, Kept, TypeOK, Goto
  <2>3. QED
    BY <2>1, <2>2
<1>5. ASSUME InterruptDone(s) \/ KillSupervisor(s) PROVE Goal
  BY <1>5, LeaveEffect DEF InterruptDone, KillSupervisor
<1>6. ASSUME NEW d \in Devices, InterruptIngest(s, d) PROVE Goal
  BY <1>6 DEF InterruptIngest, Kept, TypeOK
<1>7. ASSUME NEW d \in Devices, ReapIngest(s, d) \/ LaunchLease(s, d) \/ LaunchNothing(s, d) PROVE Goal
  BY <1>7 DEF ReapIngest, LaunchLease, LaunchNothing, Kept, TypeOK
<1>8. ASSUME NEW r \in Runs, Harvest(s, r) \/ PollIngest(s, r) PROVE Goal
  BY <1>8 DEF Harvest, PollIngest, Kept, TypeOK
<1>9. ASSUME LoopTop(s) \/ ReapDone(s) \/ LaunchSpawn(s) \/ LaunchDone(s) PROVE Goal
  BY <1>9 DEF LoopTop, ReapDone, LaunchSpawn, LaunchDone, Kept, TypeOK, Goto
<1>10. ASSUME StartRun(s) \/ DeadlinePasses(s) \/ Interrupt(s) PROVE Goal
  BY <1>10 DEF StartRun, DeadlinePasses, Interrupt, Kept, TypeOK, Goto
<1>11. QED
  BY <1>1, <1>2, <1>3, <1>3a, <1>4, <1>5, <1>6, <1>7, <1>8, <1>9, <1>10
     DEF SupervisorAct, SupervisorStep

LEMMA Actors ==
  ASSUME TypeOK, [Next]_vars
  PROVE  \/ UNCHANGED supVars
         \/ \E s \in Supervisors : SupervisorAct(s) /\ \A t \in Supervisors \ {s} : Kept(t)
<1>1. CASE UNCHANGED vars
  BY <1>1 DEF vars
<1>2. ASSUME NEW r \in Runs, WorkerStep(r) \/ VerifierStep(r) \/ WorkerFail(r) PROVE UNCHANGED supVars
  BY <1>2 DEF WorkerStep, WorkerBoot, WorkerScreen, WorkerRow, WorkerExit, VerifierStep, WorkerFail
<1>3. ASSUME CommandInit \/ CommandRequestStop \/ CommandClearStop \/ CommandResetRunning
      PROVE  UNCHANGED supVars
  BY <1>3 DEF CommandInit, CommandRequestStop, CommandClearStop, CommandResetRunning
<1>4. QED
  BY <1>1, <1>2, <1>3, OthersKept DEF Next, Command, Mishap, SupervisorAct

(* A worker that has exited stays so, and only a launch starts one.        *)
LEMMA ProcessStep ==
  ASSUME TypeOK, [Next]_vars, NEW r \in Runs
  PROVE  /\ worker[r] \in Exited => worker'[r] = worker[r]
         /\ worker[r] # "none" => worker'[r] # "none"
         /\ worker'[r] \in Live /\ worker[r] \notin Live =>
              \E s \in Supervisors, d \in Devices :
                /\ LaunchSpawn(s) /\ launch[s] = <<d, r>>
                /\ worker[r] = "none" /\ left'[r] = batch[r]
<1> USE DEF Live, Exited, TypeOK, workerVars
<1>1. ASSUME NEW s \in Supervisors, LaunchSpawn(s)
      PROVE  \E d \in Devices, q \in Runs :
               /\ launch[s] = <<d, q>> /\ worker[q] = "none"
               /\ worker' = [worker EXCEPT ![q] = "boot"]
               /\ left' = [left EXCEPT ![q] = batch[q]]
  BY ZenonT(40), <1>1, LaunchType DEF LaunchSpawn
<1>2. ASSUME NEW s \in Supervisors, Interrupt(s)
      PROVE  \/ worker'[r] = worker[r]
             \/ worker[r] \in Live /\ worker'[r] \in {"stillborn", "fail"}
  BY <1>2 DEF Interrupt
<1>3. ASSUME NEW q \in Runs, WorkerStep(q) \/ WorkerFail(q)
      PROVE  \/ worker'[r] = worker[r]
             \/ worker[r] \in Live /\ worker'[r] # "none" /\ worker'[r] \notin {"boot"}
  BY <1>3 DEF WorkerStep, WorkerBoot, WorkerScreen, WorkerRow, WorkerExit, WorkerFail
<1>4. ASSUME NEW s \in Supervisors, SupervisorAct(s), ~LaunchSpawn(s), ~Interrupt(s)
      PROVE  worker' = worker
  BY <1>4 DEF SupervisorAct, SupervisorStep, LoopTop, ReapIngest, FinishStart, FinishPending, FinishWait, ReapDone,
     LaunchLease, LaunchNothing, LaunchMark, LaunchRegister, LaunchDone, Harvest, PollIngest, LoopEnd,
     InterruptIngest, InterruptDone, StartRun, DeadlinePasses, KillSupervisor
<1>5. ASSUME CommandInit \/ CommandRequestStop \/ CommandClearStop \/ CommandResetRunning
               \/ (\E q \in Runs : VerifierStep(q)) \/ UNCHANGED vars
      PROVE  worker' = worker
  BY <1>5 DEF CommandInit, CommandRequestStop, CommandClearStop, CommandResetRunning, VerifierStep, vars
<1>6. ASSUME NEW s \in Supervisors, LaunchSpawn(s)
      PROVE  \/ worker'[r] = worker[r]
             \/ /\ worker[r] = "none" /\ worker'[r] = "boot" /\ left'[r] = batch[r]
                /\ \E d \in Devices : launch[s] = <<d, r>>
  BY <1>1, <1>6
<1>7. QED
  BY <1>2, <1>3, <1>4, <1>5, <1>6 DEF Next, Command, Mishap, SupervisorAct

(* The transactions again, with the supervisor that commits them.          *)
QueueMove ==
  \/ UNCHANGED queueVars
  \/ \E shard \in SUBSET Keys : ImportKeys(shard) /\ UNCHANGED supVars
  \/ \E s \in Supervisors, d \in Devices, r \in Runs :
       LaunchLease(s, d) /\ LeaseBatch(r, d) /\ launch' = [launch EXCEPT ![s] = <<d, r>>]
  \/ \E s \in Supervisors : LaunchMark(s)
  \/ \E s \in Supervisors, d \in Devices :
       /\ ReapIngest(s, d) \/ InterruptIngest(s, d)
       /\ slot[s][d] \in Runs /\ FinalIngest(slot[s][d])
       /\ finishing' = [finishing EXCEPT ![s] = slot[s][d]]
  \/ \E s \in Supervisors, r \in Runs : PollIngest(s, r)
  \/ CommandResetRunning

LEMMA QueueMoves ==
  ASSUME TypeOK, [Next]_vars
  PROVE  QueueMove
<1> USE DEF QueueMove
<1>1. CASE UNCHANGED vars
  BY <1>1 DEF vars, storeVars
<1>2. ASSUME NEW r \in Runs, WorkerStep(r) \/ VerifierStep(r) \/ WorkerFail(r) PROVE UNCHANGED queueVars
  BY <1>2 DEF WorkerStep, WorkerBoot, WorkerScreen, WorkerRow, WorkerExit, VerifierStep, WorkerFail,
              storeVars
<1>3. ASSUME CommandInit \/ CommandRequestStop \/ CommandClearStop PROVE QueueMove
  BY <1>3 DEF CommandInit, CommandRequestStop, CommandClearStop
<1>4. ASSUME NEW s \in Supervisors, NEW d \in Devices, LaunchLease(s, d) PROVE QueueMove
  <2>1. PICK r \in Runs : LeaseBatch(r, d) /\ launch' = [launch EXCEPT ![s] = <<d, r>>]
    BY <1>4 DEF LaunchLease
  <2>2. QED
    BY <1>4, <2>1
<1>5. ASSUME NEW s \in Supervisors, NEW d \in Devices, ReapIngest(s, d) \/ InterruptIngest(s, d)
      PROVE  QueueMove
  <2>1. slot[s][d] \in Runs
    BY <1>5, SlotType DEF ReapIngest, InterruptIngest
  <2>2. stopFile[slot[s][d]] \in BOOLEAN
    BY <2>1 DEF TypeOK, StoreTypeOK
  <2>3. \/ UNCHANGED queueVars
        \/ /\ IngestSummary(slot[s][d], worker[slot[s][d]] = "ok", TRUE, stopFile[slot[s][d]])
           /\ finishing' = [finishing EXCEPT ![s] = slot[s][d]]
    BY <1>5 DEF ReapIngest, InterruptIngest
  <2>4. IngestSummary(slot[s][d], worker[slot[s][d]] = "ok", TRUE, stopFile[slot[s][d]]) =>
          FinalIngest(slot[s][d])
    BY <2>2 DEF FinalIngest
  <2>5. QED
    BY <1>5, <2>1, <2>3, <2>4
<1>6. ASSUME NEW s \in Supervisors, SupervisorAct(s), ~LaunchMark(s),
             \A d \in Devices : ~LaunchLease(s, d) /\ ~ReapIngest(s, d) /\ ~InterruptIngest(s, d),
             \A r \in Runs : ~PollIngest(s, r)
      PROVE  UNCHANGED queueVars
  BY <1>6 DEF SupervisorAct, SupervisorStep, LoopTop, FinishStart, FinishPending, FinishWait, ReapDone,
     LaunchNothing, LaunchSpawn, LaunchRegister, LaunchDone, Harvest, LoopEnd, InterruptDone, StartRun, DeadlinePasses, Interrupt,
     KillSupervisor, storeVars
<1>7. QED
  BY <1>1, <1>2, <1>3, <1>4, <1>5, <1>6 DEF Next, Command, Mishap, SupervisorAct

(* A settled run stays settled unless it is marked running again.          *)
LEMMA SettledStep ==
  ASSUME TypeOK, LeaseAgrees, [Next]_vars, NEW r \in Runs, runStatus[r] \in Settled
  PROVE  \/ runStatus'[r] \in Settled
         \/ \E s \in Supervisors, d \in Devices : LaunchMark(s) /\ launch[s] = <<d, r>>
<1> USE DEF Settled
<1> QueueTypeOK
  BY DEF TypeOK, StoreTypeOK
<1>1. ASSUME NEW q \in Runs, FinalIngest(q) PROVE runStatus'[r] \in Settled
  BY <1>1, FinalIngestEffect
<1>2. ASSUME NEW q \in Runs, NEW d \in Devices, LeaseBatch(q, d) PROVE runStatus'[r] \in Settled
  BY <1>2, LeaseBatchEffect
<1>3. ASSUME NEW s \in Supervisors, LaunchMark(s)
      PROVE  \/ runStatus'[r] \in Settled
             \/ \E d \in Devices : launch[s] = <<d, r>>
  BY <1>3, MarkEffect
<1>4. ASSUME NEW s \in Supervisors, NEW q \in Runs, PollIngest(s, q) PROVE runStatus' = runStatus
  BY <1>4, ProgressIngestEffect DEF PollIngest
<1>5. ASSUME CommandResetRunning PROVE runStatus'[r] \in Settled
  BY <1>5 DEF CommandResetRunning, ResetRunning
<1>6. QED
  BY <1>1, <1>2, <1>3, <1>4, <1>5, QueueMoves DEF QueueMove, ImportKeys, queueVars

-----------------------------------------------------------------------------
(* What an act of a supervisor does with the runs in its hands.            *)

VerifierFailed(s) == FinishWait(s) /\ verifier[finishing[s]] = "fail"

Departs(s, r) ==
  \/ finishing[s] = r /\ FreeSlot(s)
  \/ KillSupervisor(s) \/ VerifierFailed(s)
  \/ pc[s] = "interrupted" /\ worker[r] = "stillborn"

SlotMoves(s) ==
  \A d \in Devices :
    \/ slot'[s][d] = slot[s][d]
    \/ slot'[s][d] = NoRun /\ Departs(s, slot[s][d])
    \/ LaunchRegister(s) /\ launch[s] = <<d, slot'[s][d]>>

LaunchMoves(s) ==
  \/ launch'[s] = launch[s]
  \/ launch'[s] = NoLaunch /\ (LaunchRegister(s) \/ Interrupt(s) \/ KillSupervisor(s))
  \/ /\ launch[s] = NoLaunch /\ slot'[s] = slot[s] /\ pending'[s] = pending[s]
     /\ \E d \in Devices, r \in Runs :
          launch'[s] = <<d, r>> /\ LaunchLease(s, d) /\ LeaseBatch(r, d)

PendingMoves(s) ==
  /\ \A r \in pending'[s] : r \in pending[s] \/ (finishing[s] = r /\ FinishPending(s))
  /\ \A r \in pending[s] : r \in pending'[s] \/ Harvest(s, r) \/ KillSupervisor(s) \/ VerifierFailed(s)

LEMMA Moves ==
  ASSUME TypeOK, Places, NEW s \in Supervisors, SupervisorAct(s)
  PROVE  SlotMoves(s) /\ LaunchMoves(s) /\ PendingMoves(s)
<1> USE DEF SlotMoves, LaunchMoves, PendingMoves, Departs
<1> DEFINE Goal == SlotMoves(s) /\ LaunchMoves(s) /\ PendingMoves(s)
<1>1. ASSUME FinishStart(s) PROVE Goal
  <2>1. launch' = launch /\ pending' = pending /\ (FreeSlot(s) \/ slot' = slot)
    BY <1>1 DEF FinishStart
  <2>2. QED
    BY <2>1, FreeSlotEffect
<1>1a. ASSUME FinishPending(s) PROVE Goal
  <2>1. launch' = launch /\ FreeSlot(s) /\ pending'[s] = pending[s] \cup {finishing[s]}
    BY <1>1a DEF FinishPending, TypeOK
  <2>2. QED
    BY <1>1a, <2>1, FreeSlotEffect
<1>2. ASSUME FinishWait(s) PROVE Goal
  <2>1. finishing[s] \in Runs
    BY <1>2 DEF FinishWait, WaitsForVerifier, TypeOK
  <2>2. CASE verifier[finishing[s]] = "ok"
    BY <1>2, <2>2, FreeSlotEffect DEF FinishWait
  <2>3. CASE verifier[finishing[s]] # "ok"
    <3>1. verifier[finishing[s]] = "fail" /\ Leave(s, "dead")
      BY <1>2, <2>3 DEF FinishWait, HarvestVerify
    <3>2. launch[s] = NoLaunch
      BY <1>2 DEF FinishWait, WaitsForVerifier, Places, PlacesOf
    <3>3. QED
      BY <1>2, <3>1, <3>2, LeaveEffect DEF VerifierFailed
  <2>4. QED
    BY <2>2, <2>3
<1>3. ASSUME LaunchRegister(s) PROVE Goal
  BY <1>3, RegisterEffect
<1>4. ASSUME LoopEnd(s) PROVE Goal
  <2>1. CASE Leave(s, "exited") /\ Active(s) = {}
    <3>1. launch[s] = NoLaunch /\ pending[s] = {}
      BY <1>4, <2>1 DEF LoopEnd, Places, PlacesOf
    <3>2. \A d \in Devices : slot[s][d] = NoRun
      BY <2>1 DEF Active
    <3>3. QED
      BY <2>1, <3>1, <3>2, LeaveEffect
  <2>2. CASE ~(Leave(s, "exited") /\ Active(s) = {})
    BY <1>4, <2>2 DEF LoopEnd, localVars
  <2>3. QED
    BY <2>1, <2>2
<1>5. ASSUME InterruptDone(s) PROVE Goal
  <2>1. launch[s] = NoLaunch /\ pending[s] = {} /\ Leave(s, "dead")
    BY <1>5 DEF InterruptDone, Places, PlacesOf
  <2>2. \A d \in Devices : slot[s][d] = NoRun
    BY <1>5 DEF InterruptDone, Active
  <2>3. QED
    BY <2>1, <2>2, LeaveEffect
<1>6. ASSUME KillSupervisor(s) PROVE Goal
  BY <1>6, LeaveEffect DEF KillSupervisor
<1>7. ASSUME NEW d \in Devices, InterruptIngest(s, d) PROVE Goal
  <2>1. UNCHANGED <<launch, pending>>
    BY <1>7 DEF InterruptIngest
  <2>2. \/ slot' = slot
        \/ /\ slot' = [slot EXCEPT ![s][d] = NoRun]
           /\ pc[s] = "interrupted" /\ worker[slot[s][d]] = "stillborn"
    BY <1>7 DEF InterruptIngest
  <2>3. QED
    BY <2>1, <2>2 DEF TypeOK
<1>8. ASSUME NEW d \in Devices, LaunchLease(s, d) PROVE Goal
  <2>1. PICK r \in Runs : LeaseBatch(r, d) /\ launch' = [launch EXCEPT ![s] = <<d, r>>]
    BY <1>8 DEF LaunchLease
  <2>2. launch[s] = NoLaunch /\ launch'[s] = <<d, r>> /\ UNCHANGED <<slot, pending>>
    BY <1>8, <2>1 DEF LaunchLease, TypeOK
  <2>3. QED
    BY <1>8, <2>1, <2>2
<1>9. ASSUME NEW d \in Devices, ReapIngest(s, d) \/ LaunchNothing(s, d) PROVE Goal
  BY <1>9 DEF ReapIngest, LaunchNothing
<1>10. ASSUME NEW r \in Runs, Harvest(s, r) PROVE Goal
  BY <1>10 DEF Harvest, TypeOK
<1>11. ASSUME NEW r \in Runs, PollIngest(s, r) PROVE Goal
  BY <1>11 DEF PollIngest, supVars, localVars
<1>12. ASSUME LoopTop(s) \/ ReapDone(s) \/ LaunchSpawn(s) \/ LaunchMark(s) \/ LaunchDone(s) PROVE Goal
  BY <1>12 DEF LoopTop, ReapDone, LaunchSpawn, LaunchMark, LaunchDone, supVars, localVars
<1>13. ASSUME StartRun(s) \/ DeadlinePasses(s) PROVE Goal
  BY <1>13 DEF StartRun, DeadlinePasses, localVars
<1>14. ASSUME Interrupt(s) PROVE Goal
  BY <1>14 DEF Interrupt, TypeOK
<1>15. QED
  BY <1>1, <1>1a, <1>2, <1>3, <1>4, <1>5, <1>6, <1>7, <1>8, <1>9, <1>10, <1>11, <1>12, <1>13, <1>14
     DEF SupervisorAct, SupervisorStep

LEMMA OneHolderStep ==
  ASSUME IInv, Places, OneHolder, [Next]_vars
  PROVE  OneHolder'
<1>0. TypeOK /\ \A r \in Runs : \A t \in Supervisors, d \in Devices :
        runStatus[r] = "absent" => worker[r] = "none" /\ launch[t] # <<d, r>>
  BY DEF IInv, WorkerAccounts
<1>1. /\ \A r \in Runs : worker[r] \in Exited => worker'[r] \in Exited
      /\ \A r \in Runs : worker[r] # "none" => worker'[r] # "none"
  BY <1>0, ProcessStep
<1>2. \A t \in Supervisors, d \in Devices : slot[t][d] \in Runs \cup {NoRun}
  BY <1>0, SlotType
<1>3. \A t \in Supervisors : pending[t] \subseteq Runs
  BY <1>0 DEF TypeOK
<1>4. CASE UNCHANGED supVars
  <2>1. UNCHANGED <<slot, launch, pending>>
    BY <1>4 DEF supVars, localVars
  <2>2. QED
    BY <1>1, <1>2, <1>3, <2>1 DEF OneHolder
<1>5. ASSUME NEW s \in Supervisors, SupervisorAct(s), \A t \in Supervisors \ {s} : Kept(t)
      PROVE  OneHolder'
  <2>1. SlotMoves(s) /\ LaunchMoves(s) /\ PendingMoves(s)
    BY <1>0, <1>5, Moves
  <2>2. \A t \in Supervisors \ {s} :
          slot'[t] = slot[t] /\ launch'[t] = launch[t] /\ pending'[t] = pending[t]
    BY <1>5 DEF Kept
  <2>3. CASE LaunchRegister(s)
    <3>1. PICK d \in Devices, r \in Runs :
            /\ launch[s] = <<d, r>> /\ worker[r] # "none"
            /\ slot'[s][d] = r /\ \A e \in Devices \ {d} : slot'[s][e] = slot[s][e]
            /\ launch'[s] = NoLaunch
            /\ pending' = pending /\ worker' = worker
      BY <1>0, <2>3, RegisterEffect DEF Places, PlacesOf, workerVars
    <3>2. \A t \in Supervisors, e \in Devices :
            slot'[t][e] = IF t = s /\ e = d THEN r ELSE slot[t][e]
      BY <2>2, <3>1
    <3>3. \A t \in Supervisors, e \in Devices : slot[t][e] # r
      BY <3>1 DEF OneHolder
    <3>4. \A t \in Supervisors : r \notin pending[t]
      BY <3>1 DEF OneHolder
    <3>5. \A t \in Supervisors, e \in Devices, q \in Runs :
            launch'[t] = <<e, q>> => launch[t] = <<e, q>> /\ q # r
      BY <2>2, <3>1 DEF OneHolder, NoLaunch
    <3>6. QED
      BY <1>2, <1>3, <3>1, <3>2, <3>3, <3>4, <3>5 DEF OneHolder
  <2>4. CASE \E d \in Devices, r \in Runs : launch'[s] = <<d, r>> /\ runStatus[r] = "absent"
                                            /\ slot'[s] = slot[s] /\ pending'[s] = pending[s]
    <3>1. PICK d \in Devices, r \in Runs : launch'[s] = <<d, r>> /\ runStatus[r] = "absent"
      BY <2>4
    <3>2. worker[r] = "none" /\ \A t \in Supervisors, e \in Devices : launch[t] # <<e, r>>
      BY <1>0, <3>1
    <3>3. \A t \in Supervisors : slot'[t] = slot[t] /\ pending'[t] = pending[t]
      BY <2>2, <2>4
    <3>4. \A t \in Supervisors : r \notin pending[t] /\ \A e \in Devices : slot[t][e] # r
      BY <3>2, NoRunAssumption DEF OneHolder, Exited
    <3>5. \A t \in Supervisors, e \in Devices, q \in Runs :
            launch'[t] = <<e, q>> => (t # s /\ launch[t] = <<e, q>> /\ q # r)
                                       \/ (t = s /\ e = d /\ q = r)
      BY <2>2, <3>1, <3>2
    <3>6. QED
      BY <1>1, <1>2, <1>3, <3>3, <3>4, <3>5 DEF OneHolder
  <2>5. CASE ~LaunchRegister(s) /\ launch'[s] \in {launch[s], NoLaunch}
    <3>1. \A t \in Supervisors, e \in Devices : slot'[t][e] \in {slot[t][e], NoRun}
      BY <2>1, <2>2, <2>5 DEF SlotMoves
    <3>2. \A t \in Supervisors, e \in Devices, q \in Runs :
            launch'[t] = <<e, q>> => launch[t] = <<e, q>>
      BY <2>2, <2>5 DEF NoLaunch
    <3>3. \A r \in pending'[s] : r \in pending[s] \/
            /\ r \in Runs /\ worker[r] \in Exited
            /\ \A t \in Supervisors, e \in Devices : slot'[t][e] # r /\ launch[t] # <<e, r>>
            /\ \A t \in Supervisors : r \notin pending[t]
      <4>1. ASSUME NEW r \in pending'[s], r \notin pending[s]
            PROVE  /\ r \in Runs /\ worker[r] \in Exited
                   /\ \A t \in Supervisors, e \in Devices : slot'[t][e] # r /\ launch[t] # <<e, r>>
                   /\ \A t \in Supervisors : r \notin pending[t]
        <5>1. finishing[s] = r /\ r # NoRun /\ FreeSlot(s)
          BY <2>1, <4>1 DEF PendingMoves, FinishPending
        <5>2. r \in Runs /\ worker[r] \in Exited /\ \E d \in Devices : slot[s][d] = r
          BY <1>0, <5>1 DEF Places, PlacesOf, TypeOK
        <5>3. \A t \in Supervisors, e \in Devices : slot'[t][e] # r
          BY <1>0, <2>2, <5>1, <5>2, FreeSlotEffect DEF OneHolder
        <5>4. QED
          BY <5>1, <5>2, <5>3 DEF OneHolder
      <4>2. QED
        BY <4>1
    <3>4. \A t \in Supervisors \ {s} : pending'[t] = pending[t]
      BY <2>2
    <3>5. ASSUME NEW t \in Supervisors, NEW d \in Devices, slot'[t][d] # NoRun
          PROVE  /\ worker'[slot'[t][d]] # "none"
                 /\ \A u \in Supervisors, e \in Devices : slot'[u][e] = slot'[t][d] => u = t /\ e = d
      <4>1. slot'[t][d] = slot[t][d] /\ slot[t][d] \in Runs
        BY <1>2, <3>1, <3>5
      <4>2. QED
        BY <1>1, <3>1, <3>5, <4>1 DEF OneHolder
    <3>6. ASSUME NEW t \in Supervisors, NEW d \in Devices, NEW r \in Runs, launch'[t] = <<d, r>>
          PROVE  \A u \in Supervisors :
                   /\ \A e \in Devices : slot'[u][e] # r
                   /\ r \notin pending'[u]
                   /\ \A e \in Devices : launch'[u] = <<e, r>> => u = t
      <4>1. launch[t] = <<d, r>>
        BY <3>2, <3>6
      <4>2. QED
        BY <3>1, <3>2, <3>3, <3>4, <4>1, NoRunAssumption DEF OneHolder
    <3>7. ASSUME NEW t \in Supervisors, NEW r \in pending'[t]
          PROVE  /\ worker'[r] \in Exited
                 /\ \A u \in Supervisors : r \in pending'[u] => u = t
                 /\ \A u \in Supervisors, e \in Devices : slot'[u][e] # r
      <4>1. CASE r \in pending[t]
        <5>1. r \in Runs
          BY <1>3, <4>1
        <5>2. QED
          BY <1>1, <3>1, <3>3, <3>4, <4>1, <5>1, NoRunAssumption DEF OneHolder
      <4>2. CASE r \notin pending[t]
        BY <1>1, <3>3, <3>4, <3>7, <4>2
      <4>3. QED
        BY <4>1, <4>2
    <3>8. QED
      BY <3>5, <3>6, <3>7 DEF OneHolder
  <2>6. QED
    BY <2>1, <2>3, <2>4, <2>5 DEF LaunchMoves, LeaseBatch
<1>6. QED
  BY <1>0, <1>4, <1>5, Actors

-----------------------------------------------------------------------------
(* Places, for the supervisor that acts and for the others.                *)

(* What a finished run has, it keeps.                                      *)
LEMMA FinishedStays ==
  ASSUME IInv, Places, OneHolder, [Next]_vars,
         NEW s \in Supervisors, NEW d \in Devices, slot[s][d] \in Runs
  PROVE  /\ worker[slot[s][d]] \in Exited => worker'[slot[s][d]] \in Exited
         /\ runStatus[slot[s][d]] \in Settled => runStatus'[slot[s][d]] \in Settled
<1>1. \A t \in Supervisors, e \in Devices : launch[t] # <<e, slot[s][d]>>
  BY DEF OneHolder
<1>2. QED
  BY <1>1, ProcessStep, SettledStep DEF IInv

LEMMA BystanderPlaces ==
  ASSUME IInv, Places, OneHolder, [Next]_vars, NEW t \in Supervisors, Kept(t)
  PROVE  PlacesOf(t)'
<1>1. finishing[t] \in Runs \cup {NoRun} /\ \A d \in Devices : slot[t][d] \in Runs \cup {NoRun}
  BY SlotType DEF IInv, TypeOK
<1>2. ASSUME finishing[t] # NoRun
      PROVE  /\ \E d \in Devices : slot[t][d] = finishing[t]
             /\ worker'[finishing[t]] \in Exited /\ runStatus'[finishing[t]] \in Settled
  BY <1>1, <1>2, FinishedStays DEF Places, PlacesOf
<1>3. pc[t] = "interrupted" => \A d \in Devices : slot[t][d] # NoRun => worker'[slot[t][d]] \in Exited
  BY <1>1, FinishedStays DEF Places, PlacesOf
<1>4. ASSUME pc[t] = "register" PROVE launch[t] # NoLaunch /\ worker'[launch[t][2]] # "none"
  <2>1. launch[t] # NoLaunch /\ worker[launch[t][2]] # "none"
    BY <1>4 DEF Places, PlacesOf
  <2>2. launch[t][2] \in Runs
    BY <2>1, LaunchType DEF IInv
  <2>3. QED
    BY <2>1, <2>2, ProcessStep DEF IInv
<1>5. QED
  BY <1>2, <1>3, <1>4 DEF Places, PlacesOf, Kept, Idle

LEMMA PlacesStep ==
  ASSUME IInv, Places, OneHolder, [Next]_vars
  PROVE  Places'
<1> TypeOK
  BY DEF IInv
<1>0. /\ \A s \in Supervisors : finishing[s] \in Runs \cup {NoRun}
      /\ \A s \in Supervisors, d \in Devices : slot[s][d] \in Runs \cup {NoRun}
  BY SlotType DEF TypeOK
<1>1. CASE UNCHANGED supVars
  <2>1. \A t \in Supervisors : Kept(t)
    BY <1>1 DEF supVars, localVars, Kept
  <2>2. \A t \in Supervisors : PlacesOf(t)'
    BY <2>1, BystanderPlaces
  <2>3. QED
    BY <2>2 DEF Places, PlacesOf
<1>2. ASSUME NEW s \in Supervisors, SupervisorAct(s), \A t \in Supervisors \ {s} : Kept(t)
      PROVE  Places'
  <2> DEFINE Goal == PlacesOf(s)'
  <2> USE DEF PlacesOf, supVars, localVars, Goto
  <2>0. PlacesOf(s) /\ \A d \in Devices : slot[s][d] \in Runs =>
          /\ worker[slot[s][d]] \in Exited => worker'[slot[s][d]] \in Exited
          /\ runStatus[slot[s][d]] \in Settled => runStatus'[slot[s][d]] \in Settled
    BY FinishedStays DEF Places, PlacesOf
  <2>1. ASSUME FinishStart(s) PROVE Goal
    <3>1. /\ UNCHANGED <<pc, stopSeen, announced, launch, pending, worker>>
          /\ pc[s] \in {"reap", "interrupted"} /\ finishing[s] # NoRun
      BY <2>1 DEF FinishStart, workerVars
    <3>2. CASE FreeSlot(s)
      BY <1>0, <2>0, <3>1, <3>2, FreeSlotEffect DEF Idle
    <3>3. CASE ~FreeSlot(s)
      <4>1. UNCHANGED <<slot, finishing>>
        BY <2>1, <3>3 DEF FinishStart
      <4>2. QED
        BY <1>0, <2>0, <3>1, <4>1 DEF Idle
    <3>4. QED
      BY <3>2, <3>3
  <2>1a. ASSUME FinishPending(s) PROVE Goal
    <3>1. /\ UNCHANGED <<pc, stopSeen, announced, launch, worker>> /\ FreeSlot(s)
          /\ pc[s] = "reap" /\ finishing[s] # NoRun
      BY <2>1a DEF FinishPending, workerVars
    <3>2. QED
      BY <1>0, <2>0, <3>1, FreeSlotEffect DEF Idle
  <2>2. ASSUME FinishWait(s) PROVE Goal
    <3>1. CASE Leave(s, "dead")
      BY <3>1, LeaveEffect DEF Idle
    <3>2. CASE ~Leave(s, "dead")
      <4>1. /\ pc' = pc /\ stopSeen' = stopSeen /\ announced' = announced /\ launch' = launch
            /\ pc[s] \in {"reap", "interrupted"} /\ FreeSlot(s)
        BY <2>2, <3>2 DEF FinishWait, WaitsForVerifier
      <4>2. QED
        BY <1>0, <2>0, <4>1, FreeSlotEffect DEF Idle
    <3>3. QED
      BY <3>1, <3>2
  <2>3. ASSUME LaunchRegister(s) PROVE Goal
    BY <2>0, <2>3, RegisterEffect DEF Idle
  <2>3a. ASSUME LaunchMark(s) PROVE Goal
    <3>1. PICK d \in Devices, r \in Runs : launch[s] = <<d, r>> /\ worker[r] # "none"
      BY <2>3a, MarkEffect
    <3>2. launch[s] # NoLaunch /\ worker[launch[s][2]] # "none"
      BY <2>3a, <3>1 DEF LaunchMark
    <3>3. pc[s] = "launch" /\ pc'[s] = "register" /\ UNCHANGED <<localVars, workerVars>>
      BY <2>3a, MarkEffect
    <3>4. finishing[s] = NoRun
      BY <2>0, <3>3
    <3>5. QED
      BY <2>0, <3>2, <3>3, <3>4 DEF Idle, workerVars
  <2>4. ASSUME LoopEnd(s) PROVE Goal
    <3>1. CASE Leave(s, "exited")
      BY <3>1, LeaveEffect DEF Idle
    <3>2. CASE ~Leave(s, "exited")
      <4>1. pc[s] = "tend" /\ pc'[s] = "top" /\ UNCHANGED localVars
        BY <2>4, <3>2 DEF LoopEnd, TypeOK
      <4>2. QED
        BY <2>0, <4>1 DEF Idle
    <3>3. QED
      BY <3>1, <3>2
  <2>5. ASSUME InterruptDone(s) \/ KillSupervisor(s) PROVE Goal
    BY <2>5, LeaveEffect DEF InterruptDone, KillSupervisor, Idle
  <2>6. ASSUME NEW d \in Devices, ReapIngest(s, d) \/ InterruptIngest(s, d) PROVE Goal
    <3>1. /\ slot[s][d] \in Runs /\ finishing[s] = NoRun /\ pc[s] \in {"reap", "interrupted"}
          /\ worker[slot[s][d]] \in Exited
          /\ UNCHANGED <<pc, stopSeen, announced, launch, pending, waiting, worker>>
      BY <1>0, <2>0, <2>6 DEF ReapIngest, InterruptIngest, workerVars
    <3>2. CASE InterruptIngest(s, d) /\ worker[slot[s][d]] = "stillborn"
      <4>1. /\ UNCHANGED finishing /\ slot' = [slot EXCEPT ![s][d] = NoRun]
        BY <3>2 DEF InterruptIngest
      <4>2. \A e \in Devices : slot'[s][e] = IF e = d THEN NoRun ELSE slot[s][e]
        BY <4>1 DEF TypeOK
      <4>3. QED
        BY <1>0, <2>0, <3>1, <4>1, <4>2 DEF Idle
    <3>3. CASE ~(InterruptIngest(s, d) /\ worker[slot[s][d]] = "stillborn")
      <4>1. /\ slot' = slot /\ finishing' = [finishing EXCEPT ![s] = slot[s][d]]
            /\ IngestSummary(slot[s][d], worker[slot[s][d]] = "ok", TRUE, stopFile[slot[s][d]])
        BY <2>6, <3>3 DEF ReapIngest, InterruptIngest
      <4>2. runStatus'[slot[s][d]] \in Settled
        <5>1. stopFile[slot[s][d]] \in BOOLEAN /\ QueueTypeOK /\ LeaseAgrees
          BY <3>1 DEF IInv, TypeOK, StoreTypeOK
        <5>2. FinalIngest(slot[s][d])
          BY <4>1, <5>1 DEF FinalIngest
        <5>3. QED
          BY <3>1, <5>1, <5>2, FinalIngestEffect DEF Settled
      <4>3. finishing'[s] = slot[s][d]
        BY <4>1 DEF TypeOK
      <4>4. QED
        BY <1>0, <2>0, <3>1, <4>1, <4>2, <4>3 DEF Idle
    <3>4. QED
      BY <3>2, <3>3
  <2>7. ASSUME NEW d \in Devices, LaunchLease(s, d) PROVE Goal
    <3>1. PICK r \in Runs : launch' = [launch EXCEPT ![s] = <<d, r>>]
      BY <2>7 DEF LaunchLease
    <3>2. launch'[s] = <<d, r>> /\ launch'[s][1] = d
      BY <3>1 DEF TypeOK
    <3>3. QED
      BY <2>0, <2>7, <3>2 DEF LaunchLease, Launchable, Idle
  <2>8. ASSUME NEW d \in Devices, LaunchNothing(s, d) PROVE Goal
    BY <2>0, <2>8 DEF LaunchNothing, Idle
  <2>9. ASSUME NEW r \in Runs, Harvest(s, r) PROVE Goal
    BY <1>0, <2>0, <2>9 DEF Harvest, TypeOK, Idle, workerVars, queueVars
  <2>10. ASSUME NEW r \in Runs, PollIngest(s, r) PROVE Goal
    BY <1>0, <2>0, <2>10 DEF PollIngest, Idle
  <2>11. ASSUME LoopTop(s) PROVE Goal
    BY <2>0, <2>11 DEF LoopTop, TypeOK, Idle
  <2>12. ASSUME ReapDone(s) \/ LaunchSpawn(s) \/ LaunchDone(s) PROVE Goal
    BY <2>0, <2>12 DEF ReapDone, LaunchSpawn, LaunchDone, TypeOK, Idle
  <2>13. ASSUME StartRun(s) \/ DeadlinePasses(s) PROVE Goal
    BY <1>0, <2>0, <2>13 DEF StartRun, DeadlinePasses, TypeOK, Idle, LoopPc, storeVars, queueVars, workerVars
  <2>14. ASSUME Interrupt(s) PROVE Goal
    <3>1. /\ pc'[s] = "interrupted" /\ "interrupt" \in Events
          /\ launch'[s] = NoLaunch /\ finishing'[s] = NoRun /\ ~waiting'[s] /\ slot' = slot
      BY <2>14 DEF Interrupt, TypeOK
    <3>2. \A d \in Devices : slot[s][d] # NoRun => worker'[slot[s][d]] \in Exited
      BY <1>0, <2>14 DEF Interrupt, Active, OneHolder, Exited, Live, TypeOK
    <3>3. QED
      BY <3>1, <3>2 DEF Idle
  <2>15. PlacesOf(s)'
    BY <1>2, <2>1, <2>1a, <2>2, <2>3, <2>3a, <2>4, <2>5, <2>6, <2>7, <2>8, <2>9, <2>10, <2>11, <2>12,
       <2>13, <2>14
       DEF SupervisorAct, SupervisorStep
  <2>16. \A t \in Supervisors : PlacesOf(t)'
    BY <1>2, <2>15, BystanderPlaces
  <2>17. QED
    BY <2>16 DEF Places, PlacesOf
<1>3. QED
  BY <1>1, <1>2, Actors

-----------------------------------------------------------------------------
(* Verifiers: whose failure is whose.                                      *)

LEMMA VerdictStep ==
  ASSUME TypeOK, [Next]_vars, NEW r \in Runs, verifier'[r] = "fail"
  PROVE  \/ verifier[r] = "fail" \/ "verifier" \in Events
         \/ \E s \in Supervisors :
              Interrupt(s) /\ (r \in pending[s] \/ (waiting[s] /\ r = finishing[s]))
<1> verifier \in [Runs -> {"none", "live", "ok", "fail"}]
  BY DEF TypeOK, StoreTypeOK
<1> DEFINE Quiet == verifier' = verifier \/ verifier'[r] \in {verifier[r], "live", "none", "ok"}
<1>1. ASSUME NEW s \in Supervisors, FinishStart(s) \/ FinishWait(s) \/ \E q \in Runs : Harvest(s, q)
      PROVE  Quiet
  BY <1>1 DEF FinishStart, FinishWait, Harvest, StartVerify, HarvestVerify
<1>2. ASSUME NEW s \in Supervisors, SupervisorAct(s), ~FinishStart(s), ~FinishWait(s),
             \A q \in Runs : ~Harvest(s, q), ~Interrupt(s)
      PROVE  Quiet
  BY <1>2 DEF SupervisorAct, SupervisorStep, LoopTop, ReapIngest, FinishPending, ReapDone, LaunchLease,
     LaunchNothing, LaunchSpawn, LaunchMark, LaunchRegister, LaunchDone, PollIngest, LoopEnd, InterruptIngest,
     InterruptDone, StartRun, DeadlinePasses, KillSupervisor, storeVars
<1>3. ASSUME NEW q \in Runs, WorkerStep(q) \/ WorkerFail(q) PROVE Quiet
  BY <1>3 DEF WorkerStep, WorkerBoot, WorkerScreen, WorkerRow, WorkerExit, WorkerFail, storeVars
<1>4. ASSUME NEW q \in Runs, VerifierStep(q) PROVE Quiet \/ "verifier" \in Events
  BY <1>4 DEF VerifierStep, VerifierExit
<1>5. ASSUME CommandInit \/ CommandRequestStop \/ CommandClearStop \/ CommandResetRunning \/ UNCHANGED vars
      PROVE  Quiet
  BY <1>5 DEF CommandInit, CommandRequestStop, CommandClearStop, CommandResetRunning, vars, storeVars
<1>6. ASSUME NEW s \in Supervisors, Interrupt(s)
      PROVE  verifier'[r] = verifier[r] \/ r \in pending[s] \/ (waiting[s] /\ r = finishing[s])
  BY <1>6 DEF Interrupt
<1>7. QED
  BY <1>1, <1>2, <1>3, <1>4, <1>5, <1>6 DEF Next, Command, Mishap, SupervisorAct

LEMMA WaitStep ==
  ASSUME TypeOK, Places, NEW s \in Supervisors, SupervisorAct(s), waiting'[s]
  PROVE  /\ finishing'[s] = finishing[s] /\ ~Interrupt(s)
         /\ waiting[s] \/ (FinishStart(s) /\ hits[finishing[s]] # {})
<1> USE DEF localVars, supVars
<1> DEFINE Goal == /\ finishing'[s] = finishing[s] /\ ~Interrupt(s)
                   /\ waiting[s] \/ (FinishStart(s) /\ hits[finishing[s]] # {})
<1>1. ASSUME FinishStart(s) PROVE Goal
  BY <1>1, FreeSlotEffect DEF FinishStart, TypeOK, Interrupt
<1>2. ~FinishWait(s) /\ ~FinishPending(s)
  BY LeaveEffect, FreeSlotEffect DEF FinishWait, FinishPending
<1>3. ~Interrupt(s)
  BY DEF Interrupt, TypeOK
<1>4. ASSUME LoopEnd(s) PROVE Goal
  BY <1>3, <1>4, LeaveEffect DEF LoopEnd
<1>5. ~InterruptDone(s) /\ ~KillSupervisor(s)
  BY LeaveEffect DEF InterruptDone, KillSupervisor
<1>6. ASSUME NEW d \in Devices, ReapIngest(s, d) \/ InterruptIngest(s, d) PROVE Goal
  BY <1>6 DEF ReapIngest, InterruptIngest, Places, PlacesOf
<1>7. ASSUME SupervisorAct(s), ~FinishStart(s), ~LoopEnd(s),
             \A d \in Devices : ~ReapIngest(s, d) /\ ~InterruptIngest(s, d)
      PROVE  Goal
  BY <1>2, <1>3, <1>5, <1>7 DEF SupervisorAct, SupervisorStep, LoopTop, ReapDone, LaunchLease,
     LaunchNothing, LaunchSpawn, LaunchMark, LaunchRegister, LaunchDone, Harvest, PollIngest, StartRun, DeadlinePasses
<1>8. QED
  BY <1>1, <1>4, <1>6, <1>7

LEMMA VerifierFailsStep ==
  ASSUME IInv, Places, OneHolder, VerifierFails, [Next]_vars
  PROVE  VerifierFails'
<1>0. TypeOK /\ \A s \in Supervisors : finishing[s] \in Runs \cup {NoRun}
  BY DEF IInv, TypeOK
<1>1. ASSUME NEW r \in Runs, verifier'[r] = "fail" PROVE Events \cap {"verifier", "interrupt"} # {}
  BY <1>0, <1>1, VerdictStep DEF VerifierFails, Interrupt
<1>2. ASSUME NEW s \in Supervisors, waiting'[s], verifier'[finishing'[s]] = "fail"
      PROVE  "verifier" \in Events
  <2>1. /\ finishing'[s] = finishing[s] /\ ~Interrupt(s)
        /\ waiting[s] \/ (FinishStart(s) /\ hits[finishing[s]] # {})
    <3>1. ~Interrupt(s)
      BY <1>0, <1>2 DEF Interrupt, TypeOK
    <3>2. CASE SupervisorAct(s)
      BY <1>0, <1>2, <3>1, <3>2, WaitStep
    <3>3. CASE ~SupervisorAct(s)
      BY <1>0, <1>2, <3>1, <3>3, Actors DEF Kept, supVars, localVars
    <3>4. QED
      BY <3>2, <3>3
  <2>2. finishing[s] \in Runs /\ \E d \in Devices : slot[s][d] = finishing[s]
    BY <1>0, <2>1 DEF Places, PlacesOf, FinishStart
  <2>3. CASE FinishStart(s) /\ hits[finishing[s]] # {}
    BY <1>0, <1>2, <2>1, <2>2, <2>3 DEF FinishStart, StartVerify, TypeOK, StoreTypeOK
  <2>4. CASE waiting[s]
    <3>1. ASSUME NEW t \in Supervisors, Interrupt(t)
          PROVE  finishing[s] \notin pending[t] /\ finishing[s] # finishing[t]
      BY <2>1, <2>2, <3>1, NoRunAssumption DEF OneHolder, Places, PlacesOf
    <3>2. QED
      BY <1>0, <1>2, <2>1, <2>2, <2>4, <3>1, VerdictStep DEF VerifierFails
  <2>5. QED
    BY <2>1, <2>3, <2>4
<1>3. QED
  BY <1>1, <1>2 DEF VerifierFails

-----------------------------------------------------------------------------
HInv == IInv /\ Places /\ OneHolder /\ VerifierFails

LEMMA HInvCorrect == Spec => []HInv
<1>1. Init => Places /\ OneHolder /\ VerifierFails
  <2> SUFFICES ASSUME Init PROVE Places /\ OneHolder /\ VerifierFails
    OBVIOUS
  <2>1. Places
    BY DEF Init, Places, PlacesOf, Idle
  <2>2. OneHolder
    BY DEF Init, OneHolder, NoLaunch
  <2>3. VerifierFails
    BY DEF Init, StoreInit, VerifierFails
  <2>4. QED
    BY <2>1, <2>2, <2>3
<1>2. ASSUME HInv, IInv', [Next]_vars PROVE HInv'
  BY <1>2, PlacesStep, OneHolderStep, VerifierFailsStep DEF HInv
<1>3. QED
  BY <1>1, <1>2, IInvCorrect, PTL DEF Spec, HInv

-----------------------------------------------------------------------------
(* A pause reaches the workers.                                            *)

(* Only a launch removes a stop file, of the run it is about to start.     *)
LEMMA StopFileStep ==
  ASSUME TypeOK, [Next]_vars, NEW r \in Runs, stopFile[r]
  PROVE  stopFile'[r] \/ \E s \in Supervisors, d \in Devices : launch[s] = <<d, r>>
<1> stopFile \in [Runs -> BOOLEAN]
  BY DEF TypeOK, StoreTypeOK
<1>1. ASSUME NEW s \in Supervisors, LaunchSpawn(s)
      PROVE  stopFile'[r] \/ \E d \in Devices : launch[s] = <<d, r>>
  BY <1>1, LaunchType DEF LaunchSpawn
<1>2. ASSUME NEW s \in Supervisors, SupervisorAct(s), ~LaunchSpawn(s) PROVE stopFile'[r]
  BY <1>2 DEF SupervisorAct, SupervisorStep, LoopTop, ReapIngest, FinishStart, FinishPending, FinishWait, ReapDone,
     LaunchLease, LaunchNothing, LaunchMark, LaunchRegister, LaunchDone, Harvest, PollIngest, LoopEnd,
     InterruptIngest, InterruptDone, StartRun, DeadlinePasses, Interrupt, KillSupervisor, storeVars, fileVars
<1>3. ASSUME NEW q \in Runs, WorkerStep(q) \/ WorkerFail(q) \/ VerifierStep(q) PROVE stopFile'[r]
  BY <1>3 DEF WorkerStep, WorkerBoot, WorkerScreen, WorkerRow, WorkerExit, WorkerFail, VerifierStep,
              storeVars, fileVars
<1>4. ASSUME CommandInit \/ CommandRequestStop \/ CommandClearStop \/ CommandResetRunning \/ UNCHANGED vars
      PROVE  stopFile'[r]
  BY <1>4 DEF CommandInit, CommandRequestStop, CommandClearStop, CommandResetRunning, vars, storeVars, fileVars
<1>5. QED
  BY <1>1, <1>2, <1>3, <1>4 DEF Next, Command, Mishap, SupervisorAct

LEMMA LatchStep ==
  ASSUME TypeOK, NEW s \in Supervisors, SupervisorAct(s)
  PROVE  \/ stopSeen'[s] = FALSE /\ announced'[s] = FALSE
         \/ LoopTop(s)
         \/ stopSeen'[s] = stopSeen[s] /\ announced'[s] = announced[s] /\ (timeUp[s] => timeUp'[s])
<1> USE DEF localVars, supVars
<1> DEFINE Goal ==
      \/ stopSeen'[s] = FALSE /\ announced'[s] = FALSE
      \/ LoopTop(s)
      \/ stopSeen'[s] = stopSeen[s] /\ announced'[s] = announced[s] /\ (timeUp[s] => timeUp'[s])
<1>1. ASSUME FinishWait(s) \/ LoopEnd(s) \/ InterruptDone(s) \/ KillSupervisor(s) PROVE Goal
  BY <1>1, LeaveLatch DEF FinishWait, LoopEnd, InterruptDone, KillSupervisor
<1>2. ASSUME DeadlinePasses(s) PROVE Goal
  BY <1>2 DEF DeadlinePasses, TypeOK
<1>3. QED
  BY <1>1, <1>2 DEF SupervisorAct, SupervisorStep, LoopTop, ReapIngest, FinishStart, FinishPending, ReapDone,
     LaunchLease, LaunchNothing, LaunchSpawn, LaunchMark, LaunchRegister, LaunchDone, Harvest, PollIngest,
     InterruptIngest, StartRun, Interrupt

LEMMA PauseLatchStep ==
  ASSUME "resume" \notin Events, HInv, PauseLatch, [Next]_vars
  PROVE  PauseLatch'
<1>0. TypeOK /\ Places /\ OneHolder
  BY DEF HInv, IInv
<1>1. stopMeta => stopMeta'
  <2>1. ASSUME Command PROVE stopMeta => stopMeta'
    BY <2>1 DEF Command, CommandInit, CommandRequestStop, CommandClearStop, CommandResetRunning, StartRun, storeVars
  <2>2. ASSUME Mishap PROVE stopMeta => stopMeta'
    BY <2>2 DEF Mishap, DeadlinePasses, Interrupt, KillSupervisor, WorkerFail, storeVars
  <2>3. ASSUME NEW s \in Supervisors, SupervisorStep(s) PROVE stopMeta => stopMeta'
    BY <2>3 DEF SupervisorStep, LoopTop, ReapIngest, FinishStart, FinishPending, FinishWait, ReapDone, LaunchLease, LaunchNothing,
       LaunchSpawn, LaunchMark, LaunchRegister, LaunchDone, Harvest, PollIngest, LoopEnd, InterruptIngest, InterruptDone, storeVars
  <2>4. ASSUME NEW r \in Runs, WorkerStep(r) \/ VerifierStep(r) PROVE stopMeta => stopMeta'
    BY <2>4 DEF WorkerStep, WorkerBoot, WorkerScreen, WorkerRow, WorkerExit, VerifierStep, storeVars
  <2>5. ASSUME UNCHANGED vars PROVE stopMeta => stopMeta'
    BY <2>5 DEF vars, storeVars
  <2>6. QED
    BY <2>1, <2>2, <2>3, <2>4, <2>5 DEF Next
<1>2. ASSUME NEW s \in Supervisors, NEW d \in Devices, slot[s][d] # NoRun, stopFile[slot[s][d]]
      PROVE  stopFile'[slot[s][d]]
  <2>1. slot[s][d] \in Runs
    BY <1>0, <1>2, SlotType
  <2>2. \A t \in Supervisors, e \in Devices : launch[t] # <<e, slot[s][d]>>
    BY <1>0, <2>1 DEF OneHolder
  <2>3. QED
    BY <1>0, <1>2, <2>1, <2>2, StopFileStep
<1> DEFINE Latch(s) ==
      /\ announced[s] = stopSeen[s]
      /\ announced[s] => stopMeta \/ timeUp[s]
      /\ announced[s] => \A d \in Devices : slot[s][d] # NoRun => stopFile[slot[s][d]]
<1>3. ASSUME NEW s \in Supervisors, Kept(s) PROVE Latch(s)'
  BY <1>1, <1>2, <1>3 DEF PauseLatch, Kept
<1>4. ASSUME NEW s \in Supervisors, SupervisorAct(s) PROVE Latch(s)'
  <2>1. CASE LoopTop(s)
    <3>1. /\ stopSeen'[s] = (stopMeta \/ timeUp[s])
          /\ announced'[s] = (announced[s] \/ stopMeta \/ timeUp[s])
          /\ timeUp' = timeUp /\ slot' = slot /\ stopMeta' = stopMeta
          /\ \A r \in Runs : stopFile'[r] =
               (stopFile[r] \/ ((stopMeta \/ timeUp[s]) /\ ~announced[s] /\ r \in Active(s)))
      BY <1>0, <2>1 DEF LoopTop, TypeOK
    <3>2. \A d \in Devices : slot[s][d] # NoRun => slot[s][d] \in Active(s) /\ slot[s][d] \in Runs
      BY <1>0, SlotType DEF Active
    <3>3. announced[s] => stopMeta \/ timeUp[s]
      BY DEF PauseLatch
    <3>4. announced'[s] = stopSeen'[s] /\ (announced'[s] => stopMeta' \/ timeUp'[s])
      <4>1. announced'[s] <=> stopMeta \/ timeUp[s]
        BY <3>1, <3>3
      <4>2. announced'[s] \in BOOLEAN /\ stopSeen'[s] \in BOOLEAN
        BY <1>0, <2>1 DEF LoopTop, TypeOK, StoreTypeOK
      <4>3. QED
        BY <3>1, <4>1, <4>2
    <3>5. ASSUME announced'[s], NEW d \in Devices, slot'[s][d] # NoRun PROVE stopFile'[slot'[s][d]]
      <4>1. CASE announced[s]
        BY <3>1, <3>2, <3>5, <4>1 DEF PauseLatch
      <4>2. CASE ~announced[s]
        BY <3>1, <3>2, <3>5, <4>2
      <4>3. QED
        BY <4>1, <4>2
    <3>6. QED
      BY <3>4, <3>5
  <2>2. CASE ~LoopTop(s)
    <3>1. announced[s] => \A d \in Devices : slot'[s][d] \in {slot[s][d], NoRun}
      BY <1>0, <1>4, Moves DEF SlotMoves, LaunchRegister, Places, PlacesOf, PauseLatch
    <3>2. CASE announced'[s] = FALSE /\ stopSeen'[s] = FALSE
      BY <3>2
    <3>3. CASE stopSeen'[s] = stopSeen[s] /\ announced'[s] = announced[s] /\ (timeUp[s] => timeUp'[s])
      BY <1>1, <1>2, <3>1, <3>3 DEF PauseLatch
    <3>4. QED
      BY <1>0, <1>4, <2>2, <3>2, <3>3, LatchStep
  <2>3. QED
    BY <2>1, <2>2
<1>5. QED
  BY <1>0, <1>3, <1>4, Actors DEF PauseLatch, Kept, supVars, localVars

(* A pause is seen once and for all unless resume lifts it: then every     *)
(* worker in a slot was there when the stop files were written, and no     *)
(* launch, which would remove one, is under way.                           *)
THEOREM PauseSignalsWorkersCorrect ==
  ASSUME "resume" \notin Events PROVE Spec => []PauseSignalsWorkers
<1>1. Init => PauseLatch
  BY DEF Init, StoreInit, PauseLatch
<1>2. ASSUME HInv, PauseLatch, [Next]_vars PROVE PauseLatch'
  BY <1>2, PauseLatchStep
<1>3. PauseLatch => PauseSignalsWorkers
  BY DEF PauseLatch, PauseSignalsWorkers, Active
<1>4. QED
  BY <1>1, <1>2, <1>3, HInvCorrect, PTL DEF Spec

-----------------------------------------------------------------------------
(* Leases and run records, by who ends them and who begins them.           *)

(* The final ingest of a run whose worker has exited.                      *)
Ends(r) ==
  \E s \in Supervisors, d \in Devices :
    slot[s][d] = r /\ worker[r] \in Exited /\ (ReapIngest(s, d) \/ InterruptIngest(s, d))

LEMMA LeaseMove ==
  ASSUME HInv, [Next]_vars, NEW r \in Runs
  PROVE  /\ \/ CommandResetRunning \/ Ends(r)
            \/ /\ \A k \in Keys : lease[k] = r => lease'[k] = r \/ k \in summary[r]
               /\ runStatus[r] = "reset" => runStatus'[r] = "reset" \/ Launching(r)
         /\ runStatus'[r] = "reset" => runStatus[r] = "reset" \/ CommandResetRunning
         /\ runStatus'[r] = "running" => \/ runStatus[r] = "running"
                                         \/ \E s \in Supervisors, d \in Devices :
                                              LaunchMark(s) /\ launch[s] = <<d, r>>
         /\ runStatus[r] # "absent" => batch'[r] = batch[r]
         /\ \A k \in Keys : lease'[k] = r => \/ lease[k] = r
                                             \/ \E s \in Supervisors, d \in Devices : launch'[s] = <<d, r>>
<1> QueueTypeOK /\ LeaseAgrees /\ TypeOK
  BY DEF HInv, IInv, TypeOK, StoreTypeOK
<1> DEFINE Goal ==
      /\ \/ CommandResetRunning \/ Ends(r)
         \/ /\ \A k \in Keys : lease[k] = r => lease'[k] = r \/ k \in summary[r]
            /\ runStatus[r] = "reset" => runStatus'[r] = "reset" \/ Launching(r)
      /\ runStatus'[r] = "reset" => runStatus[r] = "reset" \/ CommandResetRunning
      /\ runStatus'[r] = "running" => \/ runStatus[r] = "running"
                                      \/ \E s \in Supervisors, d \in Devices :
                                           LaunchMark(s) /\ launch[s] = <<d, r>>
      /\ runStatus[r] # "absent" => batch'[r] = batch[r]
      /\ \A k \in Keys : lease'[k] = r => \/ lease[k] = r
                                          \/ \E s \in Supervisors, d \in Devices : launch'[s] = <<d, r>>
<1>1. ASSUME UNCHANGED queueVars \/ \E shard \in SUBSET Keys : ImportKeys(shard) PROVE Goal
  BY <1>1 DEF queueVars, ImportKeys
<1>2. ASSUME NEW s \in Supervisors, NEW d \in Devices, NEW q \in Runs,
             LeaseBatch(q, d), launch' = [launch EXCEPT ![s] = <<d, q>>]
      PROVE  Goal
  <2>1. launch'[s] = <<d, q>>
    BY <1>2 DEF TypeOK
  <2>2. \A k \in Keys : lease[k] = r => lease'[k] = r
    BY <1>2, LeaseBatchEffect, NoRunAssumption
  <2>3. QED
    BY <1>2, <2>1, <2>2, LeaseBatchEffect
<1>3. ASSUME NEW s \in Supervisors, LaunchMark(s) PROVE Goal
  BY <1>3, MarkEffect DEF Launching
<1>4. ASSUME NEW s \in Supervisors, NEW d \in Devices, ReapIngest(s, d) \/ InterruptIngest(s, d),
             slot[s][d] \in Runs, FinalIngest(slot[s][d])
      PROVE  Goal
  <2>1. worker[slot[s][d]] \in Exited
    BY <1>4, NoRunAssumption DEF ReapIngest, InterruptIngest, HInv, Places, PlacesOf
  <2>2. slot[s][d] = r => Ends(r)
    BY <1>4, <2>1 DEF Ends
  <2>3. QED
    BY <1>4, <2>2, FinalIngestEffect, NoRunAssumption
<1>5. ASSUME NEW s \in Supervisors, NEW q \in Runs, PollIngest(s, q) PROVE Goal
  BY <1>5, ProgressIngestEffect, NoRunAssumption DEF PollIngest
<1>6. ASSUME CommandResetRunning PROVE Goal
  BY <1>6, NoRunAssumption DEF CommandResetRunning, ResetRunning, QueueTypeOK
<1>7. QED
  BY <1>1, <1>2, <1>3, <1>4, <1>5, <1>6, QueueMoves DEF QueueMove

(* A run leaves its supervisor's hands when its verification is settled,   *)
(* when nothing came of it, or with the supervisor.                        *)
LEMMA SlottedStep ==
  ASSUME HInv, [Next]_vars, NEW s \in Supervisors, NEW d \in Devices, NEW r \in Runs, slot[s][d] = r
  PROVE  \/ slot'[s][d] = r
         \/ finishing[s] = r /\ runStatus[r] \in Settled /\ FreeSlot(s) /\ SupervisorAct(s)
         \/ KillSupervisor(s) \/ VerifierFailed(s)
         \/ pc[s] = "interrupted" /\ worker[r] = "stillborn"
<1>1. TypeOK /\ Places /\ OneHolder /\ r # NoRun
  BY NoRunAssumption DEF HInv, IInv
<1>2. CASE SupervisorAct(s)
  <2>1. LaunchRegister(s) => \A e \in Devices : slot'[s][e] = slot[s][e] \/ slot[s][e] = NoRun
    <3>1. ASSUME NEW e \in Devices, NEW q \in Runs, launch[s] = <<e, q>>, LaunchRegister(s)
          PROVE  slot[s][e] = NoRun
      <4>1. launch[s] # NoLaunch /\ slot[s][launch[s][1]] = NoRun
        BY <1>1, <3>1 DEF Places, PlacesOf, LaunchRegister
      <4>2. launch[s][1] = e
        BY <3>1
      <4>3. QED
        BY <4>1, <4>2
    <3>2. QED
      BY <1>1, <3>1, RegisterEffect
  <2>2. finishing[s] = r => runStatus[r] \in Settled
    BY <1>1 DEF Places, PlacesOf
  <2>3. QED
    BY <1>1, <1>2, <2>1, <2>2, Moves DEF SlotMoves, Departs
<1>3. CASE ~SupervisorAct(s)
  BY <1>1, <1>3, Actors DEF Kept, supVars, localVars
<1>4. QED
  BY <1>2, <1>3

LEMMA LaunchingStep ==
  ASSUME HInv, [Next]_vars, NEW s \in Supervisors, NEW d \in Devices, NEW r \in Runs,
         launch[s] = <<d, r>>
  PROVE  \/ launch'[s] = <<d, r>> \/ Slotted(r)'
         \/ Interrupt(s) \/ KillSupervisor(s)
<1>1. TypeOK /\ Places
  BY DEF HInv, IInv
<1>2. CASE SupervisorAct(s)
  <2>1. LaunchRegister(s) => Slotted(r)'
    BY <1>1, RegisterEffect DEF Slotted
  <2>2. QED
    BY <1>1, <1>2, <2>1, Moves DEF LaunchMoves, NoLaunch
<1>3. CASE ~SupervisorAct(s)
  BY <1>1, <1>3, Actors DEF Kept, supVars, localVars
<1>4. QED
  BY <1>2, <1>3

LEMMA FailureEndsRun ==
  ASSUME HInv, NEW s \in Supervisors, VerifierFailed(s)
  PROVE  VerifierEndsRun /\ finishing[s] \in Runs /\ runStatus[finishing[s]] \in Settled
BY DEF HInv, IInv, TypeOK, VerifierFailed, FinishWait, WaitsForVerifier, VerifierFails, VerifierEndsRun,
       Places, PlacesOf

LEMMA LeaseIsSupervisedStep ==
  ASSUME Events \cap {"kill", "interrupt"} = {}, ~VerifierEndsRun,
         HInv, LeaseIsSupervised, [Next]_vars
  PROVE  LeaseIsSupervised'
<1>1. TypeOK /\ LeaseAgrees /\ TypeOK' /\ Places
  BY TypeStep DEF HInv, IInv
<1>2. \A s \in Supervisors : ~KillSupervisor(s) /\ ~Interrupt(s) /\ ~VerifierFailed(s) /\ pc[s] # "interrupted"
  BY <1>1, FailureEndsRun DEF KillSupervisor, Interrupt, Places, PlacesOf
<1>3. ASSUME NEW k \in Keys, NEW r \in Runs, lease'[k] = r
      PROVE  Slotted(r)' \/ Launching(r)'
  <2>1. CASE lease[k] # r
    BY <1>3, <2>1, LeaseMove DEF Launching
  <2>2. CASE lease[k] = r
    <3>1. Slotted(r) \/ Launching(r)
      BY <2>2, NoRunAssumption DEF LeaseIsSupervised, Active, Slotted, Launching
    <3>2. runStatus[r] \notin Settled
      BY <1>1, <2>2, NoRunAssumption DEF LeaseAgrees, Settled
    <3>3. ASSUME NEW s \in Supervisors, NEW d \in Devices, slot[s][d] = r PROVE slot'[s][d] = r
      BY <1>2, <3>2, <3>3, SlottedStep
    <3>4. ASSUME NEW s \in Supervisors, NEW d \in Devices, launch[s] = <<d, r>>
          PROVE  launch'[s] = <<d, r>> \/ Slotted(r)'
      BY <1>2, <3>4, LaunchingStep
    <3>5. QED
      BY <3>1, <3>3, <3>4 DEF Slotted, Launching
  <2>3. QED
    BY <2>1, <2>2
<1>4. ASSUME NEW k \in Keys, lease'[k] # NoRun
      PROVE  Slotted(lease[k])' \/ Launching(lease[k])'
  <2>1. lease'[k] \in Runs
    BY <1>1, <1>4 DEF TypeOK, StoreTypeOK, QueueTypeOK
  <2>2. QED
    BY <1>3, <2>1 DEF Slotted, Launching
<1>5. QED
  BY <1>4 DEF LeaseIsSupervised, Active, Slotted, Launching

(* Without a crash, an interrupt or a verifier failure that a run process  *)
(* waits for, every lease belongs to a run that a supervisor is launching  *)
(* or has in a slot: it will be ingested.                                  *)
THEOREM LeaseIsSupervisedCorrect ==
  ASSUME Events \cap {"kill", "interrupt"} = {}, ~VerifierEndsRun
  PROVE  Spec => []LeaseIsSupervised
<1>1. Init => LeaseIsSupervised
  BY DEF Init, StoreInit, LeaseIsSupervised
<1>2. ASSUME HInv, LeaseIsSupervised, [Next]_vars PROVE LeaseIsSupervised'
  BY <1>2, LeaseIsSupervisedStep
<1>3. QED
  BY <1>1, <1>2, HInvCorrect, PTL DEF Spec

(* Only the lease of a new run id makes a run the last to have leased a    *)
(* key.                                                                    *)
LEMMA LastRunStep ==
  ASSUME TypeOK, [Next]_vars, NEW r \in Runs, runStatus[r] # "absent", NEW k \in Keys, lastRun'[k] = r
  PROVE  lastRun[k] = r
<1>1. ASSUME NEW q \in Runs, NEW d \in Devices, LeaseBatch(q, d) PROVE lastRun[k] = r
  BY <1>1 DEF LeaseBatch
<1>2. ASSUME NEW q \in Runs, NEW rcZero, NEW final, NEW missing, IngestSummary(q, rcZero, final, missing)
      PROVE  lastRun[k] = r
  BY <1>2 DEF IngestSummary
<1>3. QED
  BY <1>1, <1>2, QueueSteps
     DEF QueueStep, OtherTransaction, ImportKeys, MarkRunning, ResetRunning, queueVars

(* The rows of a run whose worker has exited stay settled.                 *)
LEMMA RowsSettledStep ==
  ASSUME HInv, [Next]_vars, NEW r \in Runs, worker[r] \in Exited, RowsSettled(r)
  PROVE  RowsSettled(r)'
<1>1. TypeOK /\ runStatus[r] # "absent"
  BY DEF HInv, IInv, WorkerAccounts, Exited
<1>2. summary'[r] = summary[r] /\ summary[r] \subseteq Keys
  <2>1. ASSUME NEW q \in Runs, NEW k \in Keys, WorkerRow(q, k) PROVE summary'[r] = summary[r]
    BY <1>1, <2>1 DEF WorkerRow, Exited, TypeOK, StoreTypeOK
  <2>2. QED
    BY <1>1, <2>1, QueueSteps DEF TypeOK, StoreTypeOK
<1>3. \A k \in Keys : lastRun'[k] = r => lastRun[k] = r
  BY <1>1, LastRunStep
<1>4. \A k \in Keys : status[k] = "done" => status'[k] = "done"
  BY RowsAreKept, QueueStepIsHonest, HonestIsTransaction, DoneIsFinalStep DEF HInv, IInv
<1>5. QED
  BY <1>2, <1>3, <1>4 DEF RowsSettled

(* A run is being finished from its final ingest on.                       *)
LEMMA FinishingMoves ==
  ASSUME TypeOK, Places, NEW s \in Supervisors, SupervisorAct(s)
  PROVE  \/ finishing'[s] \in {finishing[s], NoRun}
         \/ \E d \in Devices : /\ ReapIngest(s, d) \/ InterruptIngest(s, d)
                              /\ slot[s][d] \in Runs /\ FinalIngest(slot[s][d])
                              /\ finishing'[s] = slot[s][d]
<1> DEFINE Kind == finishing'[s] \in {finishing[s], NoRun}
<1> USE DEF localVars, supVars
<1>1. ASSUME FinishStart(s) \/ FinishPending(s) PROVE Kind
  BY <1>1, FreeSlotEffect DEF FinishStart, FinishPending
<1>2. ASSUME FinishWait(s) \/ LoopEnd(s) \/ InterruptDone(s) \/ KillSupervisor(s) PROVE Kind
  BY <1>2, LeaveEffect, FreeSlotEffect DEF FinishWait, LoopEnd, InterruptDone, KillSupervisor
<1>3. ASSUME Interrupt(s) PROVE Kind
  BY <1>3 DEF Interrupt, TypeOK
<1>4. ASSUME NEW d \in Devices, ReapIngest(s, d) \/ InterruptIngest(s, d), ~Kind
      PROVE  slot[s][d] \in Runs /\ FinalIngest(slot[s][d]) /\ finishing'[s] = slot[s][d]
  <2>1. slot[s][d] \in Runs /\ stopFile[slot[s][d]] \in BOOLEAN
    BY <1>4, SlotType DEF ReapIngest, InterruptIngest, TypeOK, StoreTypeOK
  <2>2. /\ IngestSummary(slot[s][d], worker[slot[s][d]] = "ok", TRUE, stopFile[slot[s][d]])
        /\ finishing' = [finishing EXCEPT ![s] = slot[s][d]]
    BY <1>4 DEF ReapIngest, InterruptIngest
  <2>3. FinalIngest(slot[s][d])
    BY <2>1, <2>2 DEF FinalIngest
  <2>4. QED
    BY <2>1, <2>2, <2>3 DEF TypeOK
<1>5. ASSUME SupervisorAct(s), ~FinishStart(s), ~FinishPending(s), ~FinishWait(s), ~LoopEnd(s),
             ~InterruptDone(s), ~KillSupervisor(s), ~Interrupt(s),
             \A d \in Devices : ~ReapIngest(s, d) /\ ~InterruptIngest(s, d)
      PROVE  finishing' = finishing
  BY <1>5 DEF SupervisorAct, SupervisorStep, LoopTop, ReapDone, LaunchLease, LaunchNothing, LaunchSpawn,
     LaunchMark, LaunchRegister, LaunchDone, Harvest, PollIngest, StartRun, DeadlinePasses
<1>6. QED
  BY <1>1, <1>2, <1>3, <1>4, <1>5

LEMMA FinishedIsSettledStep ==
  ASSUME HInv, FinishedIsSettled, [Next]_vars
  PROVE  FinishedIsSettled'
<1>1. TypeOK /\ QueueTypeOK /\ LeaseAgrees /\ WorkerAccounts /\ Places
  BY DEF HInv, IInv, TypeOK, StoreTypeOK
<1>2. ASSUME NEW r \in Runs PROVE summary'[r] \subseteq batch'[r]
  <2>1. ASSUME NEW q \in Runs, NEW k \in Keys, WorkerRow(q, k), UNCHANGED queueVars
        PROVE  summary'[r] \subseteq batch'[r]
    <3>1. k \in batch[q]
      BY <1>1, <2>1 DEF WorkerRow, WorkerAccounts
    <3>2. QED
      BY <1>1, <2>1, <3>1 DEF WorkerRow, FinishedIsSettled, TypeOK, StoreTypeOK, queueVars
  <2>2. CASE UNCHANGED summary
    <3>1. runStatus[r] = "absent" => summary[r] = {}
      BY <1>1 DEF WorkerAccounts
    <3>2. runStatus[r] # "absent" => batch'[r] = batch[r]
      BY LeaseMove
    <3>3. QED
      BY <2>2, <3>1, <3>2 DEF FinishedIsSettled
  <2>3. QED
    BY <1>1, <2>1, <2>2, QueueSteps
<1>3. ASSUME NEW s \in Supervisors, NEW r \in Runs, finishing[s] = r PROVE RowsSettled(r)'
  <2>1. worker[r] \in Exited /\ RowsSettled(r)
    BY <1>1, <1>3, NoRunAssumption DEF Places, PlacesOf, FinishedIsSettled
  <2>2. QED
    BY <2>1, RowsSettledStep
<1>4. ASSUME NEW s \in Supervisors, NEW d \in Devices, NEW r \in Runs,
             ReapIngest(s, d) \/ InterruptIngest(s, d), FinalIngest(r)
      PROVE  RowsSettled(r)'
  <2>1. summary' = summary
    BY <1>4 DEF ReapIngest, InterruptIngest, fileVars
  <2>2. summary[r] \subseteq batch[r] /\ batch[r] \subseteq Keys
    BY <1>1 DEF FinishedIsSettled, QueueTypeOK
  <2>3. \A k \in Credited(r) : k \in Keys => status'[k] = "done"
    BY <1>4 DEF FinalIngest, IngestSummary
  <2>4. lastRun' = lastRun
    BY <1>4 DEF FinalIngest, IngestSummary
  <2>5. QED
    BY <2>1, <2>2, <2>3, <2>4 DEF RowsSettled, Credited
<1>5. ASSUME NEW s \in Supervisors, NEW r \in Runs, finishing'[s] = r PROVE RowsSettled(r)'
  <2>1. CASE finishing[s] = r
    BY <1>3, <2>1
  <2>2. CASE finishing[s] # r
    <3>1. SupervisorAct(s)
      BY <1>1, <1>5, <2>2, Actors DEF Kept, supVars, localVars
    <3>2. PICK d \in Devices : /\ ReapIngest(s, d) \/ InterruptIngest(s, d)
                               /\ slot[s][d] \in Runs /\ FinalIngest(slot[s][d])
                               /\ finishing'[s] = slot[s][d]
      BY <1>1, <1>5, <2>2, <3>1, FinishingMoves, NoRunAssumption
    <3>3. QED
      BY <1>4, <1>5, <3>2
  <2>3. QED
    BY <2>1, <2>2
<1>6. QED
  BY <1>2, <1>5 DEF FinishedIsSettled

(* A worker leaves its slot with its run settled: its rows were credited   *)
(* by the final ingest, which comes before the slot is given up, in the    *)
(* loop and in the interrupt handler alike, unless the failure of another  *)
(* device's verifier cuts the handler short.                               *)
THEOREM InterruptSettlesCorrect ==
  ASSUME "kill" \notin Events, ~VerifierEndsRun \/ \A d, e \in Devices : d = e
  PROVE  Spec => InterruptSettles
<1> DEFINE Act ==
      \A s \in Supervisors, d \in Devices :
        LET r == slot[s][d] IN
        r # NoRun /\ slot'[s][d] # r =>
          \/ worker'[r] = "stillborn"
          \/ /\ runStatus'[r] \in {"done", "stopped", "failed"}
             /\ \A k \in summary'[r] : lastRun'[k] = r => status'[k] = "done"
<1>1. Init => FinishedIsSettled
  BY NoRunAssumption DEF Init, StoreInit, FinishedIsSettled, RowsSettled
<1>2. ASSUME HInv, FinishedIsSettled, [Next]_vars PROVE FinishedIsSettled'
  BY <1>2, FinishedIsSettledStep
<1>3. ASSUME HInv, FinishedIsSettled, [Next]_vars PROVE Act
  <2>1. TypeOK /\ Places /\ OneHolder
    BY <1>3 DEF HInv, IInv
  <2>2. ASSUME NEW s \in Supervisors, NEW d \in Devices, NEW r \in Runs,
               slot[s][d] = r, slot'[s][d] # r
        PROVE  \/ worker'[r] = "stillborn"
               \/ runStatus'[r] \in Settled /\ RowsSettled(r)'
    <3>1. CASE finishing[s] = r
      <4>1. worker[r] \in Exited /\ runStatus[r] \in Settled /\ RowsSettled(r)
        BY <1>3, <2>1, <3>1, NoRunAssumption DEF Places, PlacesOf, FinishedIsSettled
      <4>2. runStatus'[r] \in Settled
        BY <1>3, <2>1, <2>2, <4>1, FinishedStays DEF HInv
      <4>3. QED
        BY <1>3, <4>1, <4>2, RowsSettledStep
    <3>2. CASE worker[r] = "stillborn"
      BY <1>3, <2>1, <3>2, ProcessStep DEF Exited
    <3>3. ~KillSupervisor(s)
      BY DEF KillSupervisor
    <3>4. CASE VerifierFailed(s)
      <4>1. VerifierEndsRun
        BY <1>3, <3>4, FailureEndsRun
      <4>2. \E e \in Devices : slot[s][e] = finishing[s]
        BY <2>1, <3>4 DEF VerifierFailed, FinishWait, WaitsForVerifier, Places, PlacesOf
      <4>3. finishing[s] = r
        BY <2>2, <4>1, <4>2
      <4>4. QED
        BY <3>1, <4>3
    <3>5. QED
      BY <1>3, <2>2, <3>1, <3>2, <3>3, <3>4, SlottedStep
  <2>3. \A s \in Supervisors, d \in Devices : slot[s][d] \in Runs \cup {NoRun}
    BY <2>1, SlotType
  <2>4. QED
    BY <2>2, <2>3 DEF Settled, RowsSettled
<1>4. ASSUME HInv, FinishedIsSettled, [Next]_vars PROVE [Act]_vars
  BY <1>3, <1>4
<1>5. QED
  BY <1>1, <1>2, <1>4, HInvCorrect, PTL DEF Spec, InterruptSettles

-----------------------------------------------------------------------------
(* What a worker screens is leased to its run.                             *)

(* The keys a worker owes only get fewer, but for the launch that sets     *)
(* them.                                                                   *)
LEMMA LeftStep ==
  ASSUME TypeOK, [Next]_vars, NEW r \in Runs
  PROVE  left'[r] \subseteq left[r] \/ worker[r] = "none"
<1> USE DEF TypeOK, workerVars
<1>1. ASSUME NEW s \in Supervisors, LaunchSpawn(s) PROVE left'[r] = left[r] \/ worker[r] = "none"
  <2>1. PICK q \in Runs : worker[q] = "none" /\ left' = [left EXCEPT ![q] = batch[q]]
    BY <1>1, LaunchType DEF LaunchSpawn
  <2>2. QED
    BY <2>1
<1>2. ASSUME NEW q \in Runs, WorkerStep(q) PROVE left'[r] \subseteq left[r]
  BY <1>2 DEF WorkerStep, WorkerBoot, WorkerScreen, WorkerRow, WorkerExit
<1>3. ASSUME NEW s \in Supervisors, SupervisorAct(s), ~LaunchSpawn(s) PROVE left' = left
  BY <1>3 DEF SupervisorAct, SupervisorStep, LoopTop, ReapIngest, FinishStart, FinishPending, FinishWait, ReapDone,
     LaunchLease, LaunchNothing, LaunchMark, LaunchRegister, LaunchDone, Harvest, PollIngest, LoopEnd,
     InterruptIngest, InterruptDone, StartRun, DeadlinePasses, Interrupt, KillSupervisor
<1>4. ASSUME CommandInit \/ CommandRequestStop \/ CommandClearStop \/ CommandResetRunning
               \/ (\E q \in Runs : VerifierStep(q) \/ WorkerFail(q)) \/ UNCHANGED vars
      PROVE  left' = left
  BY <1>4 DEF CommandInit, CommandRequestStop, CommandClearStop, CommandResetRunning, VerifierStep,
              WorkerFail, vars
<1>5. QED
  BY <1>1, <1>2, <1>3, <1>4 DEF Next, Command, Mishap, SupervisorAct

LEMMA HoldsLeaseStep ==
  ASSUME "reset" \notin Events, HInv, HoldsLease, [Next]_vars
  PROVE  HoldsLease'
<1>1. TypeOK /\ QueueTypeOK /\ LeaseAgrees /\ WorkerAccounts /\ Places /\ OneHolder
  BY DEF HInv, IInv, TypeOK, StoreTypeOK
<1>2. ASSUME NEW r \in Runs, worker'[r] \in Live, runStatus'[r] # "reset", NEW k \in left'[r]
      PROVE  lease'[k] = r
  <2>1. CASE worker[r] \in Live
    <3>1. k \in left[r] /\ k \in Keys /\ k \notin summary[r]
      BY <1>1, <1>2, <2>1, LeftStep DEF WorkerAccounts, Live, TypeOK
    <3>2. ~Ends(r)
      BY <2>1 DEF Ends, Live, Exited
    <3>3. Launching(r) => runStatus[r] # "reset"
      BY DEF HoldsLease, Launching
    <3>4. CASE CommandResetRunning
      <4>1. runStatus[r] \notin {"reset", "leased", "running"}
        BY <1>1, <1>2, <3>4 DEF CommandResetRunning, ResetRunning, QueueTypeOK
      <4>2. lease[k] = r
        BY <2>1, <3>1, <4>1 DEF HoldsLease, WorkerHoldsLease
      <4>3. QED
        BY <1>1, <3>1, <4>1, <4>2, NoRunAssumption DEF LeaseAgrees
    <3>5. CASE ~CommandResetRunning
      <4>1. runStatus[r] # "reset"
        BY <1>2, <3>2, <3>3, <3>5, LeaseMove
      <4>2. lease[k] = r
        BY <2>1, <3>1, <4>1 DEF HoldsLease, WorkerHoldsLease
      <4>3. QED
        BY <3>1, <3>2, <3>5, <4>2, LeaseMove
    <3>6. QED
      BY <3>4, <3>5
  <2>2. CASE worker[r] \notin Live
    <3>1. PICK s \in Supervisors, d \in Devices :
            LaunchSpawn(s) /\ launch[s] = <<d, r>> /\ worker[r] = "none" /\ left'[r] = batch[r]
      BY <1>1, <1>2, <2>2, ProcessStep
    <3>2. lease' = lease
      BY <3>1 DEF LaunchSpawn, queueVars
    <3>3. QED
      BY <1>2, <3>1, <3>2 DEF HoldsLease
  <2>3. QED
    BY <2>1, <2>2
<1>3. ASSUME NEW s \in Supervisors, NEW d \in Devices, NEW r \in Runs, launch'[s] = <<d, r>>
      PROVE  runStatus'[r] # "reset" /\ (worker'[r] = "none" => \A k \in batch'[r] : lease'[k] = r)
  <2>1. CASE launch[s] = <<d, r>>
    <3>1. launch[s] # NoLaunch
      BY <2>1 DEF NoLaunch
    <3>2. ~CommandResetRunning
      BY <1>1, <3>1 DEF CommandResetRunning, Places, PlacesOf
    <3>3. runStatus[r] # "absent" /\ (worker[r] = "none" => summary[r] = {}) /\ batch[r] \subseteq Keys
      BY <1>1, <2>1 DEF WorkerAccounts, QueueTypeOK
    <3>4. worker'[r] = "none" => worker[r] = "none"
      BY <1>1, ProcessStep
    <3>5. worker[r] = "none" => ~Ends(r)
      BY DEF Ends, Exited
    <3>6. QED
      BY <2>1, <3>2, <3>3, <3>4, <3>5, LeaseMove DEF HoldsLease
  <2>2. CASE launch[s] # <<d, r>>
    <3>1. SupervisorAct(s)
      BY <1>1, <1>3, <2>2, Actors DEF Kept, supVars, localVars
    <3>2. launch'[s] # NoLaunch
      BY <1>3 DEF NoLaunch
    <3>3. LeaseBatch(r, d)
      BY <1>1, <1>3, <2>2, <3>1, <3>2, Moves DEF LaunchMoves
    <3>4. QED
      BY <1>1, <3>3, LeaseBatchEffect
  <2>3. QED
    BY <2>1, <2>2
<1>4. QED
  BY <1>2, <1>3 DEF HoldsLease, WorkerHoldsLease

(* No worker screens a key that is not leased to its run: only an ingest   *)
(* of an exited worker's run, or reset-running, ends a lease before the    *)
(* row is there.  With reset-running kept to times when no `run` process   *)
(* lives, the runs it takes the keys from are exactly those it marks.      *)
THEOREM WorkerHoldsLeaseCorrect ==
  ASSUME "reset" \notin Events PROVE Spec => []WorkerHoldsLease
<1>1. Init => HoldsLease
  <2> SUFFICES ASSUME Init PROVE HoldsLease
    OBVIOUS
  <2>1. \A s \in Supervisors, d \in Devices, r \in Runs : launch[s] # <<d, r>>
    BY DEF Init, NoLaunch
  <2>2. QED
    BY <2>1 DEF Init, HoldsLease, WorkerHoldsLease, Live
<1>2. ASSUME HInv, HoldsLease, [Next]_vars PROVE HoldsLease'
  BY <1>2, HoldsLeaseStep
<1>3. QED
  BY <1>1, <1>2, HInvCorrect, PTL DEF Spec, HoldsLease

-----------------------------------------------------------------------------
(* What becomes of a candidate.                                            *)

FileMove ==
  \/ UNCHANGED <<hits, csv, alerts, summary>>
  \/ \E s \in Supervisors : FinishStart(s) /\ StartVerify(finishing[s]) /\ UNCHANGED <<alerts, summary>>
  \/ \E s \in Supervisors, r \in Runs :
       /\ Harvest(s, r) \/ (FinishWait(s) /\ waiting[s] /\ finishing[s] = r)
       /\ HarvestVerify(r) /\ UNCHANGED <<hits, summary>>
  \/ \E r \in Runs, k \in Keys : WorkerScreen(r, k)
  \/ \E r \in Runs, k \in Keys : WorkerRow(r, k)

LEMMA FileMoves ==
  ASSUME TypeOK, [Next]_vars
  PROVE  FileMove
<1> USE DEF FileMove, storeVars, fileVars
<1>1. ASSUME NEW s \in Supervisors, FinishStart(s) PROVE FileMove
  BY <1>1 DEF FinishStart
<1>2. ASSUME NEW s \in Supervisors, FinishWait(s) PROVE FileMove
  <2>1. finishing[s] \in Runs
    BY <1>2 DEF FinishWait, WaitsForVerifier, TypeOK
  <2>2. QED
    BY <1>2, <2>1 DEF FinishWait, WaitsForVerifier
<1>3. ASSUME NEW s \in Supervisors, NEW r \in Runs, Harvest(s, r) PROVE FileMove
  BY <1>3 DEF Harvest
<1>4. ASSUME NEW s \in Supervisors, SupervisorAct(s), ~FinishStart(s), ~FinishWait(s),
             \A r \in Runs : ~Harvest(s, r)
      PROVE  UNCHANGED <<hits, csv, alerts, summary>>
  BY <1>4 DEF SupervisorAct, SupervisorStep, LoopTop, ReapIngest, FinishPending, ReapDone, LaunchLease,
     LaunchNothing, LaunchSpawn, LaunchMark, LaunchRegister, LaunchDone, PollIngest, LoopEnd, InterruptIngest, InterruptDone,
     StartRun, DeadlinePasses, Interrupt, KillSupervisor
<1>5. ASSUME NEW r \in Runs, WorkerBoot(r) \/ WorkerExit(r) \/ WorkerFail(r) \/ VerifierStep(r)
      PROVE  UNCHANGED <<hits, csv, alerts, summary>>
  BY <1>5 DEF WorkerBoot, WorkerExit, WorkerFail, VerifierStep
<1>6. ASSUME CommandInit \/ CommandRequestStop \/ CommandClearStop \/ CommandResetRunning \/ UNCHANGED vars
      PROVE  UNCHANGED <<hits, csv, alerts, summary>>
  BY <1>6 DEF CommandInit, CommandRequestStop, CommandClearStop, CommandResetRunning, vars
<1>7. QED
  BY <1>1, <1>2, <1>3, <1>4, <1>5, <1>6 DEF Next, Command, Mishap, SupervisorAct, WorkerStep

(* A screened key waits for its row.                                       *)
LEMMA RowStep ==
  ASSUME TypeOK, [Next]_vars, NEW r \in Runs, worker'[r] = "row"
  PROVE  \/ worker[r] = "row" /\ left'[r] = left[r]
         \/ \E k \in Keys : WorkerScreen(r, k)
<1> USE DEF TypeOK, workerVars
<1> DEFINE Goal == \/ worker[r] = "row" /\ left'[r] = left[r]
                   \/ \E k \in Keys : WorkerScreen(r, k)
<1>1. ASSUME NEW s \in Supervisors, LaunchSpawn(s) PROVE Goal
  <2>1. PICK q \in Runs :
          /\ worker[q] = "none" /\ worker' = [worker EXCEPT ![q] = "boot"]
          /\ left' = [left EXCEPT ![q] = batch[q]]
    BY <1>1, LaunchType DEF LaunchSpawn
  <2>2. QED
    BY <2>1
<1>2. ASSUME NEW q \in Runs, WorkerBoot(q) \/ WorkerExit(q) \/ WorkerFail(q) PROVE Goal
  BY <1>2 DEF WorkerBoot, WorkerExit, WorkerFail
<1>3. ASSUME NEW q \in Runs, NEW k \in Keys, WorkerScreen(q, k) PROVE Goal
  BY <1>3 DEF WorkerScreen
<1>4. ASSUME NEW q \in Runs, NEW k \in Keys, WorkerRow(q, k) PROVE Goal
  BY <1>4 DEF WorkerRow
<1>5. ASSUME NEW s \in Supervisors, Interrupt(s) PROVE Goal
  BY <1>5 DEF Interrupt
<1>6. ASSUME NEW s \in Supervisors, SupervisorAct(s), ~LaunchSpawn(s), ~Interrupt(s)
      PROVE  UNCHANGED workerVars
  BY <1>6 DEF SupervisorAct, SupervisorStep, LoopTop, ReapIngest, FinishStart, FinishPending, FinishWait, ReapDone,
     LaunchLease, LaunchNothing, LaunchMark, LaunchRegister, LaunchDone, Harvest, PollIngest, LoopEnd,
     InterruptIngest, InterruptDone, StartRun, DeadlinePasses, KillSupervisor
<1>7. ASSUME CommandInit \/ CommandRequestStop \/ CommandClearStop \/ CommandResetRunning
               \/ (\E q \in Runs : VerifierStep(q)) \/ UNCHANGED vars
      PROVE  UNCHANGED workerVars
  BY <1>7 DEF CommandInit, CommandRequestStop, CommandClearStop, CommandResetRunning, VerifierStep, vars
<1>8. QED
  BY <1>1, <1>2, <1>3, <1>4, <1>5, <1>6, <1>7 DEF Next, Command, Mishap, SupervisorAct, WorkerStep

(* A supervisor waits until it gives the slot up.                          *)
LEMMA WaitEnds ==
  ASSUME TypeOK, Places, NEW s \in Supervisors, SupervisorAct(s), ~Interrupt(s), waiting[s]
  PROVE  \/ waiting'[s] /\ finishing'[s] = finishing[s]
         \/ \A d \in Devices : slot'[s][d] # finishing[s]
<1> USE DEF localVars, supVars
<1> DEFINE Goal == \/ waiting'[s] /\ finishing'[s] = finishing[s]
                   \/ \A d \in Devices : slot'[s][d] # finishing[s]
<1>1. finishing[s] # NoRun /\ pc[s] \in {"reap", "interrupted"} /\ launch[s] = NoLaunch
  BY DEF Places, PlacesOf
<1>2. ASSUME FinishWait(s) \/ FinishPending(s) PROVE Goal
  BY <1>1, <1>2, LeaveEffect, FreeSlotEffect DEF FinishWait, FinishPending
<1>3. ASSUME InterruptDone(s) \/ KillSupervisor(s) PROVE Goal
  BY <1>1, <1>3, LeaveEffect DEF InterruptDone, KillSupervisor
<1>4. ASSUME SupervisorAct(s), ~FinishWait(s), ~FinishPending(s), ~InterruptDone(s), ~KillSupervisor(s)
      PROVE  waiting'[s] /\ finishing'[s] = finishing[s]
  BY <1>1, <1>4 DEF SupervisorAct, SupervisorStep, LoopTop, ReapIngest, FinishStart, FinishPending, ReapDone, LoopEnd,
     LaunchLease, LaunchNothing, LaunchSpawn, LaunchMark, LaunchRegister, LaunchDone, Harvest, PollIngest,
     InterruptIngest, StartRun, DeadlinePasses
<1>5. QED
  BY <1>2, <1>3, <1>4

(* The CSV of a run is written once, after its worker has exited and while *)
(* it is in a slot, and waited for there or in the background.             *)
LEMMA CsvStep ==
  ASSUME HInv, [Next]_vars, NEW r \in Runs, csv[r] = {}
  PROVE  \/ csv'[r] = {}
         \/ \E s \in Supervisors :
              FinishStart(s) /\ finishing[s] = r /\ hits[r] # {} /\ worker[r] \in Exited
<1>1. TypeOK /\ Places /\ csv \in [Runs -> SUBSET Candidate]
  BY DEF HInv, IInv, TypeOK, StoreTypeOK
<1>2. ASSUME NEW s \in Supervisors, FinishStart(s), StartVerify(finishing[s]), csv'[r] # {}
      PROVE  finishing[s] = r /\ hits[r] # {} /\ worker[r] \in Exited
  <2>1. finishing[s] # NoRun /\ worker[finishing[s]] \in Exited
    BY <1>1, <1>2 DEF FinishStart, Places, PlacesOf
  <2>2. csv' = [csv EXCEPT ![finishing[s]] = hits[finishing[s]]]
    BY <1>1, <1>2 DEF StartVerify
  <2>3. finishing[s] = r /\ hits[r] # {}
    BY <1>1, <1>2, <2>2
  <2>4. QED
    BY <2>1, <2>3
<1>3. ASSUME NEW q \in Runs, HarvestVerify(q) PROVE csv'[r] = {}
  BY <1>1, <1>3 DEF HarvestVerify, CleanupProvenance
<1>4. ASSUME NEW q \in Runs, NEW k \in Keys, WorkerScreen(q, k) \/ WorkerRow(q, k) PROVE csv'[r] = {}
  BY <1>4 DEF WorkerScreen, WorkerRow, fileVars
<1>5. QED
  BY <1>1, <1>2, <1>3, <1>4, FileMoves DEF FileMove

LEMMA RowEvidenceStep ==
  ASSUME Events \cap {"verifier", "interrupt"} = {}, HInv, RowEvidence, [Next]_vars
  PROVE  RowEvidence'
<1>1. TypeOK /\ Places /\ OneHolder /\ WorkerAccounts
  BY DEF HInv, IInv
<1>2. hits \in [Runs -> SUBSET Candidate] /\ csv \in [Runs -> SUBSET Candidate]
  BY <1>1 DEF TypeOK, StoreTypeOK
<1>3. \A r \in Runs : verifier'[r] # "fail"
  BY <1>1, VerdictStep DEF RowEvidence, Interrupt
<1>4. ASSUME NEW r \in Runs
      PROVE  \A k \in hits[r] : k \in hits'[r] \/ \E s \in Supervisors : FinishStart(s) /\ finishing[s] = r
  <2>1. ASSUME NEW s \in Supervisors, StartVerify(finishing[s]), finishing[s] # r PROVE hits'[r] = hits[r]
    BY <1>2, <2>1 DEF StartVerify
  <2>2. ASSUME NEW q \in Runs, NEW k \in Keys, WorkerScreen(q, k) PROVE hits[r] \subseteq hits'[r]
    BY <1>2, <2>2 DEF WorkerScreen
  <2>3. ASSUME NEW q \in Runs, NEW k \in Keys, WorkerRow(q, k) PROVE hits' = hits
    BY <2>3 DEF WorkerRow
  <2>4. QED
    BY <1>1, <2>1, <2>2, <2>3, FileMoves DEF FileMove
<1>5. ASSUME NEW r \in Runs, NEW k \in Strong \cap summary'[r]
      PROVE  <<r, k>> \in alerts' \/ k \in hits'[r] \cup csv'[r]
  <2> DEFINE Had == k \in summary[r] /\ (<<r, k>> \in alerts \/ k \in hits[r] \cup csv[r])
             Goal == <<r, k>> \in alerts' \/ k \in hits'[r] \cup csv'[r]
  <2>1. k \in Keys /\ k \in Candidate
    BY StrongAssumption
  <2>2. k \in summary[r] => Had
    BY DEF RowEvidence
  <2>3. CASE UNCHANGED <<hits, csv, alerts, summary>>
    BY <1>5, <2>2, <2>3
  <2>4. ASSUME NEW s \in Supervisors, FinishStart(s), StartVerify(finishing[s]),
               UNCHANGED <<alerts, summary>>
        PROVE  Goal
    <3>1. Had
      BY <1>5, <2>2, <2>4
    <3>2. CASE finishing[s] # r
      <4>1. hits'[r] = hits[r] /\ csv'[r] = csv[r]
        BY <1>2, <2>4, <3>2 DEF StartVerify
      <4>2. QED
        BY <2>4, <3>1, <4>1
    <3>3. CASE finishing[s] = r
      <4>1. csv[r] = {}
        BY <1>1, <2>4, <3>3, NoRunAssumption DEF FinishStart, RowEvidence, Places, PlacesOf
      <4>2. hits[r] # {} => csv'[r] = hits[r]
        BY <1>2, <2>4, <3>3 DEF StartVerify
      <4>3. QED
        BY <2>4, <3>1, <4>1, <4>2
    <3>4. QED
      BY <3>2, <3>3
  <2>5. ASSUME NEW q \in Runs, HarvestVerify(q), UNCHANGED <<hits, summary>> PROVE Goal
    <3>1. Had
      BY <1>5, <2>2, <2>5
    <3>2. alerts' = alerts \cup ({q} \X (csv[q] \cap Strong))
      BY <2>5 DEF HarvestVerify, RowEvidence
    <3>3. r # q => csv'[r] = csv[r]
      BY <1>2, <2>5 DEF HarvestVerify, CleanupProvenance
    <3>4. QED
      BY <2>5, <3>1, <3>2, <3>3
  <2>6. ASSUME NEW q \in Runs, NEW j \in Keys, WorkerScreen(q, j) PROVE Goal
    <3>1. UNCHANGED <<alerts, summary, csv>> /\ hits[r] \subseteq hits'[r]
      BY <1>2, <2>6 DEF WorkerScreen
    <3>2. QED
      BY <1>5, <2>2, <3>1
  <2>7. ASSUME NEW q \in Runs, NEW j \in Keys, WorkerRow(q, j) PROVE Goal
    <3>1. /\ worker[q] = "row" /\ j \in left[q] /\ \A i \in left[q] : j <= i
          /\ summary' = [summary EXCEPT ![q] = @ \cup {j}] /\ UNCHANGED <<alerts, hits, csv>>
      BY <2>7 DEF WorkerRow
    <3>2. k \in summary[r] \/ (r = q /\ k = j)
      BY <1>1, <1>5, <3>1 DEF TypeOK, StoreTypeOK
    <3>3. CASE r = q /\ k = j
      BY <2>1, <3>1, <3>3 DEF RowEvidence
    <3>4. QED
      BY <2>2, <3>1, <3>2, <3>3
  <2>8. QED
    BY <1>1, <2>3, <2>4, <2>5, <2>6, <2>7, FileMoves DEF FileMove
<1>6. ASSUME NEW r \in Runs, worker'[r] = "row", NEW k \in left'[r] \cap Candidate,
             \A j \in left'[r] : k <= j
      PROVE  k \in hits'[r]
  <2>1. CASE worker[r] = "row" /\ left'[r] = left[r]
    <3>1. k \in hits[r]
      BY <1>6, <2>1 DEF RowEvidence
    <3>2. ASSUME NEW s \in Supervisors, FinishStart(s) PROVE finishing[s] # r
      BY <1>1, <2>1, <3>2 DEF FinishStart, Places, PlacesOf, Exited
    <3>3. QED
      BY <1>4, <3>1, <3>2
  <2>2. ASSUME NEW j \in Keys, WorkerScreen(r, j) PROVE k \in hits'[r]
    <3>1. j \in left[r] /\ (\A i \in left[r] : j <= i) /\ left' = left
          /\ hits' = [hits EXCEPT ![r] = @ \cup ({j} \cap Candidate)]
      BY <2>2 DEF WorkerScreen
    <3>2. k \in Nat /\ j \in Nat
      BY <2>2, KeysAssumption, StrongAssumption
    <3>3. k = j
      BY <1>6, <3>1, <3>2
    <3>4. QED
      BY <1>2, <1>6, <3>1, <3>3
  <2>3. QED
    BY <1>1, <1>6, <2>1, <2>2, RowStep
<1>7. ASSUME NEW r \in Runs, csv[r] = {}, worker[r] = "none" \/ Launching(r) PROVE csv'[r] = {}
  <2>1. ASSUME NEW s \in Supervisors, FinishStart(s) PROVE finishing[s] # r \/ worker[r] \notin Exited
    BY <1>1, <1>7, <2>1 DEF FinishStart, Places, PlacesOf, OneHolder, Launching, Exited
  <2>2. QED
    BY <1>7, <2>1, CsvStep
<1>8. ASSUME NEW r \in Runs, worker'[r] = "none" \/ Launching(r)' PROVE csv'[r] = {}
  <2>1. worker'[r] = "none" => worker[r] = "none"
    BY <1>1, ProcessStep
  <2>2. ASSUME NEW s \in Supervisors, NEW d \in Devices, launch'[s] = <<d, r>>
        PROVE  launch[s] = <<d, r>> \/ worker[r] = "none"
    <3>1. launch'[s] # NoLaunch
      BY <2>2 DEF NoLaunch
    <3>2. CASE SupervisorAct(s)
      <4>1. launch[s] = <<d, r>> \/ LeaseBatch(r, d)
        BY <1>1, <2>2, <3>1, <3>2, Moves DEF LaunchMoves
      <4>2. QED
        BY <1>1, <4>1 DEF LeaseBatch, WorkerAccounts
    <3>3. CASE ~SupervisorAct(s)
      BY <1>1, <2>2, <3>3, Actors DEF Kept, supVars, localVars
    <3>4. QED
      BY <3>2, <3>3
  <2>3. worker[r] = "none" \/ Launching(r)
    BY <1>8, <2>1, <2>2 DEF Launching
  <2>4. QED
    BY <1>7, <2>3 DEF RowEvidence
<1>9. ASSUME NEW s \in Supervisors, NEW d \in Devices, slot'[s][d] # NoRun,
             ~(waiting'[s] /\ finishing'[s] = slot'[s][d])
      PROVE  csv'[slot'[s][d]] = {}
  <2>1. ASSUME NEW r \in Runs, slot[s][d] = r, slot'[s][d] = r PROVE csv'[r] = {}
    <3>1. ~(waiting[s] /\ finishing[s] = r)
      <4>1. CASE SupervisorAct(s)
        BY <1>1, <1>9, <2>1, <4>1, WaitEnds DEF Interrupt
      <4>2. CASE ~SupervisorAct(s)
        BY <1>1, <1>9, <2>1, <4>2, Actors DEF Kept, supVars, localVars
      <4>3. QED
        BY <4>1, <4>2
    <3>2. csv[r] = {}
      BY <2>1, <3>1, NoRunAssumption DEF RowEvidence
    <3>3. ASSUME NEW t \in Supervisors, FinishStart(t), finishing[t] = r, hits[r] # {} PROVE FALSE
      <4>1. t = s
        BY <1>1, <2>1, <3>3 DEF FinishStart, Places, PlacesOf, OneHolder
      <4>2. waiting'[s] /\ finishing'[s] = r
        BY <1>1, <3>3, <4>1 DEF FinishStart, TypeOK
      <4>3. QED
        BY <1>9, <2>1, <4>2
    <3>4. QED
      BY <3>2, <3>3, CsvStep
  <2>2. ASSUME NEW r \in Runs, slot'[s][d] = r, slot[s][d] # r PROVE csv'[r] = {}
    <3>1. CASE SupervisorAct(s)
      <4>1. Launching(r)
        BY <1>1, <2>2, <3>1, Moves, NoRunAssumption DEF SlotMoves, Launching
      <4>2. QED
        BY <1>7, <4>1 DEF RowEvidence
    <3>2. CASE ~SupervisorAct(s)
      BY <1>1, <2>2, <3>2, Actors DEF Kept, supVars, localVars
    <3>3. QED
      BY <3>1, <3>2
  <2>3. slot'[s][d] \in Runs
    BY <1>1, <1>9, TypeStep DEF TypeOK
  <2>4. QED
    BY <2>1, <2>2, <2>3
<1>10. QED
  BY <1>3, <1>5, <1>6, <1>8, <1>9 DEF RowEvidence

(* Unless a verifier fails or an interrupt stops one, the candidate of a   *)
(* done key is an alert or still in a file of the run that screened it:    *)
(* hit files are dropped only into a CSV, a CSV only into alerts, even     *)
(* when supervisors are killed and others started.                         *)
THEOREM EvidenceKeptCorrect ==
  ASSUME Events \cap {"verifier", "interrupt"} = {} PROVE Spec => []EvidenceKept
<1>1. Init => RowEvidence
  <2> SUFFICES ASSUME Init PROVE RowEvidence
    OBVIOUS
  <2>1. \A s \in Supervisors, d \in Devices : slot[s][d] = NoRun
    BY DEF Init
  <2>2. QED
    BY <2>1 DEF Init, StoreInit, RowEvidence
<1>2. ASSUME HInv, RowEvidence, [Next]_vars PROVE RowEvidence'
  BY <1>2, RowEvidenceStep
<1>3. HInv /\ RowEvidence /\ DoneHasRow => EvidenceKept
  BY StrongAssumption DEF HInv, IInv, TypeOK, StoreTypeOK, QueueTypeOK, RowEvidence, DoneHasRow, EvidenceKept
<1>4. QED
  BY <1>1, <1>2, <1>3, HInvCorrect, DoneHasRowCorrect, PTL DEF Spec

-----------------------------------------------------------------------------
(* No candidate leaves the supervisors' hands before it is an alert.       *)

LEMMA AlertsAreKept ==
  ASSUME TypeOK, [Next]_vars
  PROVE  alerts \subseteq alerts'
BY FileMoves DEF FileMove, HarvestVerify, WorkerScreen, WorkerRow

(* The CSV that a supervisor has a verifier for holds all the run's        *)
(* candidates.                                                             *)
LEMMA CsvIsWhole ==
  ASSUME HInv, [Next]_vars, NEW r \in Runs, hits[r] \subseteq csv[r], worker[r] \in Exited,
         \A s \in Supervisors : ~(Harvest(s, r) \/ (FinishWait(s) /\ finishing[s] = r))
  PROVE  hits'[r] \subseteq csv'[r]
<1>1. TypeOK /\ hits \in [Runs -> SUBSET Candidate] /\ csv \in [Runs -> SUBSET Candidate]
  BY DEF HInv, IInv, TypeOK, StoreTypeOK
<1>2. ASSUME NEW s \in Supervisors, StartVerify(finishing[s]) PROVE hits'[r] \subseteq csv'[r]
  BY <1>1, <1>2 DEF StartVerify
<1>3. ASSUME NEW q \in Runs, q # r, HarvestVerify(q), UNCHANGED hits PROVE hits'[r] \subseteq csv'[r]
  BY <1>1, <1>3 DEF HarvestVerify, CleanupProvenance
<1>4. ASSUME NEW q \in Runs, NEW k \in Keys, WorkerScreen(q, k) PROVE hits'[r] \subseteq csv'[r]
  BY <1>1, <1>4 DEF WorkerScreen, Exited
<1>5. ASSUME NEW q \in Runs, NEW k \in Keys, WorkerRow(q, k) PROVE hits'[r] \subseteq csv'[r]
  BY <1>5 DEF WorkerRow
<1>6. QED
  BY <1>1, <1>2, <1>3, <1>4, <1>5, FileMoves DEF FileMove

(* Where a slot is freed, the run's candidates are alerts or on their way. *)
LEMMA FreedIsTracked ==
  ASSUME Events \cap {"kill", "interrupt"} = {},
         HInv, RowEvidence, Tracked, [Next]_vars, NEW s \in Supervisors, NEW r \in Runs,
         SupervisorAct(s), FreeSlot(s), finishing[s] = r, ~VerifierFailed(s),
         NEW k \in Strong \cap summary[r]
  PROVE  <<r, k>> \in alerts' \/ r \in pending'[s]
<1>1. TypeOK /\ Places /\ r # NoRun /\ finishing'[s] = NoRun
  BY FreeSlotEffect, NoRunAssumption DEF HInv, IInv
<1>2. <<r, k>> \in alerts \/ k \in hits[r] \cup csv[r]
  BY DEF RowEvidence
<1>3. \E d \in Devices : slot[s][d] = r
  BY <1>1 DEF Places, PlacesOf
<1>4. CASE FinishStart(s)
  <2>1. csv[r] = {} /\ hits[r] = {}
    BY <1>1, <1>3, <1>4 DEF FinishStart, RowEvidence, TypeOK
  <2>2. QED
    BY <1>2, <2>1, AlertsAreKept, <1>1
<1>4a. CASE FinishPending(s)
  BY <1>1, <1>4a DEF FinishPending, TypeOK
<1>5. CASE FinishWait(s)
  <2>1. verifier[r] = "ok" /\ waiting[s]
    BY <1>5 DEF FinishWait, WaitsForVerifier, VerifierFailed, HarvestVerify
  <2>2. hits[r] \subseteq csv[r]
    BY <2>1 DEF Tracked
  <2>3. alerts' = alerts \cup ({r} \X (csv[r] \cap Strong))
    BY <1>5, <2>1 DEF FinishWait, HarvestVerify
  <2>4. QED
    BY <1>2, <2>2, <2>3
<1>6. CASE ~FinishStart(s) /\ ~FinishPending(s) /\ ~FinishWait(s)
  <2>1. finishing'[s] # finishing[s] /\ finishing[s] # NoRun /\ pc[s] \in {"reap", "interrupted"}
    BY <1>1 DEF Places, PlacesOf
  <2>2. ~LoopEnd(s) /\ ~InterruptDone(s) /\ ~Interrupt(s) /\ ~KillSupervisor(s)
    BY <1>1, <1>3, <2>1 DEF LoopEnd, InterruptDone, Interrupt, KillSupervisor, Active
  <2>3. QED
    BY <1>6, <2>1, <2>2 DEF SupervisorAct, SupervisorStep, LoopTop, ReapIngest, ReapDone, LaunchLease,
       LaunchNothing, LaunchSpawn, LaunchMark, LaunchRegister, LaunchDone, Harvest, PollIngest, InterruptIngest,
       StartRun, DeadlinePasses, supVars, localVars
<1>7. QED
  BY <1>4, <1>4a, <1>5, <1>6

LEMMA TrackedStep ==
  ASSUME Events \cap {"kill", "interrupt", "verifier"} = {},
         HInv, RowEvidence, Tracked, [Next]_vars
  PROVE  Tracked'
<1>1. TypeOK /\ Places /\ OneHolder
  BY DEF HInv, IInv
<1>2. \A s \in Supervisors :
        ~KillSupervisor(s) /\ ~Interrupt(s) /\ ~VerifierFailed(s) /\ pc[s] # "interrupted"
  BY <1>1, FailureEndsRun DEF KillSupervisor, Interrupt, Places, PlacesOf, VerifierEndsRun
<1>3. ASSUME NEW r \in Runs, Launching(r) PROVE Launching(r)' \/ Slotted(r)'
  BY <1>2, <1>3, LaunchingStep DEF Launching
<1>4. ASSUME NEW r \in Runs, worker[r] \in Live, Slotted(r) PROVE Slotted(r)'
  <2>1. \A s \in Supervisors : finishing[s] # r
    BY <1>1, <1>4, NoRunAssumption DEF Places, PlacesOf, Live, Exited
  <2>2. QED
    BY <1>2, <1>4, <2>1, SlottedStep DEF Slotted
<1>5. ASSUME NEW r \in Runs, worker'[r] \in Live PROVE Slotted(r)' \/ Launching(r)'
  <2>1. CASE worker[r] \in Live
    BY <1>3, <1>4, <2>1 DEF Tracked
  <2>2. CASE worker[r] \notin Live
    <3>1. PICK s \in Supervisors, d \in Devices : LaunchSpawn(s) /\ launch[s] = <<d, r>>
      BY <1>1, <1>5, <2>2, ProcessStep
    <3>2. launch' = launch
      BY <3>1 DEF LaunchSpawn, supVars, localVars
    <3>3. QED
      BY <3>1, <3>2 DEF Launching
  <2>3. QED
    BY <2>1, <2>2
<1>6. ASSUME NEW s \in Supervisors, NEW r \in Runs, r \in pending'[s] \/ (waiting'[s] /\ finishing'[s] = r)
      PROVE  hits'[r] \subseteq csv'[r]
  <2> DEFINE Started == FinishStart(s) /\ finishing[s] = r /\ ~waiting[s]
             Handed == FinishPending(s) /\ finishing[s] = r
             Whole == /\ hits[r] \subseteq csv[r] /\ worker[r] \in Exited
                      /\ \A t \in Supervisors :
                           ~(Harvest(t, r) \/ (FinishWait(t) /\ finishing[t] = r))
  <2>1. CASE Started
    <3>1. StartVerify(r) /\ hits \in [Runs -> SUBSET Candidate] /\ csv \in [Runs -> SUBSET Candidate]
      BY <1>1, <2>1 DEF FinishStart, TypeOK, StoreTypeOK
    <3>2. QED
      BY <3>1 DEF StartVerify
  <2>1a. CASE Handed
    BY <2>1a DEF Tracked, FinishPending, storeVars, fileVars
  <2>2. CASE r \in pending'[s] /\ ~Started /\ ~Handed
    <3>1. r \in pending[s] /\ ~Harvest(s, r)
      <4>1. CASE SupervisorAct(s)
        <5>1. r \in pending[s]
          BY <1>1, <2>2, <4>1, Moves DEF PendingMoves, FinishPending
        <5>2. ~Harvest(s, r)
          BY <1>1, <2>2 DEF Harvest, TypeOK
        <5>3. QED
          BY <5>1, <5>2
      <4>2. CASE ~SupervisorAct(s)
        <5>1. r \in pending[s]
          BY <1>1, <2>2, <4>2, Actors DEF Kept, supVars, localVars
        <5>2. QED
          BY <4>2, <5>1 DEF SupervisorAct, SupervisorStep
      <4>3. QED
        BY <4>1, <4>2
    <3>2. Whole
      BY <1>1, <3>1, NoRunAssumption DEF Tracked, OneHolder, Harvest, FinishWait, Places, PlacesOf
    <3>3. QED
      BY <3>2, CsvIsWhole
  <2>3. CASE waiting'[s] /\ finishing'[s] = r /\ ~Started
    <3>1. waiting[s] /\ finishing[s] = r /\ ~FinishWait(s)
      <4>1. CASE SupervisorAct(s)
        <5>1. ~FinishWait(s)
          BY <1>1, <2>3, LeaveEffect, FreeSlotEffect DEF FinishWait
        <5>2. QED
          BY <1>1, <2>3, <4>1, <5>1, WaitStep DEF FinishStart
      <4>2. CASE ~SupervisorAct(s)
        <5>1. waiting[s] /\ finishing[s] = r
          BY <1>1, <2>3, <4>2, Actors DEF Kept, supVars, localVars
        <5>2. QED
          BY <4>2, <5>1 DEF SupervisorAct, SupervisorStep
      <4>3. QED
        BY <4>1, <4>2
    <3>2. worker[r] \in Exited /\ \E d \in Devices : slot[s][d] = r
      BY <1>1, <3>1, NoRunAssumption DEF Places, PlacesOf
    <3>3. \A t \in Supervisors : r \notin pending[t] /\ (finishing[t] = r => t = s)
      BY <1>1, <3>2, NoRunAssumption DEF OneHolder, Places, PlacesOf
    <3>4. Whole
      BY <3>1, <3>2, <3>3 DEF Tracked, Harvest
    <3>5. QED
      BY <3>4, CsvIsWhole
  <2>4. QED
    BY <1>6, <2>1, <2>1a, <2>2, <2>3
<1>7. ASSUME NEW r \in Runs, NEW k \in Strong \cap summary'[r]
      PROVE  <<r, k>> \in alerts' \/ Slotted(r)' \/ Launching(r)' \/ Pending(r)'
  <2> DEFINE Goal == <<r, k>> \in alerts' \/ Slotted(r)' \/ Launching(r)' \/ Pending(r)'
  <2>1. CASE k \notin summary[r]
    <3>1. PICK q \in Runs, j \in Keys : WorkerRow(q, j)
      BY <1>1, <1>7, <2>1, QueueSteps
    <3>2. q = r /\ worker[r] \in Live
      BY <1>1, <1>7, <2>1, <3>1 DEF WorkerRow, TypeOK, StoreTypeOK, Live
    <3>3. QED
      BY <1>3, <1>4, <3>2 DEF Tracked
  <2>2. ASSUME k \in summary[r], NEW s \in Supervisors, NEW d \in Devices, slot[s][d] = r PROVE Goal
    <3>1. \/ slot'[s][d] = r
          \/ finishing[s] = r /\ FreeSlot(s) /\ SupervisorAct(s)
      BY <1>2, <2>2, SlottedStep
    <3>2. QED
      BY <1>2, <2>2, <3>1, FreedIsTracked DEF Slotted, Pending
  <2>3. ASSUME k \in summary[r], NEW s \in Supervisors, r \in pending[s] PROVE Goal
    <3>1. CASE Harvest(s, r)
      <4>1. alerts' = alerts \cup ({r} \X (csv[r] \cap Strong))
        BY <3>1 DEF Harvest, HarvestVerify, RowEvidence
      <4>2. <<r, k>> \in alerts \/ k \in csv[r]
        BY <2>3 DEF RowEvidence, Tracked
      <4>3. QED
        BY <1>7, <4>1, <4>2
    <3>2. CASE ~Harvest(s, r) /\ SupervisorAct(s)
      BY <1>1, <1>2, <2>3, <3>2, Moves DEF PendingMoves, Pending
    <3>3. CASE ~SupervisorAct(s)
      BY <1>1, <2>3, <3>3, Actors DEF Kept, supVars, localVars, Pending
    <3>4. QED
      BY <3>1, <3>2, <3>3
  <2>4. CASE k \in summary[r]
    BY <1>1, <1>3, <1>7, <2>2, <2>3, <2>4, AlertsAreKept DEF Tracked, Slotted, Pending
  <2>5. QED
    BY <2>1, <2>4
<1>8. QED
  BY <1>5, <1>6, <1>7 DEF Tracked

(* When no run process, interrupted, killed or missing a verdict, is left  *)
(* over, none has dropped a candidate: a run goes from the launch to a     *)
(* slot, to the pending verifications and out of them with its alerts, and *)
(* no supervisor leaves while it holds one.                                *)
THEOREM AlertsCompleteCorrect ==
  ASSUME Events \cap {"kill", "interrupt", "verifier"} = {} PROVE Spec => []AlertsComplete
<1>1. Init => RowEvidence /\ Tracked
  <2> SUFFICES ASSUME Init PROVE RowEvidence /\ Tracked
    OBVIOUS
  <2>1. \A s \in Supervisors, d \in Devices : slot[s][d] = NoRun
    BY DEF Init
  <2>2. QED
    BY <2>1 DEF Init, StoreInit, RowEvidence, Tracked, Live
<1>2. ASSUME HInv, RowEvidence /\ Tracked, [Next]_vars PROVE (RowEvidence /\ Tracked)'
  BY <1>2, RowEvidenceStep, TrackedStep
<1>3. ASSUME HInv, Tracked, DoneHasRow PROVE AlertsComplete
  <2> SUFFICES ASSUME \A s \in Supervisors : pc[s] = "exited", NEW k \in Strong, status[k] = "done"
               PROVE  Accounted(k)
    BY DEF AlertsComplete
  <2>1. lastRun[k] \in Runs /\ k \in summary[lastRun[k]]
    BY <1>3, StrongAssumption DEF HInv, IInv, TypeOK, StoreTypeOK, QueueTypeOK, DoneHasRow
  <2>2. ~Slotted(lastRun[k]) /\ ~Launching(lastRun[k]) /\ ~Pending(lastRun[k])
    <3>1. \A s \in Supervisors : /\ \A d \in Devices : slot[s][d] = NoRun
                                /\ launch[s] = NoLaunch /\ pending[s] = {}
      BY <1>3 DEF HInv, Places, PlacesOf, Idle
    <3>2. QED
      BY <2>1, <3>1, NoRunAssumption DEF Slotted, Launching, Pending, NoLaunch
  <2>3. QED
    BY <1>3, <2>1, <2>2 DEF Tracked, Accounted
<1>4. QED
  BY <1>1, <1>2, <1>3, HInvCorrect, DoneHasRowCorrect, PTL DEF Spec

=============================================================================
