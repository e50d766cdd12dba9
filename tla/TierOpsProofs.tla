--------------------------- MODULE TierOpsProofs ----------------------------
(***************************************************************************)
(* Proofs about TierOps, for any set of keys, devices, runs, supervisors   *)
(* and events: types, and the queue's safety.  Every action of TierOps is  *)
(* one transaction of TierStore or leaves the queue alone (QueueSteps), so *)
(* an invariant of the queue is proved against the five transactions.      *)
(* What a final ingest gives up depends on the worker too: WorkerAccounts  *)
(* says what a worker still owes, and with LeaseAgrees it is inductive.    *)
(***************************************************************************)
EXTENDS TierOps, TierStoreProofs

-----------------------------------------------------------------------------
(* Types of the whole state.                                               *)

LEMMA InitType == Init => TypeOK
<1> SUFFICES ASSUME Init PROVE TypeOK
  OBVIOUS
<1>1. QueueTypeOK
  BY DEF Init, StoreInit, QueueTypeOK, KeyStatus, RunStatus
<1>2. StoreTypeOK
  BY <1>1 DEF Init, StoreInit, StoreTypeOK
<1>3. launch \in [Supervisors -> (Devices \X Runs) \cup {NoLaunch}]
  BY DEF Init
<1>4. batches \in [Supervisors -> [Devices -> Nat]]
  BY DEF Init
<1>5. /\ slot \in [Supervisors -> [Devices -> Runs \cup {NoRun}]]
      /\ drained \in [Supervisors -> [Devices -> BOOLEAN]]
      /\ pending \in [Supervisors -> SUBSET Runs]
      /\ finishing \in [Supervisors -> Runs \cup {NoRun}]
  BY DEF Init
<1>6. /\ worker \in [Runs -> {"none"} \cup Live \cup Exited]
      /\ left \in [Runs -> SUBSET Keys]
      /\ lastIngested \in [Runs -> Nat]
  BY DEF Init
<1>7. QED
  BY <1>2, <1>3, <1>4, <1>5, <1>6 DEF Init, TypeOK

LEMMA LeaveType ==
  ASSUME TypeOK, NEW s \in Supervisors, NEW how \in {"exited", "dead"}, Leave(s, how)
  PROVE  /\ pc' \in [Supervisors -> LoopPc \cup {"idle", "interrupted", "exited", "dead"}]
         /\ stopSeen' \in [Supervisors -> BOOLEAN]
         /\ announced' \in [Supervisors -> BOOLEAN]
         /\ timeUp' \in [Supervisors -> BOOLEAN]
         /\ slot' \in [Supervisors -> [Devices -> Runs \cup {NoRun}]]
         /\ launch' \in [Supervisors -> (Devices \X Runs) \cup {NoLaunch}]
         /\ batches' \in [Supervisors -> [Devices -> Nat]]
         /\ drained' \in [Supervisors -> [Devices -> BOOLEAN]]
         /\ pending' \in [Supervisors -> SUBSET Runs]
         /\ finishing' \in [Supervisors -> Runs \cup {NoRun}]
         /\ waiting' \in [Supervisors -> BOOLEAN]
BY DEF TypeOK, Leave, Goto

LEMMA FreeSlotType ==
  ASSUME TypeOK, NEW s \in Supervisors, FreeSlot(s)
  PROVE  /\ slot' \in [Supervisors -> [Devices -> Runs \cup {NoRun}]]
         /\ finishing' \in [Supervisors -> Runs \cup {NoRun}]
         /\ waiting' \in [Supervisors -> BOOLEAN]
<1>1. [d \in Devices |-> IF slot[s][d] = finishing[s] THEN NoRun ELSE slot[s][d]]
        \in [Devices -> Runs \cup {NoRun}]
  <2>1. slot[s] \in [Devices -> Runs \cup {NoRun}]
    BY DEF TypeOK
  <2>2. QED
    BY <2>1
<1>2. slot' \in [Supervisors -> [Devices -> Runs \cup {NoRun}]]
  BY <1>1 DEF TypeOK, FreeSlot
<1>3. QED
  BY <1>2 DEF TypeOK, FreeSlot

LEMMA CommandType == TypeOK /\ Command => TypeOK'
<1> SUFFICES ASSUME TypeOK, Command PROVE TypeOK'
  OBVIOUS
<1> USE DEF TypeOK, StoreTypeOK, storeVars, queueVars, fileVars, supVars, localVars, workerVars
<1>1. CASE CommandInit
  BY <1>1, ImportType DEF CommandInit
<1>2. CASE CommandRequestStop
  BY <1>2 DEF CommandRequestStop, QueueTypeOK
<1>3. CASE CommandClearStop
  BY <1>3 DEF CommandClearStop, QueueTypeOK
<1>4. CASE CommandResetRunning
  BY <1>4, ResetType DEF CommandResetRunning
<1>5. ASSUME NEW s \in Supervisors, StartRun(s) PROVE TypeOK'
  BY <1>5 DEF StartRun, QueueTypeOK, LoopPc
<1>6. QED
  BY <1>1, <1>2, <1>3, <1>4, <1>5 DEF Command

LEMMA MishapType == TypeOK /\ Mishap => TypeOK'
<1> SUFFICES ASSUME TypeOK, Mishap PROVE TypeOK'
  OBVIOUS
<1> USE DEF TypeOK, StoreTypeOK, storeVars, queueVars, fileVars, supVars, localVars, workerVars
<1>1. ASSUME NEW s \in Supervisors, DeadlinePasses(s) PROVE TypeOK'
  BY <1>1 DEF DeadlinePasses, QueueTypeOK
<1>2. ASSUME NEW s \in Supervisors, Interrupt(s) PROVE TypeOK'
  BY <1>2 DEF Interrupt, Goto, QueueTypeOK, Live, Exited, NoLaunch
<1>3. ASSUME NEW s \in Supervisors, KillSupervisor(s) PROVE TypeOK'
  BY <1>3, LeaveType DEF KillSupervisor, QueueTypeOK
<1>4. ASSUME NEW r \in Runs, WorkerFail(r) PROVE TypeOK'
  BY <1>4 DEF WorkerFail, QueueTypeOK, Live, Exited
<1>5. QED
  BY <1>1, <1>2, <1>3, <1>4 DEF Mishap

LEMMA WorkerType ==
  ASSUME TypeOK, NEW r \in Runs, WorkerStep(r) \/ VerifierStep(r)
  PROVE  TypeOK'
<1> USE DEF TypeOK, StoreTypeOK, storeVars, queueVars, fileVars, supVars, localVars, workerVars
<1>1. CASE WorkerBoot(r)
  BY <1>1 DEF WorkerBoot, QueueTypeOK, Live
<1>2. ASSUME NEW k \in Keys, WorkerScreen(r, k) PROVE TypeOK'
  BY <1>2 DEF WorkerScreen, QueueTypeOK, Live
<1>3. ASSUME NEW k \in Keys, WorkerRow(r, k) PROVE TypeOK'
  BY <1>3 DEF WorkerRow, QueueTypeOK, Live
<1>4. CASE WorkerExit(r)
  BY <1>4 DEF WorkerExit, QueueTypeOK, Live, Exited
<1>5. CASE VerifierStep(r)
  BY <1>5, VerifyType DEF VerifierStep, QueueTypeOK
<1>6. QED
  BY <1>1, <1>2, <1>3, <1>4, <1>5 DEF WorkerStep

LEMMA SupervisorType ==
  ASSUME TypeOK, NEW s \in Supervisors, SupervisorStep(s)
  PROVE  TypeOK'
<1> USE DEF TypeOK, StoreTypeOK, storeVars, queueVars, fileVars, supVars, localVars,
            workerVars, Goto, LoopPc
<1>1. CASE LoopTop(s)
  BY <1>1 DEF LoopTop, QueueTypeOK
<1>2. ASSUME NEW d \in Devices, ReapIngest(s, d) PROVE TypeOK'
  <2>1. slot[s][d] \in Runs
    BY <1>2 DEF ReapIngest
  <2>2. QueueTypeOK'
    BY ZenonT(40), <1>2, <2>1, IngestType DEF ReapIngest
  <2>3. QED
    BY <1>2, <2>1, <2>2 DEF ReapIngest
<1>3. CASE FinishStart(s)
  <2>1. finishing[s] \in Runs
    BY <1>3 DEF FinishStart
  <2>2. /\ hits' \in [Runs -> SUBSET Candidate]
        /\ csv' \in [Runs -> SUBSET Candidate]
        /\ verifier' \in [Runs -> {"none", "live", "ok", "fail"}]
    BY <1>3, <2>1, VerifyType DEF FinishStart
  <2>3. /\ slot' \in [Supervisors -> [Devices -> Runs \cup {NoRun}]]
        /\ finishing' \in [Supervisors -> Runs \cup {NoRun}]
        /\ waiting' \in [Supervisors -> BOOLEAN]
    BY <1>3, FreeSlotType DEF FinishStart
  <2>4. QED
    BY <1>3, <2>2, <2>3 DEF FinishStart, QueueTypeOK
<1>3a. CASE FinishPending(s)
  <2>1. finishing[s] \in Runs
    BY <1>3a DEF FinishPending
  <2>2. pending' \in [Supervisors -> SUBSET Runs]
    BY <1>3a, <2>1 DEF FinishPending
  <2>3. /\ slot' \in [Supervisors -> [Devices -> Runs \cup {NoRun}]]
        /\ finishing' \in [Supervisors -> Runs \cup {NoRun}]
        /\ waiting' \in [Supervisors -> BOOLEAN]
    BY <1>3a, FreeSlotType DEF FinishPending
  <2>4. QED
    BY <1>3a, <2>2, <2>3 DEF FinishPending, QueueTypeOK
<1>4. CASE FinishWait(s)
  <2>1. finishing[s] \in Runs
    BY <1>4 DEF FinishWait, WaitsForVerifier
  <2>2. /\ alerts' \in SUBSET (Runs \X Keys)
        /\ csv' \in [Runs -> SUBSET Candidate]
        /\ verifier' \in [Runs -> {"none", "live", "ok", "fail"}]
    BY <1>4, <2>1, VerifyType DEF FinishWait
  <2>3. CASE verifier[finishing[s]] = "ok"
    <3>1. /\ slot' \in [Supervisors -> [Devices -> Runs \cup {NoRun}]]
          /\ finishing' \in [Supervisors -> Runs \cup {NoRun}]
          /\ waiting' \in [Supervisors -> BOOLEAN]
      BY <1>4, <2>3, FreeSlotType DEF FinishWait
    <3>2. QED
      BY <1>4, <2>2, <2>3, <3>1 DEF FinishWait, QueueTypeOK
  <2>4. CASE verifier[finishing[s]] # "ok"
    <3>1. Leave(s, "dead")
      BY <1>4, <2>4 DEF FinishWait
    <3>2. QED
      BY <1>4, <2>2, <3>1, LeaveType DEF FinishWait, QueueTypeOK
  <2>5. QED
    BY <2>3, <2>4
<1>5. CASE ReapDone(s)
  BY <1>5 DEF ReapDone, QueueTypeOK
<1>6. ASSUME NEW d \in Devices, LaunchLease(s, d) PROVE TypeOK'
  <2>1. PICK r \in Runs : /\ LeaseBatch(r, d)
                          /\ launch' = [launch EXCEPT ![s] = <<d, r>>]
    BY <1>6 DEF LaunchLease
  <2>2. QueueTypeOK'
    BY <2>1, LeaseType
  <2>3. launch' \in [Supervisors -> (Devices \X Runs) \cup {NoLaunch}]
    BY <2>1
  <2>4. QED
    BY <1>6, <2>2, <2>3 DEF LaunchLease
<1>7. ASSUME NEW d \in Devices, LaunchNothing(s, d) PROVE TypeOK'
  BY <1>7 DEF LaunchNothing, QueueTypeOK
<1>8. CASE LaunchSpawn(s)
  <2>1. launch[s][2] \in Runs
    BY <1>8 DEF LaunchSpawn
  <2>2. QED
    BY <1>8, <2>1 DEF LaunchSpawn, QueueTypeOK, Live
<1>8a. CASE LaunchMark(s)
  <2>1. launch[s][2] \in Runs
    BY <1>8a DEF LaunchMark
  <2>2. QueueTypeOK'
    BY <1>8a, <2>1, MarkType DEF LaunchMark
  <2>3. QED
    BY <1>8a, <2>2 DEF LaunchMark
<1>9. CASE LaunchRegister(s)
  <2>1. launch[s][1] \in Devices /\ launch[s][2] \in Runs
    BY <1>9 DEF LaunchRegister
  <2>2. slot' \in [Supervisors -> [Devices -> Runs \cup {NoRun}]]
    BY <1>9, <2>1 DEF LaunchRegister
  <2>3. batches' \in [Supervisors -> [Devices -> Nat]]
    BY <1>9, <2>1 DEF LaunchRegister
  <2>4. QED
    BY <1>9, <2>1, <2>2, <2>3 DEF LaunchRegister, QueueTypeOK
<1>10. CASE LaunchDone(s)
  BY <1>10 DEF LaunchDone, QueueTypeOK
<1>11. ASSUME NEW r \in Runs, Harvest(s, r) PROVE TypeOK'
  <2>1. /\ alerts' \in SUBSET (Runs \X Keys)
        /\ csv' \in [Runs -> SUBSET Candidate]
        /\ verifier' \in [Runs -> {"none", "live", "ok", "fail"}]
    BY <1>11, VerifyType DEF Harvest
  <2>2. QED
    BY <1>11, <2>1 DEF Harvest, QueueTypeOK
<1>12. ASSUME NEW r \in Runs, PollIngest(s, r) PROVE TypeOK'
  <2>1. QueueTypeOK'
    BY <1>12, IngestType DEF PollIngest
  <2>2. Cardinality(summary[r]) \in Nat
    BY KeysAssumption, FS_Subset, FS_CardinalityType
  <2>3. QED
    BY <1>12, <2>1, <2>2 DEF PollIngest
<1>13. CASE LoopEnd(s)
  <2>1. CASE Leave(s, "exited")
    BY <1>13, <2>1, LeaveType DEF LoopEnd, QueueTypeOK
  <2>2. CASE Goto(s, "top") /\ UNCHANGED localVars
    BY <1>13, <2>2 DEF LoopEnd, QueueTypeOK
  <2>3. QED
    BY <1>13, <2>1, <2>2 DEF LoopEnd
<1>14. ASSUME NEW d \in Devices, InterruptIngest(s, d) PROVE TypeOK'
  <2>1. slot[s][d] \in Runs
    BY <1>14 DEF InterruptIngest
  <2>2. CASE worker[slot[s][d]] = "stillborn"
    <3>1. slot' = [slot EXCEPT ![s][d] = NoRun]
      BY <1>14, <2>2 DEF InterruptIngest
    <3>2. slot' \in [Supervisors -> [Devices -> Runs \cup {NoRun}]]
      BY <3>1
    <3>3. QED
      BY <1>14, <2>2, <3>2 DEF InterruptIngest, QueueTypeOK
  <2>3. CASE worker[slot[s][d]] # "stillborn"
    <3>1. QueueTypeOK'
      <4>1. IngestSummary(slot[s][d], worker[slot[s][d]] = "ok", TRUE,
                          stopFile[slot[s][d]])
        BY <1>14, <2>3 DEF InterruptIngest
      <4>2. (worker[slot[s][d]] = "ok") \in BOOLEAN /\ stopFile[slot[s][d]] \in BOOLEAN
        BY <2>1
      <4>3. QED
        BY ZenonT(40), <2>1, <4>1, <4>2, IngestType
    <3>2. finishing' \in [Supervisors -> Runs \cup {NoRun}]
      <4>1. finishing' = [finishing EXCEPT ![s] = slot[s][d]]
        BY <1>14, <2>3 DEF InterruptIngest
      <4>2. QED
        BY <2>1, <4>1
    <3>3. QED
      BY <1>14, <2>3, <3>1, <3>2 DEF InterruptIngest
  <2>4. QED
    BY <2>2, <2>3
<1>15. CASE InterruptDone(s)
  BY <1>15, LeaveType DEF InterruptDone, QueueTypeOK
<1>16. QED
  BY <1>1, <1>2, <1>3, <1>3a, <1>4, <1>5, <1>6, <1>7, <1>8, <1>8a, <1>9, <1>10, <1>11,
     <1>12, <1>13, <1>14, <1>15 DEF SupervisorStep

LEMMA TypeStep == ASSUME TypeOK, [Next]_vars PROVE TypeOK'
<1>1. CASE UNCHANGED vars
  BY <1>1 DEF vars, TypeOK, StoreTypeOK, QueueTypeOK, storeVars, queueVars,
              fileVars, supVars, localVars, workerVars
<1>2. CASE Next
  BY <1>2, CommandType, MishapType, SupervisorType, WorkerType DEF Next
<1>3. QED
  BY <1>1, <1>2

(* Every reachable state is well typed, whatever the constants.            *)
THEOREM TypeCorrect == Spec => []TypeOK
<1>1. TypeOK /\ [Next]_vars => TypeOK'
  BY TypeStep
<1>2. QED
  BY <1>1, InitType, PTL DEF Spec


-----------------------------------------------------------------------------
(* A run id that was never drawn has no batch, no worker and no one        *)
(* launching it; a worker owes the keys of its batch without a row; a      *)
(* worker that left keys behind with exit code 0 was told to stop.         *)
WorkerAccounts ==
  \A r \in Runs :
    /\ runStatus[r] = "absent" =>
         /\ batch[r] = {}
         /\ worker[r] = "none"
         /\ \A s \in Supervisors, d \in Devices : launch[s] # <<d, r>>
    /\ worker[r] = "none" => summary[r] = {} /\ left[r] = {}
    /\ worker[r] # "none" => left[r] = batch[r] \ summary[r]
    /\ worker[r] = "ok" => left[r] = {} \/ stopFile[r]

IInv == TypeOK /\ LeaseAgrees /\ WorkerAccounts

-----------------------------------------------------------------------------
(* Which transaction an action is.                                         *)

QueueStep ==
  \/ OtherTransaction
  \/ \E r \in Runs : IngestSummary(r, worker[r] = "ok", TRUE, stopFile[r])

(* WorkerAccounts makes every final ingest an honest one.                  *)
LEMMA QueueStepIsHonest ==
  ASSUME IInv, QueueStep
  PROVE  HonestTransaction
<1>1. ASSUME NEW r \in Runs, IngestSummary(r, worker[r] = "ok", TRUE, stopFile[r])
      PROVE  HonestIngest(r)
  <2>1. (worker[r] = "ok") \in BOOLEAN /\ stopFile[r] \in BOOLEAN
    BY DEF IInv, TypeOK, StoreTypeOK
  <2>2. worker[r] = "ok" /\ ~stopFile[r] => batch[r] \subseteq summary[r]
    BY DEF IInv, WorkerAccounts
  <2>3. QED
    BY <1>1, <2>1, <2>2 DEF HonestIngest
<1>2. QED
  BY <1>1 DEF QueueStep, HonestTransaction

LEMMA SupervisorQueueSteps ==
  ASSUME TypeOK, NEW s \in Supervisors, SupervisorStep(s)
  PROVE  QueueStep /\ UNCHANGED summary
<1> USE DEF storeVars, queueVars, fileVars
<1>1. CASE LoopTop(s)
  BY <1>1 DEF LoopTop, QueueStep, OtherTransaction
<1>2. ASSUME NEW d \in Devices, ReapIngest(s, d)
      PROVE  QueueStep /\ UNCHANGED summary
  <2>1. slot[s][d] \in Runs
    BY <1>2 DEF ReapIngest, TypeOK
  <2>2. QED
    BY <1>2, <2>1 DEF ReapIngest, QueueStep, OtherTransaction
<1>3. CASE FinishStart(s)
  BY <1>3 DEF FinishStart, QueueStep, OtherTransaction
<1>3a. CASE FinishPending(s)
  BY <1>3a DEF FinishPending, QueueStep, OtherTransaction
<1>4. CASE FinishWait(s)
  BY <1>4 DEF FinishWait, QueueStep, OtherTransaction
<1>5. CASE ReapDone(s)
  BY <1>5 DEF ReapDone, QueueStep, OtherTransaction
<1>6. ASSUME NEW d \in Devices, LaunchLease(s, d)
      PROVE  QueueStep /\ UNCHANGED summary
  BY <1>6 DEF LaunchLease, QueueStep, OtherTransaction
<1>7. ASSUME NEW d \in Devices, LaunchNothing(s, d)
      PROVE  QueueStep /\ UNCHANGED summary
  BY <1>7 DEF LaunchNothing, QueueStep, OtherTransaction
<1>8. CASE LaunchSpawn(s)
  BY <1>8 DEF LaunchSpawn, QueueStep, OtherTransaction
<1>8a. CASE LaunchMark(s)
  <2>1. launch[s][2] \in Runs
    BY <1>8a DEF LaunchMark, TypeOK
  <2>2. QED
    BY <1>8a, <2>1 DEF LaunchMark, QueueStep, OtherTransaction
<1>9. CASE LaunchRegister(s)
  BY <1>9 DEF LaunchRegister, QueueStep, OtherTransaction
<1>10. CASE LaunchDone(s)
  BY <1>10 DEF LaunchDone, QueueStep, OtherTransaction
<1>11. ASSUME NEW r \in Runs, Harvest(s, r)
       PROVE  QueueStep /\ UNCHANGED summary
  BY <1>11 DEF Harvest, QueueStep, OtherTransaction
<1>12. ASSUME NEW r \in Runs, PollIngest(s, r)
       PROVE  QueueStep /\ UNCHANGED summary
  BY <1>12 DEF PollIngest, QueueStep, OtherTransaction
<1>13. CASE LoopEnd(s)
  BY <1>13 DEF LoopEnd, QueueStep, OtherTransaction
<1>14. ASSUME NEW d \in Devices, InterruptIngest(s, d)
       PROVE  QueueStep /\ UNCHANGED summary
  <2>1. slot[s][d] \in Runs
    BY <1>14 DEF InterruptIngest, TypeOK
  <2>2. QED
    BY <1>14, <2>1 DEF InterruptIngest, QueueStep, OtherTransaction
<1>15. CASE InterruptDone(s)
  BY <1>15 DEF InterruptDone, QueueStep, OtherTransaction
<1>16. QED
  BY <1>1, <1>2, <1>3, <1>3a, <1>4, <1>5, <1>6, <1>7, <1>8, <1>8a, <1>9, <1>10, <1>11,
     <1>12, <1>13, <1>14, <1>15 DEF SupervisorStep

(* Every step is a transaction, leaves the queue alone, or adds one row.   *)
LEMMA QueueSteps ==
  ASSUME TypeOK, [Next]_vars
  PROVE  \/ QueueStep /\ UNCHANGED summary
         \/ UNCHANGED queueVars /\ \E r \in Runs, k \in Keys : WorkerRow(r, k)
<1> USE DEF storeVars, queueVars, fileVars
<1>1. CASE UNCHANGED vars
  BY <1>1 DEF vars, QueueStep, OtherTransaction
<1>2. CASE Command
  <2>1. CASE CommandInit
    BY <2>1 DEF CommandInit, QueueStep, OtherTransaction
  <2>2. CASE CommandResetRunning
    BY <2>2 DEF CommandResetRunning, QueueStep, OtherTransaction
  <2>3. QED
    BY <1>2, <2>1, <2>2 DEF Command, CommandRequestStop, CommandClearStop, StartRun,
                            QueueStep, OtherTransaction
<1>3. CASE Mishap
  BY <1>3 DEF Mishap, DeadlinePasses, Interrupt, KillSupervisor, WorkerFail,
                     QueueStep, OtherTransaction
<1>4. ASSUME NEW r \in Runs, WorkerStep(r) \/ VerifierStep(r)
      PROVE  \/ QueueStep /\ UNCHANGED summary
             \/ UNCHANGED queueVars /\ \E q \in Runs, k \in Keys : WorkerRow(q, k)
  BY <1>4 DEF WorkerStep, WorkerBoot, WorkerScreen, WorkerExit, WorkerRow, VerifierStep,
              QueueStep, OtherTransaction
<1>5. QED
  BY <1>1, <1>2, <1>3, <1>4, SupervisorQueueSteps DEF Next

(* Rows are only ever added to a summary.                                  *)
LEMMA RowsAreKept ==
  ASSUME TypeOK, [Next]_vars
  PROVE  QueueStep /\ \A r \in Runs : summary[r] \subseteq summary'[r]
<1>1. ASSUME NEW r \in Runs, NEW k \in Keys, WorkerRow(r, k)
      PROVE  \A q \in Runs : summary[q] \subseteq summary'[q]
  BY <1>1 DEF WorkerRow, TypeOK, StoreTypeOK
<1>2. QED
  BY <1>1, QueueSteps DEF QueueStep, OtherTransaction

-----------------------------------------------------------------------------
(* WorkerAccounts, one action at a time.                                   *)

LEMMA WorkerAccountsBySupervisor ==
  ASSUME TypeOK, WorkerAccounts, NEW s \in Supervisors, SupervisorStep(s)
  PROVE  WorkerAccounts'
<1> USE DEF WorkerAccounts, storeVars, queueVars, fileVars, workerVars, localVars, supVars
<1>a. ASSUME UNCHANGED <<batch, runStatus, worker, left, summary>>,
             \A q \in Supervisors : launch'[q] \in {launch[q], NoLaunch},
             \A r \in Runs : stopFile[r] => stopFile'[r]
      PROVE  WorkerAccounts'
  BY <1>a DEF NoLaunch
<1>b. ASSUME NEW r \in Runs, NEW rcZero, NEW final, NEW missingPending,
             IngestSummary(r, rcZero, final, missingPending)
      PROVE  /\ batch' = batch
             /\ \A q \in Runs : runStatus'[q] = "absent" => runStatus[q] = "absent"
  <2>1. FinalRunStatus(r, rcZero, missingPending) # "absent"
    BY DEF FinalRunStatus
  <2>2. QED
    BY <1>b, <2>1 DEF IngestSummary, TypeOK, StoreTypeOK, QueueTypeOK
<1>1. CASE LoopTop(s)
  BY <1>1 DEF LoopTop, TypeOK, StoreTypeOK
<1>2. ASSUME NEW d \in Devices, ReapIngest(s, d) PROVE WorkerAccounts'
  <2>1. slot[s][d] \in Runs
    BY <1>2 DEF ReapIngest, TypeOK
  <2>2. QED
    BY <1>2, <1>b, <2>1 DEF ReapIngest
<1>3. CASE FinishStart(s)
  BY <1>3 DEF FinishStart
<1>3a. CASE FinishPending(s)
  BY <1>3a DEF FinishPending
<1>4. CASE FinishWait(s)
  <2>1. CASE verifier[finishing[s]] = "ok"
    BY <1>4, <2>1 DEF FinishWait
  <2>2. CASE verifier[finishing[s]] # "ok"
    BY <1>4, <2>2, <1>a DEF FinishWait, Leave, TypeOK
  <2>3. QED
    BY <2>1, <2>2
<1>5. CASE ReapDone(s)
  BY <1>5 DEF ReapDone
<1>6. ASSUME NEW d \in Devices, LaunchLease(s, d) PROVE WorkerAccounts'
  <2>1. PICK r \in Runs : LeaseBatch(r, d) /\ launch' = [launch EXCEPT ![s] = <<d, r>>]
    BY <1>6 DEF LaunchLease
  <2>2. /\ runStatus[r] = "absent"
        /\ runStatus' = [runStatus EXCEPT ![r] = "leased"]
        /\ batch' = [batch EXCEPT ![r] = NextBatch(d)]
    BY <2>1 DEF LeaseBatch
  <2>3. UNCHANGED <<worker, left, summary, stopFile>>
    BY <1>6 DEF LaunchLease
  <2>4. \A q \in Runs : runStatus'[q] = "absent" => q # r /\ runStatus[q] = "absent"
    BY <2>2 DEF TypeOK, StoreTypeOK, QueueTypeOK
  <2>5. \A q \in Runs \ {r} : batch'[q] = batch[q]
    BY <2>2 DEF TypeOK, StoreTypeOK, QueueTypeOK
  <2>6. \A q \in Runs \ {r}, t \in Supervisors, e \in Devices :
          launch'[t] = <<e, q>> => launch[t] = <<e, q>>
    BY <2>1 DEF TypeOK
  <2>7. worker[r] = "none"
    BY <2>2
  <2>8. QED
    BY <2>3, <2>4, <2>5, <2>6, <2>7
<1>7. ASSUME NEW d \in Devices, LaunchNothing(s, d) PROVE WorkerAccounts'
  BY <1>7 DEF LaunchNothing
<1>8. CASE LaunchSpawn(s)
  <2>1. PICK d \in Devices, r \in Runs : launch[s] = <<d, r>>
    BY <1>8 DEF LaunchSpawn, TypeOK
  <2>2. /\ worker[r] = "none"
        /\ stopFile' = [stopFile EXCEPT ![r] = FALSE]
        /\ worker' = [worker EXCEPT ![r] = "boot"]
        /\ left' = [left EXCEPT ![r] = batch[r]]
        /\ UNCHANGED <<batch, runStatus, summary, launch>>
    BY <1>8, <2>1 DEF LaunchSpawn
  <2>3. runStatus[r] # "absent" /\ summary[r] = {}
    BY <2>1, <2>2
  <2>4. worker'[r] = "boot" /\ left'[r] = batch[r] \ summary[r]
    BY <2>2, <2>3 DEF TypeOK
  <2>5. \A q \in Runs \ {r} : /\ worker'[q] = worker[q] /\ left'[q] = left[q]
                              /\ stopFile'[q] = stopFile[q]
    BY <2>2 DEF TypeOK, StoreTypeOK
  <2>6. QED
    BY <2>2, <2>3, <2>4, <2>5
<1>8a. CASE LaunchMark(s)
  <2>1. PICK r \in Runs : launch[s][2] = r
    BY <1>8a DEF LaunchMark, TypeOK
  <2>2. /\ runStatus' = [runStatus EXCEPT ![r] = "running"]
        /\ UNCHANGED <<batch, worker, left, summary, stopFile, launch>>
    BY <1>8a, <2>1 DEF LaunchMark, MarkRunning
  <2>3. \A q \in Runs : runStatus'[q] = "absent" => runStatus[q] = "absent"
    BY <2>2 DEF TypeOK, StoreTypeOK, QueueTypeOK
  <2>4. QED
    BY <2>2, <2>3
<1>9. CASE LaunchRegister(s)
  <2>1. /\ launch' = [launch EXCEPT ![s] = NoLaunch]
        /\ UNCHANGED <<batch, runStatus, worker, left, summary, stopFile>>
    BY <1>9 DEF LaunchRegister
  <2>2. \A q \in Supervisors : launch'[q] \in {launch[q], NoLaunch}
    BY <2>1 DEF TypeOK
  <2>3. QED
    BY <1>a, <2>1, <2>2
<1>10. CASE LaunchDone(s)
  BY <1>10 DEF LaunchDone
<1>11. ASSUME NEW r \in Runs, Harvest(s, r) PROVE WorkerAccounts'
  BY <1>11 DEF Harvest
<1>12. ASSUME NEW r \in Runs, PollIngest(s, r) PROVE WorkerAccounts'
  BY <1>12, <1>b DEF PollIngest
<1>13. CASE LoopEnd(s)
  BY <1>13, <1>a DEF LoopEnd, Leave, TypeOK
<1>14. ASSUME NEW d \in Devices, InterruptIngest(s, d) PROVE WorkerAccounts'
  <2>1. slot[s][d] \in Runs
    BY <1>14 DEF InterruptIngest, TypeOK
  <2>2. CASE worker[slot[s][d]] = "stillborn"
    BY <1>14, <2>2 DEF InterruptIngest
  <2>3. CASE worker[slot[s][d]] # "stillborn"
    BY <1>14, <1>b, <2>1, <2>3 DEF InterruptIngest
  <2>4. QED
    BY <2>2, <2>3
<1>15. CASE InterruptDone(s)
  BY <1>15, <1>a DEF InterruptDone, Leave, TypeOK
<1>16. QED
  BY <1>1, <1>2, <1>3, <1>3a, <1>4, <1>5, <1>6, <1>7, <1>8, <1>8a, <1>9, <1>10, <1>11,
     <1>12, <1>13, <1>14, <1>15 DEF SupervisorStep

LEMMA WorkerAccountsStep ==
  ASSUME TypeOK, WorkerAccounts, [Next]_vars
  PROVE  WorkerAccounts'
<1> USE DEF WorkerAccounts, storeVars, queueVars, fileVars, workerVars, localVars, supVars
<1>1. CASE UNCHANGED vars
  BY <1>1 DEF vars
<1>2. CASE Command
  <2>1. CASE CommandInit
    BY <2>1 DEF CommandInit, ImportKeys
  <2>2. CASE CommandResetRunning
    <3>1. \A r \in Runs : runStatus'[r] = "absent" => runStatus[r] = "absent"
      BY <2>2 DEF CommandResetRunning, ResetRunning, TypeOK, StoreTypeOK, QueueTypeOK
    <3>2. QED
      BY <2>2, <3>1 DEF CommandResetRunning, ResetRunning
  <2>3. QED
    BY <1>2, <2>1, <2>2 DEF Command, CommandRequestStop, CommandClearStop, StartRun
<1>3. CASE Mishap
  <2>1. ASSUME NEW s \in Supervisors, DeadlinePasses(s) PROVE WorkerAccounts'
    BY <2>1 DEF DeadlinePasses
  <2>2. ASSUME NEW s \in Supervisors, Interrupt(s) PROVE WorkerAccounts'
    <3>1. \A r \in Runs : \/ worker'[r] = worker[r]
                          \/ worker[r] \in Live /\ worker'[r] \in {"stillborn", "fail"}
      BY <2>2 DEF Interrupt
    <3>2. \A t \in Supervisors : launch'[t] \in {launch[t], NoLaunch}
      BY <2>2 DEF Interrupt, TypeOK
    <3>3. UNCHANGED <<batch, runStatus, summary, left, stopFile>>
      BY <2>2 DEF Interrupt
    <3>4. QED
      BY <3>1, <3>2, <3>3 DEF Live, NoLaunch
  <2>3. ASSUME NEW s \in Supervisors, KillSupervisor(s) PROVE WorkerAccounts'
    BY ZenonT(40), <2>3 DEF KillSupervisor, Leave, TypeOK, NoLaunch
  <2>4. ASSUME NEW r \in Runs, WorkerFail(r) PROVE WorkerAccounts'
    BY <2>4 DEF WorkerFail, Live, TypeOK
  <2>5. QED
    BY <1>3, <2>1, <2>2, <2>3, <2>4 DEF Mishap
<1>4. ASSUME NEW r \in Runs, WorkerStep(r) \/ VerifierStep(r) PROVE WorkerAccounts'
  <2>1. CASE WorkerBoot(r)
    BY <2>1 DEF WorkerBoot, TypeOK
  <2>2. ASSUME NEW k \in Keys, WorkerScreen(r, k) PROVE WorkerAccounts'
    BY <2>2 DEF WorkerScreen, TypeOK
  <2>3. ASSUME NEW k \in Keys, WorkerRow(r, k) PROVE WorkerAccounts'
    BY <2>3 DEF WorkerRow, TypeOK, StoreTypeOK
  <2>4. CASE WorkerExit(r)
    BY <2>4 DEF WorkerExit, StopAtBoundary, TypeOK
  <2>5. CASE VerifierStep(r)
    BY <2>5 DEF VerifierStep
  <2>6. QED
    BY <1>4, <2>1, <2>2, <2>3, <2>4, <2>5 DEF WorkerStep
<1>5. QED
  BY <1>1, <1>2, <1>3, <1>4, WorkerAccountsBySupervisor DEF Next

-----------------------------------------------------------------------------
LEMMA IInvCorrect == Spec => []IInv
<1>1. Init => IInv
  <2> SUFFICES ASSUME Init PROVE IInv
    OBVIOUS
  <2>1. LeaseAgrees
    BY DEF Init, StoreInit, LeaseAgrees
  <2>2. WorkerAccounts
    BY DEF Init, StoreInit, WorkerAccounts, NoLaunch
  <2>3. QED
    BY <2>1, <2>2, InitType DEF IInv
<1>2. IInv /\ TypeOK' /\ [Next]_vars => IInv'
  BY RowsAreKept, QueueStepIsHonest, HonestIsTransaction, LeaseAgreesStep,
     WorkerAccountsStep DEF IInv, TypeOK, StoreTypeOK
<1>3. QED
  BY <1>1, <1>2, TypeCorrect, PTL DEF Spec

(* A key is running exactly when an open run leases it, has it in its      *)
(* batch and leased it last, after any commands, crashes and late ingests  *)
(* of lease_batch, ingest_summary and reset-running.                       *)
THEOREM LeaseAgreesCorrect == Spec => []LeaseAgrees
BY IInvCorrect, PTL DEF IInv

(* ingest_summary credits a key only by a row of the run that leased it    *)
(* last, and rows are never removed.                                       *)
THEOREM DoneHasRowCorrect == Spec => []DoneHasRow
<1>1. Init => DoneHasRow
  BY DEF Init, StoreInit, DoneHasRow
<1>2. ASSUME IInv, DoneHasRow, [Next]_vars PROVE DoneHasRow'
  BY <1>2, RowsAreKept, QueueStepIsHonest, HonestIsTransaction, DoneHasRowStep
     DEF IInv, TypeOK, StoreTypeOK
<1>3. QED
  BY <1>1, <1>2, IInvCorrect, PTL DEF Spec

(* ingest_summary never marks a key failed: a worker that exits with code  *)
(* 0 leaves keys behind only when its stop file exists, and the file is    *)
(* still there when the ingest looks.                                      *)
THEOREM NoKeyWrittenOffCorrect == Spec => []NoKeyWrittenOff
<1>1. Init => NoKeyWrittenOff
  BY DEF Init, StoreInit, NoKeyWrittenOff
<1>2. ASSUME IInv, NoKeyWrittenOff, [Next]_vars PROVE NoKeyWrittenOff'
  BY <1>2, RowsAreKept, QueueStepIsHonest, NoKeyWrittenOffStep DEF IInv
<1>3. QED
  BY <1>1, <1>2, IInvCorrect, PTL DEF Spec

(* A run that ingest_summary records as done has a row for each of its     *)
(* keys: a batch cut short by a stop file is recorded as stopped.          *)
THEOREM DoneRunIsCompleteCorrect == Spec => []DoneRunIsComplete
<1>1. Init => DoneRunIsComplete
  BY DEF Init, StoreInit, DoneRunIsComplete
<1>2. ASSUME IInv, DoneRunIsComplete, [Next]_vars PROVE DoneRunIsComplete'
  BY <1>2, RowsAreKept, QueueStepIsHonest, DoneRunIsCompleteStep DEF IInv, TypeOK, StoreTypeOK
<1>3. QED
  BY <1>1, <1>2, IInvCorrect, PTL DEF Spec

(* No transaction takes a key out of done: init ignores it, lease_batch    *)
(* and reset-running do not select it, and an ingest gives up leased keys  *)
(* only.                                                                   *)
THEOREM DoneIsFinalCorrect == Spec => DoneIsFinal
<1>1. ASSUME IInv, [Next]_vars
      PROVE  \A k \in Keys : status[k] = "done" => status'[k] = "done"
  BY <1>1, RowsAreKept, QueueStepIsHonest, HonestIsTransaction, DoneIsFinalStep DEF IInv
<1>2. ASSUME IInv, [Next]_vars
      PROVE  [\A k \in Keys : status[k] = "done" => status'[k] = "done"]_vars
  BY <1>1, <1>2
<1>3. QED
  BY <1>2, IInvCorrect, PTL DEF Spec, DoneIsFinal

(* The spawn-mode run, with all its commands, crashes and interrupts,      *)
(* implements TierQueue: a key is claimed by one run at a time, settled    *)
(* only by a screening of the run that claimed it last, and otherwise      *)
(* returned to the queue.                                                  *)
THEOREM KeepsQueuePromiseCorrect == Spec => KeepsQueuePromise
<1>1. Init => Queue!Init
  BY DEF Init, StoreInit, Queue!Init, Claims, Screened
<1>2. ASSUME IInv, [Next]_vars PROVE [Queue!Next]_(Queue!vars)
  <2>1. ASSUME UNCHANGED queueVars, NEW r \in Runs, NEW k \in Keys, WorkerRow(r, k)
        PROVE  Queue!Next
    <3>1. k \in batch[r] /\ summary' = [summary EXCEPT ![r] = @ \cup {k}]
      BY <1>2, <2>1 DEF WorkerRow, IInv, WorkerAccounts
    <3>2. QED
      BY <1>2, <2>1, <3>1, RowRefines DEF Queue!Next, IInv, TypeOK, StoreTypeOK
  <2>2. CASE QueueStep /\ UNCHANGED summary
    BY <1>2, <2>2, QueueStepIsHonest, TransactionRefines
       DEF IInv, WorkerAccounts, TypeOK, StoreTypeOK
  <2>3. QED
    BY <1>2, <2>1, <2>2, QueueSteps DEF IInv
<1>3. QED
  BY <1>1, <1>2, IInvCorrect, PTL DEF Spec, KeepsQueuePromise, Queue!Spec
=============================================================================
