-------------------------- MODULE TierDaemonProofs --------------------------
(***************************************************************************)
(* Proofs about daemon mode, for any set of keys, devices, runs and events.*)
(* The supervisor and its resident workers share no lock: what each may    *)
(* assume of the other is what the lines and events on their way say       *)
(* (Conversation), which run each of them has in hand (FreshRuns,          *)
(* Accounts), and when the stop file was written (PauseOrder).  With       *)
(* LeaseAgrees these are inductive, and the properties follow.             *)
(***************************************************************************)
EXTENDS TierDaemon, TierStoreProofs, SequenceTheorems

(* Where the supervisor stands, and with which device and run.             *)
Places ==
  /\ pc \in {"spawn", "register"} => focus \in untried
  /\ untried # {} => pc \in {"start", "spawn", "register"}
  /\ \A d \in Devices : drained[d] => d \notin untried /\ pc # "idle"
  /\ pc \in Handling => focus \in Devices /\ daemon[focus] # NoRun /\ ~drained[focus]
  /\ newRun # NoRun <=> pc \in {"spawn", "register", "leased"}
  /\ newRun # NoRun =>
       /\ runStatus[newRun] = "leased"
       /\ \A d \in Devices : current[d] # newRun /\ daemon[d] # newRun
  /\ Idle => \A d \in Devices : daemon[d] = NoRun
  /\ \A d \in Devices : daemon[d] # NoRun =>
       current[d] # NoRun /\ d \notin untried /\ proc[daemon[d]] # "none"
  /\ \A d, e \in Devices : d # e =>
       /\ daemon[d] = daemon[e] => daemon[d] = NoRun
       /\ current[d] = current[e] => current[d] = NoRun

(* A batch no worker has begun: leased but not handed over, or on its way. *)
Unstarted(q) ==
  \/ pc \in {"spawn", "leased"} /\ newRun = q
  \/ pc = "feed" /\ current[focus] = q
  \/ \E w \in Runs : stdin[w] = <<q>>

Owned(q, keys) == \A k \in keys : lease[k] = q \/ runStatus[q] = "reset"

(* A run id that was not drawn is nowhere to be found; a batch not begun   *)
(* has no row, is in no worker's hands and in one place only.              *)
FreshRuns ==
  /\ \A r \in Runs : runStatus[r] = "absent" =>
       /\ batch[r] = {} /\ summary[r] = {} /\ csv[r] = {}
       /\ proc[r] = "none" /\ ~Unstarted(r)
       /\ \A w \in Runs : work[w] # r
       /\ \A d \in Devices : current[d] # r
  /\ \A q \in Runs : Unstarted(q) =>
       /\ summary[q] = {}
       /\ \A w \in Runs : work[w] # q
       /\ Owned(q, batch[q])
       /\ pc = "spawn" /\ newRun = q => proc[q] = "none"
       /\ newRun = q \/ (pc = "feed" /\ current[focus] = q) => \A w \in Runs : stdin[w] # <<q>>
       /\ \A v, w \in Runs : stdin[v] = <<q>> /\ stdin[w] = <<q>> => v = w

(* What a worker has in hand: the keys of its batch without a row.         *)
Accounts ==
  \A w \in Runs :
    /\ proc[w] = "none" => work[w] = NoRun /\ left[w] = {} /\ stdin[w] = <<>> /\ events[w] = <<>>
    /\ proc[w] # "none" =>
         /\ work[w] # NoRun
         /\ left[w] = batch[work[w]] \ summary[work[w]]
         /\ \A v \in Runs : v # w => work[v] # work[w]
    /\ proc[w] \in {"boot", "key", "row"} => Owned(work[w], left[w])

(* Worker w and a supervisor that takes it to have batch c, after it was   *)
(* told to end or not: who has to speak next, and what was said.           *)
Conversing(w, c, told) ==
  \/ /\ proc[w] \in {"boot", "key", "row"} /\ stdin[w] = <<>> /\ events[w] = <<>>
     /\ ~told /\ work[w] = c
  \/ /\ proc[w] = "wait" /\ stdin[w] = <<>> /\ events[w] = <<"done">>
     /\ ~told /\ work[w] = c /\ (left[w] = {} \/ stopFile[w])
  \/ /\ proc[w] = "wait" /\ stdin[w] = <<c>> /\ events[w] = <<>>
     /\ ~told
  \/ /\ proc[w] = "wait" /\ stdin[w] = <<Stop>> /\ events[w] = <<>>
     /\ told
  \/ /\ proc[w] = "gone" /\ events[w] = <<"exit">>
  \/ /\ proc[w] = "gone" /\ events[w] = <<"done", "exit">>
     /\ ~told /\ work[w] = c /\ (left[w] = {} \/ stopFile[w])

(* While its answer is dealt with a worker has nothing to do but die.      *)
Answered(w) ==
  \/ proc[w] = "wait" /\ stdin[w] = <<>> /\ events[w] = <<>>
  \/ proc[w] = "gone" /\ events[w] = <<"exit">>

Held(d) ==
  IF pc \in Handling /\ focus = d
  THEN Answered(daemon[d]) /\ (pc # "feed" => work[daemon[d]] = current[d])
  ELSE Conversing(daemon[d], current[d], drained[d])

Heard ==
  /\ \A d \in Devices : daemon[d] # NoRun => Held(d)
  /\ pc = "register" => Conversing(newRun, newRun, FALSE)

Conversation ==
  /\ Heard
  /\ \A w \in Runs : stdin[w] = <<>> \/ \E line \in Runs \cup {Stop} : stdin[w] = <<line>>

(* The stop latch and the stop files.                                      *)
PauseOrder ==
  /\ stopSeen => signalled
  /\ signalled => pc \notin {"idle", "exited", "dead", "start", "spawn", "register"}
  /\ signalled /\ "lift" \notin Events => stopSeen /\ (stopMeta \/ timeUp)
  /\ signalled => \A d \in Devices : daemon[d] # NoRun /\ ~drained[d] => stopFile[daemon[d]]
  /\ \A r \in Runs : stopFile[r] => signalled \/ pc \in {"exited", "dead"}

(* Who is to end a lease, unless a worker was lost or the run crashed.     *)
LeaseIsHeld ==
  /\ lost = {} /\ pc # "dead" =>
       \A k \in Keys : lease[k] # NoRun =>
         \/ newRun = lease[k]
         \/ \E d \in Devices : daemon[d] # NoRun /\ ~drained[d] /\ current[d] = lease[k]
  /\ pc \in {"done", "next", "leased"} => \A k \in Keys : lease[k] # current[focus]
  /\ pc = "idle" => lost = {}

(* The candidate of a row is in the run's files or an alert.               *)
RowEvidence ==
  /\ \A r \in Runs : verifier[r] # "fail"
  /\ \A r \in Runs : \A k \in Strong \cap summary[r] :
       <<r, k>> \in alerts \/ k \in hits[r] \cup csv[r]
  /\ \A w \in Runs : proc[w] = "row" =>
       \A k \in left[w] \cap Candidate : (\A j \in left[w] : k <= j) => k \in hits[work[w]]
  /\ newRun # NoRun => csv[newRun] = {}
  /\ \A d \in Devices :
       daemon[d] # NoRun /\ ~drained[d] /\ ~(pc \in {"next", "leased"} /\ focus = d) =>
         csv[current[d]] = {}
-----------------------------------------------------------------------------
(* Types.                                                                  *)

LEMMA StopIsNoRun == Stop \notin Runs /\ NoDevice \notin Devices
BY StopAssumption, DeviceNameAssumption DEF Stop, NoDevice

LEMMA InitType == Init => TypeOK
<1> SUFFICES ASSUME Init PROVE TypeOK
  OBVIOUS
<1>1. QueueTypeOK
  BY DEF Init, StoreInit, QueueTypeOK, KeyStatus, RunStatus
<1>2. StoreTypeOK
  BY <1>1 DEF Init, StoreInit, StoreTypeOK
<1>3. /\ focus \in Devices \cup {NoDevice}
      /\ work \in [Runs -> Runs \cup {NoRun}]
      /\ left \in [Runs -> SUBSET Keys]
      /\ stdin \in [Runs -> Seq(Runs \cup {Stop})]
      /\ events \in [Runs -> Seq({"done", "exit"})]
  BY DEF Init
<1>4. QED
  BY <1>2, <1>3 DEF Init, TypeOK

LEMMA LeaveType ==
  ASSUME TypeOK, NEW how \in {"exited", "dead"}, Leave(how),
         UNCHANGED <<storeVars, proc, work, left, events>>,
         stdin' \in [Runs -> Seq(Runs \cup {Stop})]
  PROVE  TypeOK'
<1>1. StoreTypeOK'
  BY DEF TypeOK, StoreTypeOK, QueueTypeOK, storeVars, queueVars, fileVars
<1>2. /\ daemon' \in [Devices -> Runs \cup {NoRun}]
      /\ current' \in [Devices -> Runs \cup {NoRun}]
      /\ batches' \in [Devices -> Nat]
      /\ drained' \in [Devices -> BOOLEAN]
  BY DEF Leave
<1>3. /\ proc' \in [Runs -> {"none", "gone"} \cup Live]
      /\ work' \in [Runs -> Runs \cup {NoRun}]
      /\ left' \in [Runs -> SUBSET Keys]
      /\ events' \in [Runs -> Seq({"done", "exit"})]
  BY DEF TypeOK
<1>4. QED
  BY <1>1, <1>2, <1>3 DEF TypeOK, Leave

LEMMA EmitType ==
  ASSUME TypeOK, NEW r \in Runs, NEW ev \in {"done", "exit"}, Emit(r, ev)
  PROVE  events' \in [Runs -> Seq({"done", "exit"})]
BY DEF TypeOK, Emit

LEMMA SendType ==
  ASSUME TypeOK, NEW r \in Runs, NEW line \in Runs \cup {Stop}, Send(r, line)
  PROVE  stdin' \in [Runs -> Seq(Runs \cup {Stop})]
BY DEF TypeOK, Send

LEMMA CommandType ==
  ASSUME TypeOK,
         CommandInit \/ StartRun \/ CommandRequestStop \/ CommandClearStop
           \/ CommandResetRunning \/ DeadlinePasses \/ KillSupervisor
  PROVE  TypeOK'
<1> USE DEF TypeOK, StoreTypeOK, storeVars, queueVars, fileVars, localVars, procVars
<1>1. CASE CommandInit
  <2>1. PICK k \in Keys : ImportKeys({j \in Keys : j <= k})
    BY <1>1 DEF CommandInit
  <2>2. {j \in Keys : j <= k} \in SUBSET Keys
    OBVIOUS
  <2>3. QueueTypeOK'
    BY <2>1, <2>2, ImportType
  <2>4. QED
    BY <1>1, <2>3 DEF CommandInit
<1>2. CASE StartRun
  BY <1>2 DEF StartRun, QueueTypeOK
<1>3. CASE CommandRequestStop
  BY <1>3 DEF CommandRequestStop, QueueTypeOK
<1>4. CASE CommandClearStop
  BY ZenonT(40), <1>4 DEF CommandClearStop, QueueTypeOK
<1>5. CASE CommandResetRunning
  BY <1>5, ResetType DEF CommandResetRunning
<1>6. CASE DeadlinePasses
  BY <1>6 DEF DeadlinePasses, QueueTypeOK
<1>7. CASE KillSupervisor
  BY <1>7, LeaveType DEF KillSupervisor
<1>8. QED
  BY <1>1, <1>2, <1>3, <1>4, <1>5, <1>6, <1>7

LEMMA WorkerType ==
  ASSUME TypeOK, NEW r \in Runs, WorkerStep(r) \/ WorkerFail(r) \/ VerifierStep(r)
  PROVE  TypeOK'
<1> USE DEF TypeOK, StoreTypeOK, storeVars, queueVars, fileVars, localVars, procVars, Live
<1>1. CASE WorkerBoot(r)
  BY <1>1 DEF WorkerBoot, QueueTypeOK
<1>2. CASE WorkerDone(r)
  BY <1>2, EmitType DEF WorkerDone, QueueTypeOK
<1>3. CASE WorkerNext(r)
  <2>1. Head(stdin[r]) \in Runs /\ Tail(stdin[r]) \in Seq(Runs \cup {Stop})
    BY <1>3 DEF WorkerNext
  <2>2. QED
    BY <1>3, <2>1 DEF WorkerNext, QueueTypeOK
<1>4. CASE WorkerStop(r)
  BY SMTT(30), <1>4, EmitType DEF WorkerStop, QueueTypeOK
<1>5. ASSUME NEW k \in Keys, WorkerScreen(r, k) PROVE TypeOK'
  <2>1. hits' \in [Runs -> SUBSET Candidate]
    BY <1>5 DEF WorkerScreen
  <2>2. QED
    BY <1>5, <2>1 DEF WorkerScreen, QueueTypeOK
<1>6. ASSUME NEW k \in Keys, WorkerRow(r, k) PROVE TypeOK'
  <2>1. summary' \in [Runs -> SUBSET Keys]
    BY <1>6 DEF WorkerRow
  <2>2. QED
    BY <1>6, <2>1 DEF WorkerRow, QueueTypeOK
<1>7. CASE WorkerFail(r)
  BY SMTT(30), <1>7, EmitType DEF WorkerFail, QueueTypeOK
<1>8. CASE VerifierStep(r)
  BY <1>8, VerifyType DEF VerifierStep, QueueTypeOK
<1>9. QED
  BY <1>1, <1>2, <1>3, <1>4, <1>5, <1>6, <1>7, <1>8 DEF WorkerStep

LEMMA SupervisorType ==
  ASSUME TypeOK, Places, SupervisorStep
  PROVE  TypeOK'
<1> USE DEF TypeOK, StoreTypeOK, storeVars, queueVars, fileVars, localVars, procVars, Handling
<1>1. ASSUME NEW d \in Devices, LaunchLease(d) PROVE TypeOK'
  <2>1. PICK r \in Runs : LeaseBatch(r, d) /\ newRun' = r
    BY <1>1 DEF LaunchLease
  <2>2. QueueTypeOK'
    BY <2>1, LeaseType
  <2>3. QED
    BY <1>1, <2>1, <2>2 DEF LaunchLease
<1>2. ASSUME NEW d \in Devices, LaunchNothing(d) PROVE TypeOK'
  BY <1>2 DEF LaunchNothing, QueueTypeOK
<1>3. CASE LaunchSpawn
  <2>1. newRun \in Runs
    BY <1>3 DEF LaunchSpawn, Places
  <2>2. QED
    BY <1>3, <2>1 DEF LaunchSpawn, QueueTypeOK, Live
<1>4. CASE LaunchRegister
  <2>1. newRun \in Runs /\ focus \in Devices
    BY <1>4 DEF LaunchRegister, Places
  <2>2. QueueTypeOK'
    BY <1>4, <2>1, MarkType DEF LaunchRegister
  <2>3. batches' \in [Devices -> Nat]
    BY <1>4, <2>1 DEF LaunchRegister
  <2>4. QED
    BY <1>4, <2>1, <2>2, <2>3 DEF LaunchRegister
<1>5. CASE LaunchDone
  BY <1>5 DEF LaunchDone, QueueTypeOK
<1>6. CASE LoopTop
  BY <1>6 DEF LoopTop, QueueTypeOK
<1>7. CASE LoopTend
  <2>1. CASE Leave("exited")
    BY <1>7, <2>1, LeaveType DEF LoopTend
  <2>2. CASE ~Leave("exited")
    BY <1>7, <2>2 DEF LoopTend, QueueTypeOK
  <2>3. QED
    BY <2>1, <2>2
<1>8. CASE GetNothing
  BY <1>8 DEF GetNothing, QueueTypeOK
<1>9. ASSUME NEW r \in Runs, Harvest(r) PROVE TypeOK'
  <2>1. /\ alerts' \in SUBSET (Runs \X Keys)
        /\ csv' \in [Runs -> SUBSET Candidate]
        /\ verifier' \in [Runs -> {"none", "live", "ok", "fail"}]
    BY <1>9, VerifyType DEF Harvest
  <2>2. QED
    BY <1>9, <2>1 DEF Harvest, QueueTypeOK
<1>10. ASSUME NEW d \in Devices, NEW ev \in {"done", "exit"}, GetEvent(d, ev)
       PROVE  /\ daemon[d] \in Runs /\ current[d] \in Runs
              /\ events' \in [Runs -> Seq({"done", "exit"})]
  <2>1. daemon[d] \in Runs /\ current[d] \in Runs
    BY <1>10 DEF GetEvent, Places
  <2>2. Tail(events[daemon[d]]) \in Seq({"done", "exit"})
    BY <1>10, <2>1 DEF GetEvent
  <2>3. QED
    BY <1>10, <2>1, <2>2 DEF GetEvent
<1>11. ASSUME NEW d \in Devices, GetDone(d) PROVE TypeOK'
  <2> DEFINE stop == stopSeen \/ (Loops # 0 /\ batches[d] >= Loops)
  <2>1. IngestSummary(current[d], TRUE, TRUE, stop) /\ stop \in BOOLEAN /\ stopping' = stop
    BY <1>11 DEF GetDone
  <2>2. GetEvent(d, "done")
    BY <1>11 DEF GetDone
  <2>3. QueueTypeOK'
    BY <1>10, <2>1, <2>2, IngestType
  <2>4. QED
    BY <1>10, <1>11, <2>1, <2>2, <2>3 DEF GetDone
<1>12. ASSUME NEW d \in Devices, GetExit(d) PROVE TypeOK'
  BY <1>10, <1>12 DEF GetExit, QueueTypeOK
<1>13. CASE DoneVerify
  <2>1. current[focus] \in Runs
    BY <1>13 DEF DoneVerify, Places, Handling
  <2>2. /\ hits' \in [Runs -> SUBSET Candidate]
        /\ csv' \in [Runs -> SUBSET Candidate]
        /\ verifier' \in [Runs -> {"none", "live", "ok", "fail"}]
    BY <1>13, <2>1, VerifyType DEF DoneVerify
  <2>3. QED
    BY <1>13, <2>1, <2>2 DEF DoneVerify, QueueTypeOK
<1>14. CASE NextStop
  <2>1. focus \in Devices /\ daemon[focus] \in Runs
    BY <1>14 DEF NextStop, Places, Handling
  <2>2. stdin' \in [Runs -> Seq(Runs \cup {Stop})]
    BY <1>14, <2>1, SendType DEF NextStop
  <2>3. QED
    BY <1>14, <2>1, <2>2 DEF NextStop, QueueTypeOK
<1>15. CASE NextLease
  <2>1. focus \in Devices
    BY <1>15 DEF NextLease, Places, Handling
  <2>2. PICK r \in Runs : LeaseBatch(r, focus) /\ newRun' = r
    BY <1>15 DEF NextLease
  <2>3. QueueTypeOK'
    BY <2>1, <2>2, LeaseType
  <2>4. QED
    BY <1>15, <2>2, <2>3 DEF NextLease
<1>16. CASE NextMark
  <2>1. newRun \in Runs /\ focus \in Devices
    BY <1>16 DEF NextMark, Places, Handling
  <2>2. QueueTypeOK'
    BY <1>16, <2>1, MarkType DEF NextMark
  <2>3. batches' \in [Devices -> Nat]
    BY <1>16, <2>1 DEF NextMark
  <2>4. QED
    BY <1>16, <2>1, <2>2, <2>3 DEF NextMark
<1>17. CASE NextFeed
  <2>1. focus \in Devices /\ daemon[focus] \in Runs /\ current[focus] \in Runs
    BY <1>17 DEF NextFeed, Places, Handling
  <2>2. CASE proc[daemon[focus]] = "gone"
    BY <1>17, <2>2, LeaveType DEF NextFeed
  <2>3. CASE proc[daemon[focus]] # "gone"
    <3>1. stdin' \in [Runs -> Seq(Runs \cup {Stop})]
      BY <1>17, <2>1, <2>3, SendType DEF NextFeed
    <3>2. QED
      BY <1>17, <2>3, <3>1 DEF NextFeed, QueueTypeOK
  <2>4. QED
    BY <2>2, <2>3
<1>18. QED
  BY <1>1, <1>2, <1>3, <1>4, <1>5, <1>6, <1>7, <1>8, <1>9, <1>11, <1>12, <1>13,
     <1>14, <1>15, <1>16, <1>17 DEF SupervisorStep

LEMMA TypeStep ==
  ASSUME TypeOK, Places, [Next]_vars
  PROVE  TypeOK'
<1>1. CASE UNCHANGED vars
  BY <1>1 DEF vars, TypeOK, StoreTypeOK, QueueTypeOK, storeVars, queueVars, fileVars,
              localVars, procVars
<1>2. QED
  BY <1>1, CommandType, SupervisorType, WorkerType DEF Next

-----------------------------------------------------------------------------
(* The parts of the inductive invariant, one at a time.                    *)

IInv ==
  /\ TypeOK /\ LeaseAgrees
  /\ Places /\ FreshRuns /\ Accounts /\ Conversation
  /\ PauseOrder /\ LeaseIsHeld /\ RowEvidence

CommandStep ==
  \/ CommandInit \/ StartRun \/ CommandRequestStop \/ CommandClearStop
  \/ CommandResetRunning \/ DeadlinePasses \/ KillSupervisor

(* An event taken for an answer is one: what the worker has done of the    *)
(* batch, and that it has nothing more to say but that it ended.           *)
LEMMA AnswerTaken ==
  ASSUME IInv, NEW d \in Devices, GetEvent(d, "done")
  PROVE  /\ daemon[d] \in Runs /\ current[d] \in Runs /\ ~drained[d] /\ newRun = NoRun
         /\ work[daemon[d]] = current[d]
         /\ left[daemon[d]] = {} \/ stopFile[daemon[d]]
         /\ \/ proc[daemon[d]] = "wait" /\ stdin[daemon[d]] = <<>> /\ events'[daemon[d]] = <<>>
            \/ proc[daemon[d]] = "gone" /\ events'[daemon[d]] = <<"exit">>
         /\ \A w \in Runs \ {daemon[d]} : events'[w] = events[w]
<1> DEFINE w == daemon[d]
<1>1. pc = "get" /\ w # NoRun /\ events[w] # <<>> /\ Head(events[w]) = "done"
  BY DEF GetEvent
<1>2. w \in Runs /\ current[d] \in Runs /\ newRun = NoRun
  BY <1>1 DEF IInv, TypeOK, Places
<1>3. Conversing(w, current[d], drained[d])
  BY <1>1 DEF IInv, Conversation, Heard, Held, Handling
<1>4. \/ /\ proc[w] = "wait" /\ stdin[w] = <<>> /\ events[w] = <<"done">>
         /\ ~drained[d] /\ work[w] = current[d] /\ (left[w] = {} \/ stopFile[w])
      \/ /\ proc[w] = "gone" /\ events[w] = <<"done", "exit">>
         /\ ~drained[d] /\ work[w] = current[d] /\ (left[w] = {} \/ stopFile[w])
  BY <1>1, <1>3 DEF Conversing
<1>5. events \in [Runs -> Seq({"done", "exit"})] /\ events' = [events EXCEPT ![w] = Tail(@)]
  BY DEF IInv, TypeOK, GetEvent
<1>6. events'[w] = Tail(events[w]) /\ \A v \in Runs \ {w} : events'[v] = events[v]
  BY <1>2, <1>5
<1>7. Tail(<<"done">>) = <<>> /\ Tail(<<"done", "exit">>) = <<"exit">>
  OBVIOUS
<1>8. QED
  BY <1>2, <1>4, <1>6, <1>7

LEMMA PlacesStep ==
  ASSUME IInv, [Next]_vars
  PROVE  Places'
<1> USE DEF Places, Handling, Idle
<1> TypeOK /\ Places
  BY DEF IInv
<1>1. CASE UNCHANGED vars
  BY <1>1 DEF vars, storeVars, queueVars, localVars, procVars
<1>2. CASE CommandStep
  <2>1. CASE CommandResetRunning
    BY <2>1 DEF CommandResetRunning, localVars, procVars
  <2>2. CASE KillSupervisor
    BY <2>2 DEF KillSupervisor, Leave, localVars, procVars
  <2>3. QED
    BY <1>2, <2>1, <2>2 DEF CommandStep, CommandInit, ImportKeys, StartRun, CommandRequestStop,
       CommandClearStop, DeadlinePasses, storeVars, queueVars, localVars, procVars
<1>3. ASSUME NEW r \in Runs, WorkerStep(r) \/ WorkerFail(r) \/ VerifierStep(r)
      PROVE  Places'
  <2>1. \A q \in Runs : proc[q] # "none" => proc'[q] # "none"
    BY <1>3 DEF WorkerStep, WorkerBoot, WorkerDone, WorkerNext, WorkerStop, WorkerScreen,
                WorkerRow, WorkerFail, VerifierStep, TypeOK, Live, procVars
  <2>2. UNCHANGED <<pc, localVars, runStatus>>
    BY <1>3 DEF WorkerStep, WorkerBoot, WorkerDone, WorkerNext, WorkerStop, WorkerScreen,
                WorkerRow, WorkerFail, VerifierStep, storeVars, queueVars
  <2>3. QED
    BY <2>1, <2>2 DEF localVars, TypeOK
<1>4. ASSUME NEW d \in Devices, LaunchLease(d) PROVE Places'
  <2>1. PICK r \in Runs : LeaseBatch(r, d) /\ newRun' = r
    BY <1>4 DEF LaunchLease
  <2>2. /\ runStatus[r] = "absent" /\ runStatus'[r] = "leased" /\ r # NoRun
    BY <2>1, NoRunAssumption DEF LeaseBatch, TypeOK, StoreTypeOK, QueueTypeOK
  <2>3. \A e \in Devices : current[e] # r /\ daemon[e] # r
    BY <2>2 DEF IInv, FreshRuns
  <2>4. QED
    BY <1>4, <2>1, <2>2, <2>3 DEF LaunchLease, procVars
<1>5. CASE LaunchRegister
  <2>1. proc[newRun] # "none" /\ newRun # NoRun
    BY <1>5 DEF LaunchRegister, IInv, Conversation, Heard, Conversing
  <2>2. QED
    BY <1>5, <2>1 DEF LaunchRegister, TypeOK, procVars
<1>6. CASE NextLease
  <2>1. PICK r \in Runs : LeaseBatch(r, focus) /\ newRun' = r
    BY <1>6 DEF NextLease
  <2>2. /\ runStatus[r] = "absent" /\ runStatus'[r] = "leased" /\ r # NoRun
    BY <2>1, NoRunAssumption DEF LeaseBatch, TypeOK, StoreTypeOK, QueueTypeOK
  <2>3. \A e \in Devices : current[e] # r /\ daemon[e] # r
    BY <2>2 DEF IInv, FreshRuns
  <2>4. QED
    BY <1>6, <2>1, <2>2, <2>3 DEF NextLease, procVars
<1>7. CASE LaunchSpawn
  BY <1>7 DEF LaunchSpawn, storeVars, queueVars, localVars, TypeOK
<1>8. CASE LoopTend
  BY <1>8 DEF LoopTend, Leave, storeVars, queueVars, localVars, procVars
<1>9. CASE NextFeed
  BY <1>9 DEF NextFeed, Leave, storeVars, queueVars
<1>10. ASSUME NEW d \in Devices, GetDone(d) \/ GetExit(d) PROVE Places'
  <2>1. CASE GetDone(d)
    <3>1. daemon[d] # NoRun /\ newRun = NoRun /\ ~drained[d] /\ pc' = "done"
      BY <2>1, AnswerTaken, NoRunAssumption DEF GetDone
    <3>2. /\ UNCHANGED <<untried, newRun, daemon, current, drained, proc>>
          /\ focus' = d /\ untried = {}
      BY <2>1 DEF GetDone, GetEvent
    <3>3. QED
      BY <3>1, <3>2
  <2>2. CASE GetExit(d)
    BY <2>2 DEF GetExit, GetEvent, TypeOK, storeVars, queueVars
  <2>3. QED
    BY <1>10, <2>1, <2>2
<1>11. CASE NextStop
  BY <1>11 DEF NextStop, TypeOK, storeVars, queueVars
<1>12. CASE NextMark
  BY <1>12 DEF NextMark, TypeOK, procVars
<1>13. ASSUME NEW d \in Devices, LaunchNothing(d) PROVE Places'
  BY <1>13 DEF LaunchNothing, TypeOK, storeVars, queueVars, procVars
<1>14. CASE LaunchDone \/ LoopTop \/ GetNothing \/ DoneVerify \/ \E r \in Runs : Harvest(r)
  BY <1>14 DEF LaunchDone, LoopTop, GetNothing, DoneVerify, Harvest, storeVars, queueVars,
               localVars, procVars
<1>15. QED
  BY <1>1, <1>2, <1>3, <1>4, <1>5, <1>6, <1>7, <1>8, <1>9, <1>10, <1>11, <1>12, <1>13,
     <1>14 DEF Next, CommandStep, SupervisorStep

(* Which transaction a step is.  Rows are written by workers alone.        *)
QueueStep ==
  \/ UNCHANGED queueVars
  \/ \E shard \in SUBSET Keys : ImportKeys(shard)
  \/ \E r \in Runs, d \in Devices : LeaseBatch(r, d) /\ newRun' = r
  \/ newRun \in Runs /\ runStatus[newRun] = "leased" /\ MarkRunning(newRun)
  \/ ResetRunning
  \/ \E d \in Devices : GetDone(d)

LEMMA QueueSteps ==
  ASSUME IInv, [Next]_vars
  PROVE  /\ QueueStep
         /\ \/ UNCHANGED summary
            \/ UNCHANGED queueVars /\ \E w \in Runs, k \in Keys : WorkerRow(w, k)
<1> USE DEF QueueStep, storeVars, fileVars
<1> DEFINE Goal ==
      /\ QueueStep
      /\ \/ UNCHANGED summary
         \/ UNCHANGED queueVars /\ \E w \in Runs, k \in Keys : WorkerRow(w, k)
<1>1. ASSUME CommandStep PROVE Goal
  <2>1. ASSUME CommandInit PROVE (\E shard \in SUBSET Keys : ImportKeys(shard)) /\ UNCHANGED summary
    <3>1. PICK k \in Keys : ImportKeys({j \in Keys : j <= k})
      BY <2>1 DEF CommandInit
    <3>2. {j \in Keys : j <= k} \in SUBSET Keys
      OBVIOUS
    <3>3. QED
      BY <2>1, <3>1, <3>2 DEF CommandInit
  <2>2. QED
    BY <1>1, <2>1 DEF CommandStep, StartRun, CommandRequestStop, CommandClearStop,
       CommandResetRunning, DeadlinePasses, KillSupervisor
<1>2. ASSUME NEW r \in Runs, WorkerStep(r) \/ WorkerFail(r) \/ VerifierStep(r) PROVE Goal
  BY <1>2 DEF WorkerStep, WorkerBoot, WorkerDone, WorkerNext, WorkerStop, WorkerScreen,
              WorkerRow, WorkerFail, VerifierStep
<1>3. ASSUME LaunchRegister \/ NextMark PROVE Goal
  <2>1. /\ newRun \in Runs /\ runStatus[newRun] = "leased" /\ MarkRunning(newRun)
        /\ UNCHANGED summary
    BY <1>3 DEF LaunchRegister, NextMark, IInv, Places, TypeOK
  <2>2. QED
    BY <2>1
<1>4. ASSUME SupervisorStep, ~LaunchRegister, ~NextMark PROVE Goal
  <2>1. ASSUME NextLease 
        PROVE  /\ \E r \in Runs, d \in Devices : LeaseBatch(r, d) /\ newRun' = r
               /\ UNCHANGED summary
    BY <2>1 DEF NextLease, IInv, Places, Handling
  <2>2. ASSUME NEW d \in Devices, LaunchLease(d)
        PROVE  /\ \E r \in Runs, e \in Devices : LeaseBatch(r, e) /\ newRun' = r
               /\ UNCHANGED summary
    BY <2>2 DEF LaunchLease
  <2>3. ASSUME NEW d \in Devices, GetDone(d) PROVE UNCHANGED summary
    BY <2>3 DEF GetDone
  <2>4. QED
    BY <1>4, <2>1, <2>2, <2>3 DEF SupervisorStep, LaunchNothing, LaunchSpawn, LaunchDone, LoopTop,
       LoopTend, GetNothing, Harvest, GetExit, DoneVerify, NextStop, NextFeed
<1>5. CASE UNCHANGED vars
  BY <1>5 DEF vars
<1>6. QED
  BY <1>1, <1>2, <1>3, <1>4, <1>5 DEF Next, CommandStep

(* A batch's keys stay with its run until its answer is dealt with, or they*)
(* were taken away by reset-running for good; and rows stay.               *)
LEMMA RunStep ==
  ASSUME IInv, [Next]_vars, NEW q \in Runs
  PROVE  /\ runStatus'[q] = "absent" => runStatus[q] = "absent"
         /\ runStatus'[q] # "absent" /\ runStatus[q] = "absent" => newRun' = q
         /\ summary[q] \subseteq summary'[q]
         /\ runStatus[q] # "absent" \/ runStatus'[q] = "absent" => batch'[q] = batch[q]
         /\ (\A d \in Devices : GetDone(d) => current[d] # q) /\ runStatus[q] # "absent" =>
              \A keys \in SUBSET Keys : Owned(q, keys) => Owned(q, keys)'
<1> QueueTypeOK /\ LeaseAgrees /\ summary \in [Runs -> SUBSET Keys]
  BY DEF IInv, TypeOK, StoreTypeOK
<1>1. summary[q] \subseteq summary'[q]
  BY QueueSteps DEF WorkerRow
<1>2. ASSUME NEW d \in Devices, GetDone(d)
      PROVE  /\ current[d] \in Runs /\ FinalIngest(current[d])
             /\ lease' = [k \in Keys |-> IF lease[k] = current[d] THEN NoRun ELSE lease[k]]
             /\ runStatus'[current[d]] \in {"done", "stopped", "failed"}
             /\ \A p \in Runs \ {current[d]} : runStatus'[p] = runStatus[p]
             /\ batch' = batch
             /\ runStatus[current[d]] # "absent"
  <2>1. current[d] \in Runs
    BY <1>2, AnswerTaken DEF GetDone
  <2>2. FinalIngest(current[d])
    BY <1>2 DEF GetDone, FinalIngest
  <2>3. runStatus[current[d]] # "absent"
    BY <2>1 DEF IInv, FreshRuns
  <2>4. QED
    BY <2>1, <2>2, <2>3, FinalIngestEffect
<1>3. ASSUME QueueStep
      PROVE  /\ runStatus'[q] = "absent" => runStatus[q] = "absent"
             /\ runStatus'[q] # "absent" /\ runStatus[q] = "absent" => newRun' = q
             /\ runStatus[q] # "absent" \/ runStatus'[q] = "absent" => batch'[q] = batch[q]
  <2>1. ASSUME NEW r \in Runs, NEW d \in Devices, LeaseBatch(r, d), newRun' = r
        PROVE  /\ runStatus[r] = "absent" /\ runStatus'[r] = "leased"
               /\ \A p \in Runs \ {r} : runStatus'[p] = runStatus[p] /\ batch'[p] = batch[p]
    BY <2>1, LeaseBatchEffect
  <2>2. QED
    BY <1>2, <1>3, <2>1 DEF QueueTypeOK, QueueStep, ImportKeys, MarkRunning,
                            ResetRunning, queueVars
<1>4. ASSUME QueueStep, \A d \in Devices : GetDone(d) => current[d] # q,
             runStatus[q] # "absent", NEW k \in Keys, lease[k] = q \/ runStatus[q] = "reset"
      PROVE  lease'[k] = q \/ runStatus'[q] = "reset"
  <2>1. ASSUME NEW r \in Runs, NEW d \in Devices, LeaseBatch(r, d), newRun' = r
        PROVE  lease'[k] = q \/ runStatus'[q] = "reset"
    <3>1. q # r /\ runStatus'[q] = runStatus[q]
      BY <1>4, <2>1, LeaseBatchEffect
    <3>2. lease[k] = q => lease'[k] = q
      BY <2>1, LeaseBatchEffect, NoRunAssumption
    <3>3. QED
      BY <1>4, <3>1, <3>2
  <2>2. ASSUME ResetRunning PROVE lease'[k] = q \/ runStatus'[q] = "reset"
    BY <1>4, <2>2, NoRunAssumption DEF QueueTypeOK, ResetRunning, LeaseAgrees
  <2>3. ASSUME NEW d \in Devices, GetDone(d) PROVE lease'[k] = q \/ runStatus'[q] = "reset"
    BY <1>2, <1>4, <2>3
  <2>4. ASSUME newRun \in Runs, runStatus[newRun] = "leased", MarkRunning(newRun)
        PROVE  lease'[k] = q \/ runStatus'[q] = "reset"
    BY <1>4, <2>4 DEF QueueTypeOK, MarkRunning
  <2>5. QED
    BY <1>4, <2>1, <2>2, <2>3, <2>4 DEF QueueStep, ImportKeys, queueVars
<1>5. QED
  BY <1>1, <1>3, <1>4, QueueSteps DEF Owned

LEMMA LeaseAgreesKept ==
  ASSUME IInv, [Next]_vars
  PROVE  LeaseAgrees'
<1>1. ASSUME NEW d \in Devices, GetDone(d) PROVE \E r \in Runs : FinalIngest(r)
  BY <1>1, AnswerTaken DEF GetDone, FinalIngest
<1>2. Transaction
  BY <1>1, QueueSteps DEF QueueStep, Transaction, OtherTransaction
<1>3. QED
  BY <1>2, LeaseAgreesStep DEF IInv, TypeOK, StoreTypeOK

(* What each step writes of the conversation: the lines,                   *)
LEMMA LineStep ==
  ASSUME IInv, [Next]_vars, NEW w \in Runs
  PROVE  \/ stdin'[w] = stdin[w]
         \/ /\ WorkerNext(w) /\ stdin'[w] = <<>>
            /\ \E q \in Runs : stdin[w] = <<q>> /\ work'[w] = q /\ left'[w] = batch[q]
         \/ NextStop /\ w = daemon[focus] /\ stdin[w] = <<>> /\ stdin'[w] = <<Stop>>
         \/ /\ NextFeed /\ pc' = "top" /\ w = daemon[focus] /\ proc[w] = "wait"
            /\ stdin[w] = <<>> /\ stdin'[w] = <<current[focus]>>
<1> USE DEF procVars
<1> DEFINE Goal ==
         \/ stdin'[w] = stdin[w]
         \/ /\ WorkerNext(w) /\ stdin'[w] = <<>>
            /\ \E q \in Runs : stdin[w] = <<q>> /\ work'[w] = q /\ left'[w] = batch[q]
         \/ NextStop /\ w = daemon[focus] /\ stdin[w] = <<>> /\ stdin'[w] = <<Stop>>
         \/ /\ NextFeed /\ pc' = "top" /\ w = daemon[focus] /\ proc[w] = "wait"
            /\ stdin[w] = <<>> /\ stdin'[w] = <<current[focus]>>
<1>0. /\ stdin \in [Runs -> Seq(Runs \cup {Stop})] /\ work \in [Runs -> Runs \cup {NoRun}]
      /\ left \in [Runs -> SUBSET Keys] /\ proc \in [Runs -> {"none", "gone"} \cup Live]
  BY DEF IInv, TypeOK
<1>1. ASSUME NEW r \in Runs, WorkerNext(r) PROVE Goal
  <2>1. PICK line \in Runs \cup {Stop} : stdin[r] = <<line>>
    BY <1>1 DEF WorkerNext, IInv, Conversation
  <2>2. Head(<<line>>) = line /\ Tail(<<line>>) = <<>>
    OBVIOUS
  <2>3. line \in Runs /\ stdin' = [stdin EXCEPT ![r] = <<>>]
        /\ work' = [work EXCEPT ![r] = line] /\ left' = [left EXCEPT ![r] = batch[line]]
    BY <1>1, <2>1, <2>2 DEF WorkerNext
  <2>4. QED
    BY <1>0, <1>1, <2>1, <2>3
<1>2. ASSUME pc \in Handling
      PROVE  /\ daemon[focus] \in Runs
             /\ proc[daemon[focus]] # "gone" =>
                  proc[daemon[focus]] = "wait" /\ stdin[daemon[focus]] = <<>>
  BY <1>2 DEF IInv, TypeOK, Places, Conversation, Heard, Held, Answered
<1>3. Append(<<>>, Stop) = <<Stop>> /\ Append(<<>>, current[focus]) = <<current[focus]>>
  OBVIOUS
<1>4. ASSUME NextStop PROVE Goal
  <2>1. pc \in Handling /\ Send(daemon[focus], Stop)
    BY <1>4 DEF NextStop, Handling
  <2>2. QED
    BY <1>0, <1>2, <1>3, <1>4, <2>1 DEF Send
<1>5. ASSUME NextFeed PROVE Goal
  <2>1. /\ pc \in Handling
        /\ \/ UNCHANGED stdin
           \/ /\ Send(daemon[focus], current[focus]) /\ proc[daemon[focus]] # "gone"
              /\ pc' = "top"
    BY <1>5 DEF NextFeed, Handling
  <2>2. QED
    BY <1>0, <1>2, <1>3, <1>5, <2>1 DEF Send
<1>6. ASSUME CommandStep \/ UNCHANGED vars PROVE UNCHANGED stdin
  BY <1>6 DEF vars, CommandStep, CommandInit, StartRun, CommandRequestStop, CommandClearStop,
     CommandResetRunning, DeadlinePasses, KillSupervisor
<1>7. ASSUME NEW r \in Runs, WorkerStep(r) \/ WorkerFail(r) \/ VerifierStep(r), ~WorkerNext(r)
      PROVE  UNCHANGED stdin
  BY <1>7 DEF WorkerStep, WorkerBoot, WorkerDone, WorkerStop, WorkerScreen,
              WorkerRow, WorkerFail, VerifierStep
<1>8. ASSUME SupervisorStep, ~NextStop, ~NextFeed PROVE UNCHANGED stdin
  BY <1>8 DEF SupervisorStep, LaunchLease, LaunchNothing, LaunchSpawn, LaunchRegister,
     LaunchDone, LoopTop, LoopTend, GetNothing, Harvest, GetDone, GetExit, DoneVerify, NextLease,
     NextMark
<1>9. QED
  BY <1>1, <1>4, <1>5, <1>6, <1>7, <1>8 DEF Next, CommandStep

(* the work in hand,                                                       *)
LEMMA WorkStep ==
  ASSUME IInv, [Next]_vars, NEW w \in Runs
  PROVE  \/ /\ work'[w] = work[w] /\ (proc'[w] = "none" <=> proc[w] = "none")
            /\ proc'[w] \in {"boot", "key", "row"} => proc[w] \in {"boot", "key", "row"}
            /\ left'[w] = left[w] \/ \E k \in Keys : WorkerRow(w, k)
         \/ LaunchSpawn /\ w = newRun /\ work'[w] = w /\ left'[w] = batch[w]
         \/ WorkerNext(w)
<1> USE DEF procVars
<1> DEFINE Goal ==
         \/ /\ work'[w] = work[w] /\ (proc'[w] = "none" <=> proc[w] = "none")
            /\ proc'[w] \in {"boot", "key", "row"} => proc[w] \in {"boot", "key", "row"}
            /\ left'[w] = left[w] \/ \E k \in Keys : WorkerRow(w, k)
         \/ LaunchSpawn /\ w = newRun /\ work'[w] = w /\ left'[w] = batch[w]
         \/ WorkerNext(w)
<1>0. /\ work \in [Runs -> Runs \cup {NoRun}]
      /\ left \in [Runs -> SUBSET Keys] /\ proc \in [Runs -> {"none", "gone"} \cup Live]
  BY DEF IInv, TypeOK
<1>1. ASSUME CommandStep \/ UNCHANGED vars PROVE UNCHANGED <<proc, work, left>>
  BY <1>1 DEF vars, CommandStep, CommandInit, StartRun, CommandRequestStop, CommandClearStop,
     CommandResetRunning, DeadlinePasses, KillSupervisor
<1>2. ASSUME SupervisorStep, ~LaunchSpawn PROVE UNCHANGED <<proc, work, left>>
  BY <1>2 DEF SupervisorStep, LaunchLease, LaunchNothing, LaunchRegister,
     LaunchDone, LoopTop, LoopTend, GetNothing, Harvest, GetDone, GetExit, DoneVerify, NextLease,
     NextMark, NextStop, NextFeed
<1>3. ASSUME LaunchSpawn PROVE Goal
  BY <1>0, <1>3 DEF LaunchSpawn
<1>4. ASSUME NEW r \in Runs, NEW k \in Keys, WorkerRow(r, k) PROVE Goal
  BY <1>0, <1>4 DEF WorkerRow
<1>5. ASSUME NEW r \in Runs, WorkerNext(r) PROVE Goal
  BY <1>0, <1>5 DEF WorkerNext
<1>6. ASSUME NEW r \in Runs, WorkerStep(r) \/ WorkerFail(r) \/ VerifierStep(r),
             ~WorkerNext(r), \A k \in Keys : ~WorkerRow(r, k)
      PROVE  Goal
  BY <1>0, <1>6 DEF WorkerStep, WorkerBoot, WorkerDone, WorkerStop, WorkerScreen,
              WorkerFail, VerifierStep, Live
<1>7. QED
  BY <1>1, <1>2, <1>3, <1>4, <1>5, <1>6 DEF Next, CommandStep

(* and the supervisor's place.                                             *)
LEMMA PlaceStep ==
  ASSUME IInv, [Next]_vars
  PROVE  /\ \A d \in Devices :
              \/ current'[d] \in {current[d], NoRun}
              \/ current'[d] = newRun /\ newRun \in Runs /\ (LaunchRegister \/ NextMark)
         /\ newRun' # newRun /\ newRun' # NoRun =>
              /\ newRun' \in Runs /\ \E d \in Devices : LeaseBatch(newRun', d)
              /\ UNCHANGED <<fileVars, procVars>>
         /\ pc' \in {"spawn", "leased"} =>
              newRun' # newRun \/ (pc' = pc /\ newRun' = newRun)
         /\ pc' = "feed" =>
              \/ pc = "feed" /\ focus' = focus /\ current'[focus] = current[focus]
              \/ NextMark /\ current'[focus'] = newRun
<1> USE DEF localVars
<1>0. /\ current \in [Devices -> Runs \cup {NoRun}] /\ newRun \in Runs \cup {NoRun}
  BY DEF IInv, TypeOK
<1>1. ASSUME CommandStep PROVE UNCHANGED <<newRun, current, pc, focus>> \/ Leave("dead") \/ StartRun
  BY <1>1 DEF CommandStep, CommandInit, CommandRequestStop, CommandClearStop,
     CommandResetRunning, DeadlinePasses, KillSupervisor
<1>2. ASSUME NEW r \in Runs, WorkerStep(r) \/ WorkerFail(r) \/ VerifierStep(r)
      PROVE  UNCHANGED <<newRun, current, pc, focus>>
  BY <1>2 DEF WorkerStep, WorkerBoot, WorkerDone, WorkerNext, WorkerStop, WorkerScreen,
              WorkerRow, WorkerFail, VerifierStep
<1>3. ASSUME NextMark \/ LaunchRegister
      PROVE  /\ newRun \in Runs /\ newRun' = NoRun /\ focus \in Devices
             /\ current' = [current EXCEPT ![focus] = newRun]
             /\ NextMark => focus' = focus /\ pc' = "feed"
             /\ LaunchRegister => pc' = "start"
  BY <1>3 DEF NextMark, LaunchRegister, IInv, Places, TypeOK, Handling
<1>4. ASSUME NextLease \/ \E d \in Devices : LaunchLease(d)
      PROVE  /\ newRun = NoRun /\ UNCHANGED <<current, fileVars, procVars>>
             /\ newRun' \in Runs /\ \E d \in Devices : LeaseBatch(newRun', d)
             /\ pc' \in {"spawn", "leased"}
  <2>1. newRun = NoRun
    BY <1>4 DEF NextLease, LaunchLease, IInv, Places
  <2>2. CASE NextLease
    <3>1. focus \in Devices
      BY <2>2 DEF NextLease, IInv, Places, Handling
    <3>2. QED
      BY <2>1, <2>2, <3>1 DEF NextLease
  <2>3. CASE \E d \in Devices : LaunchLease(d)
    BY <2>1, <2>3 DEF LaunchLease
  <2>4. QED
    BY <1>4, <2>2, <2>3
<1>5. ASSUME SupervisorStep, ~NextMark, ~LaunchRegister, ~NextLease,
             \A d \in Devices : ~LaunchLease(d)
      PROVE  /\ newRun' \in {newRun, NoRun} /\ pc' \notin {"spawn", "leased", "feed"}
             /\ \A d \in Devices : current'[d] \in {current[d], NoRun}
  BY <1>5 DEF SupervisorStep, LaunchNothing, LaunchSpawn, LaunchDone, LoopTop, LoopTend,
     GetNothing, Harvest, GetDone, GetExit, DoneVerify, NextStop, NextFeed, Leave
<1>6. CASE UNCHANGED vars
  BY <1>6 DEF vars
<1>7. CASE Leave("dead") \/ StartRun
  BY <1>7 DEF Leave, StartRun
<1>8. QED
  BY <1>0, <1>1, <1>2, <1>3, <1>4, <1>5, <1>6, <1>7, NoRunAssumption DEF Next, CommandStep

(* A batch becomes Unstarted by being leased, and stays in one place.      *)
LEMMA UnstartedStep ==
  ASSUME IInv, [Next]_vars, NEW q \in Runs, Unstarted(q)'
  PROVE  \/ /\ newRun' = q /\ newRun # q /\ runStatus[q] = "absent"
            /\ \E d \in Devices : LeaseBatch(q, d)
            /\ UNCHANGED <<fileVars, procVars>>
         \/ /\ Unstarted(q) /\ runStatus[q] # "absent"
            /\ newRun' = q => newRun = q /\ (pc' \in {"spawn", "leased"} => pc' = pc)
            /\ pc' = "feed" /\ current'[focus'] = q =>
                 newRun = q \/ (pc = "feed" /\ current[focus] = q)
            /\ \A w \in Runs : stdin'[w] = <<q>> =>
                 \/ stdin[w] = <<q>> /\ ~WorkerNext(w)
                 \/ /\ pc = "feed" /\ current[focus] = q /\ pc' = "top"
                    /\ w = daemon[focus] /\ stdin[w] = <<>>
<1>1. newRun' # NoRun => runStatus'[newRun'] = "leased"
  BY PlacesStep DEF Places
<1>2. ASSUME newRun' = q, newRun # q
      PROVE  /\ runStatus[q] = "absent" /\ \E d \in Devices : LeaseBatch(q, d)
             /\ UNCHANGED <<fileVars, procVars>>
  BY <1>2, PlaceStep, NoRunAssumption DEF LeaseBatch
<1>3. ASSUME NEW w \in Runs, stdin'[w] = <<q>>
      PROVE  \/ stdin[w] = <<q>> /\ ~WorkerNext(w)
             \/ /\ pc = "feed" /\ current[focus] = q /\ pc' = "top"
                /\ w = daemon[focus] /\ stdin[w] = <<>>
  <2>1. <<q>> # <<>> /\ <<q>> # <<Stop>>
    BY StopIsNoRun
  <2>2. \A x : <<q>> = <<x>> => x = q
    OBVIOUS
  <2>3. CASE stdin'[w] = stdin[w]
    <3>1. WorkerNext(w) => stdin'[w] = Tail(stdin[w]) /\ stdin[w] # <<>>
      BY DEF WorkerNext, IInv, TypeOK
    <3>2. Tail(<<q>>) = <<>>
      OBVIOUS
    <3>3. QED
      BY <1>3, <2>1, <2>3, <3>1, <3>2
  <2>4. CASE NextFeed /\ pc' = "top" /\ w = daemon[focus] /\ stdin[w] = <<>>
             /\ stdin'[w] = <<current[focus]>>
    BY <1>3, <2>2, <2>4 DEF NextFeed
  <2>5. QED
    BY <1>3, <2>1, <2>3, <2>4, LineStep
<1>4. ASSUME pc' = "feed", current'[focus'] = q
      PROVE  \/ newRun = q /\ pc \in {"spawn", "leased"}
             \/ pc = "feed" /\ current[focus] = q
  BY <1>4, PlaceStep DEF NextMark
<1>5. q # NoRun
  BY NoRunAssumption
<1>6. CASE newRun' = q /\ newRun # q
  BY <1>2, <1>6
<1>7. CASE newRun' = q => newRun = q
  <2>1. newRun' = q /\ pc' \in {"spawn", "leased"} => pc' = pc
    BY <1>7, PlaceStep
  <2>2. \/ pc' \in {"spawn", "leased"} /\ newRun' = q
        \/ pc' = "feed" /\ current'[focus'] = q
        \/ \E w \in Runs : stdin'[w] = <<q>>
    BY DEF Unstarted
  <2>3. Unstarted(q)
    BY <1>3, <1>4, <1>7, <2>1, <2>2, <1>5 DEF Unstarted, IInv, Places
  <2>4. runStatus[q] # "absent"
    BY <2>3 DEF IInv, FreshRuns
  <2>5. QED
    BY <1>3, <1>4, <1>7, <2>1, <2>3, <2>4
<1>8. QED
  BY <1>6, <1>7

LEMMA CsvStep ==
  ASSUME IInv, [Next]_vars, NEW r \in Runs
  PROVE  csv'[r] \in {csv[r], {}} \/ (DoneVerify /\ r = current[focus])
<1> USE DEF storeVars, fileVars
<1>0. csv \in [Runs -> SUBSET Candidate]
  BY DEF IInv, TypeOK, StoreTypeOK
<1>1. ASSUME CommandStep \/ UNCHANGED vars PROVE UNCHANGED csv
  BY <1>1 DEF vars, CommandStep, CommandInit, StartRun, CommandRequestStop, CommandClearStop,
     CommandResetRunning, DeadlinePasses, KillSupervisor
<1>2. ASSUME NEW w \in Runs, WorkerStep(w) \/ WorkerFail(w) \/ VerifierStep(w)
      PROVE  UNCHANGED csv
  BY <1>2 DEF WorkerStep, WorkerBoot, WorkerDone, WorkerNext, WorkerStop, WorkerScreen,
              WorkerRow, WorkerFail, VerifierStep
<1>3. ASSUME SupervisorStep, ~DoneVerify, \A q \in Runs : ~Harvest(q) PROVE UNCHANGED csv
  BY <1>3 DEF SupervisorStep, LaunchLease, LaunchNothing, LaunchSpawn, LaunchRegister,
     LaunchDone, LoopTop, LoopTend, GetNothing, GetDone, GetExit, NextLease,
     NextMark, NextStop, NextFeed
<1>4. ASSUME DoneVerify PROVE csv'[r] = csv[r] \/ r = current[focus]
  BY <1>0, <1>4 DEF DoneVerify, StartVerify
<1>5. ASSUME NEW q \in Runs, Harvest(q) PROVE csv'[r] \in {csv[r], {}}
  BY <1>0, <1>5 DEF Harvest, HarvestVerify, CleanupProvenance
<1>6. QED
  BY <1>1, <1>2, <1>3, <1>4, <1>5 DEF Next, CommandStep

LEMMA FreshRunsStep ==
  ASSUME IInv, [Next]_vars
  PROVE  FreshRuns'
<1>0. /\ TypeOK /\ Places /\ FreshRuns /\ Places'
  BY PlacesStep DEF IInv
<1>1. ASSUME NEW r \in Runs, runStatus'[r] = "absent"
      PROVE  /\ batch'[r] = {} /\ summary'[r] = {} /\ csv'[r] = {}
             /\ proc'[r] = "none" /\ ~Unstarted(r)'
             /\ \A w \in Runs : work'[w] # r
             /\ \A d \in Devices : current'[d] # r
  <2>1. /\ runStatus[r] = "absent" /\ batch'[r] = batch[r]
        /\ batch[r] = {} /\ summary[r] = {} /\ csv[r] = {}
        /\ proc[r] = "none" /\ ~Unstarted(r) /\ newRun # r /\ newRun' # r
        /\ \A w \in Runs : work[w] # r
        /\ \A d \in Devices : current[d] # r
    BY <1>0, <1>1, RunStep, NoRunAssumption DEF FreshRuns, Places
  <2>2. summary'[r] = {}
    BY <1>0, <2>1, QueueSteps DEF WorkerRow, TypeOK, StoreTypeOK
  <2>3. csv'[r] = {}
    <3>1. DoneVerify => current[focus] # r
      BY <1>0, <2>1 DEF DoneVerify, Places, Handling
    <3>2. QED
      BY <2>1, <3>1, CsvStep
  <2>4. proc'[r] = "none" /\ \A w \in Runs : work'[w] # r
    <3>1. ASSUME NEW w \in Runs, WorkerNext(w) PROVE w # r /\ work'[w] # r
      <4>1. PICK q \in Runs \cup {Stop} : stdin[w] = <<q>>
        BY <3>1 DEF WorkerNext, IInv, Conversation
      <4>2. Head(<<q>>) = q
        OBVIOUS
      <4>3. q \in Runs /\ work'[w] = q /\ Unstarted(q)
        BY <1>0, <3>1, <4>1, <4>2 DEF WorkerNext, Unstarted, TypeOK
      <4>4. QED
        BY <2>1, <3>1, <4>3 DEF WorkerNext
    <3>2. QED
      BY <2>1, <3>1, WorkStep
  <2>5. \A d \in Devices : current'[d] # r
    BY <2>1, PlaceStep, NoRunAssumption
  <2>6. QED
    BY <2>1, <2>2, <2>3, <2>4, <2>5, UnstartedStep
<1>2. ASSUME NEW q \in Runs, Unstarted(q)'
      PROVE  /\ summary'[q] = {}
             /\ \A w \in Runs : work'[w] # q
             /\ Owned(q, batch[q])'
             /\ pc' = "spawn" /\ newRun' = q => proc'[q] = "none"
             /\ newRun' = q \/ (pc' = "feed" /\ current'[focus'] = q) =>
                  \A w \in Runs : stdin'[w] # <<q>>
             /\ \A v, w \in Runs : stdin'[v] = <<q>> /\ stdin'[w] = <<q>> => v = w
  <2>1. CASE /\ newRun' = q /\ newRun # q /\ runStatus[q] = "absent"
             /\ \E d \in Devices : LeaseBatch(q, d)
             /\ UNCHANGED <<fileVars, procVars>>
    <3>1. /\ summary[q] = {} /\ proc[q] = "none" /\ \A w \in Runs : work[w] # q /\ stdin[w] # <<q>>
      BY <1>0, <2>1 DEF FreshRuns, Unstarted
    <3>2. \A k \in batch'[q] : lease'[k] = q
      BY <2>1, LeaseBatchEffect DEF IInv, TypeOK, StoreTypeOK
    <3>3. Owned(q, batch[q])'
      BY <3>2 DEF Owned
    <3>4. QED
      BY <2>1, <3>1, <3>3 DEF fileVars, procVars
  <2>2. CASE /\ Unstarted(q) /\ runStatus[q] # "absent"
             /\ newRun' = q => newRun = q /\ (pc' \in {"spawn", "leased"} => pc' = pc)
             /\ pc' = "feed" /\ current'[focus'] = q =>
                  newRun = q \/ (pc = "feed" /\ current[focus] = q)
             /\ \A w \in Runs : stdin'[w] = <<q>> =>
                  \/ stdin[w] = <<q>> /\ ~WorkerNext(w)
                  \/ /\ pc = "feed" /\ current[focus] = q /\ pc' = "top"
                     /\ w = daemon[focus] /\ stdin[w] = <<>>
    <3>1. /\ summary[q] = {} /\ \A w \in Runs : work[w] # q
          /\ Owned(q, batch[q])
          /\ pc = "spawn" /\ newRun = q => proc[q] = "none"
          /\ newRun = q \/ (pc = "feed" /\ current[focus] = q) => \A w \in Runs : stdin[w] # <<q>>
          /\ \A v, w \in Runs : stdin[v] = <<q>> /\ stdin[w] = <<q>> => v = w
      BY <1>0, <2>2 DEF FreshRuns
    <3>2. summary'[q] = {}
      BY <1>0, <3>1, QueueSteps DEF WorkerRow, TypeOK, StoreTypeOK
    <3>3. Owned(q, batch[q])'
      <4>1. \A d \in Devices : GetDone(d) => current[d] # q
        BY <3>1, AnswerTaken DEF GetDone
      <4>2. batch'[q] = batch[q] /\ batch[q] \in SUBSET Keys
        BY <2>2, RunStep DEF IInv, TypeOK, StoreTypeOK, QueueTypeOK
      <4>3. Owned(q, batch[q]) => (\A k \in batch[q] : lease'[k] = q \/ runStatus'[q] = "reset")
        BY <2>2, <4>1, <4>2, RunStep DEF Owned
      <4>4. QED
        BY <3>1, <4>2, <4>3 DEF Owned
    <3>4. ASSUME NEW w \in Runs, work'[w] = q PROVE FALSE
      <4>1. CASE LaunchSpawn /\ w = newRun /\ work'[w] = w
        <5>1. newRun = q /\ pc' = "register" /\ stdin' = stdin
          BY <3>4, <4>1 DEF LaunchSpawn
        <5>2. QED
          BY <1>2, <3>1, <5>1 DEF Unstarted
      <4>2. CASE WorkerNext(w)
        <5>1. stdin[w] = <<q>>
          <6>1. PICK p \in Runs \cup {Stop} : stdin[w] = <<p>>
            BY <4>2 DEF WorkerNext, IInv, Conversation
          <6>2. Head(<<p>>) = p
            OBVIOUS
          <6>3. QED
            BY <1>0, <3>4, <4>2, <6>1, <6>2 DEF WorkerNext, TypeOK
        <5>2. newRun # q /\ ~(pc = "feed" /\ current[focus] = q)
          BY <3>1, <5>1
        <5>3. \A v \in Runs : stdin'[v] # <<q>>
          BY <2>2, <3>1, <4>2, <5>1, <5>2
        <5>4. QED
          BY <1>2, <2>2, <5>2, <5>3 DEF Unstarted
      <4>3. QED
        BY <3>1, <3>4, <4>1, <4>2, WorkStep
    <3>5. pc' = "spawn" /\ newRun' = q => proc'[q] = "none"
      <4>1. ASSUME pc' = "spawn", newRun' = q PROVE proc[q] = "none"
        BY <2>2, <3>1, <4>1
      <4>2. ASSUME pc' = "spawn" PROVE ~LaunchSpawn
        BY <4>2 DEF LaunchSpawn
      <4>3. WorkerNext(q) => proc[q] # "none"
        BY DEF WorkerNext
      <4>4. QED
        BY <4>1, <4>2, <4>3, WorkStep
    <3>6. newRun' = q \/ (pc' = "feed" /\ current'[focus'] = q) =>
             \A w \in Runs : stdin'[w] # <<q>>
      BY <1>0, <2>2, <3>1, NoRunAssumption DEF Places
    <3>7. \A v, w \in Runs : stdin'[v] = <<q>> /\ stdin'[w] = <<q>> => v = w
      BY <2>2, <3>1
    <3>8. QED
      BY <3>2, <3>3, <3>4, <3>5, <3>6, <3>7
  <2>3. QED
    BY <1>2, <2>1, <2>2, UnstartedStep
<1>3. QED
  BY <1>1, <1>2 DEF FreshRuns

(* A worker takes up a batch no worker has begun.                          *)
LEMMA TakesUp ==
  ASSUME IInv, NEW w \in Runs, (LaunchSpawn /\ w = newRun) \/ WorkerNext(w)
  PROVE  \E q \in Runs :
           /\ Unstarted(q)
           /\ work' = [work EXCEPT ![w] = q] /\ left' = [left EXCEPT ![w] = batch[q]]
           /\ proc'[w] \in {"boot", "key"} /\ stdin'[w] = <<>>
           /\ UNCHANGED <<storeVars, events>>
<1>0. TypeOK /\ FreshRuns /\ Accounts
  BY DEF IInv
<1>1. CASE LaunchSpawn /\ w = newRun
  <2>1. Unstarted(w) /\ pc = "spawn"
    BY <1>1 DEF LaunchSpawn, Unstarted
  <2>2. proc[w] = "none" /\ stdin[w] = <<>>
    BY <1>0, <1>1, <2>1 DEF FreshRuns, Accounts
  <2>3. QED
    BY <1>0, <1>1, <2>1, <2>2 DEF LaunchSpawn, TypeOK
<1>2. CASE WorkerNext(w)
  <2>1. PICK q \in Runs \cup {Stop} : stdin[w] = <<q>>
    BY <1>2 DEF WorkerNext, IInv, Conversation
  <2>2. Head(<<q>>) = q /\ Tail(<<q>>) = <<>>
    OBVIOUS
  <2>3. q \in Runs /\ Unstarted(q)
    BY <1>2, <2>1, <2>2 DEF WorkerNext, Unstarted
  <2>4. QED
    BY <1>0, <1>2, <2>1, <2>2, <2>3 DEF WorkerNext, TypeOK
<1>3. QED
  BY <1>1, <1>2

(* What a worker says and what is heard of it.                             *)
LEMMA EventStep ==
  ASSUME IInv, [Next]_vars, NEW w \in Runs
  PROVE  \/ events'[w] = events[w]
         \/ WorkerDone(w) /\ Attached(w) /\ events'[w] = Append(events[w], "done")
         \/ /\ WorkerStop(w) \/ WorkerFail(w)
            /\ Attached(w) /\ events'[w] = Append(events[w], "exit")
         \/ \E d \in Devices : w = daemon[d] /\ (GetDone(d) \/ GetExit(d))
<1> USE DEF procVars
<1>0. events \in [Runs -> Seq({"done", "exit"})]
  BY DEF IInv, TypeOK
<1>1. ASSUME CommandStep \/ UNCHANGED vars PROVE UNCHANGED events
  BY <1>1 DEF vars, CommandStep, CommandInit, StartRun, CommandRequestStop, CommandClearStop,
     CommandResetRunning, DeadlinePasses, KillSupervisor
<1>2. ASSUME SupervisorStep, \A d \in Devices : ~GetDone(d) /\ ~GetExit(d) PROVE UNCHANGED events
  BY <1>2 DEF SupervisorStep, LaunchSpawn, LaunchLease, LaunchNothing, LaunchRegister,
     LaunchDone, LoopTop, LoopTend, GetNothing, Harvest, DoneVerify, NextLease,
     NextMark, NextStop, NextFeed
<1>3. ASSUME NEW d \in Devices, GetDone(d) \/ GetExit(d), w # daemon[d] PROVE events'[w] = events[w]
  BY <1>0, <1>3 DEF GetDone, GetExit, GetEvent
<1>4. ASSUME NEW r \in Runs, WorkerDone(r) \/ WorkerStop(r) \/ WorkerFail(r), events'[w] # events[w]
      PROVE  /\ r = w /\ Attached(w)
             /\ events'[w] = Append(events[w], IF WorkerDone(r) THEN "done" ELSE "exit")
  BY <1>0, <1>4 DEF WorkerDone, WorkerStop, WorkerFail, Emit, Live
<1>5. ASSUME NEW r \in Runs, WorkerStep(r) \/ VerifierStep(r), ~WorkerDone(r), ~WorkerStop(r)
      PROVE  UNCHANGED events
  BY <1>5 DEF WorkerStep, WorkerBoot, WorkerNext, WorkerScreen, WorkerRow, VerifierStep
<1>6. QED
  BY <1>1, <1>2, <1>3, <1>4, <1>5 DEF Next, CommandStep

LEMMA AccountsStep ==
  ASSUME IInv, [Next]_vars
  PROVE  Accounts'
<1>0. TypeOK /\ Places /\ FreshRuns /\ Accounts
  BY DEF IInv
<1>1. ASSUME NEW w \in Runs, proc'[w] = "none"
      PROVE  work'[w] = NoRun /\ left'[w] = {} /\ stdin'[w] = <<>> /\ events'[w] = <<>>
  <2>1. ~(LaunchSpawn /\ w = newRun) /\ ~WorkerNext(w)
    BY <1>1, TakesUp
  <2>2. proc[w] = "none" /\ work'[w] = work[w]
    BY <1>1, <2>1, WorkStep
  <2>3. work[w] = NoRun /\ left[w] = {} /\ stdin[w] = <<>> /\ events[w] = <<>>
    BY <1>0, <2>2 DEF Accounts
  <2>4. left'[w] = left[w]
    BY <2>1, <2>2, WorkStep DEF WorkerRow
  <2>5. \A d \in Devices : w # daemon[d]
    BY <1>0, <2>2, NoRunAssumption DEF Places
  <2>6. stdin'[w] = stdin[w]
    BY <1>0, <2>1, <2>5, LineStep DEF NextStop, NextFeed, Places, Handling
  <2>7. events'[w] = events[w]
    BY <2>2, <2>5, EventStep DEF WorkerDone, WorkerStop, WorkerFail, Live
  <2>8. QED
    BY <2>2, <2>3, <2>4, <2>6, <2>7
<1>2. ASSUME NEW w \in Runs, proc'[w] # "none"
      PROVE  /\ work'[w] # NoRun
             /\ left'[w] = batch'[work'[w]] \ summary'[work'[w]]
             /\ \A v \in Runs : v # w => work'[v] # work'[w]
             /\ proc'[w] \in {"boot", "key", "row"} => Owned(work[w], left[w])'
  <2>1. CASE (LaunchSpawn /\ w = newRun) \/ WorkerNext(w)
    <3>1. PICK q \in Runs :
           /\ Unstarted(q)
           /\ work' = [work EXCEPT ![w] = q] /\ left' = [left EXCEPT ![w] = batch[q]]
           /\ UNCHANGED storeVars
      BY <2>1, TakesUp
    <3>2. summary[q] = {} /\ Owned(q, batch[q]) /\ \A v \in Runs : work[v] # q
      BY <1>0, <3>1 DEF FreshRuns
    <3>3. work'[w] = q /\ left'[w] = batch[q] /\ q # NoRun
      BY <1>0, <3>1, NoRunAssumption DEF TypeOK
    <3>4. \A v \in Runs : v # w => work'[v] # q
      BY <1>0, <3>1, <3>2 DEF TypeOK
    <3>5. Owned(q, batch[q])'
      BY <3>1, <3>2 DEF Owned, storeVars, queueVars
    <3>6. QED
      BY <3>1, <3>2, <3>3, <3>4, <3>5 DEF storeVars, queueVars, fileVars, Owned
  <2>2. CASE ~(LaunchSpawn /\ w = newRun) /\ ~WorkerNext(w)
    <3> DEFINE q == work[w]
    <3>1. /\ work'[w] = q /\ proc[w] # "none"
          /\ proc'[w] \in {"boot", "key", "row"} => proc[w] \in {"boot", "key", "row"}
          /\ left'[w] = left[w] \/ \E k \in Keys : WorkerRow(w, k)
      BY <1>2, <2>2, WorkStep
    <3>2. /\ q \in Runs /\ q # NoRun /\ left[w] = batch[q] \ summary[q]
          /\ \A v \in Runs : v # w => work[v] # q
          /\ proc[w] \in {"boot", "key", "row"} => Owned(q, left[w])
          /\ runStatus[q] # "absent" /\ ~Unstarted(q)
      BY <1>0, <3>1 DEF Accounts, TypeOK, FreshRuns
    <3>3. batch'[q] = batch[q] /\ summary \in [Runs -> SUBSET Keys] /\ left \in [Runs -> SUBSET Keys]
      BY <1>0, <3>2, RunStep DEF TypeOK, StoreTypeOK
    <3>4. left'[w] = batch'[q] \ summary'[q] /\ left'[w] \subseteq left[w]
      <4>1. CASE \E k \in Keys : WorkerRow(w, k)
        BY <3>2, <3>3, <4>1 DEF WorkerRow
      <4>2. ASSUME NEW v \in Runs \ {w}, NEW k \in Keys, WorkerRow(v, k)
            PROVE  summary'[q] = summary[q]
        <5>1. work[v] # q
          BY <3>2, <4>2
        <5>2. QED
          BY <3>2, <3>3, <4>2, <5>1 DEF WorkerRow
      <4>3. CASE \A k \in Keys : ~WorkerRow(w, k)
        <5>1. summary'[q] = summary[q]
          BY <4>2, <4>3, QueueSteps
        <5>2. QED
          BY <3>1, <3>2, <3>3, <4>3, <5>1
      <4>4. QED
        BY <4>1, <4>3
    <3>5. ASSUME NEW v \in Runs, v # w PROVE work'[v] # q
      <4>1. CASE (LaunchSpawn /\ v = newRun) \/ WorkerNext(v)
        <5>1. PICK p \in Runs : Unstarted(p) /\ work' = [work EXCEPT ![v] = p]
          BY <4>1, TakesUp
        <5>2. QED
          BY <1>0, <3>2, <5>1 DEF TypeOK
      <4>2. CASE ~((LaunchSpawn /\ v = newRun) \/ WorkerNext(v))
        BY <3>2, <3>5, <4>2, WorkStep
      <4>3. QED
        BY <4>1, <4>2
    <3>6. ASSUME proc'[w] \in {"boot", "key", "row"} PROVE Owned(q, left[w])'
      <4>1. \A d \in Devices : GetDone(d) => current[d] # q
        BY <3>1, <3>2, <3>6, AnswerTaken DEF GetDone
      <4>2. \A k \in left[w] : lease'[k] = q \/ runStatus'[q] = "reset"
        BY <3>1, <3>2, <3>3, <3>6, <4>1, RunStep DEF Owned
      <4>3. QED
        BY <3>1, <3>4, <4>2 DEF Owned
    <3>7. QED
      BY <3>1, <3>2, <3>4, <3>5, <3>6 DEF Owned
  <2>3. QED
    BY <2>1, <2>2
<1>3. QED
  BY <1>1, <1>2 DEF Accounts

LEMMA DoneThenExit == Append(<<"done">>, "exit") = <<"done", "exit">>
<1> DEFINE s == Append(<<"done">>, "exit")
           t == <<"done", "exit">>
<1>1. s \in Seq({"done", "exit"}) /\ Len(s) = 2 /\ s[1] = "done" /\ s[2] = "exit"
  OBVIOUS
<1>2. t \in Seq({"done", "exit"}) /\ Len(t) = 2 /\ t[1] = "done" /\ t[2] = "exit"
  OBVIOUS
<1> HIDE DEF s, t
<1>3. \A i \in 1 .. Len(s) : s[i] = t[i]
  BY <1>1, <1>2
<1>4. s = t
  BY <1>1, <1>2, <1>3, SeqEqual
<1>5. QED
  BY <1>4 DEF s, t

(* What a worker does keeps to the conversation its supervisor expects.    *)
LEMMA WorkerConverses ==
  ASSUME IInv, NEW r \in Runs, WorkerStep(r) \/ WorkerFail(r) \/ VerifierStep(r),
         NEW w \in Runs, Attached(w), NEW c \in Runs, NEW told \in BOOLEAN
  PROVE  /\ Conversing(w, c, told) => Conversing(w, c, told)'
         /\ Answered(w) => Answered(w)' /\ work'[w] = work[w]
<1> USE DEF storeVars, fileVars, procVars
<1>0. /\ proc \in [Runs -> {"none", "gone"} \cup Live]
      /\ work \in [Runs -> Runs \cup {NoRun}] /\ left \in [Runs -> SUBSET Keys]
      /\ stdin \in [Runs -> Seq(Runs \cup {Stop})]
      /\ events \in [Runs -> Seq({"done", "exit"})]
  BY DEF IInv, TypeOK
<1>1. CASE VerifierStep(r)
  BY <1>1 DEF VerifierStep, Conversing, Answered
<1>2. CASE r # w
  <2>1. /\ proc'[w] = proc[w] /\ work'[w] = work[w] /\ left'[w] = left[w]
        /\ stdin'[w] = stdin[w] /\ events'[w] = events[w] /\ UNCHANGED stopFile
    BY <1>0, <1>1, <1>2 DEF WorkerStep, WorkerBoot, WorkerDone, WorkerNext, WorkerStop,
       WorkerScreen, WorkerRow, WorkerFail, Emit, VerifierStep
  <2>2. QED
    BY <2>1 DEF Conversing, Answered
<1>3. CASE r = w /\ (WorkerBoot(w) \/ \E k \in Keys : WorkerScreen(w, k) \/ WorkerRow(w, k))
  <2>1. /\ proc[w] \in {"boot", "key", "row"} /\ proc'[w] \in {"boot", "key", "row"}
        /\ UNCHANGED <<work, stdin, events>>
    BY <1>0, <1>3 DEF WorkerBoot, WorkerScreen, WorkerRow
  <2>2. QED
    BY <2>1 DEF Conversing, Answered
<1>4. CASE r = w /\ WorkerDone(w)
  <2>1. /\ proc[w] = "key" /\ proc'[w] = "wait" /\ UNCHANGED <<work, left, stdin, stopFile>>
        /\ events'[w] = Append(events[w], "done") /\ (left[w] = {} \/ stopFile[w])
    BY <1>0, <1>4 DEF WorkerDone, Emit, StopAtBoundary
  <2>2. Append(<<>>, "done") = <<"done">>
    OBVIOUS
  <2>3. QED
    BY <2>1, <2>2 DEF Conversing, Answered
<1>5. CASE r = w /\ WorkerNext(w)
  <2>1. PICK q \in Runs : /\ stdin[w] = <<q>> /\ work'[w] = q /\ stdin'[w] = <<>>
                          /\ proc[w] = "wait" /\ proc'[w] = "key" /\ UNCHANGED events
    <3>1. PICK q \in Runs \cup {Stop} : stdin[w] = <<q>>
      BY <1>5 DEF WorkerNext, IInv, Conversation
    <3>2. Head(<<q>>) = q /\ Tail(<<q>>) = <<>>
      OBVIOUS
    <3>3. QED
      BY <1>0, <1>5, <3>1, <3>2 DEF WorkerNext
  <2>2. <<q>> # <<>> /\ <<q>> # <<Stop>> /\ (<<q>> = <<c>> => q = c)
    BY StopIsNoRun
  <2>3. QED
    BY <2>1, <2>2 DEF Conversing, Answered
<1>6. CASE r = w /\ (WorkerStop(w) \/ WorkerFail(w))
  <2>1. /\ proc'[w] = "gone" /\ UNCHANGED <<work, left, stdin, stopFile>> /\ proc[w] \in Live
        /\ events'[w] = Append(events[w], "exit")
        /\ WorkerStop(w) => stdin[w] # <<>> /\ Head(stdin[w]) = Stop
    BY <1>0, <1>6 DEF WorkerStop, WorkerFail, Emit, Live
  <2>2. Append(<<>>, "exit") = <<"exit">> /\ Append(<<"done">>, "exit") = <<"done", "exit">>
    BY DoneThenExit
  <2>3. ASSUME Answered(w) PROVE Answered(w)' /\ work'[w] = work[w]
    <3>1. events[w] = <<>>
      BY <2>1, <2>3 DEF Answered, Live
    <3>2. events'[w] = <<"exit">> /\ work'[w] = work[w]
      BY <2>1, <2>2, <3>1
    <3>3. QED
      BY <2>1, <3>2 DEF Answered
  <2>4. ASSUME Conversing(w, c, told) PROVE Conversing(w, c, told)'
    <3>1. \/ events[w] = <<>>
          \/ events[w] = <<"done">> /\ ~told /\ work[w] = c /\ (left[w] = {} \/ stopFile[w])
      BY <2>1, <2>4 DEF Conversing, Live
    <3>2. \/ events'[w] = <<"exit">>
          \/ /\ events'[w] = <<"done", "exit">> /\ ~told /\ work'[w] = c
             /\ left'[w] = {} \/ stopFile'[w]
      BY <2>1, <2>2, <3>1
    <3>3. QED
      BY <2>1, <3>2 DEF Conversing
  <2>5. QED
    BY <2>3, <2>4
<1>7. QED
  BY <1>1, <1>2, <1>3, <1>4, <1>5, <1>6 DEF WorkerStep

LEMMA ConversationStep ==
  ASSUME IInv, [Next]_vars
  PROVE  Conversation'
<1> USE DEF Handling, procVars, localVars, storeVars, fileVars
<1>0. /\ TypeOK /\ Places /\ FreshRuns /\ Accounts /\ Heard
      /\ \A w \in Runs : stdin[w] = <<>> \/ \E line \in Runs \cup {Stop} : stdin[w] = <<line>>
  BY DEF IInv, Conversation
<1>1. ASSUME NEW w \in Runs
      PROVE  stdin'[w] = <<>> \/ \E line \in Runs \cup {Stop} : stdin'[w] = <<line>>
  <2>1. NextFeed /\ pc' = "top" => current[focus] \in Runs
    BY <1>0 DEF NextFeed, Places, TypeOK
  <2>2. QED
    BY <1>0, <2>1, LineStep
(* Nothing in the conversation changes but, perhaps, that a stop file is written. *)
<1>2. ASSUME UNCHANGED <<procVars, daemon, current, drained>>,
             \A r \in Runs : stopFile[r] => stopFile'[r],
             \/ pc' = pc /\ focus' = focus /\ newRun' = newRun
             \/ pc \notin Handling \cup {"register"} /\ pc' \notin Handling \cup {"register"}
             \/ pc \in {"done", "next"} /\ pc' \in {"done", "next", "leased"} /\ focus' = focus
      PROVE  Heard'
  <2>1. ASSUME NEW d \in Devices, daemon'[d] # NoRun PROVE Held(d)'
    <3>1. daemon[d] \in Runs /\ Held(d)
      BY <1>0, <1>2, <2>1 DEF TypeOK, Heard
    <3>2. QED
      BY <1>2, <3>1 DEF Held, Conversing, Answered
  <2>2. ASSUME pc' = "register" PROVE Conversing(newRun, newRun, FALSE)'
    <3>1. newRun \in Runs /\ Conversing(newRun, newRun, FALSE)
      BY <1>0, <1>2, <2>2 DEF TypeOK, Places, Heard
    <3>2. QED
      BY <1>2, <2>2, <3>1 DEF Conversing
  <2>3. QED
    BY <2>1, <2>2 DEF Heard
<1>3. ASSUME Leave("exited") \/ Leave("dead") PROVE Heard'
  BY <1>3 DEF Leave, Heard
<1>4. ASSUME CommandStep \/ UNCHANGED vars PROVE Heard'
  <2>1. CASE KillSupervisor
    BY <1>3, <2>1 DEF KillSupervisor
  <2>2. CASE StartRun
    BY <1>2, <2>2 DEF StartRun
  <2>3. CASE ~KillSupervisor /\ ~StartRun
    <3>1. UNCHANGED <<procVars, daemon, current, drained, stopFile, pc, focus, newRun>>
      BY <1>4, <2>3 DEF vars, CommandStep, CommandInit, CommandRequestStop, CommandClearStop,
         CommandResetRunning, DeadlinePasses
    <3>2. QED
      BY <1>2, <3>1
  <2>4. QED
    BY <2>1, <2>2, <2>3
<1>5. ASSUME NEW r \in Runs, WorkerStep(r) \/ WorkerFail(r) \/ VerifierStep(r) PROVE Heard'
  <2>1. UNCHANGED <<pc, localVars>>
    BY <1>5 DEF WorkerStep, WorkerBoot, WorkerDone, WorkerNext, WorkerStop, WorkerScreen,
                WorkerRow, WorkerFail, VerifierStep
  <2>2. ASSUME NEW d \in Devices, daemon'[d] # NoRun PROVE Held(d)'
    <3>1. daemon[d] \in Runs /\ current[d] \in Runs /\ drained[d] \in BOOLEAN /\ Held(d)
      BY <1>0, <2>1, <2>2 DEF TypeOK, Places, Heard
    <3>2. Attached(daemon[d])
      BY DEF Attached
    <3>3. /\ Conversing(daemon[d], current[d], drained[d]) =>
               \E w \in Runs, c \in Runs, told \in BOOLEAN :
                 w = daemon[d] /\ c = current[d] /\ told = drained[d] /\ Conversing(w, c, told)'
          /\ Answered(daemon[d]) =>
               /\ \E w \in Runs : w = daemon[d] /\ Answered(w)'
               /\ work'[daemon[d]] = work[daemon[d]]
      BY <1>5, <3>1, <3>2, WorkerConverses
    <3>4. QED
      BY <2>1, <3>1, <3>3 DEF Held, Conversing, Answered
  <2>3. ASSUME pc' = "register" PROVE Conversing(newRun, newRun, FALSE)'
    <3>1. newRun \in Runs /\ Conversing(newRun, newRun, FALSE) /\ Attached(newRun)
      BY <1>0, <2>1, <2>3 DEF TypeOK, Places, Attached, Heard
    <3>2. \E w \in Runs : w = newRun /\ Conversing(w, w, FALSE)'
      BY <1>5, <3>1, WorkerConverses
    <3>3. QED
      BY <2>1, <3>2 DEF Conversing
  <2>4. QED
    BY <2>2, <2>3 DEF Heard
<1>6. ASSUME \/ LaunchDone \/ LoopTop \/ GetNothing \/ DoneVerify \/ NextLease \/ LoopTend
             \/ \E r \in Runs : Harvest(r)
             \/ \E d \in Devices : LaunchLease(d)
      PROVE  Heard'
  <2>1. CASE LoopTop
    <3>1. \A r \in Runs : stopFile[r] => stopFile'[r]
      BY <2>1 DEF LoopTop
    <3>2. QED
      BY <1>2, <2>1, <3>1 DEF LoopTop
  <2>2. CASE LaunchDone \/ GetNothing
    BY <1>2, <2>2 DEF LaunchDone, GetNothing
  <2>3. CASE DoneVerify
    BY <1>2, <2>3 DEF DoneVerify
  <2>4. CASE NextLease
    BY <1>2, <2>4 DEF NextLease
  <2>5. CASE LoopTend
    BY <1>2, <1>3, <2>5 DEF LoopTend
  <2>6. ASSUME NEW r \in Runs, Harvest(r) PROVE Heard'
    BY <1>2, <2>6 DEF Harvest
  <2>7. ASSUME NEW d \in Devices, LaunchLease(d) PROVE Heard'
    BY <1>2, <2>7 DEF LaunchLease
  <2>8. QED
    BY <1>6, <2>1, <2>2, <2>3, <2>4, <2>5, <2>6, <2>7
(* Nothing changes between the supervisor and the worker of device e. *)
<1> DEFINE Apart(e) ==
      /\ daemon'[e] = daemon[e] /\ current'[e] = current[e] /\ drained'[e] = drained[e]
      /\ proc'[daemon[e]] = proc[daemon[e]] /\ work'[daemon[e]] = work[daemon[e]]
      /\ left'[daemon[e]] = left[daemon[e]] /\ UNCHANGED stopFile
      /\ stdin'[daemon[e]] = stdin[daemon[e]] /\ events'[daemon[e]] = events[daemon[e]]
      /\ ~(pc \in Handling /\ focus = e) /\ ~(pc' \in Handling /\ focus' = e)
<1>7. ASSUME NEW e \in Devices, daemon'[e] # NoRun, Apart(e) PROVE Held(e)'
  <2>1. Conversing(daemon[e], current[e], drained[e])
    BY <1>0, <1>7 DEF Heard, Held
  <2>2. Conversing(daemon[e], current[e], drained[e])'
    BY <1>7, <2>1 DEF Conversing
  <2>3. QED
    BY <1>7, <2>2 DEF Held
<1>8. ASSUME NEW d \in Devices, LaunchNothing(d) PROVE Heard'
  <2>1. daemon[d] = NoRun /\ pc = "start" /\ pc' = "start" /\ UNCHANGED daemon
    BY <1>0, <1>8 DEF LaunchNothing, Places
  <2>2. ASSUME NEW e \in Devices, daemon'[e] # NoRun PROVE Apart(e)
    BY <1>0, <1>8, <2>1, <2>2 DEF LaunchNothing, TypeOK
  <2>3. QED
    BY <1>7, <2>1, <2>2 DEF Heard
<1>9. ASSUME LaunchSpawn PROVE Heard'
  <2>1. newRun \in Runs /\ proc[newRun] = "none"
    BY <1>0, <1>9 DEF LaunchSpawn, TypeOK, Places, FreshRuns, Unstarted
  <2>2. stdin[newRun] = <<>> /\ events[newRun] = <<>>
    BY <1>0, <2>1 DEF Accounts
  <2>3. Conversing(newRun, newRun, FALSE)'
    BY <1>0, <1>9, <2>1, <2>2 DEF LaunchSpawn, Conversing, TypeOK
  <2>4. ASSUME NEW e \in Devices, daemon'[e] # NoRun PROVE Apart(e)
    <3>1. daemon[e] # newRun
      BY <1>0, <1>9, <2>1, NoRunAssumption DEF Places
    <3>2. QED
      BY <1>0, <1>9, <2>1, <3>1 DEF LaunchSpawn, TypeOK
  <2>5. QED
    BY <1>7, <1>9, <2>3, <2>4 DEF Heard, LaunchSpawn
<1>10. ASSUME LaunchRegister PROVE Heard'
  <2>1. /\ newRun \in Runs /\ focus \in Devices /\ ~drained[focus]
        /\ Conversing(newRun, newRun, FALSE)
    BY <1>0, <1>10 DEF LaunchRegister, TypeOK, Places, Heard
  <2>2. /\ daemon' = [daemon EXCEPT ![focus] = newRun] /\ current' = [current EXCEPT ![focus] = newRun]
        /\ pc = "register" /\ pc' = "start" /\ UNCHANGED <<drained, stopFile, procVars>>
    BY <1>10 DEF LaunchRegister
  <2>3. ASSUME NEW d \in Devices, d = focus PROVE Held(d)'
    <3>1. daemon'[d] = newRun /\ current'[d] = newRun /\ drained'[d] = FALSE
      BY <1>0, <2>1, <2>2, <2>3 DEF TypeOK
    <3>2. Conversing(daemon[d], current[d], drained[d])'
      BY <2>1, <2>2, <3>1 DEF Conversing
    <3>3. QED
      BY <2>2, <3>2 DEF Held
  <2>4. ASSUME NEW e \in Devices, daemon'[e] # NoRun, e # focus PROVE Apart(e)
    BY <1>0, <2>1, <2>2, <2>4 DEF TypeOK
  <2>5. QED
    BY <1>7, <2>2, <2>3, <2>4 DEF Heard
<1>11. ASSUME NEW d \in Devices, GetDone(d) \/ GetExit(d) PROVE Heard'
  <2>1. /\ pc = "get" /\ daemon[d] \in Runs /\ pc' \in {"done", "top"}
        /\ events' = [events EXCEPT ![daemon[d]] = Tail(@)]
        /\ UNCHANGED <<drained, current, proc, work, left, stdin, stopFile>>
        /\ daemon' = IF GetDone(d) THEN daemon ELSE [daemon EXCEPT ![d] = NoRun]
        /\ IF GetDone(d) THEN pc' = "done" /\ focus' = d ELSE pc' = "top"
    BY <1>0, <1>11 DEF GetDone, GetExit, GetEvent, TypeOK
  <2>2. ASSUME NEW e \in Devices, daemon'[e] # NoRun, e # d PROVE Apart(e)
    <3>1. daemon[e] # daemon[d] /\ daemon'[e] = daemon[e]
      BY <1>0, <2>1, <2>2 DEF Places, TypeOK
    <3>2. events'[daemon[e]] = events[daemon[e]]
      BY <1>0, <2>1, <2>2, <3>1 DEF TypeOK
    <3>3. QED
      BY <2>1, <2>2, <3>1, <3>2
  <2>3. ASSUME daemon'[d] # NoRun PROVE Held(d)'
    <3>1. GetDone(d)
      BY <1>0, <2>1, <2>3 DEF TypeOK
    <3>2. Answered(daemon[d])' /\ work'[daemon[d]] = current[d]
      BY <2>1, <3>1, AnswerTaken DEF GetDone, Answered
    <3>3. QED
      BY <2>1, <3>1, <3>2 DEF Held
  <2>4. QED
    BY <1>7, <2>1, <2>2, <2>3 DEF Heard
<1>12. ASSUME NextStop PROVE Heard'
  <2>1. /\ pc = "next" /\ pc' = "top" /\ focus \in Devices /\ daemon[focus] \in Runs
        /\ drained' = [drained EXCEPT ![focus] = TRUE] /\ Send(daemon[focus], Stop)
        /\ UNCHANGED <<daemon, current, proc, work, left, events, stopFile>>
    BY <1>0, <1>12 DEF NextStop, TypeOK, Places
  <2>2. ASSUME NEW d \in Devices, d = focus PROVE Held(d)'
    <3>1. Answered(daemon[d])
      BY <1>0, <2>1, <2>2 DEF Heard, Held, TypeOK, Places
    <3>2. drained'[d] = TRUE
      BY <1>0, <2>1, <2>2 DEF TypeOK
    <3>3. Append(<<>>, Stop) = <<Stop>>
      OBVIOUS
    <3>4. proc[daemon[d]] = "wait" => stdin'[daemon[d]] = <<Stop>>
      BY <1>0, <2>1, <2>2, <3>1, <3>3 DEF Send, Answered, TypeOK
    <3>5. Conversing(daemon[d], current[d], drained[d])'
      BY <2>1, <3>1, <3>2, <3>4 DEF Conversing, Answered
    <3>6. QED
      BY <2>1, <3>5 DEF Held
  <2>3. ASSUME NEW e \in Devices, daemon'[e] # NoRun, e # focus PROVE Apart(e)
    <3>1. daemon[e] # daemon[focus]
      BY <1>0, <2>1, <2>3 DEF Places
    <3>2. stdin'[daemon[e]] = stdin[daemon[e]]
      BY <1>0, <2>1, <2>3, <3>1 DEF TypeOK, Send
    <3>3. QED
      BY <1>0, <2>1, <2>3, <3>1, <3>2 DEF TypeOK
  <2>4. QED
    BY <1>7, <2>1, <2>2, <2>3 DEF Heard
<1>13. ASSUME NextMark PROVE Heard'
  <2>1. /\ pc = "leased" /\ pc' = "feed" /\ focus \in Devices /\ focus' = focus
        /\ current' = [current EXCEPT ![focus] = newRun]
        /\ UNCHANGED <<daemon, drained, procVars, stopFile>>
    BY <1>0, <1>13 DEF NextMark, Places
  <2>2. ASSUME NEW d \in Devices, d = focus, daemon[d] # NoRun PROVE Held(d)'
    <3>1. Answered(daemon[d])
      BY <1>0, <2>1, <2>2 DEF Heard, Held
    <3>2. Answered(daemon[d])'
      BY <2>1, <3>1 DEF Answered
    <3>3. QED
      BY <2>1, <2>2, <3>2 DEF Held
  <2>3. ASSUME NEW e \in Devices, daemon'[e] # NoRun, e # focus PROVE Apart(e)
    BY <1>0, <2>1, <2>3 DEF TypeOK
  <2>4. QED
    BY <1>7, <2>1, <2>2, <2>3 DEF Heard
<1>14. ASSUME NextFeed PROVE Heard'
  <2>1. /\ pc = "feed" /\ focus \in Devices /\ daemon[focus] \in Runs /\ ~drained[focus]
        /\ Answered(daemon[focus])
    BY <1>0, <1>14 DEF NextFeed, TypeOK, Places, Heard, Held
  <2>2. ASSUME proc[daemon[focus]] = "gone" PROVE Heard'
    BY <1>3, <1>14, <2>2 DEF NextFeed
  <2>3. ASSUME proc[daemon[focus]] # "gone" PROVE Heard'
    <3>1. /\ pc' = "top" /\ Send(daemon[focus], current[focus])
          /\ UNCHANGED <<daemon, current, drained, proc, work, left, events, stopFile>>
      BY <1>14, <2>3 DEF NextFeed
    <3>2. Append(<<>>, current[focus]) = <<current[focus]>>
      OBVIOUS
    <3>3. stdin'[daemon[focus]] = <<current[focus]>>
      BY <1>0, <2>1, <2>3, <3>1, <3>2 DEF Send, Answered, TypeOK
    <3>4. ASSUME NEW d \in Devices, d = focus PROVE Held(d)'
      <4>1. Conversing(daemon[d], current[d], drained[d])'
        BY <2>1, <2>3, <3>1, <3>3, <3>4 DEF Conversing, Answered
      <4>2. QED
        BY <3>1, <4>1 DEF Held
    <3>5. ASSUME NEW e \in Devices, daemon'[e] # NoRun, e # focus PROVE Apart(e)
      <4>1. daemon[e] # daemon[focus]
        BY <1>0, <2>1, <3>1, <3>5 DEF Places
      <4>2. stdin'[daemon[e]] = stdin[daemon[e]]
        BY <1>0, <2>1, <3>1, <3>5, <4>1 DEF TypeOK, Send
      <4>3. QED
        BY <2>1, <3>1, <3>5, <4>2
    <3>6. QED
      BY <1>7, <2>1, <3>1, <3>4, <3>5 DEF Heard
  <2>4. QED
    BY <2>2, <2>3
<1>15. Heard'
  BY <1>4, <1>5, <1>6, <1>7, <1>8, <1>9, <1>10, <1>11, <1>12, <1>13, <1>14
     DEF Next, CommandStep, SupervisorStep
<1>16. QED
  BY <1>1, <1>15 DEF Conversation

LEMMA PauseOrderStep ==
  ASSUME IInv, [Next]_vars
  PROVE  PauseOrder'
<1> USE DEF Handling, Idle, procVars, localVars, storeVars, fileVars
<1>0. TypeOK /\ Places /\ PauseOrder
  BY DEF IInv
<1>1. ASSUME Leave("exited") \/ Leave("dead") PROVE PauseOrder'
  BY <1>1 DEF Leave, PauseOrder
<1>2. ASSUME UNCHANGED <<pc, stopSeen, signalled, timeUp, daemon, drained, stopMeta, stopFile>>
      PROVE  PauseOrder'
  BY <1>0, <1>2 DEF PauseOrder
<1>3. ASSUME CommandStep \/ UNCHANGED vars PROVE PauseOrder'
  <2>1. CASE CommandInit \/ CommandResetRunning \/ UNCHANGED vars
    BY <1>2, <2>1 DEF CommandInit, CommandResetRunning, vars
  <2>2. CASE StartRun
    BY <1>0, <2>2 DEF StartRun, PauseOrder
  <2>3. CASE CommandRequestStop \/ DeadlinePasses
    BY <1>0, <2>3 DEF CommandRequestStop, DeadlinePasses, PauseOrder
  <2>4. CASE CommandClearStop
    BY <1>0, <2>4 DEF CommandClearStop, PauseOrder
  <2>5. CASE KillSupervisor
    BY <1>1, <2>5 DEF KillSupervisor
  <2>6. QED
    BY <1>3, <2>1, <2>2, <2>3, <2>4, <2>5 DEF CommandStep
<1>4. ASSUME NEW r \in Runs, WorkerStep(r) \/ WorkerFail(r) \/ VerifierStep(r) PROVE PauseOrder'
  BY <1>2, <1>4 DEF WorkerStep, WorkerBoot, WorkerDone, WorkerNext, WorkerStop, WorkerScreen,
                    WorkerRow, WorkerFail, VerifierStep
<1>5. ASSUME LoopTop PROVE PauseOrder'
  <2> DEFINE stop == stopMeta \/ timeUp
  <2>1. /\ pc = "top" /\ pc' = "tend" /\ stopSeen' = stop /\ signalled' = (signalled \/ stop)
        /\ \A r \in Runs : stopFile'[r] <=> stopFile[r] \/ (stop /\ ~signalled /\ r \in Watched)
        /\ UNCHANGED <<daemon, drained, stopMeta, timeUp>>
    BY <1>0, <1>5 DEF LoopTop, TypeOK, StoreTypeOK
  <2>2. \A d \in Devices : daemon[d] # NoRun /\ ~drained[d] => daemon[d] \in Watched \cap Runs
    BY <1>0 DEF Watched, TypeOK
  <2>3. QED
    BY <1>0, <2>1, <2>2 DEF PauseOrder
<1>6. ASSUME NEW d \in Devices, LaunchLease(d) \/ LaunchNothing(d) \/ GetDone(d) \/ GetExit(d)
      PROVE  PauseOrder'
  <2>1. CASE LaunchLease(d) \/ LaunchNothing(d)
    BY <1>0, <2>1 DEF LaunchLease, LaunchNothing, PauseOrder
  <2>2. CASE GetDone(d)
    BY <1>0, <2>2 DEF GetDone, GetEvent, PauseOrder
  <2>3. CASE GetExit(d)
    <3>1. \A e \in Devices : daemon'[e] # NoRun => daemon'[e] = daemon[e]
      BY <1>0, <2>3 DEF GetExit, TypeOK
    <3>2. QED
      BY <1>0, <2>3, <3>1 DEF GetExit, GetEvent, PauseOrder
  <2>4. QED
    BY <1>6, <2>1, <2>2, <2>3
<1>7. ASSUME LaunchSpawn \/ LaunchRegister \/ LaunchDone PROVE PauseOrder'
  BY <1>0, <1>7 DEF LaunchSpawn, LaunchRegister, LaunchDone, PauseOrder
<1>8. ASSUME LoopTend \/ GetNothing \/ \E r \in Runs : Harvest(r) PROVE PauseOrder'
  BY <1>0, <1>1, <1>8 DEF LoopTend, GetNothing, Harvest, PauseOrder
<1>9. ASSUME DoneVerify \/ NextLease \/ NextMark PROVE PauseOrder'
  BY <1>0, <1>9 DEF DoneVerify, NextLease, NextMark, PauseOrder
<1>10. ASSUME NextStop PROVE PauseOrder'
  <2>1. \A e \in Devices : ~drained'[e] => ~drained[e]
    BY <1>0, <1>10 DEF NextStop, TypeOK, Places
  <2>2. QED
    BY <1>0, <1>10, <2>1 DEF NextStop, PauseOrder
<1>11. ASSUME NextFeed PROVE PauseOrder'
  <2>1. CASE Leave("dead")
    BY <1>1, <2>1
  <2>2. CASE ~Leave("dead")
    BY <1>0, <1>11, <2>2 DEF NextFeed, PauseOrder
  <2>3. QED
    BY <2>1, <2>2
<1>12. QED
  BY <1>3, <1>4, <1>5, <1>6, <1>7, <1>8, <1>9, <1>10, <1>11 DEF Next, CommandStep, SupervisorStep

LEMMA LeaseIsHeldStep ==
  ASSUME IInv, [Next]_vars
  PROVE  LeaseIsHeld'
<1> USE DEF Handling, Idle, procVars, localVars, storeVars, fileVars, queueVars
<1>0. /\ TypeOK /\ Places /\ LeaseIsHeld /\ LeaseAgrees
      /\ lease \in [Keys -> Runs \cup {NoRun}] /\ QueueTypeOK
  BY DEF IInv, TypeOK, StoreTypeOK, QueueTypeOK
<1>2. ASSUME UNCHANGED <<pc, lease, newRun, current, daemon, drained, lost, focus>>
      PROVE  LeaseIsHeld'
  BY <1>0, <1>2 DEF LeaseIsHeld
<1>3. ASSUME CommandStep \/ UNCHANGED vars PROVE LeaseIsHeld'
  <2>1. CASE StartRun
    BY <1>0, <2>1 DEF StartRun, LeaseIsHeld
  <2>2. CASE CommandResetRunning
    <3>1. \A k \in Keys : lease'[k] \in {lease[k], NoRun}
      BY <1>0, <2>2 DEF CommandResetRunning, ResetRunning
    <3>2. QED
      BY <1>0, <2>2, <3>1 DEF CommandResetRunning, LeaseIsHeld
  <2>3. CASE KillSupervisor
    BY <2>3 DEF KillSupervisor, Leave, LeaseIsHeld
  <2>4. CASE CommandInit \/ CommandRequestStop \/ CommandClearStop \/ DeadlinePasses \/ UNCHANGED vars
    BY <1>2, <2>4 DEF CommandInit, ImportKeys, CommandRequestStop, CommandClearStop,
                      DeadlinePasses, vars
  <2>5. QED
    BY <1>3, <2>1, <2>2, <2>3, <2>4 DEF CommandStep
<1>4. ASSUME NEW r \in Runs, WorkerStep(r) \/ WorkerFail(r) \/ VerifierStep(r) PROVE LeaseIsHeld'
  BY <1>2, <1>4 DEF WorkerStep, WorkerBoot, WorkerDone, WorkerNext, WorkerStop, WorkerScreen,
                    WorkerRow, WorkerFail, VerifierStep
<1>5. ASSUME NEW d \in Devices, LaunchLease(d) PROVE LeaseIsHeld'
  <2>1. PICK r \in Runs : LeaseBatch(r, d) /\ newRun' = r /\ newRun = NoRun
    BY <1>0, <1>5 DEF LaunchLease, Places
  <2>2. \A k \in Keys : lease'[k] \in {lease[k], r}
    BY <1>0, <2>1, LeaseBatchEffect
  <2>3. QED
    BY <1>0, <1>5, <2>1, <2>2 DEF LaunchLease, LeaseIsHeld
<1>6. ASSUME NEW d \in Devices, LaunchNothing(d) PROVE LeaseIsHeld'
  <2>1. daemon[d] = NoRun /\ \A e \in Devices \ {d} : drained'[e] = drained[e]
    BY <1>0, <1>6 DEF LaunchNothing, Places, TypeOK
  <2>2. QED
    BY <1>0, <1>6, <2>1 DEF LaunchNothing, LeaseIsHeld
<1>7. ASSUME LaunchSpawn \/ LaunchDone \/ LoopTop \/ GetNothing \/ DoneVerify
               \/ \E r \in Runs : Harvest(r)
      PROVE  LeaseIsHeld'
  BY <1>0, <1>7 DEF LaunchSpawn, LaunchDone, LoopTop, GetNothing, DoneVerify, Harvest, LeaseIsHeld
<1>8. ASSUME LaunchRegister \/ NextMark PROVE LeaseIsHeld'
  <2>1. /\ newRun \in Runs /\ newRun # NoRun /\ focus \in Devices /\ ~drained[focus]
        /\ current' = [current EXCEPT ![focus] = newRun]
        /\ daemon'[focus] # NoRun /\ \A d \in Devices \ {focus} : daemon'[d] = daemon[d]
        /\ UNCHANGED <<lease, drained, lost>> /\ pc' \in {"start", "feed"}
        /\ pc = "register" => daemon[focus] = NoRun
        /\ pc \in {"register", "leased"}
    BY <1>0, <1>8 DEF LaunchRegister, NextMark, MarkRunning, Places, TypeOK
  <2>2. ASSUME NEW k \in Keys, lease[k] # NoRun, lost = {}
        PROVE  \E d \in Devices : daemon'[d] # NoRun /\ ~drained'[d] /\ current'[d] = lease[k]
    <3>1. CASE newRun = lease[k]
      BY <1>0, <2>1, <3>1 DEF TypeOK
    <3>2. CASE newRun # lease[k]
      <4>1. PICK d \in Devices : daemon[d] # NoRun /\ ~drained[d] /\ current[d] = lease[k]
        BY <1>0, <2>1, <2>2, <3>2 DEF LeaseIsHeld
      <4>2. d # focus
        BY <1>0, <2>1, <4>1 DEF LeaseIsHeld
      <4>3. QED
        BY <1>0, <2>1, <4>1, <4>2 DEF TypeOK
    <3>3. QED
      BY <3>1, <3>2
  <2>3. QED
    BY <2>1, <2>2 DEF LeaseIsHeld
<1>9. ASSUME LoopTend PROVE LeaseIsHeld'
  <2>1. newRun = NoRun /\ UNCHANGED lease
    BY <1>0, <1>9 DEF LoopTend, Places
  <2>2. CASE \A d \in Devices : daemon[d] = NoRun
    BY <1>0, <1>9, <2>1, <2>2 DEF LoopTend, Leave, LeaseIsHeld
  <2>3. CASE ~\A d \in Devices : daemon[d] = NoRun
    BY <1>0, <1>9, <2>1, <2>3 DEF LoopTend, LeaseIsHeld
  <2>4. QED
    BY <2>2, <2>3
<1>10. ASSUME NEW d \in Devices, GetDone(d) PROVE LeaseIsHeld'
  <2>1. /\ current[d] \in Runs /\ newRun = NoRun /\ UNCHANGED <<newRun, daemon, current, drained, lost>>
        /\ focus' = d /\ pc = "get" /\ pc' = "done"
    BY <1>10, AnswerTaken DEF GetDone, GetEvent
  <2>2. FinalIngest(current[d])
    BY <1>10 DEF GetDone, FinalIngest
  <2>3. lease' = [k \in Keys |-> IF lease[k] = current[d] THEN NoRun ELSE lease[k]]
    BY <1>0, <2>1, <2>2, FinalIngestEffect
  <2>4. \A k \in Keys : lease'[k] # current[d] /\ lease'[k] \in {lease[k], NoRun}
    BY <2>1, <2>3, NoRunAssumption
  <2>5. QED
    BY <1>0, <2>1, <2>4 DEF LeaseIsHeld
<1>11. ASSUME NEW d \in Devices, GetExit(d) PROVE LeaseIsHeld'
  <2>1. /\ daemon' = [daemon EXCEPT ![d] = NoRun] /\ (drained[d] \/ lost' # {})
        /\ lost' = {} => lost = {}
        /\ UNCHANGED <<lease, newRun, current, drained>> /\ pc = "get" /\ pc' = "top"
    BY <1>11 DEF GetExit, GetEvent
  <2>2. QED
    BY <1>0, <2>1 DEF LeaseIsHeld, TypeOK
<1>12. ASSUME NextStop PROVE LeaseIsHeld'
  <2>1. /\ focus \in Devices /\ drained' = [drained EXCEPT ![focus] = TRUE] /\ pc = "next" /\ pc' = "top"
        /\ UNCHANGED <<lease, newRun, current, daemon, lost>>
    BY <1>0, <1>12 DEF NextStop, Places
  <2>2. QED
    BY <1>0, <2>1 DEF LeaseIsHeld, TypeOK
<1>13. ASSUME NextLease PROVE LeaseIsHeld'
  <2>1. /\ focus \in Devices /\ pc = "next" /\ pc' = "leased" /\ newRun = NoRun
        /\ UNCHANGED <<focus, daemon, current, drained, lost>>
    BY <1>0, <1>13 DEF NextLease, Places
  <2>2. PICK r \in Runs : LeaseBatch(r, focus) /\ newRun' = r
    BY <1>13 DEF NextLease
  <2>3. \A k \in Keys : lease'[k] \in {lease[k], r}
    BY <1>0, <2>1, <2>2, LeaseBatchEffect
  <2>4. r # current[focus]
    BY <2>1, <2>2, PlacesStep, NoRunAssumption DEF Places
  <2>5. QED
    BY <1>0, <2>1, <2>2, <2>3, <2>4 DEF LeaseIsHeld
<1>14. ASSUME NextFeed PROVE LeaseIsHeld'
  BY <1>0, <1>14 DEF NextFeed, Leave, LeaseIsHeld
<1>15. QED
  BY <1>3, <1>4, <1>5, <1>6, <1>7, <1>8, <1>9, <1>10, <1>11, <1>12, <1>13, <1>14
     DEF Next, CommandStep, SupervisorStep

(* No verdict is overwritten: a run's verifier is started once.            *)
LEMMA CsvIsFree ==
  ASSUME IInv, [Next]_vars
  PROVE  /\ newRun' # NoRun => csv'[newRun'] = {}
         /\ \A d \in Devices :
              daemon'[d] # NoRun /\ ~drained'[d] /\ ~(pc' \in {"next", "leased"} /\ focus' = d) =>
                csv'[current'[d]] = {}
<1> USE DEF Handling, procVars, localVars, storeVars, fileVars
<1>0. TypeOK /\ Places /\ FreshRuns /\ RowEvidence /\ csv \in [Runs -> SUBSET Candidate]
  BY DEF IInv, TypeOK, StoreTypeOK
<1>1. ASSUME newRun' # NoRun PROVE csv'[newRun'] = {}
  <2>1. CASE newRun' # newRun
    BY <1>0, <1>1, <2>1, PlaceStep DEF LeaseBatch, FreshRuns
  <2>2. CASE newRun' = newRun
    <3>1. newRun \in Runs /\ csv[newRun] = {} /\ ~DoneVerify
      BY <1>0, <1>1, <2>2 DEF TypeOK, RowEvidence, Places, DoneVerify
    <3>2. QED
      BY <2>2, <3>1, CsvStep
  <2>3. QED
    BY <2>1, <2>2
<1> DEFINE Due(d) == /\ daemon[d] # NoRun /\ ~drained[d]
                     /\ ~(pc \in {"next", "leased"} /\ focus = d)
<1>2. ASSUME NEW d \in Devices, Due(d)', current'[d] # newRun \/ newRun = NoRun
      PROVE  current'[d] = current[d] /\ Due(d) /\ ~(DoneVerify /\ focus = d)
  <2>0. current'[d] # NoRun /\ ~Leave("exited") /\ ~Leave("dead")
    BY <1>2, PlacesStep DEF Places, Leave
  <2>1. current'[d] = current[d]
    BY <1>0, <1>2, <2>0, PlaceStep, NoRunAssumption
  <2>2. ASSUME CommandStep \/ UNCHANGED vars 
        PROVE  /\ UNCHANGED <<daemon, drained, focus>> /\ ~DoneVerify
               /\ pc' = pc \/ pc = "idle"
    BY <2>0, <2>2 DEF vars, CommandStep, CommandInit, StartRun, CommandRequestStop, CommandClearStop,
     CommandResetRunning, DeadlinePasses, KillSupervisor, DoneVerify
  <2>3. ASSUME NEW w \in Runs, WorkerStep(w) \/ WorkerFail(w) \/ VerifierStep(w)
        PROVE  UNCHANGED <<daemon, drained, focus, pc>> /\ ~DoneVerify
    BY <2>3 DEF WorkerStep, WorkerBoot, WorkerDone, WorkerNext, WorkerStop, WorkerScreen,
                WorkerRow, WorkerFail, VerifierStep, DoneVerify
  <2>4. ASSUME SupervisorStep PROVE Due(d) /\ ~(DoneVerify /\ focus = d)
    <3>1. CASE \/ LaunchSpawn \/ LaunchDone \/ LoopTop \/ LoopTend \/ GetNothing
               \/ \E r \in Runs : Harvest(r)
               \/ \E e \in Devices : LaunchLease(e) \/ GetDone(e)
      <4>1. UNCHANGED <<daemon, drained>> /\ pc \notin {"next", "leased", "done"}
        BY <2>0, <3>1 DEF LaunchSpawn, LaunchDone, LoopTop, LoopTend, GetNothing, Harvest,
           LaunchLease, GetDone, GetEvent
      <4>2. QED
        BY <1>2, <4>1 DEF DoneVerify
    <3>2. ASSUME NEW e \in Devices, LaunchNothing(e) \/ GetExit(e)
          PROVE  Due(d) /\ ~(DoneVerify /\ focus = d)
      BY <1>0, <1>2, <3>2 DEF LaunchNothing, GetExit, GetEvent, TypeOK, DoneVerify
    <3>3. CASE LaunchRegister \/ NextMark
      <4>1. d # focus
        BY <1>0, <1>2, <3>3 DEF LaunchRegister, NextMark, Places, TypeOK
      <4>2. QED
        BY <1>0, <1>2, <3>3, <4>1 DEF LaunchRegister, NextMark, TypeOK, DoneVerify
    <3>4. CASE NextStop
      <4>1. d # focus
        BY <1>0, <1>2, <3>4 DEF NextStop, TypeOK
      <4>2. QED
        BY <1>0, <1>2, <3>4, <4>1 DEF NextStop, TypeOK, DoneVerify
    <3>5. CASE DoneVerify \/ NextLease
      BY <1>2, <3>5 DEF DoneVerify, NextLease
    <3>6. CASE NextFeed
      BY <1>2, <2>0, <3>6 DEF NextFeed, DoneVerify
    <3>7. QED
      BY <2>4, <3>1, <3>2, <3>3, <3>4, <3>5, <3>6 DEF SupervisorStep
  <2>5. QED
    <3>1. CASE CommandStep \/ UNCHANGED vars
      <4>1. pc = "idle" => daemon[d] = NoRun
        BY <1>0 DEF Places, Idle
      <4>2. QED
        BY <1>2, <2>1, <2>2, <3>1, <4>1
    <3>2. CASE \E w \in Runs : WorkerStep(w) \/ WorkerFail(w) \/ VerifierStep(w)
      BY <1>2, <2>1, <2>3, <3>2
    <3>3. QED
      BY <2>1, <2>4, <3>1, <3>2 DEF Next, CommandStep
<1>3. ASSUME NEW d \in Devices, Due(d)' PROVE csv'[current'[d]] = {}
  <2>1. CASE current'[d] = newRun /\ newRun # NoRun
    <3>1. newRun \in Runs /\ csv[newRun] = {} /\ ~DoneVerify
      BY <1>0, <2>1 DEF TypeOK, RowEvidence, Places, DoneVerify
    <3>2. QED
      BY <2>1, <3>1, CsvStep
  <2>2. CASE current'[d] # newRun \/ newRun = NoRun
    <3>1. current'[d] = current[d] /\ Due(d) /\ ~(DoneVerify /\ focus = d)
      BY <1>2, <1>3, <2>2
    <3>2. current[d] \in Runs /\ csv[current[d]] = {}
      BY <1>0, <3>1 DEF Places, TypeOK, RowEvidence
    <3>3. DoneVerify => current[focus] # current[d]
      BY <1>0, <3>1, <3>2, NoRunAssumption DEF Places, DoneVerify
    <3>4. QED
      BY <3>1, <3>2, <3>3, CsvStep
  <2>3. QED
    BY <2>1, <2>2
<1>4. QED
  BY <1>1, <1>3

LEMMA RowEvidenceStep ==
  ASSUME IInv, [Next]_vars
  PROVE  RowEvidence'
<1> USE DEF Handling, procVars, localVars, storeVars, fileVars
<1>0. /\ TypeOK /\ Places /\ Accounts /\ RowEvidence
      /\ hits \in [Runs -> SUBSET Candidate] /\ csv \in [Runs -> SUBSET Candidate]
      /\ summary \in [Runs -> SUBSET Keys] /\ left \in [Runs -> SUBSET Keys]
      /\ verifier \in [Runs -> {"none", "live", "ok", "fail"}]
      /\ proc \in [Runs -> {"none", "gone"} \cup Live] /\ work \in [Runs -> Runs \cup {NoRun}]
  BY DEF IInv, TypeOK, StoreTypeOK
<1> DEFINE Ready(w) ==
      proc[w] = "row" =>
        \A k \in left[w] \cap Candidate : (\A j \in left[w] : k <= j) => k \in hits[work[w]]
           Kept(r) == \A k \in Strong \cap summary[r] :
                        <<r, k>> \in alerts \/ k \in hits[r] \cup csv[r]
           Goal == /\ \A r \in Runs : verifier[r] # "fail"
                   /\ \A r \in Runs : Kept(r)
                   /\ \A w \in Runs : Ready(w)
<1>1. Goal
  BY <1>0 DEF RowEvidence
<1>2. ASSUME UNCHANGED <<verifier, alerts, hits, csv, summary, proc, work, left>> PROVE Goal'
  BY <1>1, <1>2
<1>3. ASSUME CommandStep \/ UNCHANGED vars PROVE Goal'
  BY <1>2, <1>3 DEF vars, CommandStep, CommandInit, StartRun, CommandRequestStop, CommandClearStop,
     CommandResetRunning, DeadlinePasses, KillSupervisor
<1>4. ASSUME SupervisorStep, ~DoneVerify, ~LaunchSpawn, \A r \in Runs : ~Harvest(r) PROVE Goal'
  BY <1>2, <1>4 DEF SupervisorStep, LaunchLease, LaunchNothing, LaunchRegister, LaunchDone, LoopTop,
     LoopTend, GetNothing, GetDone, GetExit, NextLease, NextMark, NextStop, NextFeed
<1>5. ASSUME NEW r \in Runs, Harvest(r) PROVE Goal'
  <2>1. /\ verifier[r] = "ok" /\ verifier' = [verifier EXCEPT ![r] = "none"]
        /\ alerts' = alerts \cup ({r} \X (csv[r] \cap Strong))
        /\ \A q \in Runs \ {r} : csv'[q] = csv[q]
        /\ UNCHANGED <<summary, hits, proc, work, left>>
    BY <1>0, <1>1, <1>5 DEF Harvest, HarvestVerify, CleanupProvenance
  <2>2. ASSUME NEW q \in Runs PROVE Kept(q)'
    BY <1>1, <2>1
  <2>3. QED
    BY <1>0, <1>1, <2>1, <2>2
<1>6. ASSUME DoneVerify PROVE Goal'
  <2> DEFINE r == current[focus]
             w == daemon[focus]
  <2>1. /\ r \in Runs /\ w \in Runs /\ csv[r] = {} /\ pc = "done"
        /\ work[w] = r /\ proc[w] \in {"wait", "gone"}
    BY <1>0, <1>6 DEF DoneVerify, Places, TypeOK, RowEvidence, IInv, Conversation, Heard, Held, Answered
  <2>2. /\ StartVerify(r) /\ UNCHANGED <<alerts, summary, proc, work, left>>
    BY <1>6 DEF DoneVerify
  <2>3. /\ hits' = [hits EXCEPT ![r] = IF KeepProvenance THEN @ ELSE {}]
        /\ hits[r] # {} => csv'[r] = hits[r]
        /\ \A q \in Runs \ {r} : csv'[q] = csv[q]
        /\ \A q \in Runs : verifier'[q] \in {verifier[q], "live"}
    BY <1>0, <2>1, <2>2 DEF StartVerify
  <2>4. ASSUME NEW q \in Runs PROVE Kept(q)'
    BY <1>0, <1>1, <2>1, <2>2, <2>3
  <2>5. ASSUME NEW v \in Runs, proc[v] = "row" PROVE work[v] # r
    BY <1>0, <2>1, <2>5 DEF Accounts
  <2>6. ASSUME NEW v \in Runs PROVE Ready(v)'
    <3>1. proc[v] = "row" => hits'[work[v]] = hits[work[v]]
      BY <1>0, <2>1, <2>3, <2>5 DEF Accounts
    <3>2. QED
      BY <1>1, <2>2, <3>1
  <2>7. QED
    BY <1>1, <2>3, <2>4, <2>6
<1>7. ASSUME LaunchSpawn PROVE Goal'
  BY <1>0, <1>1, <1>7 DEF LaunchSpawn, Places
<1>8. ASSUME NEW r \in Runs, NEW k \in Keys, WorkerScreen(r, k) PROVE Goal'
  <2>1. /\ hits' = [hits EXCEPT ![work[r]] = @ \cup ({k} \cap Candidate)] /\ work[r] \in Runs
        /\ \A j \in left[r] : k <= j
        /\ proc' = [proc EXCEPT ![r] = "row"]
        /\ UNCHANGED <<verifier, alerts, csv, summary, work, left>>
    BY <1>0, <1>8 DEF WorkerScreen, Accounts
  <2>2. \A q \in Runs : hits[q] \subseteq hits'[q]
    BY <1>0, <2>1
  <2>3. ASSUME NEW q \in Runs PROVE Kept(q)'
    BY <1>1, <2>1, <2>2
  <2>4. Ready(r)'
    <3>1. \A j \in left[r] : (\A i \in left[r] : j <= i) => j = k
      BY <1>0, <1>8, <2>1, KeysAssumption DEF WorkerScreen
    <3>2. k \in Candidate => k \in hits'[work[r]]
      BY <1>0, <2>1
    <3>3. QED
      BY <2>1, <3>1, <3>2
  <2>5. ASSUME NEW v \in Runs, v # r PROVE Ready(v)'
    <3>1. proc'[v] = proc[v]
      BY <1>0, <2>1, <2>5
    <3>2. proc[v] = "row" => work[v] \in Runs
      BY <1>0 DEF Accounts
    <3>3. QED
      BY <1>1, <2>1, <2>2, <3>1, <3>2
  <2>6. QED
    BY <1>1, <2>1, <2>3, <2>4, <2>5
<1>9. ASSUME NEW r \in Runs, NEW k \in Keys, WorkerRow(r, k) PROVE Goal'
  <2>1. /\ proc[r] = "row" /\ k \in left[r] /\ \A j \in left[r] : k <= j
        /\ summary' = [summary EXCEPT ![work[r]] = @ \cup {k}] /\ work[r] \in Runs
        /\ left' = [left EXCEPT ![r] = @ \ {k}] /\ proc' = [proc EXCEPT ![r] = "key"]
        /\ UNCHANGED <<verifier, alerts, csv, hits, work>>
    BY <1>0, <1>9 DEF WorkerRow, Accounts
  <2>2. k \in Strong => k \in hits[work[r]]
    BY <1>1, <2>1, StrongAssumption
  <2>3. ASSUME NEW q \in Runs PROVE Kept(q)'
    BY <1>0, <1>1, <2>1, <2>2
  <2>4. ASSUME NEW v \in Runs PROVE Ready(v)'
    BY <1>0, <1>1, <2>1
  <2>5. QED
    BY <1>1, <2>1, <2>3, <2>4
<1>10. ASSUME NEW r \in Runs, WorkerStep(r) \/ WorkerFail(r) \/ VerifierStep(r),
              \A k \in Keys : ~WorkerScreen(r, k) /\ ~WorkerRow(r, k)
       PROVE  Goal'
  <2>1. /\ UNCHANGED <<alerts, hits, csv, summary>>
        /\ \A q \in Runs : verifier'[q] \in {verifier[q], "ok"}
        /\ \A v \in Runs : proc'[v] = "row" =>
             proc[v] = "row" /\ work'[v] = work[v] /\ left'[v] = left[v]
    BY <1>0, <1>10 DEF WorkerStep, WorkerBoot, WorkerDone, WorkerNext, WorkerStop, WorkerFail,
                       VerifierStep, VerifierExit
  <2>2. QED
    BY <1>1, <2>1
<1>11. Goal'
  BY <1>3, <1>4, <1>5, <1>6, <1>7, <1>8, <1>9, <1>10 DEF Next, CommandStep, WorkerStep
<1>12. QED
  BY <1>11, CsvIsFree DEF RowEvidence

-----------------------------------------------------------------------------
LEMMA InitIInv == Init => IInv
<1> SUFFICES ASSUME Init PROVE IInv
  OBVIOUS
<1> USE DEF Init, StoreInit
<1>1. TypeOK /\ LeaseAgrees
  BY InitType DEF LeaseAgrees
<1>2. Places
  BY DEF Places, Handling, Idle
<1>3. \A q \in Runs : ~Unstarted(q)
  BY DEF Unstarted
<1>4. FreshRuns
  BY <1>3, NoRunAssumption DEF FreshRuns
<1>5. Accounts
  BY DEF Accounts
<1>6. Conversation
  BY DEF Conversation, Heard
<1>7. PauseOrder /\ LeaseIsHeld /\ RowEvidence
  BY DEF PauseOrder, LeaseIsHeld, RowEvidence
<1>8. QED
  BY <1>1, <1>2, <1>4, <1>5, <1>6, <1>7 DEF IInv

LEMMA IInvCorrect == Spec => []IInv
<1>1. ASSUME IInv, [Next]_vars PROVE IInv'
  <2>1. TypeOK'
    BY <1>1, TypeStep DEF IInv
  <2>2. QED
    BY <1>1, <2>1, LeaseAgreesKept, PlacesStep, FreshRunsStep, AccountsStep, ConversationStep,
       PauseOrderStep, LeaseIsHeldStep, RowEvidenceStep DEF IInv
<1>2. QED
  BY <1>1, InitIInv, PTL DEF Spec

(* Every variable keeps to the values the supervisor and its workers give  *)
(* it.                                                                     *)
THEOREM TypeCorrect == Spec => []TypeOK
BY IInvCorrect, PTL DEF IInv

(* Feeding batches to resident workers leaves the queue's bookkeeping as   *)
(* sound as leasing one per process: run --daemon shares lease_batch,      *)
(* ingest_summary and reset-running with the spawn mode.                   *)
THEOREM LeaseAgreesCorrect == Spec => []LeaseAgrees
BY IInvCorrect, PTL DEF IInv

(* The transaction a step is, with an answer taken for a final ingest.     *)
LEMMA StepIsTransaction ==
  ASSUME IInv, [Next]_vars
  PROVE  Transaction /\ \A r \in Runs : summary[r] \subseteq summary'[r]
<1>1. ASSUME NEW d \in Devices, GetDone(d) PROVE \E r \in Runs : FinalIngest(r)
  BY <1>1, AnswerTaken DEF GetDone, FinalIngest
<1>2. Transaction
  BY <1>1, QueueSteps DEF QueueStep, Transaction, OtherTransaction
<1>3. QED
  BY <1>2, RunStep

(* A key is credited by a row in the summary of the batch it was last fed  *)
(* with, although one worker writes the rows of many batches.              *)
THEOREM DoneHasRowCorrect == Spec => []DoneHasRow
<1>1. Init => DoneHasRow
  BY DEF Init, StoreInit, DoneHasRow
<1>2. ASSUME IInv, DoneHasRow, [Next]_vars PROVE DoneHasRow'
  BY <1>2, StepIsTransaction, DoneHasRowStep DEF IInv, TypeOK, StoreTypeOK
<1>3. QED
  BY <1>1, <1>2, IInvCorrect, PTL DEF Spec

(* No answer, however late, takes a key out of done.                       *)
THEOREM DoneStaysDone ==
  Spec => [][\A k \in Keys : status[k] = "done" => status'[k] = "done"]_vars
<1>1. ASSUME IInv, [Next]_vars
      PROVE  [\A k \in Keys : status[k] = "done" => status'[k] = "done"]_vars
  BY <1>1, StepIsTransaction, DoneIsFinalStep DEF IInv
<1>2. QED
  BY <1>1, IInvCorrect, PTL DEF Spec

(* The candidate of a done key is an alert, in a hit file or in a verifier *)
(* CSV, whenever the run process or a worker dies: start_raceway_verify and*)
(* harvest_raceway_verify never both forget it, even when the next batch   *)
(* is fed before the verifier of the last one has ended.                   *)
THEOREM EvidenceKeptCorrect == Spec => []EvidenceKept
<1>1. IInv /\ DoneHasRow => EvidenceKept
  <2>1. ASSUME IInv, DoneHasRow, NEW k \in Strong, status[k] = "done"
        PROVE  \/ <<lastRun[k], k>> \in alerts
               \/ k \in hits[lastRun[k]] \cup csv[lastRun[k]]
    <3>1. k \in Keys /\ k \in summary[lastRun[k]] /\ lastRun[k] # NoRun
      BY <2>1, StrongAssumption DEF DoneHasRow
    <3>2. lastRun[k] \in Runs
      BY <2>1, <3>1 DEF IInv, TypeOK, StoreTypeOK, QueueTypeOK
    <3>3. QED
      BY <2>1, <3>1, <3>2 DEF IInv, RowEvidence
  <2>2. QED
    BY <2>1 DEF EvidenceKept
<1>2. QED
  BY <1>1, IInvCorrect, DoneHasRowCorrect, PTL

(* A worker in the middle of a batch works on the batch dev_state says it  *)
(* has, and its remaining keys are leased to that batch's run.             *)
THEOREM WorkerOnItsLeaseCorrect == Spec => []WorkerOnItsLease
<1>1. IInv => WorkerOnItsLease
  <2>1. ASSUME IInv, NEW r \in Runs, proc[r] \in {"key", "row"}, NEW d \in Devices, daemon[d] = r
        PROVE  current[d] = work[r]
    <3>1. daemon[d] # NoRun
      BY <2>1, NoRunAssumption
    <3>2. Held(d)
      BY <2>1, <3>1 DEF IInv, Conversation, Heard
    <3>3. QED
      BY <2>1, <3>2 DEF Held, Answered, Conversing
  <2>2. ASSUME IInv, NEW r \in Runs, proc[r] \in {"key", "row"}, NEW k \in left[r]
        PROVE  lease[k] = work[r] \/ runStatus[work[r]] = "reset"
    BY <2>2 DEF IInv, Accounts, Owned
  <2>3. QED
    BY <2>1, <2>2 DEF WorkerOnItsLease
<1>2. QED
  BY <1>1, IInvCorrect, PTL

(* A worker blocked in getline(stdin) with nothing to read has an answer   *)
(* on its way or in the supervisor's hands: completion_q never loses the   *)
(* line both are waiting for.                                              *)
THEOREM NobodyWaitsForeverCorrect == Spec => []NobodyWaitsForever
<1>1. IInv => NobodyWaitsForever
  <2>1. ASSUME IInv, NEW d \in Devices, daemon[d] # NoRun, proc[daemon[d]] = "wait",
               stdin[daemon[d]] = <<>>, ~(pc \in Handling /\ focus = d)
        PROVE  events[daemon[d]] # <<>>
    <3>1. Conversing(daemon[d], current[d], drained[d])
      BY <2>1 DEF IInv, Conversation, Heard, Held
    <3>2. <<Stop>> # <<>> /\ <<current[d]>> # <<>> /\ <<"done">> # <<>>
      OBVIOUS
    <3>3. QED
      BY <2>1, <3>1, <3>2 DEF Conversing
  <2>2. QED
    BY <2>1 DEF NobodyWaitsForever
<1>2. QED
  BY <1>1, IInvCorrect, PTL

(* daemon_stop_signalled writes the launch stop file of every worker that  *)
(* may still hold a batch, and of no batch's own run.                      *)
THEOREM PauseReachesDaemonsCorrect == Spec => []PauseReachesDaemons
<1>1. IInv => PauseReachesDaemons
  BY DEF IInv, PauseOrder, PauseReachesDaemons
<1>2. QED
  BY <1>1, IInvCorrect, PTL

(* A run that reports no lost worker has ended every lease: the final      *)
(* ingest of the last answer, or a STOP that follows one.                  *)
THEOREM ExitSettlesCorrect == Spec => []ExitSettles
<1>1. IInv => ExitSettles
  BY NoRunAssumption DEF IInv, LeaseIsHeld, Places, Idle, ExitSettles
<1>2. QED
  BY <1>1, IInvCorrect, PTL

-----------------------------------------------------------------------------
(* What holds as long as no pause is lifted while the run goes on: the     *)
(* stop flag GetDone goes by is then still set when a worker was cut.      *)

LEMMA AnswerIsHonest ==
  ASSUME "lift" \notin Events, IInv, NEW d \in Devices, GetDone(d)
  PROVE  current[d] \in Runs /\ HonestIngest(current[d])
<1> DEFINE stop == stopSeen \/ (Loops # 0 /\ batches[d] >= Loops)
<1>1. GetEvent(d, "done") /\ IngestSummary(current[d], TRUE, TRUE, stop)
  BY DEF GetDone
<1>2. /\ daemon[d] \in Runs /\ current[d] \in Runs
      /\ work[daemon[d]] = current[d]
      /\ left[daemon[d]] = {} \/ stopFile[daemon[d]]
  BY <1>1, AnswerTaken
<1>3. stopFile[daemon[d]] => stopSeen
  BY <1>1, <1>2 DEF IInv, PauseOrder, GetEvent
<1>4. left[daemon[d]] = batch[current[d]] \ summary[current[d]]
  BY <1>2, NoRunAssumption DEF IInv, Places, Accounts
<1>5. ~stop => batch[current[d]] \subseteq summary[current[d]]
  BY <1>2, <1>3, <1>4
<1>6. stop \in BOOLEAN
  OBVIOUS
<1> HIDE DEF stop
<1>7. QED
  BY <1>1, <1>2, <1>5, <1>6 DEF HonestIngest

LEMMA StepIsHonest ==
  ASSUME "lift" \notin Events, IInv, [Next]_vars
  PROVE  HonestTransaction
<1>1. ASSUME NEW d \in Devices, GetDone(d) PROVE \E r \in Runs : HonestIngest(r)
  BY <1>1, AnswerIsHonest
<1>2. QED
  BY <1>1, QueueSteps DEF QueueStep, HonestTransaction, OtherTransaction

(* Without a lifted pause no key of a cut batch is marked failed for want  *)
(* of a summary row.                                                       *)
THEOREM NoKeyWrittenOffCorrect ==
  ASSUME "lift" \notin Events PROVE Spec => []NoKeyWrittenOff
<1>1. Init => NoKeyWrittenOff
  BY DEF Init, StoreInit, NoKeyWrittenOff
<1>2. ASSUME IInv, NoKeyWrittenOff, [Next]_vars PROVE NoKeyWrittenOff'
  BY <1>2, StepIsHonest, NoKeyWrittenOffStep
<1>3. QED
  BY <1>1, <1>2, IInvCorrect, PTL DEF Spec

(* Without a lifted pause a batch recorded as done has all its rows.       *)
THEOREM DoneRunIsCompleteCorrect ==
  ASSUME "lift" \notin Events PROVE Spec => []DoneRunIsComplete
<1>1. Init => DoneRunIsComplete
  BY DEF Init, StoreInit, DoneRunIsComplete
<1>2. ASSUME IInv, DoneRunIsComplete, [Next]_vars PROVE DoneRunIsComplete'
  BY <1>2, StepIsHonest, StepIsTransaction, DoneRunIsCompleteStep DEF IInv, TypeOK, StoreTypeOK
<1>3. QED
  BY <1>1, <1>2, IInvCorrect, PTL DEF Spec

(* Daemon mode, without a lifted pause, implements TierQueue: the same     *)
(* promise as the spawn mode's, although a worker outlives its batch.      *)
THEOREM KeepsQueuePromiseCorrect ==
  ASSUME "lift" \notin Events PROVE Spec => KeepsQueuePromise
<1>1. Init => Queue!Init
  BY DEF Init, StoreInit, Queue!Init, Claims, Screened
<1>2. ASSUME IInv, [Next]_vars PROVE [Queue!Next]_(Queue!vars)
  <2>1. ASSUME UNCHANGED queueVars, NEW w \in Runs, NEW k \in Keys, WorkerRow(w, k)
        PROVE  Queue!Next
    <3>1. /\ work[w] \in Runs /\ k \in batch[work[w]]
          /\ summary' = [summary EXCEPT ![work[w]] = @ \cup {k}]
      BY <2>1, <1>2 DEF WorkerRow, IInv, Accounts, TypeOK
    <3>2. QED
      BY <1>2, <2>1, <3>1, RowRefines DEF Queue!Next, IInv, TypeOK, StoreTypeOK
  <2>2. CASE UNCHANGED summary
    BY <1>2, <2>2, StepIsHonest, TransactionRefines DEF IInv, FreshRuns, TypeOK, StoreTypeOK
  <2>3. QED
    BY <1>2, <2>1, <2>2, QueueSteps
<1>3. QED
  BY <1>1, <1>2, IInvCorrect, PTL DEF Spec, KeepsQueuePromise, Queue!Spec

=============================================================================
