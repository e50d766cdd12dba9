----------------------------- MODULE TierStore ------------------------------
(***************************************************************************)
(* The durable state of scripts/cert_tier_ops.py: the SQLite queue (tables *)
(* keys, runs, alerts and the meta flag stop_requested_at) and the files   *)
(* of a run (summary, per-key hit files, verifier CSVs, stop file), with   *)
(* the transactions every command is built from.  TierOps and TierDaemon   *)
(* add the processes that execute them.                                    *)
(*                                                                         *)
(* A key is named by its position in the shard files (source_order).  A    *)
(* key yields at most one other-world candidate, so a candidate is named   *)
(* by its key; Candidate is what the screen reports (flags 0x09 / 0x0B),   *)
(* Strong what the CPU receiver confirms (ALL_ENTRIES_VALID).              *)
(***************************************************************************)
EXTENDS Naturals, FiniteSets

CONSTANTS
  Keys,            \* keys in the shard files, in source order
  Devices,         \* CUDA devices
  DeviceOf,        \* preferred_device of a key
  Runs,            \* supply of run ids (uuid4); bounds the number of leases
  BatchKeys,       \* --batch-keys
  Candidate,       \* keys whose screen reports an other-world candidate
  Strong,          \* candidates whose full forward state is valid code
  KeepProvenance,  \* --keep-raceway-provenance
  NoRun            \* SQL NULL in lease_id / last_run_id

ASSUME KeysAssumption == Keys \subseteq Nat /\ IsFiniteSet(Keys)
ASSUME DeviceAssumption == DeviceOf \in [Keys -> Devices]
ASSUME NoRunAssumption == NoRun \notin Runs
ASSUME StrongAssumption == Strong \subseteq Candidate /\ Candidate \subseteq Keys
ASSUME BatchAssumption == BatchKeys \in Nat \ {0}
ASSUME ProvenanceAssumption == KeepProvenance \in BOOLEAN

VARIABLES
  status,      \* keys.status; "absent" before init imports the key
  lease,       \* keys.lease_id
  lastRun,     \* keys.last_run_id
  runStatus,   \* runs.status; "absent" before the run id is drawn
  batch,       \* LeasedBatch.keys, also written to the run's key file
  stopMeta,    \* meta.stop_requested_at is set
  alerts,      \* alerts, UNIQUE(run_id, key, data)
  summary,     \* keys with a row in the run's worker_summary file
  hits,        \* candidates in the run's per-key hit files
  csv,         \* candidates in the run's verifier CSV
  stopFile,    \* the run's stop file exists
  verifier     \* the run's inspect_bonus2_survivors process

queueVars == <<status, lease, lastRun, runStatus, batch>>
fileVars  == <<summary, hits, csv, stopFile>>
storeVars == <<queueVars, stopMeta, alerts, fileVars, verifier>>

KeyStatus == {"absent", "pending", "running", "done", "failed"}
RunStatus == {"absent", "leased", "running", "done", "stopped", "failed", "reset"}

QueueTypeOK ==
  /\ status \in [Keys -> KeyStatus]
  /\ lease \in [Keys -> Runs \cup {NoRun}]
  /\ lastRun \in [Keys -> Runs \cup {NoRun}]
  /\ runStatus \in [Runs -> RunStatus]
  /\ batch \in [Runs -> SUBSET Keys]

StoreTypeOK ==
  /\ QueueTypeOK
  /\ stopMeta \in BOOLEAN
  /\ alerts \in SUBSET (Runs \X Keys)
  /\ summary \in [Runs -> SUBSET Keys]
  /\ hits \in [Runs -> SUBSET Candidate]
  /\ csv \in [Runs -> SUBSET Candidate]
  /\ stopFile \in [Runs -> BOOLEAN]
  /\ verifier \in [Runs -> {"none", "live", "ok", "fail"}]

(* The database right after schema creation, before any init.              *)
StoreInit ==
  /\ status = [k \in Keys |-> "absent"]
  /\ lease = [k \in Keys |-> NoRun]
  /\ lastRun = [k \in Keys |-> NoRun]
  /\ runStatus = [r \in Runs |-> "absent"]
  /\ batch = [r \in Runs |-> {}]
  /\ stopMeta = FALSE
  /\ alerts = {}
  /\ summary = [r \in Runs |-> {}]
  /\ hits = [r \in Runs |-> {}]
  /\ csv = [r \in Runs |-> {}]
  /\ stopFile = [r \in Runs |-> FALSE]
  /\ verifier = [r \in Runs |-> "none"]

-----------------------------------------------------------------------------
(* A definition X_Y is X with the fault Y: the runs must notice it.         *)

ImportKeys_Replaces(shard) ==
  /\ status' = [k \in Keys |-> IF k \in shard THEN "pending" ELSE status[k]]
  /\ UNCHANGED <<lease, lastRun, runStatus, batch>>

(* init: INSERT OR IGNORE of a shard chunk; re-running it never disturbs a *)
(* key that is already in the queue.                                       *)
ImportKeys(shard) ==
  /\ status' = [k \in Keys |-> IF k \in shard /\ status[k] = "absent"
                               THEN "pending" ELSE status[k]]
  /\ UNCHANGED <<lease, lastRun, runStatus, batch>>

PendingFor_AnyOpen(d) ==
  {k \in Keys : status[k] \in {"pending", "running"} /\ DeviceOf[k] = d}

PendingFor(d) == {k \in Keys : status[k] = "pending" /\ DeviceOf[k] = d}

(* SELECT ... WHERE pending AND device ORDER BY source_order LIMIT n.      *)
NextBatch(d) ==
  {k \in PendingFor(d) :
     Cardinality({j \in PendingFor(d) : j < k}) < BatchKeys}

(* lease_batch under BEGIN IMMEDIATE: mark the batch running and record    *)
(* the run under a fresh id.                                               *)
LeaseBatch(r, d) ==
  LET keys == NextBatch(d) IN
  /\ runStatus[r] = "absent"
  /\ keys # {}
  /\ status' = [k \in Keys |-> IF k \in keys THEN "running" ELSE status[k]]
  /\ lease' = [k \in Keys |-> IF k \in keys THEN r ELSE lease[k]]
  /\ lastRun' = [k \in Keys |-> IF k \in keys THEN r ELSE lastRun[k]]
  /\ runStatus' = [runStatus EXCEPT ![r] = "leased"]
  /\ batch' = [batch EXCEPT ![r] = keys]

(* UPDATE runs SET status='running' after the worker was started.          *)
MarkRunning(r) ==
  /\ runStatus' = [runStatus EXCEPT ![r] = "running"]
  /\ UNCHANGED <<status, lease, lastRun, batch>>

Credited_AnyRun(r) == batch[r] \cap summary[r]

(* The keys an ingest of r marks done: rows of keys last leased by r.      *)
Credited(r) == {k \in batch[r] \cap summary[r] : lastRun[k] = r}

Orphaned_AnyRun(r) == batch[r] \ summary[r]

(* The keys a final ingest of r gives up: no row, and r still leases them. *)
Orphaned(r) == {k \in batch[r] \ summary[r] : lease[k] = r}

MissingStatus_IgnoresStop(rcZero, missingPending) ==
  IF rcZero THEN "failed" ELSE "pending"

MissingStatus_OfRun(rcZero, missingPending) ==
  IF rcZero /\ ~missingPending THEN "failed" ELSE "stopped"

(* The status a final ingest gives to a key without a row.                 *)
MissingStatus(rcZero, missingPending) ==
  IF rcZero /\ ~missingPending THEN "failed" ELSE "pending"

FinalRunStatus_NeverStopped(r, rcZero, missingPending) ==
  IF rcZero THEN "done" ELSE "failed"

(* The status a final ingest gives to the run.                             *)
FinalRunStatus(r, rcZero, missingPending) ==
  IF rcZero /\ {k \in Keys : lease'[k] = r /\ status'[k] = "running"} = {}
  THEN IF missingPending /\ batch[r] \ summary[r] # {} THEN "stopped" ELSE "done"
  ELSE "failed"

(* ingest_summary: one transaction over the batch.  A progress ingest      *)
(* (final = FALSE) only credits rows.                                      *)
IngestSummary(r, rcZero, final, missingPending) ==
  LET given == IF final THEN Orphaned(r) ELSE {} IN
  /\ status' = [k \in Keys |->
       IF k \in Credited(r) THEN "done"
       ELSE IF k \in given THEN MissingStatus(rcZero, missingPending)
       ELSE status[k]]
  /\ lease' = [k \in Keys |->
       IF k \in Credited(r) \cup given THEN NoRun ELSE lease[k]]
  /\ runStatus' = [runStatus EXCEPT ![r] =
       IF final THEN FinalRunStatus(r, rcZero, missingPending) ELSE @]
  /\ UNCHANGED <<lastRun, batch>>

ResetRunning_KeepsLease ==
  /\ \E k \in Keys : status[k] = "running"
  /\ status' = [k \in Keys |-> IF status[k] = "running" THEN "pending" ELSE status[k]]
  /\ runStatus' = [r \in Runs |->
       IF runStatus[r] \in {"leased", "running"} THEN "reset" ELSE runStatus[r]]
  /\ UNCHANGED <<lease, lastRun, batch>>

(* reset-running: every running key back to pending, open runs to reset.   *)
ResetRunning ==
  /\ \E k \in Keys : status[k] = "running"
  /\ status' = [k \in Keys |-> IF status[k] = "running" THEN "pending" ELSE status[k]]
  /\ lease' = [k \in Keys |-> IF status[k] = "running" THEN NoRun ELSE lease[k]]
  /\ runStatus' = [r \in Runs |->
       IF runStatus[r] \in {"leased", "running"} THEN "reset" ELSE runStatus[r]]
  /\ UNCHANGED <<lastRun, batch>>

-----------------------------------------------------------------------------
(* start_raceway_verify: gather the candidates of the run's hit files; with*)
(* none, drop the hit directory; otherwise write the CSV, drop the hit     *)
(* directory and start the verifier on the CSV.                            *)
StartVerify(r) ==
  /\ IF hits[r] = {}
     THEN UNCHANGED <<csv, verifier>>
     ELSE /\ csv' = [csv EXCEPT ![r] = hits[r]]
          /\ verifier' = [verifier EXCEPT ![r] = "live"]
  /\ hits' = [hits EXCEPT ![r] = IF KeepProvenance THEN @ ELSE {}]

(* cleanup_raceway_provenance *)
CleanupProvenance(r) ==
  csv' = [csv EXCEPT ![r] = IF KeepProvenance THEN @ ELSE {}]

HarvestVerify_InvertedTest(r) ==
  /\ verifier[r] \in {"ok", "fail"}
  /\ alerts' = IF verifier[r] = "ok"
               THEN alerts \cup ({r} \X (csv[r] \ Strong))
               ELSE alerts
  /\ verifier' = [verifier EXCEPT ![r] = "none"]
  /\ CleanupProvenance(r)

(* harvest_raceway_verify of an exited verifier: the verdicts become       *)
(* alerts when it exited 0, and the evidence is removed either way.        *)
HarvestVerify(r) ==
  /\ verifier[r] \in {"ok", "fail"}
  /\ alerts' = IF verifier[r] = "ok"
               THEN alerts \cup ({r} \X (csv[r] \cap Strong))
               ELSE alerts
  /\ verifier' = [verifier EXCEPT ![r] = "none"]
  /\ CleanupProvenance(r)

(* inspect_bonus2_survivors forwards its CSV and exits.                    *)
VerifierExit(r, outcome) ==
  /\ verifier[r] = "live"
  /\ verifier' = [verifier EXCEPT ![r] = outcome]

-----------------------------------------------------------------------------
(* What the clients of the store preserve.                                 *)

(* A key is running exactly when a run leases it, and then that run is the *)
(* last to have leased it, has it in its batch and is still open: what the *)
(* two WHERE clauses of ingest_summary and reset-running rely on, whatever *)
(* commands, crashes and late ingests came before.                         *)
LeaseAgrees ==
  \A k \in Keys :
    /\ (status[k] = "running") = (lease[k] # NoRun)
    /\ lease[k] # NoRun =>
         /\ lastRun[k] = lease[k]
         /\ k \in batch[lease[k]]
         /\ runStatus[lease[k]] \in {"leased", "running"}

(* A done key has a summary row of the run that leased it last: a worker   *)
(* orphaned by a crash and a reset never vouches for a key another run has *)
(* since been given.                                                       *)
DoneHasRow ==
  \A k \in Keys : status[k] = "done" =>
    lastRun[k] # NoRun /\ k \in summary[lastRun[k]]

(* No key is ever written off as "missing summary row": a worker leaves    *)
(* keys behind with exit code 0 only after its stop file exists, and the   *)
(* final ingest then returns them to pending.                              *)
NoKeyWrittenOff == \A k \in Keys : status[k] # "failed"

(* A run recorded done has a row for each of its keys.                     *)
DoneRunIsComplete ==
  \A r \in Runs : runStatus[r] = "done" => batch[r] \subseteq summary[r]

(* The candidate of a done key is an alert or still on disk, in a hit file *)
(* or a verifier CSV.                                                      *)
EvidenceKept ==
  \A k \in Strong : status[k] = "done" =>
    \/ <<lastRun[k], k>> \in alerts
    \/ k \in hits[lastRun[k]] \cup csv[lastRun[k]]

-----------------------------------------------------------------------------
(* The refinement mapping to TierQueue: what was ever claimed is read off  *)
(* the batches, what was ever screened off the summaries.                  *)
Claims == {p \in Runs \X Keys : p[2] \in batch[p[1]]}
Screened == {p \in Runs \X Keys : p[2] \in summary[p[1]]}

Queue == INSTANCE TierQueue WITH
  state <- status, claimant <- lastRun, claims <- Claims, screened <- Screened

(* The store, under the commands, crashes and mishaps of the mode that     *)
(* uses it, implements the promise of TierQueue: every transaction and     *)
(* every row written maps to one of its steps.                             *)
KeepsQueuePromise == Queue!Spec
=============================================================================
