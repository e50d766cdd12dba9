--------------------------- MODULE TierStoreProofs ---------------------------
(***************************************************************************)
(* What the transactions of the store preserve, whoever executes them.     *)
(* TierOps and TierDaemon are proved by showing which transaction each of  *)
(* their actions is.                                                       *)
(***************************************************************************)
EXTENDS TierStore, FiniteSetTheorems, TLAPS

-----------------------------------------------------------------------------
(* Types.                                                                  *)

LEMMA ImportType ==
  ASSUME QueueTypeOK, NEW shard \in SUBSET Keys, ImportKeys(shard)
  PROVE  QueueTypeOK'
BY DEF QueueTypeOK, ImportKeys, KeyStatus

LEMMA LeaseType ==
  ASSUME QueueTypeOK, NEW r \in Runs, NEW d \in Devices, LeaseBatch(r, d)
  PROVE  QueueTypeOK'
<1>1. NextBatch(d) \subseteq Keys
  BY DEF NextBatch, PendingFor
<1>2. QED
  BY <1>1 DEF QueueTypeOK, LeaseBatch, KeyStatus, RunStatus

LEMMA MarkType ==
  ASSUME QueueTypeOK, NEW r \in Runs, MarkRunning(r)
  PROVE  QueueTypeOK'
BY DEF QueueTypeOK, MarkRunning, RunStatus

LEMMA IngestType ==
  ASSUME QueueTypeOK, NEW r \in Runs, NEW rcZero \in BOOLEAN,
         NEW final \in BOOLEAN, NEW missingPending \in BOOLEAN,
         IngestSummary(r, rcZero, final, missingPending)
  PROVE  QueueTypeOK'
<1>1. MissingStatus(rcZero, missingPending) \in KeyStatus
  BY DEF MissingStatus, KeyStatus
<1>2. FinalRunStatus(r, rcZero, missingPending) \in RunStatus
  BY DEF FinalRunStatus, RunStatus
<1>3. status' \in [Keys -> KeyStatus]
  BY <1>1 DEF QueueTypeOK, IngestSummary, KeyStatus
<1>4. lease' \in [Keys -> Runs \cup {NoRun}]
  BY DEF QueueTypeOK, IngestSummary
<1>5. runStatus' \in [Runs -> RunStatus]
  BY <1>2 DEF QueueTypeOK, IngestSummary
<1>6. QED
  BY <1>3, <1>4, <1>5 DEF QueueTypeOK, IngestSummary

LEMMA ResetType ==
  ASSUME QueueTypeOK, ResetRunning
  PROVE  QueueTypeOK'
BY DEF QueueTypeOK, ResetRunning, KeyStatus, RunStatus

LEMMA VerifyType ==
  ASSUME StoreTypeOK, NEW r \in Runs
  PROVE  /\ StartVerify(r) =>
              /\ hits' \in [Runs -> SUBSET Candidate]
              /\ csv' \in [Runs -> SUBSET Candidate]
              /\ verifier' \in [Runs -> {"none", "live", "ok", "fail"}]
         /\ HarvestVerify(r) =>
              /\ alerts' \in SUBSET (Runs \X Keys)
              /\ csv' \in [Runs -> SUBSET Candidate]
              /\ verifier' \in [Runs -> {"none", "live", "ok", "fail"}]
         /\ \A how \in {"ok", "fail"} : VerifierExit(r, how) =>
              verifier' \in [Runs -> {"none", "live", "ok", "fail"}]
<1>1. StartVerify(r) =>
              /\ hits' \in [Runs -> SUBSET Candidate]
              /\ csv' \in [Runs -> SUBSET Candidate]
              /\ verifier' \in [Runs -> {"none", "live", "ok", "fail"}]
  BY DEF StoreTypeOK, StartVerify
<1>2. ASSUME HarvestVerify(r)
      PROVE  /\ alerts' \in SUBSET (Runs \X Keys)
             /\ csv' \in [Runs -> SUBSET Candidate]
             /\ verifier' \in [Runs -> {"none", "live", "ok", "fail"}]
  <2>1. {r} \X (csv[r] \cap Strong) \subseteq Runs \X Keys
    BY StrongAssumption
  <2>2. QED
    BY <1>2, <2>1 DEF StoreTypeOK, HarvestVerify, CleanupProvenance
<1>3. \A how \in {"ok", "fail"} : VerifierExit(r, how) =>
        verifier' \in [Runs -> {"none", "live", "ok", "fail"}]
  BY DEF StoreTypeOK, VerifierExit
<1>4. QED
  BY <1>1, <1>2, <1>3

-----------------------------------------------------------------------------
(* A step of a client is one of these, or adds a row to a summary.         *)

FinalIngest(r) ==
  \E rcZero, missingPending \in BOOLEAN : IngestSummary(r, rcZero, TRUE, missingPending)

(* A final ingest that takes a worker's exit code 0 for a finished batch   *)
(* does so of a finished batch.                                            *)
HonestIngest(r) ==
  \E rcZero, missingPending \in BOOLEAN :
    /\ IngestSummary(r, rcZero, TRUE, missingPending)
    /\ rcZero /\ ~missingPending => batch[r] \subseteq summary[r]

OtherTransaction ==
  \/ \E shard \in SUBSET Keys : ImportKeys(shard)
  \/ \E r \in Runs, d \in Devices : LeaseBatch(r, d)
  \/ \E r \in Runs : MarkRunning(r)
  \/ \E r \in Runs : IngestSummary(r, FALSE, FALSE, FALSE)
  \/ ResetRunning
  \/ UNCHANGED queueVars

Transaction == OtherTransaction \/ \E r \in Runs : FinalIngest(r)

HonestTransaction == OtherTransaction \/ \E r \in Runs : HonestIngest(r)

LEMMA HonestIsTransaction == HonestTransaction => Transaction
BY DEF HonestTransaction, Transaction, HonestIngest, FinalIngest

LEMMA TransactionType ==
  ASSUME QueueTypeOK, Transaction
  PROVE  QueueTypeOK'
<1>1. ASSUME NEW r \in Runs, FinalIngest(r) PROVE QueueTypeOK'
  BY <1>1, IngestType DEF FinalIngest
<1>2. ASSUME NEW r \in Runs, IngestSummary(r, FALSE, FALSE, FALSE) PROVE QueueTypeOK'
  BY <1>2, IngestType
<1>3. CASE UNCHANGED queueVars
  BY <1>3 DEF queueVars, QueueTypeOK
<1>4. QED
  BY <1>1, <1>2, <1>3, ImportType, LeaseType, MarkType, ResetType
     DEF Transaction, OtherTransaction

-----------------------------------------------------------------------------
(* LeaseAgrees, one transaction at a time.                                 *)

LEMMA LeaseAgreesStep ==
  ASSUME QueueTypeOK, LeaseAgrees, Transaction
  PROVE  LeaseAgrees'
<1> USE DEF QueueTypeOK, LeaseAgrees
<1>1. ASSUME NEW shard \in SUBSET Keys, ImportKeys(shard) PROVE LeaseAgrees'
  BY <1>1 DEF ImportKeys
<1>2. ASSUME NEW r \in Runs, NEW d \in Devices, LeaseBatch(r, d) PROVE LeaseAgrees'
  <2>1. NextBatch(d) \subseteq {k \in Keys : status[k] = "pending"}
    BY DEF NextBatch, PendingFor
  <2>2. r # NoRun
    BY NoRunAssumption
  <2>3. QED
    BY <1>2, <2>1, <2>2 DEF LeaseBatch
<1>3. ASSUME NEW r \in Runs, MarkRunning(r) PROVE LeaseAgrees'
  BY <1>3 DEF MarkRunning
<1>4. ASSUME NEW r \in Runs, NEW rcZero \in BOOLEAN, NEW missingPending \in BOOLEAN,
             IngestSummary(r, rcZero, TRUE, missingPending)
      PROVE  LeaseAgrees'
  (* A final ingest ends every lease of its run. *)
  <2>1. \A k \in Keys : lease[k] = r => k \in Credited(r) \cup Orphaned(r)
    BY NoRunAssumption DEF Credited, Orphaned
  <2>2. Credited(r) \cup Orphaned(r) \subseteq Keys
    BY DEF Credited, Orphaned
  <2>3. MissingStatus(rcZero, missingPending) # "running"
    BY DEF MissingStatus
  <2>4. QED
    BY <1>4, <2>1, <2>2, <2>3 DEF IngestSummary
<1>5. ASSUME NEW r \in Runs, IngestSummary(r, FALSE, FALSE, FALSE) PROVE LeaseAgrees'
  BY <1>5 DEF IngestSummary
<1>6. CASE ResetRunning
  BY <1>6 DEF ResetRunning
<1>7. CASE UNCHANGED queueVars
  BY <1>7 DEF queueVars
<1>8. QED
  BY <1>1, <1>2, <1>3, <1>4, <1>5, <1>6, <1>7
     DEF Transaction, OtherTransaction, FinalIngest

(* A final ingest takes the leases of its run back, and no other's.        *)
LEMMA FinalIngestEffect ==
  ASSUME QueueTypeOK, LeaseAgrees, NEW r \in Runs, FinalIngest(r)
  PROVE  /\ lease' = [k \in Keys |-> IF lease[k] = r THEN NoRun ELSE lease[k]]
         /\ runStatus'[r] \in {"done", "stopped", "failed"}
         /\ \A q \in Runs \ {r} : runStatus'[q] = runStatus[q]
         /\ lastRun' = lastRun /\ batch' = batch
<1>1. PICK rcZero \in BOOLEAN, missingPending \in BOOLEAN :
        IngestSummary(r, rcZero, TRUE, missingPending)
  BY DEF FinalIngest
<1>2. Credited(r) \cup Orphaned(r) = {k \in batch[r] : lastRun[k] = r /\ k \in summary[r]}
                                    \cup {k \in batch[r] : lease[k] = r /\ k \notin summary[r]}
  BY DEF Credited, Orphaned
<1>3. ASSUME NEW k \in Keys
      PROVE  (IF k \in Credited(r) \cup Orphaned(r) THEN NoRun ELSE lease[k])
               = IF lease[k] = r THEN NoRun ELSE lease[k]
  <2>1. lease[k] = r => k \in Credited(r) \cup Orphaned(r)
    BY <1>2, NoRunAssumption DEF LeaseAgrees
  <2>2. k \in Credited(r) \cup Orphaned(r) => lease[k] \in {r, NoRun}
    BY <1>2 DEF LeaseAgrees
  <2>3. QED
    BY <2>1, <2>2
<1>4. lease' = [k \in Keys |-> IF lease[k] = r THEN NoRun ELSE lease[k]]
  BY <1>1, <1>3 DEF IngestSummary
<1>5. FinalRunStatus(r, rcZero, missingPending) \in {"done", "stopped", "failed"}
  BY DEF FinalRunStatus
<1>6. QED
  BY <1>1, <1>4, <1>5 DEF IngestSummary, QueueTypeOK

(* A progress ingest only takes back leases of keys that have a row.       *)
LEMMA ProgressIngestEffect ==
  ASSUME QueueTypeOK, LeaseAgrees, NEW r \in Runs, IngestSummary(r, FALSE, FALSE, FALSE)
  PROVE  /\ \A k \in Keys : \/ lease'[k] = lease[k]
                            \/ lease'[k] = NoRun /\ lease[k] = r /\ k \in summary[r]
         /\ UNCHANGED <<lastRun, batch, runStatus>>
<1>1. \A k \in Credited(r) : k \in summary[r] /\ lastRun[k] = r /\ k \in Keys
  BY DEF Credited, QueueTypeOK
<1>2. \A k \in Keys : lastRun[k] = r => lease[k] \in {r, NoRun}
  BY DEF LeaseAgrees
<1>3. \A k \in Keys : lease'[k] = IF k \in Credited(r) THEN NoRun ELSE lease[k]
  BY DEF IngestSummary
<1>4. runStatus' = runStatus
  BY DEF IngestSummary, QueueTypeOK
<1>5. QED
  BY <1>1, <1>2, <1>3, <1>4 DEF IngestSummary

(* A lease goes to keys that no run holds.                                 *)
LEMMA LeaseBatchEffect ==
  ASSUME QueueTypeOK, LeaseAgrees, NEW r \in Runs, NEW d \in Devices, LeaseBatch(r, d)
  PROVE  /\ runStatus[r] = "absent" /\ runStatus'[r] = "leased"
         /\ \A q \in Runs \ {r} : runStatus'[q] = runStatus[q] /\ batch'[q] = batch[q]
         /\ batch'[r] # {}
         /\ \A k \in batch'[r] : lease[k] = NoRun /\ lease'[k] = r
         /\ \A k \in Keys : lease'[k] \in {lease[k], r}
         /\ \A k \in Keys \ batch'[r] : lease'[k] = lease[k]
<1>1. NextBatch(d) \subseteq {k \in Keys : status[k] = "pending"}
  BY DEF NextBatch, PendingFor
<1>2. \A k \in NextBatch(d) : lease[k] = NoRun
  BY <1>1 DEF LeaseAgrees
<1>3. batch'[r] = NextBatch(d)
  BY DEF LeaseBatch, QueueTypeOK
<1>4. QED
  BY <1>1, <1>2, <1>3 DEF LeaseBatch, QueueTypeOK

-----------------------------------------------------------------------------
(* The other invariants of the store.                                      *)

LEMMA DoneHasRowStep ==
  ASSUME QueueTypeOK, DoneHasRow, Transaction,
         \A r \in Runs : summary[r] \subseteq summary'[r]
  PROVE  DoneHasRow'
<1> USE DEF DoneHasRow
<1>1. \A k \in Keys : status[k] = "done" => lastRun[k] \in Runs
  BY DEF QueueTypeOK
<1>2. ASSUME NEW k \in Keys, status'[k] = "done"
      PROVE  \/ status[k] = "done" /\ lastRun'[k] = lastRun[k]
             \/ \E r \in Runs : lastRun'[k] = r /\ k \in summary[r]
  <2>1. ASSUME NEW shard \in SUBSET Keys, ImportKeys(shard)
        PROVE  status[k] = "done" /\ lastRun'[k] = lastRun[k]
    BY <1>2, <2>1 DEF ImportKeys
  <2>2. ASSUME NEW r \in Runs, NEW d \in Devices, LeaseBatch(r, d)
        PROVE  status[k] = "done" /\ lastRun'[k] = lastRun[k]
    BY <1>2, <2>2 DEF LeaseBatch
  <2>3. ASSUME NEW r \in Runs, NEW rcZero, NEW final, NEW missingPending,
               IngestSummary(r, rcZero, final, missingPending)
        PROVE  \/ status[k] = "done" /\ lastRun'[k] = lastRun[k]
               \/ \E q \in Runs : lastRun'[k] = q /\ k \in summary[q]
    <3>1. MissingStatus(rcZero, missingPending) # "done"
      BY DEF MissingStatus
    <3>2. QED
      BY <1>2, <2>3, <3>1 DEF IngestSummary, Credited
  <2>4. QED
    BY <1>2, <2>1, <2>2, <2>3
       DEF Transaction, OtherTransaction, FinalIngest, MarkRunning, ResetRunning, queueVars
<1>3. QED
  BY <1>1, <1>2, NoRunAssumption

LEMMA DoneIsFinalStep ==
  ASSUME LeaseAgrees, Transaction, NEW k \in Keys, status[k] = "done"
  PROVE  status'[k] = "done"
<1>1. lease[k] = NoRun
  BY DEF LeaseAgrees
<1>2. ASSUME NEW r \in Runs, NEW rcZero, NEW final, NEW missingPending,
             IngestSummary(r, rcZero, final, missingPending)
      PROVE  status'[k] = "done"
  BY <1>1, <1>2, NoRunAssumption DEF IngestSummary, Orphaned
<1>3. QED
  BY ZenonT(40), <1>2 DEF Transaction, OtherTransaction, FinalIngest, ImportKeys, LeaseBatch, NextBatch,
              PendingFor, MarkRunning, ResetRunning, queueVars

LEMMA NoKeyWrittenOffStep ==
  ASSUME NoKeyWrittenOff, HonestTransaction
  PROVE  NoKeyWrittenOff'
<1> USE DEF NoKeyWrittenOff
<1>1. ASSUME NEW shard \in SUBSET Keys, ImportKeys(shard) PROVE NoKeyWrittenOff'
  BY <1>1 DEF ImportKeys
<1>2. ASSUME NEW r \in Runs, NEW d \in Devices, LeaseBatch(r, d) PROVE NoKeyWrittenOff'
  BY <1>2 DEF LeaseBatch
<1>3. ASSUME NEW r \in Runs, IngestSummary(r, FALSE, FALSE, FALSE) PROVE NoKeyWrittenOff'
  BY <1>3 DEF IngestSummary
<1>4. ASSUME NEW r \in Runs, HonestIngest(r) PROVE NoKeyWrittenOff'
  <2>1. PICK rcZero \in BOOLEAN, missingPending \in BOOLEAN :
          /\ IngestSummary(r, rcZero, TRUE, missingPending)
          /\ rcZero /\ ~missingPending => batch[r] \subseteq summary[r]
    BY <1>4 DEF HonestIngest
  <2>2. Orphaned(r) # {} => MissingStatus(rcZero, missingPending) = "pending"
    BY <2>1 DEF Orphaned, MissingStatus
  <2>3. QED
    BY <2>1, <2>2 DEF IngestSummary
<1>5. CASE ResetRunning
  BY <1>5 DEF ResetRunning
<1>6. QED
  BY <1>1, <1>2, <1>3, <1>4, <1>5
     DEF HonestTransaction, OtherTransaction, MarkRunning, queueVars

LEMMA DoneRunIsCompleteStep ==
  ASSUME QueueTypeOK, DoneRunIsComplete, HonestTransaction,
         \A r \in Runs : summary[r] \subseteq summary'[r]
  PROVE  DoneRunIsComplete'
<1> USE DEF QueueTypeOK
<1>1. ASSUME NEW r \in Runs, runStatus'[r] = "done"
      PROVE  batch'[r] = batch[r] /\ (runStatus[r] = "done" \/ batch[r] \subseteq summary[r])
  <2>1. ASSUME NEW q \in Runs, NEW d \in Devices, LeaseBatch(q, d)
        PROVE  batch'[r] = batch[r] /\ runStatus[r] = "done"
    BY <1>1, <2>1 DEF LeaseBatch
  <2>2. ASSUME NEW q \in Runs, HonestIngest(q)
        PROVE  /\ batch'[r] = batch[r]
               /\ runStatus[r] = "done" \/ batch[r] \subseteq summary[r]
    <3>1. PICK rcZero \in BOOLEAN, missingPending \in BOOLEAN :
            /\ IngestSummary(q, rcZero, TRUE, missingPending)
            /\ rcZero /\ ~missingPending => batch[q] \subseteq summary[q]
      BY <2>2 DEF HonestIngest
    <3>2. FinalRunStatus(q, rcZero, missingPending) = "done" => batch[q] \subseteq summary[q]
      BY <3>1 DEF FinalRunStatus
    <3>3. QED
      BY <1>1, <3>1, <3>2 DEF IngestSummary
  <2>3. QED
    BY <1>1, <2>1, <2>2 DEF HonestTransaction, OtherTransaction, ImportKeys, MarkRunning,
                            IngestSummary, ResetRunning, queueVars
<1>2. QED
  BY <1>1 DEF DoneRunIsComplete

-----------------------------------------------------------------------------
(* The refinement of TierQueue: each transaction is one of its steps.      *)

LEMMA ImportRefines ==
  ASSUME NEW shard \in SUBSET Keys, ImportKeys(shard), UNCHANGED summary
  PROVE  Queue!Import
<1> DEFINE ks == {k \in shard : status[k] = "absent"}
<1>1. ks \in SUBSET {k \in Keys : status[k] = "absent"}
  OBVIOUS
<1>2. status' = [k \in Keys |-> IF k \in ks THEN "pending" ELSE status[k]]
  BY DEF ImportKeys
<1>3. Claims' = Claims /\ Screened' = Screened /\ lastRun' = lastRun
  BY DEF ImportKeys, Claims, Screened
<1>4. QED
  BY <1>1, <1>2, <1>3 DEF Queue!Import

LEMMA LeaseRefines ==
  ASSUME QueueTypeOK, NEW r \in Runs, NEW d \in Devices, LeaseBatch(r, d),
         batch[r] = {}, UNCHANGED summary
  PROVE  Queue!Claim(r)
<1> DEFINE ks == NextBatch(d)
<1>1. ks \in SUBSET {k \in Keys : status[k] = "pending"}
  BY DEF NextBatch, PendingFor
<1>3. batch \in [Runs -> SUBSET Keys] /\ batch' = [batch EXCEPT ![r] = ks]
  BY DEF LeaseBatch, QueueTypeOK
<1>4. Claims' = Claims \cup ({r} \X ks)
  <2>1. ASSUME NEW p \in Runs \X Keys
        PROVE  p \in Claims' <=> p \in Claims \cup ({r} \X ks)
    <3>1. CASE p[1] = r
      BY <1>1, <1>3, <3>1 DEF Claims
    <3>2. CASE p[1] # r
      BY <1>3, <3>2 DEF Claims
    <3>3. QED
      BY <3>1, <3>2
  <2>2. Claims' \subseteq Runs \X Keys /\ Claims \cup ({r} \X ks) \subseteq Runs \X Keys
    BY <1>1 DEF Claims
  <2>3. QED
    BY <2>1, <2>2
<1>5. \A k \in Keys : <<r, k>> \notin Claims
  BY DEF Claims
<1>6. /\ status' = [k \in Keys |-> IF k \in ks THEN "running" ELSE status[k]]
      /\ lastRun' = [k \in Keys |-> IF k \in ks THEN r ELSE lastRun[k]]
  BY DEF LeaseBatch
<1>7. Screened' = Screened
  BY DEF Screened
<1>8. QED
  BY <1>1, <1>4, <1>5, <1>6, <1>7 DEF Queue!Claim

LEMMA RowRefines ==
  ASSUME summary \in [Runs -> SUBSET Keys], NEW r \in Runs, NEW k \in batch[r], k \in Keys,
         summary' = [summary EXCEPT ![r] = @ \cup {k}], UNCHANGED queueVars
  PROVE  Queue!Screen(r, k)
<1>1. Screened' = Screened \cup {<<r, k>>}
  <2>1. ASSUME NEW p \in Runs \X Keys
        PROVE  p \in Screened' <=> p \in Screened \cup {<<r, k>>}
    BY DEF Screened
  <2>2. QED
    BY <2>1 DEF Screened
<1>2. <<r, k>> \in Claims /\ Claims' = Claims
  BY DEF Claims, queueVars
<1>3. QED
  BY <1>1, <1>2 DEF Queue!Screen, queueVars

LEMMA IngestRefines ==
  ASSUME QueueTypeOK, LeaseAgrees, NEW r \in Runs, NEW rcZero, NEW final, NEW missingPending,
         IngestSummary(r, rcZero, final, missingPending), UNCHANGED summary,
         final /\ Orphaned(r) # {} => MissingStatus(rcZero, missingPending) = "pending"
  PROVE  Queue!Settle
<1> DEFINE done == Credited(r)
           back == IF final THEN Orphaned(r) ELSE {}
<1>1. done \in SUBSET Keys /\ back \in SUBSET Keys
  BY DEF Credited, Orphaned, QueueTypeOK
<1>2. \A k \in done : <<lastRun[k], k>> \in Screened
  BY <1>1 DEF Credited, Screened
<1>3. \A k \in back : status[k] = "running"
  BY <1>1, NoRunAssumption DEF Orphaned, LeaseAgrees
<1>4. status' = [k \in Keys |-> IF k \in done THEN "done"
                               ELSE IF k \in back THEN "pending" ELSE status[k]]
  BY DEF IngestSummary
<1>5. Claims' = Claims /\ Screened' = Screened /\ lastRun' = lastRun
  BY DEF IngestSummary, Claims, Screened
<1>6. QED
  BY <1>1, <1>2, <1>3, <1>4, <1>5 DEF Queue!Settle

LEMMA ResetRefines ==
  ASSUME ResetRunning, UNCHANGED summary
  PROVE  Queue!Settle
<1> DEFINE done == {}
           back == {k \in Keys : status[k] = "running"}
<1>1. /\ done \in SUBSET Keys /\ back \in SUBSET Keys
      /\ \A k \in done : <<lastRun[k], k>> \in Screened
      /\ \A k \in back : status[k] = "running"
  OBVIOUS
<1>2. status' = [k \in Keys |-> IF k \in done THEN "done"
                               ELSE IF k \in back THEN "pending" ELSE status[k]]
  BY DEF ResetRunning
<1>3. Claims' = Claims /\ Screened' = Screened /\ lastRun' = lastRun
  BY DEF ResetRunning, Claims, Screened
<1> HIDE DEF done, back
<1>4. QED
  BY <1>1, <1>2, <1>3 DEF Queue!Settle

(* A run id that was not drawn has claimed nothing: uuid4.                 *)
LEMMA TransactionRefines ==
  ASSUME QueueTypeOK, LeaseAgrees, HonestTransaction, UNCHANGED summary,
         \A r \in Runs : runStatus[r] = "absent" => batch[r] = {}
  PROVE  [Queue!Next]_(Queue!vars)
<1>1. ASSUME NEW shard \in SUBSET Keys, ImportKeys(shard) PROVE Queue!Next
  BY <1>1, ImportRefines DEF Queue!Next
<1>2. ASSUME NEW r \in Runs, NEW d \in Devices, LeaseBatch(r, d) PROVE Queue!Next
  <2>1. batch[r] = {}
    BY <1>2 DEF LeaseBatch
  <2>2. QED
    BY <1>2, <2>1, LeaseRefines DEF Queue!Next
<1>3. ASSUME NEW r \in Runs, IngestSummary(r, FALSE, FALSE, FALSE) PROVE Queue!Next
  BY <1>3, IngestRefines DEF Queue!Next
<1>4. ASSUME NEW r \in Runs, HonestIngest(r) PROVE Queue!Next
  <2>1. PICK rcZero \in BOOLEAN, missingPending \in BOOLEAN :
          /\ IngestSummary(r, rcZero, TRUE, missingPending)
          /\ rcZero /\ ~missingPending => batch[r] \subseteq summary[r]
    BY <1>4 DEF HonestIngest
  <2>2. Orphaned(r) # {} => MissingStatus(rcZero, missingPending) = "pending"
    BY <2>1 DEF Orphaned, MissingStatus
  <2>3. QED
    BY <2>1, <2>2, IngestRefines DEF Queue!Next
<1>5. CASE ResetRunning
  BY <1>5, ResetRefines DEF Queue!Next
<1>6. CASE (\E r \in Runs : MarkRunning(r)) \/ UNCHANGED queueVars
  BY <1>6 DEF Queue!vars, MarkRunning, queueVars, Claims, Screened
<1>7. QED
  BY <1>1, <1>2, <1>3, <1>4, <1>5, <1>6 DEF HonestTransaction, OtherTransaction
=============================================================================
