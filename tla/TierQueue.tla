----------------------------- MODULE TierQueue ------------------------------
(***************************************************************************)
(* What the durable queue promises, without supervisors, workers or files: *)
(* a key waits, is claimed by one run at a time, and is settled by a       *)
(* screening of the run that claimed it last.  A claim may be given back   *)
(* any number of times; a key is never given up, and a settled key never   *)
(* comes back.                                                             *)
(***************************************************************************)
EXTENDS Naturals

CONSTANTS Keys, Runs, NoRun

VARIABLES
  state,      \* where a key stands
  claimant,   \* the run that claimed the key last
  claims,     \* <<run, key>>: the run ever claimed the key
  screened    \* <<run, key>>: the run has screened the key

vars == <<state, claimant, claims, screened>>

Init ==
  /\ state = [k \in Keys |-> "absent"]
  /\ claimant = [k \in Keys |-> NoRun]
  /\ claims = {}
  /\ screened = {}

Import ==
  /\ \E ks \in SUBSET {k \in Keys : state[k] = "absent"} :
       state' = [k \in Keys |-> IF k \in ks THEN "pending" ELSE state[k]]
  /\ UNCHANGED <<claimant, claims, screened>>

(* A run claims waiting keys, once.                                        *)
Claim(r) ==
  /\ \A k \in Keys : <<r, k>> \notin claims
  /\ \E ks \in SUBSET {k \in Keys : state[k] = "pending"} :
       /\ state' = [k \in Keys |-> IF k \in ks THEN "running" ELSE state[k]]
       /\ claimant' = [k \in Keys |-> IF k \in ks THEN r ELSE claimant[k]]
       /\ claims' = claims \cup ({r} \X ks)
  /\ UNCHANGED screened

(* A run screens a key it claimed, whether or not the claim still stands.  *)
Screen(r, k) ==
  /\ <<r, k>> \in claims
  /\ screened' = screened \cup {<<r, k>>}
  /\ UNCHANGED <<state, claimant, claims>>

(* One accounting step: settle keys their last claimant has screened, give *)
(* back running ones.                                                      *)
Settle ==
  /\ \E done, back \in SUBSET Keys :
       /\ \A k \in done : <<claimant[k], k>> \in screened
       /\ \A k \in back : state[k] = "running"
       /\ state' = [k \in Keys |-> IF k \in done THEN "done"
                                   ELSE IF k \in back THEN "pending"
                                   ELSE state[k]]
  /\ UNCHANGED <<claimant, claims, screened>>

Next ==
  \/ Import \/ Settle
  \/ \E r \in Runs : Claim(r) \/ \E k \in Keys : Screen(r, k)

Spec == Init /\ [][Next]_vars
=============================================================================
