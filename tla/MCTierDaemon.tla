---------------------------- MODULE MCTierDaemon ----------------------------
(* TLC instances of TierDaemon.                                            *)
EXTENDS TierDaemon

CONSTANTS r1, r2, r3

MCKeys3 == 1..3
(* cuda1 finds nothing to do and is drained from the start.                *)
MCOneDevice == [k \in Keys |-> "cuda0"]
=============================================================================
