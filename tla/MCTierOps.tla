----------------------------- MODULE MCTierOps ------------------------------
(* TLC instances of TierOps.                                               *)
EXTENDS TierOps, TLC

CONSTANTS r1, r2, r3, s1, s2

MCKeys2 == 1..2
MCKeys3 == 1..3
MCOneDevice == [k \in Keys |-> "cuda0"]
MCTwoDevices == [k \in Keys |-> IF k % 2 = 1 THEN "cuda0" ELSE "cuda1"]

(* Run ids are drawn at random and supervisors are interchangeable.        *)
MCSymmetry == Permutations(Runs) \cup Permutations(Supervisors)
=============================================================================
