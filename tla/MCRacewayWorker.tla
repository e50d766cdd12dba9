-------------------------- MODULE MCRacewayWorker ---------------------------
(***************************************************************************)
(* The CUDA raceway: a worker goes through its keys (RacewayWorker), or    *)
(* the cadence of one key runs on the device (CudaRaceway).  Whichever     *)
(* does not run is at rest.                                                *)
(***************************************************************************)
EXTENDS RacewayWorker, CudaRaceway

(* RacewayWorker *)

\* Small and large windows in every order a batch of three can meet.
MCCeil == [k \in 1..NumKeys |-> IF k \in {2, 3, 6} THEN 3 ELSE 1]

(* CudaRaceway *)

\* Bits 0, 2 and 3 tell data values apart; bit 1 never does.
Bit(d, p, n) == IF p \in d THEN n ELSE 0
Worth(d) == Bit(d, 0, 1) + Bit(d, 2, 2) + Bit(d, 3, 4)
\* States merge on the way; state 0 has the fingerprint that marks an empty slot.
MCStateAfter(m, d) ==
  LET v == Worth(d)
  IN  CASE m <= 1 -> IF v = 1 THEN 9 ELSE v
        [] m = 2 -> IF v \in {1, 5} THEN 5 ELSE v
        [] m > 2 -> IF v \in {1, 2, 5} THEN 5 ELSE v
MCStrongHash(s) == s
MCFlagOf(s) == CASE s = 5 -> 11 [] s = 0 -> 9 [] OTHER -> 0
MCShed == {1}
MCVictimWay(fp) == (fp \div 2) % CapWays

Production == [ilp |-> 2, batch |-> 3, start |-> 0, window |-> 5, precert |-> FALSE, plan |-> <<1, 2>>,
               async |-> FALSE, fused |-> FALSE]
MCCadences ==
  {Production,
   [Production EXCEPT !.async = TRUE, !.start = 3],
   [Production EXCEPT !.async = TRUE, !.fused = TRUE, !.plan = <<1, 2, 3>>],
   [Production EXCEPT !.async = TRUE, !.fused = TRUE, !.plan = <<2>>, !.batch = 2],
   [Production EXCEPT !.precert = TRUE, !.window = 8, !.batch = 3],
   [Production EXCEPT !.window = 4, !.batch = 2],
   [Production EXCEPT !.precert = TRUE, !.start = 2, !.window = 4, !.batch = 2, !.ilp = 1],
   [Production EXCEPT !.plan = <<1, 2, 3>>, !.window = 4, !.batch = 4]}

-----------------------------------------------------------------------------

\* No key is given, and no cadence runs.
WorkerAtRest ==
  /\ overlap = FALSE /\ prefetch = FALSE /\ daemon = FALSE
  /\ pc = "gone" /\ first = 1 /\ last = 1 /\ idx = 0 /\ stopFile = FALSE
  /\ future = NoFuture /\ prepared = Unprepared
  /\ pinned = [s \in Slots |-> None] /\ dbuf = [s \in Slots |-> None] /\ dma = [s \in Slots |-> FALSE]
  /\ schedule = 1 /\ ostream = Unallocated /\ size = 0 /\ chosen = 0 /\ source = FromCache /\ caps = {}
CadenceAtRest ==
  /\ cadence = [Production EXCEPT !.window = 0] /\ stage = "done" /\ drain = 1 /\ done = 0 /\ work = 0
  /\ alive = << >> /\ live = << >> /\ packed = << >> /\ blocks = {} /\ wstate = << >> /\ flags = << >>
  /\ warp = [w \in Warps |-> AtCounter] /\ table = << >> /\ hits = {} /\ emitted = 0

MCInit ==
  \/ Init /\ CadenceAtRest
  \/ WorkerAtRest /\ CadenceInit
MCNext ==
  \/ cadence.window = 0 /\ Next /\ UNCHANGED cadenceVars
  \/ cadence.window # 0 /\ Device /\ UNCHANGED vars
WorkerSpec == Init /\ CadenceAtRest /\ [][Next /\ UNCHANGED cadenceVars]_<<vars, cadenceVars>>

\* The device and the worker's threads are scheduled.
MCSpec ==
  /\ MCInit /\ [][MCNext]_<<vars, cadenceVars>>
  /\ WF_vars(MainStep) /\ WF_vars(PrepareStep)
  /\ \A s \in Slots : WF_vars(CopyDone(s))
  /\ WF_cadenceVars(Device)

(* Whatever runs ends: the worker's batch is answered or ends the worker,  *)
(* and a key's cadence moves on with every batch of its window, also when  *)
(* nothing of one survives the first boundary.                             *)
EveryKeyEnds == BatchEnds /\ KeyEnds
=============================================================================
