----------------------------- MODULE MCCpuSearch -----------------------------
(***************************************************************************)
(* The CPU searches: a program either runs the raceway's threads or the    *)
(* capped screen (CpuRaceway), or makes calls of the merging drivers       *)
(* (StateDedup).  Whichever it does not run is at rest.                    *)
(***************************************************************************)
EXTENDS CpuRaceway, StateDedup

(* CpuRaceway *)

\* Four to eight data values: bit 0 (7 under squeeze), 2 (23) and, under
\* squeeze only, 15 tell codes apart; bit 1 never does.
Weigh(d, p, n) == IF p \in d THEN n ELSE 0
Value(d) == Weigh(d, 0, 1) + Weigh(d, 7, 1) + Weigh(d, 15, 2) + Weigh(d, 2, 4) + Weigh(d, 23, 4)
\* Codes merge on the way; code 0 has the fingerprint that marks an empty slot.
MCCodeAt(l, d) ==
  LET v == Value(d)
  IN  CASE l = 0 -> IF v = 1 THEN 9 ELSE v
        [] l = 1 -> IF v \in {1, 5} THEN 5 ELSE v
        [] l > 1 -> IF v \in {1, 4, 5} THEN 5 ELSE v
MCFingerprint(code) == code
MCLowShed(d) == 0 \in d
MCPassing(code) == code = 5
MCCertified == {1}

Search == [engine |-> "raceway", pcap |-> "production", cap_on |-> TRUE, routing |-> FALSE, dynamic |-> TRUE,
         screen |-> FALSE, drain |-> FALSE, window |-> 6, precert |-> FALSE, policy |-> "linear", tile |-> 0]
MCConfigs ==
  {Search,
   [Search EXCEPT !.precert = TRUE, !.window = 8],
   [Search EXCEPT !.policy = "squeeze", !.window = 4, !.dynamic = FALSE],
   [Search EXCEPT !.routing = TRUE, !.screen = TRUE],
   [Search EXCEPT !.pcap = "shadow", !.tile = 1, !.dynamic = FALSE],
   [Search EXCEPT !.pcap = "exact", !.dynamic = FALSE],
   [Search EXCEPT !.pcap = "exact", !.cap_on = FALSE, !.dynamic = FALSE, !.precert = TRUE, !.window = 8],
   [Search EXCEPT !.engine = "map1_screen", !.dynamic = FALSE, !.drain = TRUE]}

(* StateDedup *)

\* Sixteen data values.  Map 1 merges 6 with 7 and 2 with 4, map 2 merges 0 with 1
\* across what was left, and fingerprints of states of one half collide.
MCExpand(d) == d
MCRunMap(i, s) ==
  CASE i = 1 /\ s \in {7, 2} -> s - 1 + 3 * (IF s = 2 THEN 1 ELSE 0)
    [] i = 2 /\ s \in {0, 1} -> 3
    [] i = 3 -> (s + 5) % 8
    [] OTHER -> s
MCStateFingerprint(s) == (s % 4) + 4 * (s % 2)
MCFp128(s) == IF s = 0 THEN 0 ELSE s + 1
MCConfident(kind, i, s) == s % (CASE kind = "proxy" -> 2 [] kind = "count" -> 3 [] kind = "raw" -> 4) # 0
MCSourceClasses(page) ==
  IF MCRunMap(1, page) = MCRunMap(1, page + 1) THEN <<[representative_offset |-> 0, multiplicity |-> 2]>> ELSE << >>

Block == [driver |-> "block", start |-> 0, window |-> 6, stride |-> 1, every |-> 1, first |-> 1, checkpoints |-> {},
         expanded |-> FALSE, skip_final_hash |-> FALSE, prefilter |-> "off", enum |-> {}, fixed |-> {}, copies |-> 1,
         routing |-> "off", route_initial |-> TRUE, route_final |-> FALSE, x |-> 4]
MCCalls ==
  {Block,
   [Block EXCEPT !.window = 0, !.first = 2, !.x = 1],
   [Block EXCEPT !.window = 3, !.start = 4, !.stride = 3, !.expanded = TRUE],
   [Block EXCEPT !.skip_final_hash = TRUE, !.checkpoints = {2}],
   [Block EXCEPT !.prefilter = "gate", !.start = 2, !.every = 2, !.x = 12],
   [Block EXCEPT !.window = 4, !.enum = {0, 2}, !.fixed = {1}, !.copies = 2],
   [Block EXCEPT !.routing = "scored", !.route_final = TRUE],
   [Block EXCEPT !.routing = "raw", !.route_initial = FALSE, !.window = 7],
   [Block EXCEPT !.driver = "il2"], [Block EXCEPT !.driver = "bh", !.window = 3], [Block EXCEPT !.driver = "il4", !.start = 1],
   [Block EXCEPT !.driver = "il6", !.window = 7], [Block EXCEPT !.driver = "il8", !.every = 2],
   [Block EXCEPT !.driver = "il10", !.first = 2], [Block EXCEPT !.driver = "il12", !.window = 5], [Block EXCEPT !.driver = "il14"],
   [Block EXCEPT !.driver = "origins"], [Block EXCEPT !.driver = "fpset", !.stride = 3, !.window = 7]}
\* A front cache is used with tables that grow.
MCSetups == {[dyn |-> FALSE, cache |-> 0], [dyn |-> TRUE, cache |-> 0], [dyn |-> TRUE, cache |-> 4]}
MCSameCalls == {[Block EXCEPT !.start = 1, !.window = 5, !.every = 2]}  \* the same call again, with an odd number of groups
MCStaticCache == {[dyn |-> FALSE, cache |-> 4]}

-----------------------------------------------------------------------------

\* No search, and no call.
AtRest ==
  /\ config = [Search EXCEPT !.window = 0] /\ window = << >> /\ next = 0
  /\ slots = [c \in 0 .. LastCap |-> [s \in 0 .. MaxSlot |-> 0]]
  /\ victim = [c \in 0 .. LastCap |-> [b \in 0 .. Buckets - 1 |-> 0]]
  /\ pc = [t \in Threads |-> "done"] /\ at = [t \in Threads |-> [d |-> 0, hi |-> 0]]
  /\ lanes = [t \in Threads |-> << >>] /\ tail = [t \in Threads |-> FALSE]
  /\ wave = [t \in Threads |-> << >>] /\ span = [t \in Threads |-> NoSpan] /\ out = [t \in Threads |-> << >>]
  /\ look = [t \in Threads |-> NoLook] /\ ending = [t \in Threads |-> TRUE]
  /\ seen = [t \in Threads |-> {}] /\ fin = [t \in Threads |-> {}] /\ hits = [t \in Threads |-> 0]

\* A driver is called where no search is, and the other way round.
MCInit ==
  \/ Init /\ DedupInit /\ setup = (CHOOSE s \in Setups : TRUE)
  \/ AtRest /\ DedupInit
MCNext ==
  \/ config.window # 0 /\ Next /\ UNCHANGED dedupVars
  \/ config.window = 0 /\ DedupNext /\ UNCHANGED vars
MCDedupSpec == AtRest /\ DedupInit /\ [][DedupNext /\ UNCHANGED vars]_<<vars, dedupVars>>
MCSpec == MCInit /\ [][MCNext]_<<vars, dedupVars>> /\ \A t \in Threads : WF_vars(Work(t))
=============================================================================
