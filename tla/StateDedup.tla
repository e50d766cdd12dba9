----------------------------- MODULE StateDedup -----------------------------
(***************************************************************************)
(* The drivers of state_dedup.h, state_dedup_il.h and                      *)
(* state_dedup_origins.h: a window of data values is expanded and run      *)
(* through the schedule in groups of maps, and after each group equal      *)
(* states are merged in a table that counts them.  Two tables take turns   *)
(* and are kept from call to call; a program makes several calls.          *)
(*                                                                         *)
(* One thread works on its tables, so a step is a group.  A driver is a    *)
(* name; what it may be asked differs (Calls).  Timings and boundary       *)
(* records are left out.                                                   *)
(***************************************************************************)
EXTENDS FlatTable, WindowPolicy

CONSTANTS
  Maps,            \* number of maps of the schedule
  Expand(_),       \* the expanded state of a data value
  RunMap(_, _),    \* RunMap(i, s): state s after map i, i in 1 .. Maps
  Confident(_, _, _),  \* Confident(score, i, s): the score of s in map i reaches route_tau
  PageSize,        \* 256
  SourceClasses(_),    \* SourceClasses(page): map1_source_classes of a page, << >> for false
  Calls,           \* the calls a program makes, see Call
  MaxCalls,        \* bound: calls in one behaviour
  Setups,          \* how programs set their tables up: [dyn, cache]
  Fp128(_)         \* fingerprint128 of a state

\* The arguments of a call.  window 0 stands for all data values.
Call ==
  [driver : {"block", "il2", "bh", "il4", "il6", "il8", "il10", "il12", "il14", "origins", "fpset"},
   start : Nat, window : Nat, stride : Nat,  \* data_start, window, data_stride
   every : Nat, first : Nat,                 \* dedup_every_maps, first_dedup_maps
   checkpoints : SUBSET Nat,                 \* checkpoint_entries
   expanded : BOOLEAN,                       \* dedup_expanded_states
   skip_final_hash : BOOLEAN,
   prefilter : {"off", "all", "gate"},       \* map1_source_prefilter, with global_nibble_gate
   enum : SUBSET Positions, fixed : SUBSET Positions, copies : Nat,  \* data_enumeration: mask, fixed_value, source_multiplicity
   routing : {"off", "scored", "raw"},       \* score_during_map or not
   route_initial : BOOLEAN, route_final : BOOLEAN, x : Nat]  \* x: states run at a time (12, 4 or 1)

VARIABLES
  setup,      \* how the program has set its tables up
  call,       \* the call under way, or the last one
  ncalls,     \* calls begun
  entry_idx,  \* maps done, or -1 before the first group
  table,      \* out_table
  scratch,    \* scratch_table
  origin_table,  \* out_table of the origin driver
  unique      \* set of the fingerprint driver

dedupVars == <<setup, call, ncalls, entry_idx, table, scratch, origin_table, unique>>

-----------------------------------------------------------------------------
(* The data values. *)

Enumerated(c) == c.enum # {}
Number(bits) == MapThenSumSet(LAMBDA p : 2^p, bits)
Bits(n) == {p \in Positions : p < MaxIndexBits /\ (n \div 2^p) % 2 = 1}
data_value_for_index(c, i) ==
  LET logical == (c.start + i * c.stride) % Word
  IN  IF Enumerated(c) THEN Number(c.fixed \union deposit_bits32(logical, c.enum)) ELSE logical
effective_window(c) == IF c.window = 0 THEN Word ELSE c.window
Data(c) == [n \in 1 .. effective_window(c) |-> data_value_for_index(c, n - 1)]
Copies(c) == IF Enumerated(c) THEN c.copies ELSE 1

\* run_map_group: maps begin + 1 .. end.
run_map_group(begin, end, state) ==
  LET After[i \in begin .. end] == IF i = begin THEN state ELSE RunMap(i, After[i - 1])
  IN  After[end]

next_group_end(c, begin) ==
  LET later == {e \in c.checkpoints : e > begin}
      size  == IF begin = 0 /\ c.first # 0 THEN c.first ELSE Max({c.every, 1})
      end   == IF c.checkpoints # {} THEN Min(later \union {Maps}) ELSE Min({Maps, begin + size})
  IN  IF end <= begin THEN begin + 1 ELSE end

\* Whether a group of one map is routed: unconfident states pass by the table.
Routes(c, begin, end, initial) ==
  /\ c.routing # "off" /\ end = begin + 1
  /\ initial => c.route_initial
  /\ end = Maps => c.route_final

-----------------------------------------------------------------------------
(* The first group. *)

Source(c, end) == [n \in 1 .. effective_window(c) |->
  [state |-> run_map_group(0, end, Expand(Data(c)[n])), mult |-> Copies(c)]]

\* The source prefilter: a page whose map 1 tells no two classes of low bytes
\* apart is run by its classes' representatives.
UsesPrefilter(c) ==
  c.prefilter # "off" /\ ~Enumerated(c) /\ c.window # 0 /\ c.start % PageSize = 0 /\ c.window % PageSize = 0
PageStart(c, page) == c.start + PageSize * (page - 1)
Nibble(page_start) == (page_start \div PageSize) % 16
\* With the gate, a nibble is learned from the first page that has it.
Learned(c, page) ==
  c.prefilter = "gate" =>
    LET first == Min({q \in 1 .. page : Nibble(PageStart(c, q)) = Nibble(PageStart(c, page))})
    IN  SourceClasses(PageStart(c, first)) # << >>
PageEntries(c, end, page) ==
  LET start == PageStart(c, page)
      code(offset) == run_map_group(0, end, Expand(start + offset))
      classes == SourceClasses(start)
  IN  IF Learned(c, page) /\ classes # << >>
      THEN [n \in DOMAIN classes |-> [state |-> code(classes[n].representative_offset), mult |-> classes[n].multiplicity]]
      ELSE [n \in 1 .. PageSize |-> [state |-> code(n - 1), mult |-> 1]]
Prefiltered(c, end) == FlattenSeq([page \in 1 .. c.window \div PageSize |-> PageEntries(c, end, page)])

\* Confident states are merged, the others appended after them.
InsertRouted(t, entries, confident) ==
  LET hashed == SelectSeq([n \in DOMAIN entries |-> n], LAMBDA n : confident[n])
      passed == SelectSeq([n \in DOMAIN entries |-> n], LAMBDA n : ~confident[n])
  IN  AppendAll(InsertAll(t, [n \in DOMAIN hashed |-> entries[hashed[n]]]), [n \in DOMAIN passed |-> entries[passed[n]]])

FirstGroup(c, t) ==
  LET end == next_group_end(c, 0)
      score == [n \in 1 .. effective_window(c) |-> Confident("proxy", 1, Expand(Data(c)[n]))]
  IN  CASE c.expanded \/ Maps = 0 ->
             InsertAll(t, [n \in 1 .. effective_window(c) |-> [state |-> Expand(Data(c)[n]), mult |-> Copies(c)]])
        [] ~c.expanded /\ Maps # 0 /\ UsesPrefilter(c) -> InsertAll(t, Prefiltered(c, end))
        [] ~c.expanded /\ Maps # 0 /\ ~UsesPrefilter(c) /\ Routes(c, 0, end, TRUE) /\ c.window # 0 ->
             InsertRouted(t, Source(c, end), score)
        [] OTHER -> InsertAll(t, Source(c, end))

-----------------------------------------------------------------------------
(* The later groups. *)

\* n states at a time through the interleaved maps while there are n, each batch
\* inserted as a whole, then one by one.
Moved(src, from, to, begin, end) ==
  [n \in 1 .. to - from |-> [state |-> run_map_group(begin, end, src.pool[from + n].state), mult |-> src.pool[from + n].mult]]
Replayed(x, t, src, begin, end) ==
  LET whole == Len(src.pool) - (Len(src.pool) % x)
      batches == FoldLeft(LAMBDA u, b : InsertAll(u, Moved(src, x * (b - 1), x * b, begin, end)),
                          t, [b \in 1 .. whole \div x |-> b])
  IN  FoldLeft(LAMBDA u, n : InsertAll(u, Moved(src, n - 1, n, begin, end)),
               batches, [k \in 1 .. Len(src.pool) % x |-> whole + k])

\* A routed group reads its scores off the states before the map, or off the
\* algorithms as the map runs.
RoutedGroup(c, t, src, begin, end) ==
  LET kind == IF c.routing = "raw" THEN "raw" ELSE "count"
  IN  InsertRouted(t, Moved(src, 0, Len(src.pool), begin, end),
                   [n \in DOMAIN src.pool |-> Confident(kind, end, src.pool[n].state)])

LaterGroup(c, src, dst, begin, end) ==
  LET frontier_in == Len(src.pool)
      skips == c.skip_final_hash /\ end = Maps
  IN  CASE skips -> AppendAll(ResetPoolOnly(dst), Moved(src, 0, frontier_in, begin, end))
        [] ~skips /\ Routes(c, begin, end, FALSE) -> RoutedGroup(c, Reset(dst, frontier_in), src, begin, end)
        [] ~skips /\ ~Routes(c, begin, end, FALSE) -> Replayed(c.x, Reset(dst, frontier_in), src, begin, end)

\* The interleaved drivers know none of the options; their first group is merged
\* state by state.
IlFirst(c, t, end) == InsertAll(t, [n \in 1 .. c.window |-> [state |-> run_map_group(0, end, Expand(c.start + n - 1)), mult |-> 1]])
il_later(x, src, dst, begin, end) == Replayed(x, Reset(dst, Len(src.pool)), src, begin, end)
il2(src, dst, begin, end)  == il_later(2, src, dst, begin, end)
bh(src, dst, begin, end)   == FoldLeft(LAMBDA u, b : InsertAll(u, Moved(src, 8 * (b - 1), Min({8 * b, Len(src.pool)}), begin, end)),
                                Reset(dst, Len(src.pool)), [b \in 1 .. (Len(src.pool) + 7) \div 8 |-> b])
il4(src, dst, begin, end)  == il_later(4, src, dst, begin, end)
il6(src, dst, begin, end)  == il_later(6, src, dst, begin, end)
il8(src, dst, begin, end)  == il_later(8, src, dst, begin, end)
il10(src, dst, begin, end) == il_later(10, src, dst, begin, end)
il12(src, dst, begin, end) == il_later(12, src, dst, begin, end)
il14(src, dst, begin, end) == il_later(14, src, dst, begin, end)
Later(c, src, dst, begin, end) ==
  CASE c.driver = "block" -> LaterGroup(c, src, dst, begin, end)
    [] c.driver = "il2"   -> il2(src, dst, begin, end)
    [] c.driver = "bh"    -> bh(src, dst, begin, end)
    [] c.driver = "il4"   -> il4(src, dst, begin, end)
    [] c.driver = "il6"   -> il6(src, dst, begin, end)
    [] c.driver = "il8"   -> il8(src, dst, begin, end)
    [] c.driver = "il10"  -> il10(src, dst, begin, end)
    [] c.driver = "il12"  -> il12(src, dst, begin, end)
    [] c.driver = "il14"  -> il14(src, dst, begin, end)

-----------------------------------------------------------------------------

Idle == entry_idx = -1
DedupInit ==
  /\ setup \in Setups
  /\ call = (CHOOSE c \in Calls : TRUE) /\ ncalls = 0 /\ entry_idx = -1
  /\ table = NewTable(setup.dyn, setup.cache) /\ scratch = NewTable(setup.dyn, setup.cache)
  /\ origin_table = OriginReset(0) /\ unique = FpEmpty

\* A call up to the end of its first group.  The full window needs tables that
\* grow, whatever the caller has set.
Begin(c) ==
  /\ Idle /\ ncalls < MaxCalls
  /\ ncalls' = ncalls + 1 /\ call' = c
  /\ c.driver \notin {"origins", "fpset"}
  /\ LET dyn == setup.dyn \/ (c.driver = "block" /\ c.window = 0)
         begun == Reset([table EXCEPT !.dyn = dyn], c.window)
     IN  /\ table' = IF c.driver = "block" THEN FirstGroup(c, begun) ELSE IlFirst(c, begun, next_group_end(c, 0))
         /\ scratch' = [scratch EXCEPT !.dyn = dyn]
  /\ entry_idx' = IF c.driver = "block" /\ (c.expanded \/ Maps = 0) THEN 0 ELSE next_group_end(c, 0)
  /\ UNCHANGED <<setup, origin_table, unique>>

NextGroup ==
  /\ entry_idx \in 0 .. Maps - 1 /\ call.driver \notin {"origins", "fpset"}
  /\ LET end == next_group_end(call, entry_idx)
     IN  /\ table' = Later(call, table, scratch, entry_idx, end)
         /\ scratch' = table
         /\ entry_idx' = end
  /\ UNCHANGED <<setup, call, ncalls, origin_table, unique>>

\* forward_block_with_origin_dedup: merged after the expansion and every map.
BeginOrigins(c) ==
  /\ Idle /\ ncalls < MaxCalls
  /\ ncalls' = ncalls + 1 /\ call' = c
  /\ c.driver = "origins"
  /\ origin_table' = FoldLeft(LAMBDA t, n : InsertSingleOrigin(t, Expand(c.start + n - 1), n - 1),
                              OriginReset(c.window), [n \in 1 .. c.window |-> n])
  /\ entry_idx' = 0
  /\ UNCHANGED <<setup, table, scratch, unique>>
NextOrigins ==
  /\ entry_idx \in 0 .. Maps - 1 /\ call.driver = "origins"
  /\ origin_table' =
       FoldLeft(LAMBDA t, e : InsertOriginList(t, RunMap(entry_idx + 1, e.state), e.mult, origin_table.origins, e.head),
                OriginReset(Len(origin_table.pool)), origin_table.pool)
  /\ entry_idx' = entry_idx + 1
  /\ UNCHANGED <<setup, call, ncalls, table, scratch, unique>>

\* map1_fpset_unique: the number of states after the first group, and no more.
CountUnique(c) ==
  /\ Idle /\ ncalls < MaxCalls
  /\ ncalls' = ncalls + 1 /\ call' = c
  /\ c.driver = "fpset"
  /\ unique' = FoldLeft(LAMBDA set, n : FpInsert(set, Fp128(run_map_group(0, next_group_end(c, 0), Expand(Data(c)[n])))),
                        FpEmpty, [n \in 1 .. effective_window(c) |-> n])
  /\ entry_idx' = Maps
  /\ UNCHANGED <<setup, table, scratch, origin_table>>

\* The end of a call.
Return ==
  /\ entry_idx = Maps
  /\ entry_idx' = -1
  /\ table' = [table EXCEPT !.dyn = setup.dyn]
  /\ scratch' = [scratch EXCEPT !.dyn = setup.dyn]
  /\ UNCHANGED <<setup, call, ncalls, origin_table, unique>>

\* The program has made its calls.
Finished == Idle /\ ncalls = MaxCalls /\ UNCHANGED dedupVars

DedupNext ==
  \/ \E c \in Calls : Begin(c) \/ BeginOrigins(c) \/ CountUnique(c)
  \/ NextGroup \/ NextOrigins \/ Return \/ Finished

DedupSpec == DedupInit /\ [][DedupNext]_dedupVars

(***************************************************************************)
(* Properties.                                                             *)
(***************************************************************************)

CodeOf(n, end) == run_map_group(0, end, Expand(Data(call)[n]))
Sources(state, end) == {n \in 1 .. effective_window(call) : CodeOf(n, end) = state}
States(end) == {CodeOf(n, end) : n \in 1 .. effective_window(call)}
Counted(pool, state) ==
  MapThenSumSet(LAMBDA n : pool[n].mult, {n \in DOMAIN pool : pool[n].state = state}) % Word
Distinct(pool) == \A m, n \in DOMAIN pool : pool[m].state = pool[n].state => m = n

\* After every group the table stands for exactly the states of the window, each
\* counted as often as data values lead to it (in the table's 32 bits), and
\* merged states are there once; the origins listed for a state are those data
\* values; the fingerprint set counts the states ("On return, out_table.pool
\* contains the unique final states with their multiplicity counts",
\* state_dedup.h), whatever the calls made on the same tables before.
BlockIsExact ==
  /\ entry_idx >= 0 /\ call.driver \notin {"origins", "fpset"} =>
       /\ \A s \in States(entry_idx) \union {table.pool[n].state : n \in DOMAIN table.pool} :
            Counted(table.pool, s) = (Cardinality(Sources(s, entry_idx)) * Copies(call)) % Word
       /\ call.routing = "off" /\ ~(call.skip_final_hash /\ entry_idx = Maps) => Distinct(table.pool)
  /\ entry_idx >= 0 /\ call.driver = "origins" =>
       /\ {origin_table.pool[n].state : n \in DOMAIN origin_table.pool} = States(entry_idx)
       /\ Distinct(origin_table.pool)
       /\ \A n \in DOMAIN origin_table.pool :
            LET e == origin_table.pool[n]
                listed == OriginsFrom(origin_table.origins, e.head)
            IN  /\ {listed[k] + 1 : k \in DOMAIN listed} = Sources(e.state, entry_idx)
                /\ Len(listed) = Cardinality(Sources(e.state, entry_idx)) /\ e.mult = Len(listed)
  /\ entry_idx >= 0 /\ call.driver = "fpset" => unique.count = Cardinality(States(next_group_end(call, 0)))

\* A front-cache entry that carries its table's tag is of the generation the last
\* reset began ("epoch tag invalidates stale entries for free", state_dedup.h): it
\* points at the pool's entry with its fingerprint.
FrontCacheIsCurrent ==
  \A t \in {table, scratch} : \A f \in DOMAIN t.fc :
    t.size > 1 /\ t.fc[f].tag = t.epoch =>
      t.fc[f].at \in DOMAIN t.pool /\ StateFingerprint(t.pool[t.fc[f].at].state) = t.fc[f].fp
=============================================================================
