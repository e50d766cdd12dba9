----------------------------- MODULE TmKernels -----------------------------
(***************************************************************************)
(* The kernels as one machine.  A kernel is built, codes are expanded or   *)
(* loaded into it, and then its calls are made: run_alg, run_one_map,      *)
(* run_all_maps, run_maps_range, the interleaved ranges, the scored        *)
(* ranges, the screen, the block searches.  Each code is held as the       *)
(* kernel's memory holds it.  A driver may analyse a page before it runs   *)
(* any of its codes.  A CUDA warp is a kernel too: its ranges are its      *)
(* runners and its blocks are launches; so is the host code that checks    *)
(* it.                                                                     *)
(* TmKernels implements Transform: whichever kernel the build or the       *)
(* command line picks, and whichever of its calls, the codes are the ones  *)
(* the scalar kernel computes.                                             *)
(***************************************************************************)
EXTENDS CudaWarp, SourceClasses, Certifier

CONSTANTS
  Kernels,    \* names of the kernels whose run_maps calls are made
  OneMapKernels,  \* names of the kernels whose own run_one_map loop is called
  Samples, Loads, Schedules, Requests, MaxAlgs,  \* as in Transform
  Pages,      \* the pages analysed: records [key, page, schedule, max_classes]
  Taus        \* the thresholds a routed range is called with

VARIABLES
  kernel,    \* the kernel at work
  images,    \* the codes, each as the kernel's memory holds it
  rng_seed,  \* the seed the caller of run_alg owns
  call,      \* the calls made, as in Transform
  taint,     \* the bits in which the codes may differ, as routing.h follows them
  scores,    \* what the last scored range told of each code
  screened,  \* what the screen told of each code
  block,     \* a block search and its answer
  analysis   \* a page and what the drivers know of it before they run it

vars == <<kernel, images, rng_seed, call, taint, scores, screened, block, analysis>>

\* The layout of a kernel's memory: shuffled for registers of so many bits.
Bits(k) ==
  CASE k \in {"tm_sse2_m128s_8", "tm_avx_r128s_8"} -> 128
    [] k \in {"tm_avx_r256s_8", "tm_avx2_r256s_8"} -> 256
    [] k \in {"tm_avx512_r512s_8", "tm_avx512_r512s_map_8"} -> 512
    [] OTHER -> 0
Fetch(k, x) == Unshuffle(x, Bits(k))  \* fetch_data
Load(k, x)  == Shuffle(x, Bits(k))    \* load_data

\* The virtual calls of TM_base, by kernel.
RunsAlgs == {k \in Kernels : k \notin {"tm_avx512_r512_map_8", "tm_avx2_r256_map_8", "tm_avx512_r512s_map_8",
                             "cuda_coalesced"}}
ExpandOf(k, key, data) ==
  CASE k = "tm_32_8" -> tm_32_8_expand(key, data)
    [] k = "tm_64_8" -> tm_64_8_expand(key, data)
    [] k = "tm_mmx_m64_8" -> tm_mmx_m64_8_expand(key, data)
    [] k = "tm_sse2_m128_8" -> tm_sse2_m128_8_expand(key, data)
    [] k = "tm_avx_m256_8" -> tm_avx_m256_8_expand(key, data)
    [] k = "tm_avx_r256_8" -> tm_avx_r256_8_expand(key, data)
    [] k = "tm_32_16" -> tm_32_16_expand(key, data)
    [] k = "tm_64_16" -> tm_64_16_expand(key, data)
    [] k = "tm_sse2_m128_16" -> tm_sse2_m128_16_expand(key, data)
    [] k = "tm_avx_m256_16" -> tm_avx_m256_16_expand(key, data)
    [] k = "tm_avx_r256_16" -> tm_avx_r256_16_expand(key, data)
    [] k = "tm_sse2_m128s_8" -> m128s_expand(key, data)
    [] k = "tm_avx_r128s_8" -> r128s_expand(key, data)
    [] k = "tm_avx_r256s_8" -> r256s_expand(key, data)
    [] k = "tm_avx2_r256s_8" -> avx2_r256s_expand(key, data)
    [] k = "tm_avx512_r512s_8" -> r512s_expand(key, data)
    [] k = "tm_avx512_r512_map_8" -> r512_map_expand(key, data)
    [] k = "tm_avx2_r256_map_8" -> r256_map_expand(key, data)
    [] k = "tm_avx512_r512s_map_8" -> r512s_map_expand(key, data)
    [] k = "tm_8" -> ExpandCode(key, data)
    [] k \in {"cuda", "cuda_coalesced"} -> initialize_working_word(key, data)
    [] k = "cuda_host" -> cpu_expand(key, data)
AlgOf(k, id, x, seed) ==
  CASE k = "tm_32_8" -> tm_32_8_alg(id, x, seed)
    [] k = "tm_64_8" -> tm_64_8_alg(id, x, seed)
    [] k = "tm_mmx_m64_8" -> tm_mmx_m64_8_alg(id, x, seed)
    [] k = "tm_sse2_m128_8" -> tm_sse2_m128_8_alg(id, x, seed)
    [] k = "tm_avx_m256_8" -> tm_avx_m256_8_alg(id, x, seed)
    [] k = "tm_avx_r256_8" -> tm_avx_r256_8_alg(id, x, seed)
    [] k = "tm_32_16" -> tm_32_16_alg(id, x, seed)
    [] k = "tm_64_16" -> tm_64_16_alg(id, x, seed)
    [] k = "tm_sse2_m128_16" -> tm_sse2_m128_16_alg(id, x, seed)
    [] k = "tm_avx_m256_16" -> tm_avx_m256_16_alg(id, x, seed)
    [] k = "tm_avx_r256_16" -> tm_avx_r256_16_alg(id, x, seed)
    [] k = "tm_sse2_m128s_8" -> m128s_alg(id, x, seed)
    [] k = "tm_avx_r128s_8" -> r128s_alg(id, x, seed)
    [] k = "tm_avx_r256s_8" -> r256s_alg(id, x, seed)
    [] k = "tm_avx2_r256s_8" -> avx2_r256s_alg(id, x, seed)
    [] k = "tm_avx512_r512s_8" -> r512s_alg(id, x, seed)
    [] k = "tm_8" -> Alg(id, x, seed)
    [] k = "cuda" -> run_alg(id, x, seed)
    [] k = "cuda_host" -> cpu_run_alg(id, x, seed)
MapOf(k, x, entry) ==
  CASE k = "tm_32_8" -> tm_32_8_map(x, entry)
    [] k = "tm_64_8" -> tm_64_8_map(x, entry)
    [] k = "tm_mmx_m64_8" -> tm_mmx_m64_8_map(x, entry)
    [] k = "tm_sse2_m128_8" -> tm_sse2_m128_8_map(x, entry)
    [] k = "tm_avx_m256_8" -> tm_avx_m256_8_map(x, entry)
    [] k = "tm_avx_r256_8" -> tm_avx_r256_8_map(x, entry)
    [] k = "tm_32_16" -> tm_32_16_map(x, entry)
    [] k = "tm_64_16" -> tm_64_16_map(x, entry)
    [] k = "tm_sse2_m128_16" -> tm_sse2_m128_16_map(x, entry)
    [] k = "tm_avx_m256_16" -> tm_avx_m256_16_map(x, entry)
    [] k = "tm_avx_r256_16" -> tm_avx_r256_16_map(x, entry)
    [] k = "tm_sse2_m128s_8" -> m128s_map(x, entry)
    [] k = "tm_avx_r128s_8" -> r128s_map(x, entry)
    [] k = "tm_avx_r256s_8" -> r256s_map(x, entry)
    [] k = "tm_avx2_r256s_8" -> avx2_r256s_map(x, entry)
    [] k = "tm_avx512_r512s_8" -> r512s_one_map(x, entry)
    [] k = "tm_avx512_r512_map_8" -> r512_map_one_map(x, entry)
    [] k = "tm_avx2_r256_map_8" -> r256_map_one_map(x, entry)
    [] k = "tm_avx512_r512s_map_8" -> r512s_map_one_map(x, entry)
    [] k = "tm_8" -> OneMap(x, entry)
    [] k = "cuda" -> run_schedule_t(x, entry)
    [] k = "cuda_coalesced" -> quad_coalesced(x, entry)
    [] k = "cuda_host" -> cpu_forward(x, entry)
OneMapOf(k, x, entry) ==
  CASE k = "tm_avx_r256_16" -> tm_avx_r256_16_one_map(x, entry)
    [] k = "tm_sse2_m128s_8" -> m128s_one_map(x, entry)
    [] OTHER -> MapOf(k, x, entry)
CheckOf(k, x, world) ==
  CASE k = "tm_avx_r128s_8" -> r128s_check(x, world)
    [] k = "tm_avx_r256s_8" -> r256s_check(x, world)
    [] k = "tm_avx2_r256s_8" -> avx2_r256s_check(x, world)
    [] k = "tm_avx512_r512s_8" -> r512s_check(x, world)
    [] k = "tm_avx512_r512_map_8" -> r512_map_check(x, world)
    [] k = "tm_avx2_r256_map_8" -> r256_map_check(x, world)
    [] k = "tm_avx512_r512s_map_8" -> r512s_map_check(x, world)
    [] k = "tm_8" -> CheckWorld(x, world)
Screens == {k \in Kernels : k \in {"tm_avx_r128s_8", "tm_avx_r256s_8", "tm_avx2_r256s_8", "tm_avx512_r512s_8",
     "tm_avx512_r512_map_8", "tm_avx2_r256_map_8", "tm_avx512_r512s_map_8", "tm_8", "cuda"}}

\* The interleaved ranges of each kernel, by their names; w2 and w4 are the two
\* builds of the AVX2 kernel.
Ranges(k) ==
  CASE k = "tm_avx512_r512_map_8" -> {"x1", "x1_blarith", "x1_blmerge", "x1_blall", "x4", "x8", "x10", "x12", "x14",
          "x10_arr", "x12_arr", "x14_arr", "x4_blarith",
          "x8_blarith", "x8_blmerge", "x8_blall", "x10_blmerge_arr", "x12_blmerge_arr"}
    [] k = "tm_avx2_r256_map_8" -> {"x2", "x4", "x8_w2", "x8_blmerge_w2", "x8_w4", "x8_blmerge_w4"}
    [] k = "tm_avx512_r512s_8" -> {"x4", "x6", "x8", "x10", "x12", "x14", "x8_blmerge", "x8_blmerge2"}
    [] k = "tm_avx512_r512s_map_8" -> {"x4"}
    [] k = "tm_avx2_r256s_8" -> {"x2"}
    [] k = "cuda" -> CudaRunners
    [] OTHER -> {}
RangeCall(k, v, xs, schedule, begin, end) ==
  CASE k = "tm_avx512_r512_map_8" /\ v = "x1" -> r512_map_range_x1(xs, schedule, begin, end, 0)
    [] k = "tm_avx512_r512_map_8" /\ v = "x1_blarith" -> r512_map_range_x1(xs, schedule, begin, end, 1)
    [] k = "tm_avx512_r512_map_8" /\ v = "x1_blmerge" -> r512_map_range_x1(xs, schedule, begin, end, 2)
    [] k = "tm_avx512_r512_map_8" /\ v = "x1_blall" -> r512_map_range_x1(xs, schedule, begin, end, 3)
    [] k = "tm_avx512_r512_map_8" /\ v = "x4" -> r512_map_range_x4(xs, schedule, begin, end)
    [] k = "tm_avx512_r512_map_8" /\ v = "x8" -> r512_map_range_x8(xs, schedule, begin, end)
    [] k = "tm_avx512_r512_map_8" /\ v = "x10" -> r512_map_range_x10(xs, schedule, begin, end)
    [] k = "tm_avx512_r512_map_8" /\ v = "x12" -> r512_map_range_x12(xs, schedule, begin, end)
    [] k = "tm_avx512_r512_map_8" /\ v = "x14" -> r512_map_range_x14(xs, schedule, begin, end)
    [] k = "tm_avx512_r512_map_8" /\ v = "x10_arr" -> r512_map_range_x10_arr(xs, schedule, begin, end)
    [] k = "tm_avx512_r512_map_8" /\ v = "x12_arr" -> r512_map_range_x12_arr(xs, schedule, begin, end)
    [] k = "tm_avx512_r512_map_8" /\ v = "x14_arr" -> r512_map_range_x14_arr(xs, schedule, begin, end)
    [] k = "tm_avx512_r512_map_8" /\ v = "x4_blarith" -> r512_map_range_x4_blarith(xs, schedule, begin, end)
    [] k = "tm_avx512_r512_map_8" /\ v = "x8_blarith" -> r512_map_range_x8_blarith(xs, schedule, begin, end)
    [] k = "tm_avx512_r512_map_8" /\ v = "x8_blmerge" -> r512_map_range_x8_blmerge(xs, schedule, begin, end)
    [] k = "tm_avx512_r512_map_8" /\ v = "x8_blall" -> r512_map_range_x8_blall(xs, schedule, begin, end)
    [] k = "tm_avx512_r512_map_8" /\ v = "x10_blmerge_arr" -> r512_map_range_x10_blmerge_arr(xs, schedule, begin, end)
    [] k = "tm_avx512_r512_map_8" /\ v = "x12_blmerge_arr" -> r512_map_range_x12_blmerge_arr(xs, schedule, begin, end)
    [] k = "tm_avx2_r256_map_8" /\ v = "x2" -> r256_map_range_x2(xs, schedule, begin, end)
    [] k = "tm_avx2_r256_map_8" /\ v = "x4" -> r256_map_range_x4(xs, schedule, begin, end)
    [] k = "tm_avx2_r256_map_8" /\ v = "x8_w2" -> r256_map_range_x8(xs, schedule, begin, end, 2)
    [] k = "tm_avx2_r256_map_8" /\ v = "x8_blmerge_w2" -> r256_map_range_x8_blmerge(xs, schedule, begin, end, 2)
    [] k = "tm_avx2_r256_map_8" /\ v = "x8_w4" -> r256_map_range_x8(xs, schedule, begin, end, 4)
    [] k = "tm_avx2_r256_map_8" /\ v = "x8_blmerge_w4" -> r256_map_range_x8_blmerge(xs, schedule, begin, end, 4)
    [] k = "tm_avx512_r512s_8" /\ v = "x4" -> r512s_range_x4(xs, schedule, begin, end)
    [] k = "tm_avx512_r512s_8" /\ v = "x6" -> r512s_range_x6(xs, schedule, begin, end)
    [] k = "tm_avx512_r512s_8" /\ v = "x8" -> r512s_range_x8(xs, schedule, begin, end)
    [] k = "tm_avx512_r512s_8" /\ v = "x10" -> r512s_range_x10(xs, schedule, begin, end)
    [] k = "tm_avx512_r512s_8" /\ v = "x12" -> r512s_range_x12(xs, schedule, begin, end)
    [] k = "tm_avx512_r512s_8" /\ v = "x14" -> r512s_range_x14(xs, schedule, begin, end)
    [] k = "tm_avx512_r512s_8" /\ v = "x8_blmerge" -> r512s_range_x8_blmerge(xs, schedule, begin, end)
    [] k = "tm_avx512_r512s_8" /\ v = "x8_blmerge2" -> r512s_range_x8_blmerge2(xs, schedule, begin, end)
    [] k = "tm_avx512_r512s_map_8" /\ v = "x4" -> r512s_map_range_x4(xs, schedule, begin, end)
    [] k = "tm_avx2_r256s_8" /\ v = "x2" -> avx2_r256s_range_x2(xs, SubSeq(schedule, begin + 1, end))
    [] k = "cuda" -> CudaRange(v, xs, schedule, begin, end)

\* The scored ranges: each gives the codes and a score for each of them.
ScoreCalls(k) ==
  CASE k = "tm_avx512_r512_map_8" -> {"map1_scores", "x4_dscore", "x8_dscore", "x12_dscore", "x8_optail", "x8_route"}
    [] k = "tm_avx2_r256_map_8"   -> {"map1_scores"}
    [] OTHER                      -> {}
ScoreCall(k, v, xs, schedule, begin, end, tau) ==
  CASE k = "tm_avx2_r256_map_8" -> r256_map_map1_x8_scores(xs, schedule)
    [] v = "map1_scores" /\ k = "tm_avx512_r512_map_8" -> r512_map_map1_x8_scores(xs, schedule)
    [] v = "x4_dscore"   -> r512_map_range_x4_dscore(xs, schedule, begin, end)
    [] v = "x8_dscore"   -> r512_map_range_x8_dscore(xs, schedule, begin, end)
    [] v = "x12_dscore"  -> r512_map_range_x12_dscore(xs, schedule, begin, end)
    [] v = "x8_optail"   -> r512_map_range_x8_optail(xs, schedule, begin, end)
    [] v = "x8_route"    -> r512_map_range_x8_route(xs, schedule, begin, end, tau)

\* The block searches: run_bruteforce_data and its variants.
BlockCalls(k) ==
  CASE k = "tm_8" -> {"data", "nway"}
    [] k = "tm_avx_r128s_8" -> {"data", "boinc"}
    [] k \in {"tm_avx_r256s_8", "tm_avx2_r256s_8"} -> {"data"}
    [] k \in {"tm_avx512_r512_map_8", "tm_avx512_r512s_map_8", "tm_avx2_r256_map_8"} -> {"data", "il"}
    [] k = "cuda" -> {"dump", "hll"}
    [] k = "cuda_host" -> ActiveScreens
    [] OTHER -> {}
BlockCall(k, v, r) ==
  CASE k = "tm_8" /\ v = "data" -> tm_8_run_bruteforce_data(r.key, r.start, r.schedule, r.amount, r.room)
    [] k = "tm_8" /\ v = "nway" -> tm_8_run_bruteforce_data_nway(r.key, r.start, r.schedule, r.amount, r.room)
    [] k = "tm_avx_r128s_8" /\ v = "data" -> r128s_run_bruteforce_data(r.key, r.start, r.schedule, r.amount, r.room)
    [] k = "tm_avx_r128s_8" /\ v = "boinc" -> r128s_run_bruteforce_boinc(r.key, r.start, r.schedule, r.amount, r.room)
    [] k = "tm_avx_r256s_8" -> r256s_run_bruteforce_data(r.key, r.start, r.schedule, r.amount, r.room)
    [] k = "tm_avx2_r256s_8" -> avx2_r256s_run_bruteforce_data(r.key, r.start, r.schedule, r.amount, r.room)
    [] k = "tm_avx512_r512_map_8" /\ v = "data" -> r512_map_run_bruteforce_data(r.key, r.start, r.schedule, r.amount, r.room)
    [] k = "tm_avx512_r512_map_8" /\ v = "il" -> r512_map_run_bruteforce_data_il(r.key, r.start, r.schedule, r.amount, r.room)
    [] k = "tm_avx512_r512s_map_8" /\ v = "data" -> r512s_map_run_bruteforce_data(r.key, r.start, r.schedule, r.amount, r.room)
    [] k = "tm_avx512_r512s_map_8" /\ v = "il" -> r512s_map_run_bruteforce_data_il(r.key, r.start, r.schedule, r.amount, r.room)
    [] k = "tm_avx2_r256_map_8" /\ v = "data" -> r256_map_run_bruteforce_data(r.key, r.start, r.schedule, r.amount, r.room)
    [] k = "tm_avx2_r256_map_8" /\ v = "il" -> r256_map_run_bruteforce_data_il(r.key, r.start, r.schedule, r.amount, r.room)
    [] k = "cuda" /\ v = "dump" -> dump_state(r.key, r.start, r.amount, r.schedule)
    [] k = "cuda" /\ v = "hll" -> screen_and_hll(r.key, r.start, r.amount, r.schedule)
    [] k = "cuda_host" -> cuda_search(v, r.key, r.start, r.amount, r.schedule)

-----------------------------------------------------------------------------

Fetched == [n \in DOMAIN images |-> Fetch(kernel, images[n])]
Differs(xs) == XorV(xs[1], xs[2])

Init ==
  /\ kernel \in Kernels \union OneMapKernels
  /\ \/ /\ \E s \in Samples :
             /\ images = [n \in DOMAIN s.data |-> ExpandOf(kernel, s.key, s.data[n])]
             /\ rng_seed = 256 * s.key[3] + s.key[4]
        /\ taint = DataColumns
        /\ call = << >>
     \/ /\ kernel \in Kernels
        /\ \E xs \in Loads : images = [n \in DOMAIN xs |-> Load(kernel, xs[n])] /\ taint = Differs(xs)
        /\ rng_seed = 0
        /\ call = << [op |-> "load_data"] >>
  /\ scores = << >>
  /\ screened = << >>
  /\ block = << >>
  /\ analysis = << >>

\* A run of maps, a block search and an analysis are each made by itself.
Idle == call = << >> /\ screened = << >> /\ analysis = << >>

RunAlg ==
  /\ kernel \in RunsAlgs
  /\ Len(call) < MaxAlgs /\ images # << >> /\ screened = << >> /\ analysis = << >>
  /\ \E id \in 0 .. 7 :
       /\ call' = << [op |-> "run_alg", id |-> id] >> \o call
       /\ images' = [n \in DOMAIN images |-> AlgOf(kernel, id, images[n], rng_seed)]
       /\ rng_seed' = SeedAfter(id, rng_seed)
       /\ taint' = apply_mask(id, taint)
  /\ UNCHANGED <<kernel, scores, screened, block, analysis>>

\* A call that runs the maps begin .. end-1 of a schedule and leaves xs.  Codes
\* that differ take different ways through a map, so nothing is known of how
\* they differ after it.
RunMaps(schedule, begin, end, xs) ==
  /\ begin < end
  /\ call' = << [op |-> "run_maps", entries |-> SubSeq(schedule, begin + 1, end)] >>
  /\ images' = xs
  /\ taint' = [i \in 0 .. 127 |-> 255]
  /\ UNCHANGED <<kernel, rng_seed, screened, block, analysis>>

RunAllMaps(schedule) ==
  /\ Idle /\ kernel \in Kernels
  /\ LET map(x, entry) == MapOf(kernel, x, entry)
     IN  RunMaps(schedule, 0, Len(schedule), [n \in DOMAIN images |-> MapsWith(map, images[n], schedule)])
  /\ UNCHANGED scores

RunOneMap(schedule) ==
  /\ Idle /\ kernel \in OneMapKernels
  /\ RunMaps(schedule, 0, 1, [n \in DOMAIN images |-> OneMapOf(kernel, images[n], schedule[1])])
  /\ UNCHANGED scores

RunRange ==
  /\ Idle /\ kernel \in Kernels
  /\ \E v \in Ranges(kernel), schedule \in Schedules : \E begin, end \in 0 .. Len(schedule) :
       RunMaps(schedule, begin, end, RangeCall(kernel, v, images, schedule, begin, end))
  /\ UNCHANGED scores

RunScored ==
  /\ Idle /\ kernel \in Kernels
  /\ \E v \in ScoreCalls(kernel), tau \in Taus, schedule \in Schedules :
       \E begin, end \in 0 .. Len(schedule) :
         /\ v = "map1_scores" => begin = 0 /\ end = 1
         /\ \E done \in {ScoreCall(kernel, v, images, schedule, begin, end, tau)} :
              /\ RunMaps(schedule, begin, end, done.codes)
              /\ scores' = [call |-> v, tau |-> tau, of |-> done.scores]

\* tm_avx_r128s_8's calls of one value: its first map, and its challenge flags.
RunFirstMap ==
  /\ Idle /\ kernel \in Kernels /\ kernel = "tm_avx_r128s_8"
  /\ \E r \in Requests :
       /\ call' = << [op |-> "run_first_map", request |-> r] >>
       /\ images' = << r128s_run_first_map(r.key, r.start, r.schedule) >>
  /\ taint' = [i \in 0 .. 127 |-> 255]
  /\ UNCHANGED <<kernel, rng_seed, scores, screened, block, analysis>>

\* A block search leaves in the kernel what its last code happened to store.
Searched(v, r, answer) ==
  /\ call' = << [op |-> "run_block", request |-> r] >>
  /\ images' = << >>
  /\ block' = << [call |-> v, answer |-> answer] >>
  /\ UNCHANGED <<kernel, rng_seed, taint, scores, screened, analysis>>
RunBlock ==
  /\ Idle /\ kernel \in Kernels
  /\ \E v \in BlockCalls(kernel), r \in Requests : Searched(v, r, BlockCall(kernel, v, r))
RunLaunch ==
  /\ Idle /\ kernel \in Kernels /\ kernel = "cuda"
  /\ \E s \in ScreenKernels, r \in Requests :
       Searched("launch", r, Launch(s, r.key, r.start, r.amount, r.schedule))
ComputeChallengeFlags ==
  /\ Idle /\ kernel \in Kernels /\ kernel = "tm_avx_r128s_8"
  /\ \E r \in Requests :
       Searched("challenge", r, r128s_compute_challenge_flags(r.key, r.start, r.schedule))

\* The drivers of the map kernels analyse a page: the bits of data its key's
\* first map sheds, and the classes of its offsets.
Analyse ==
  /\ Idle /\ kernel \in Kernels /\ kernel = "tm_avx512_r512_map_8"
  /\ \E p \in Pages :
       analysis' = << [of      |-> p,
                       shed    |-> certified_shed_mask(p.key, p.schedule),
                       classes |-> map1_source_classes(p.key, p.page, p.schedule, p.max_classes)] >>
  /\ UNCHANGED <<kernel, images, rng_seed, call, taint, scores, screened, block>>

\* The worlds are tried as in a block search; a CUDA warp tries both.
Screened(k, x) ==
  LET check(y, world) == CheckOf(k, y, world)
  IN  IF k = "cuda" THEN screen_candidate(x) ELSE FirstWorld(check, x)
Screen ==
  /\ kernel \in Screens /\ screened = << >> /\ images # << >> /\ analysis = << >>
  /\ screened' = [n \in DOMAIN images |-> Screened(kernel, images[n])]
  /\ UNCHANGED <<kernel, images, rng_seed, call, taint, scores, block, analysis>>

Next ==
  \/ RunAlg
  \/ \E schedule \in Schedules : RunAllMaps(schedule) \/ RunOneMap(schedule)
  \/ RunRange \/ RunScored
  \/ RunFirstMap \/ RunBlock \/ RunLaunch \/ ComputeChallengeFlags
  \/ Analyse
  \/ Screen

Spec == Init /\ [][Next]_vars

(***************************************************************************)
(* Properties.                                                             *)
(***************************************************************************)

\* Every kernel, whatever its registers, lanes and tables look like, computes
\* the working codes of the scalar kernel, by every one of its calls: run_alg,
\* run_all_maps, run_one_map and each interleaved range (tm_base.h's virtual
\* calls, and the "bit-exact" reference the README names).
T == INSTANCE Transform WITH working_code <- Fetched
ImplementsTransform == T!Spec

\* Whichever way a kernel is asked for one map, by run_one_map or by a schedule
\* of one entry, it computes the map of the code it holds.
OneMapAgrees ==
  [][\A schedule \in Schedules : RunOneMap(schedule) =>
       \A n \in DOMAIN images : Fetched'[n] = OneMap(Fetched[n], schedule[1])]_vars

\* The algorithms each map of a schedule runs on a code.
OpsOfAll(x, entries) ==
  [m \in DOMAIN entries |-> RunTrace(AllMaps(x, SubSeq(entries, 1, m - 1)), entries[m])]
CountOf0(ops) == Cardinality({s \in DOMAIN ops : ops[s] = 0})
RECURSIVE TailOf(_, _)
TailOf(ops, n) == IF n = 0 THEN 0 ELSE 8 * TailOf(SubSeq(ops, 1, Len(ops) - 1), n - 1) + ops[Len(ops)]

\* The scores a range leaves are those of the algorithms the scalar kernel runs
\* on the same code: the alg_0 count of the first map (dscore), the last
\* eight algorithms and the count of the last map (optail), whether any map
\* reached the threshold (route), the taint score of map 1.
ScoreOf(call_, tau, ops) ==
  LET last == ops[Len(ops)]
  IN  CASE call_ = "map1_scores" -> shed_proxy_map1(ops[1])
        [] call_ = "x8_optail"   -> [tail |-> TailOf(last, 8), count |-> CountOf0(last)]
        [] call_ = "x8_route"    ->
             [tail |-> TailOf(last, 8), sticky |-> \E m \in DOMAIN ops : CountOf0(ops[m]) >= tau]
        [] OTHER                 -> CountOf0(ops[1])
ScoresAgree ==
  [][scores' # scores =>
       \A n \in DOMAIN images :
         scores'.of[n] = ScoreOf(scores'.call, scores'.tau, OpsOfAll(Fetched[n], call'[1].entries))]_vars

\* The flags of a code whose checksum is right for none, one or both worlds.
WorldFlags(x) ==
  LET right == {world \in {"carnival", "other"} : CheckWorld(x, world)}
  IN  (IF right = {} THEN {} ELSE {"CHECKSUM_SENTINEL"}) \union (IF "other" \in right THEN {"OTHER_WORLD"} ELSE {})
        \union (IF Cardinality(right) = 2 THEN {"DUAL_PASS"} ELSE {})

\* A screened code is announced for the first of the two worlds whose checksum
\* the scalar kernel finds right, in every layout; a CUDA warp announces both.
ScreenAgrees ==
  screened # << >> =>
    \A n \in DOMAIN screened :
      IF kernel = "cuda" THEN screened[n] = WorldFlags(Fetched[n])
      ELSE screened[n] = IF CheckWorld(Fetched[n], "carnival") THEN "carnival"
                         ELSE IF CheckWorld(Fetched[n], "other") THEN "other" ELSE "none"

\* The mask routing.h carries along covers every bit in which two codes of one
\* key can differ, whatever their data.
TaintCovers == Len(images) = 2 => \A i \in 0 .. 127 : LET d == Differs(Fetched)[i] IN And(d, taint[i]) = d

\* What the scalar kernel says of a value of a block: its record, if it has one.
ToldOf(call_, ref, code, world) ==
  IF world = "none" THEN << >>
  ELSE << ref, check_machine_code(XorV(code, WorldData(world)), world)
                 \union (IF world = "other" /\ call_ = "boinc" THEN {"OTHER_WORLD"} ELSE {}) >>
Told(call_, ref, code) == ToldOf(call_, ref, code, FirstWorld(CheckWorld, code))
CodesOf(r) ==
  [p \in 0 .. r.amount - 1 |-> AllMaps(ExpandCode(r.key, DataAt(r.start, p)), r.schedule)]

\* What a launch leaves, whatever the width of its warps: an answer for each value
\* and for no other position.  A search of the host finds the right codes over
\* all its launches; a code right for both worlds counts for the other one.
FoundAs(data, code, flags) ==
  ToldOf("boinc", data, code,
         CASE flags = {} -> "none" [] "OTHER_WORLD" \in flags -> "other" [] OTHER -> "carnival")
CudaAgrees(b, r, code) ==
  LET flags    == {<< p, WorldFlags(code[p]) >> : p \in DOMAIN code}
      found(n) == FoundAs(DataAt(r.start, n - 1), code[n - 1], WorldFlags(code[n - 1]))
  IN  CASE b.call = "launch"  -> b.answer = flags
        [] b.call = "dump"    -> b.answer = {<< p, code[p] >> : p \in DOMAIN code}
        [] b.call = "hll" /\ kernel = "cuda" -> b.answer = [flags |-> flags, hashed |-> {code[p] : p \in DOMAIN code}]
        [] kernel = "cuda_host" -> b.answer = SelectSeq([n \in 1 .. r.amount |-> found(n)], Written)

\* A search of a kernel of src/bruteforce/cpu, of whose values all says what the
\* scalar kernel says.
SearchAgrees(b, r, all) ==
  LET told(amount) == SelectSeq(SubSeq(all, 1, amount), Written)
      width == CASE b.call = "nway" -> NWAY_BATCH
                 [] b.call = "il" -> IF kernel = "tm_avx2_r256_map_8" THEN 2 ELSE 4
                 [] OTHER -> 1
  IN  /\ b.answer.records = told(b.answer.ran)
      /\ 5 * Len(b.answer.records) <= r.room
      /\ r.room >= 5 * (Len(told(r.amount)) + width) =>
           b.answer.ran = r.amount /\ b.answer.size = 5 * Len(b.answer.records)
ChallengeAgrees(b, code) ==
  /\ b.answer.carnival = check_machine_code(XorV(code, WorldData("carnival")), "carnival")
  /\ b.answer.other \ {"OTHER_WORLD"} = check_machine_code(XorV(code, WorldData("other")), "other")

\* A block search, by whichever kernel and however many codes at a time, writes
\* one record for each right code among the values it ran, in their order and
\* with the flags of the decrypted code; it never writes past its buffer; it
\* runs all values if there was room for their records and one more batch, and
\* then tells the size of what it wrote.  A challenge gets the flags of both
\* worlds.  A launch answers for each of its values.
BlockAgrees(b, r, code) ==
  LET ref(i) == IF kernel = "tm_avx_r128s_8" THEN DataAt(r.start, i) ELSE i
  IN  CASE kernel \in {"cuda", "cuda_host"} -> CudaAgrees(b, r, code)
        [] b.call = "challenge" -> ChallengeAgrees(b, code[0])
        [] OTHER -> SearchAgrees(b, r, [i \in 1 .. r.amount |-> Told(b.call, ref(i - 1), code[i - 1])])
BlocksAgree == \A n \in DOMAIN block : BlockAgrees(block[n], call[1].request, CodesOf(call[1].request))

\* What the drivers believe of a page is so: each code map 1 leaves of the page
\* is left by as many of its 256 values as the classes say, and a certified bit
\* of the data changes no code.  A wrong class or bit would drop a value that
\* was never run.
AnalysisIsSound ==
  \A n \in DOMAIN analysis :
    LET a          == analysis[n]
        code(data) == OneMap(ExpandCode(a.of.key, data), a.of.schedule[1])
        left       == {<< o, code([a.of.page EXCEPT ![4] = o]) >> : o \in 0 .. 255}
        leaves(o, x) == \E l \in left : l[1] = o /\ l[2] = x
        flipped(data, db) == [data EXCEPT ![4 - (db \div 8)] = Xor(@, 2^(db % 8))]
    IN  /\ a.classes # {} =>
             \A x \in {l[2] : l \in left} :
               Cardinality({l \in left : l[2] = x}) =
               MapThenSumSet(LAMBDA c : c.multiplicity, {c \in a.classes : leaves(c.representative_offset, x)})
        /\ \A db \in a.shed, o \in {0, 85} :
             LET data == [a.of.page EXCEPT ![4] = o] IN code(flipped(data, db)) = code(data)
=============================================================================
