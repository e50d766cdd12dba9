---------------------------- MODULE MCTmKernels ----------------------------
EXTENDS TmKernels, KeySchedule

\* All kernels of src/bruteforce/cpu with the CUDA warp and its host, and the
\* three that run a map of their own in another way than the map they stand for.
MCMisread == {"tm_avx_r256_16", "tm_sse2_m128s_8", "cuda_coalesced"}
MCKernels ==
  {"tm_8", "tm_32_8", "tm_64_8", "tm_mmx_m64_8", "tm_sse2_m128_8", "tm_avx_m256_8", "tm_avx_r256_8",
   "tm_32_16", "tm_64_16", "tm_sse2_m128_16", "tm_avx_m256_16", "tm_avx_r256_16", "tm_sse2_m128s_8",
   "tm_avx_r128s_8", "tm_avx_r256s_8", "tm_avx2_r256s_8", "tm_avx512_r512s_8",
   "tm_avx512_r512_map_8", "tm_avx2_r256_map_8", "tm_avx512_r512s_map_8", "cuda", "cuda_host"}
MCOneMapKernels == MCKernels \ MCMisread

\* One key with the data of two codes; in map 1 they run different algorithms.
MCSamples == {[key |-> <<1, 2, 3, 200>>, data |-> << <<9, 77, 250, 13>>, <<9, 77, 251, 13>> >>]}

\* Finished codes: one right for the carnival world and one for none, one right
\* for the other world and one for both.  The two checksum bytes are set to the masked sum.
MCRight(x, world) ==
  LET code == XorV(x, WorldData(world))
      sum  == MaskedChecksum(code, ChecksumMask(world))
      at   == 128 - CodeLength(world)
  IN  XorV([i \in 0 .. 127 |-> CASE i = at -> sum \div 256 [] i = at + 1 -> sum % 256 [] OTHER -> code[i]],
           WorldData(world))
MCCode == [i \in 0 .. 127 |-> (37 * i + 11) % 256]
MCLoads == {<<MCRight(MCCode, "carnival"), MCCode>>,
            <<MCRight(MCCode, "other"), MCRight(MCRight(NotV(MCCode), "other"), "carnival")>>}

MCSchedules == {<< [rng1 |-> 44, rng2 |-> 165, nibble_selector |-> 4242],
                   [rng1 |-> 144, rng2 |-> 65, nibble_selector |-> 14242] >>}

\* The first two maps of a key's schedule.
MCMaps(key) == SubSeq(ScheduleOf(key, SKIP_CAR), 1, 2)

\* After two maps the first and the fifth value of one block are right for the
\* carnival world, and the second of the other for the other world.
MCRequest(key, start, amount, room) ==
  [key |-> key, start |-> start, amount |-> amount, schedule |-> MCMaps(key), room |-> room]
MCRequests ==
  {MCRequest(<<80, 32, 97, 192>>, <<29, 37, 215, 1>>, 5, 9),
   MCRequest(<<80, 32, 97, 192>>, <<29, 37, 215, 1>>, 5, 30),
   MCRequest(<<87, 80, 132, 180>>, <<28, 210, 141, 0>>, 2, 30)}

\* Pages of 32 classes and of one.
MCPage(key, page, max_classes) ==
  [key |-> key, page |-> page, schedule |-> MCMaps(key), max_classes |-> max_classes]
MCPages ==
  {MCPage(<<235, 239, 151, 165>>, <<131, 56, 204, 0>>, 255),
   MCPage(<<250, 23, 45, 108>>, <<179, 238, 29, 0>>, 1)}
=============================================================================
