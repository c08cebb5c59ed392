------------------------------ MODULE MCSamples ------------------------------
EXTENDS CnCGraph, SamplesInverse, SamplesPaths, SamplesBasic, SamplesStencil, SamplesRtm, SamplesMore

MCPrograms ==
  {"cholesky", "inverse2", "inverse3", "inverse_unsafe", "inverse_spmd", "kernel", "cannon", "johnson",
   "floyd1d", "floyd2d", "floyd3d"} \cup
  {"fib", "fib_tuner", "fib_getcount", "fib_memoize", "primes", "gen_new_iter_space", "partition_string",
   "producer_consumer", "search_in_sorted_tree", "reduce_rows", "red_rows_until_pred", "divide_conquer",
   "hidden_graph", "reduce_2d", "stream_with_state", "thread_ring", "pipeline", "nqueens", "mandelbrot",
   "mandelbrot_vector"} \cup
  {"heat1", "heat2", "jacobi2d", "sorTiled", "sorDataTiled", "sorPrior", "sor3D"} \cup
  {"rtm_tiled", "rtm_halo", "rtm_halo_row"} \cup
  {"primes_parfor", "primes_range", "count_words", "count_all_words", "mapreduce", "blackscholes", "mpicnc", "raytracer0", "raytracer1", "raytracer2", "uts_cnc"} \cup
  {"faces"}
FibVariants == {"fib", "fib_tuner", "fib_getcount", "fib_memoize"}

GraphOf(p) ==
  CASE p = "cholesky" -> CholeskyGraph
    [] p \in {"inverse2", "inverse3", "inverse_unsafe"} -> InverseGraph
    [] p = "inverse_spmd" -> InverseSpmdGraph
    [] p = "kernel" -> [k |-> {"kernel"}]
    [] p = "cannon" -> CannonGraph
    [] p = "johnson" -> JohnsonGraph
    [] p \in {"floyd1d", "floyd2d", "floyd3d"} -> FloydGraph
    [] p \in FibVariants -> FibGraph
    [] p = "primes" -> PrimesGraph
    [] p = "gen_new_iter_space" -> GenIterGraph
    [] p = "partition_string" -> PartStrGraph
    [] p = "producer_consumer" -> ProdConsGraph
    [] p = "search_in_sorted_tree" -> SearchGraph
    [] p = "reduce_rows" -> RedRowsGraph
    [] p = "red_rows_until_pred" -> UntilGraph
    [] p = "divide_conquer" -> DivConqGraph
    [] p = "hidden_graph" -> HiddenGraph
    [] p = "reduce_2d" -> Red2dGraph
    [] p = "stream_with_state" -> StreamGraph
    [] p = "thread_ring" -> RingGraph
    [] p = "pipeline" -> PlGraph
    [] p = "nqueens" -> QueensGraph
    [] p = "mandelbrot" -> MandelGraph
    [] p = "mandelbrot_vector" -> MandelGraph
    [] p \in {"heat1", "heat2"} -> HeatGraph
    [] p = "jacobi2d" -> JacobiGraph
    [] p \in {"sorTiled", "sorDataTiled", "sorPrior"} -> SorGraph
    [] p = "sor3D" -> Sor3dGraph
    [] p \in {"rtm_tiled", "rtm_halo", "rtm_halo_row"} -> RtmGraph
    [] p = "primes_parfor" -> PrimesParforGraph
    [] p = "primes_range" -> PrimesGraph
    [] p \in {"count_words", "count_all_words"} -> CountAllGraph
    [] p = "mapreduce" -> MrGraph
    [] p = "blackscholes" -> BsGraph
    [] p = "mpicnc" -> MpiGraph
    [] p \in {"raytracer0", "raytracer1", "raytracer2"} -> RayGraph
    [] p = "uts_cnc" -> UtsCncGraph
    [] p = "faces" -> FaceGraph

MCPrescribes(p, c) == GraphOf(p)[c]
MCMemoized(p) == CASE p = "fib_memoize" -> FibMemoized [] OTHER -> {}

MCMain(p, v) ==
  CASE p = "cholesky" -> CholeskyMain
    [] p = "inverse2" -> InverseMain(2, v)
    [] p = "inverse3" -> InverseMain(3, v)
    [] p = "inverse_unsafe" -> InverseUnsafeMain(3, v)
    [] p = "inverse_spmd" -> InverseSpmdMain(2, 2, v)
    [] p = "kernel" -> KernelMain({4, 8}, {4}, {1, 2})
    [] p = "cannon" -> CannonMain
    [] p = "johnson" -> JohnsonMain
    [] p = "floyd1d" -> Floyd1dMain
    [] p = "floyd2d" -> Floyd2dMain
    [] p = "floyd3d" -> Floyd3dMain
    [] p \in FibVariants -> FibMain
    [] p = "primes" -> PrimesMain(12)
    [] p = "gen_new_iter_space" -> GenIterMain
    [] p = "partition_string" -> PartStrMain
    [] p = "producer_consumer" -> ProdConsMain
    [] p = "search_in_sorted_tree" -> SearchMain
    [] p = "reduce_rows" -> RedRowsMain
    [] p = "red_rows_until_pred" -> UntilMain
    [] p = "divide_conquer" -> DivConqMain
    [] p = "hidden_graph" -> HiddenMain
    [] p = "reduce_2d" -> Red2dMain
    [] p = "stream_with_state" -> StreamMain
    [] p = "thread_ring" -> RingMain
    [] p = "pipeline" -> PlMain
    [] p = "nqueens" -> QueensMain
    [] p = "mandelbrot" -> MandelMain
    [] p = "mandelbrot_vector" -> MandelRowsMain
    [] p = "heat1" -> HeatMain(2, 1)
    [] p = "heat2" -> HeatMain(4, 2)
    [] p = "jacobi2d" -> JacobiMain
    [] p = "sorTiled" -> SorTiledMain(SorSquare, v)
    [] p = "sorDataTiled" -> SorDataMain(SorSquare, v)
    [] p = "sorPrior" -> SorPriorMain(SorPoints, v)
    [] p = "sor3D" -> Sor3dMain(SorSquare)
    [] p = "rtm_tiled" -> RtmTiledMain(RtmPlane)
    [] p = "rtm_halo" -> RtmHaloMain(RtmPlane)
    [] p = "rtm_halo_row" -> RtmHaloMain(RtmRow)
    [] p = "primes_parfor" -> PrimesParforMain(13)
    [] p = "primes_range" -> PrimesRangeMain(12)
    [] p = "count_words" -> CountWordsMain(v)
    [] p = "count_all_words" -> CountAllMain(v)
    [] p = "mapreduce" -> MrMain(v)
    [] p = "blackscholes" -> BsMain
    [] p = "mpicnc" -> MpiMain
    [] p \in {"raytracer0", "raytracer1", "raytracer2"} -> RayMain
    [] p = "uts_cnc" -> UtsCncMain(v)
    [] p = "faces" -> FaceMain

MCOps(p, s, v) ==
  CASE p = "cholesky" -> CholeskyOps(s, v)
    [] p \in {"inverse2", "inverse3"} -> InverseOps(s, v)
    [] p = "inverse_unsafe" -> InverseUnsafeOps(s, v)
    [] p = "inverse_spmd" -> InverseSpmdOps(s, v)
    [] p = "kernel" -> KernelOps(s)
    [] p = "cannon" -> CannonOps(s, v)
    [] p = "johnson" -> JohnsonOps(s, v)
    [] p = "floyd1d" -> Floyd1dOps(s, v)
    [] p = "floyd2d" -> Floyd2dOps(s, v)
    [] p = "floyd3d" -> Floyd3dOps(s, v)
    [] p \in FibVariants -> FibOps(s, v)
    [] p = "primes" -> PrimesOps(s)
    [] p = "gen_new_iter_space" -> GenIterOps(s, v)
    [] p = "partition_string" -> PartStrOps(s, v)
    [] p = "producer_consumer" -> ProdConsOps(s, v)
    [] p = "search_in_sorted_tree" -> SearchOps(s, v)
    [] p = "reduce_rows" -> RedRowsOps(s, v)
    [] p = "red_rows_until_pred" -> UntilOps(s, v)
    [] p = "hidden_graph" -> HiddenOps(s, v)
    [] p = "reduce_2d" -> Red2dOps(s, v)
    [] p = "stream_with_state" -> StreamOps(s, v)
    [] p = "thread_ring" -> RingOps(s, v)
    [] p = "pipeline" -> PlOps(s, v)
    [] p = "mandelbrot" -> MandelOps(s, v)
    [] p = "divide_conquer" /\ s[1] = "divide" -> DivideOps(s[2][1], v)
    [] p = "divide_conquer" /\ s[1] = "conquer" -> ConquerOps(s[2][1], v)
    [] p = "nqueens" -> QueensOps(s)
    [] p = "mandelbrot_vector" -> MandelRowsOps(s, v)
    [] p \in {"heat1", "heat2"} -> HeatOps(s, v)
    [] p = "jacobi2d" -> JacobiOps(s, v)
    [] p = "sorTiled" -> SorTiledOps(SorSquare, s, v)
    [] p = "sorDataTiled" -> SorDataOps(SorSquare, s, v)
    [] p = "sorPrior" -> SorPriorOps(SorPoints, s, v)
    [] p = "sor3D" -> Sor3dOps(SorSquare, s, v)
    [] p = "rtm_tiled" -> RtmTiledOps(RtmPlane, s, v)
    [] p = "rtm_halo" -> RtmHaloOps(RtmPlane, s, v)
    [] p = "rtm_halo_row" -> RtmHaloOps(RtmRow, s, v)
    [] p = "primes_parfor" -> PrimesParforOps(s)
    [] p = "primes_range" -> PrimesOps(s)
    [] p = "count_words" -> CountWordsOps(s, v)
    [] p = "count_all_words" -> CountAllOps(s, v)
    [] p = "mapreduce" -> MrOps(s, v)
    [] p = "blackscholes" -> BsOps(s, v)
    [] p = "mpicnc" -> MpiOps(s, v)
    [] p = "raytracer0" -> RayOps(0, s, v)
    [] p = "raytracer1" -> RayOps(1, s, v)
    [] p = "raytracer2" -> RayOps(2, s, v)
    [] p = "uts_cnc" -> UtsCncOps(s)
    [] p = "faces" -> FaceOps(s, v)

MCDeps(p, s) ==
  CASE p \in {"inverse2", "inverse3", "inverse_spmd"} /\ s[1] = "mi" -> InverseDeps(s)
    [] p = "cannon" -> CannonDeps(s)
    [] p = "johnson" -> JohnsonDeps(s)
    [] p = "floyd1d" -> Floyd1dDeps(s)
    [] p = "floyd2d" -> Floyd2dDeps(s)
    [] p = "floyd3d" -> Floyd3dDeps(s)
    [] p \in FibVariants \ {"fib"} -> FibDeps(s)
    [] p = "pipeline" -> PlDeps(s)
    [] p = "rtm_tiled" -> RtmTiledDeps(RtmPlane, s)
    [] p = "rtm_halo" -> RtmHaloDeps(RtmPlane, s)
    [] p = "rtm_halo_row" -> RtmHaloDeps(RtmRow, s)
    [] OTHER -> {}

MCDeclaresAll(p) == p \notin {"cannon", "johnson"}

MCInPlace(p, s) ==
  CASE p = "cholesky" -> CholeskyInPlace(s)
    [] p = "cannon" -> CannonInPlace(s)
    [] p = "johnson" -> JohnsonInPlace(s)
    [] p \in {"floyd1d", "floyd2d"} -> IF s[1] = "compute" THEN {Block(s[2])} ELSE {}
    [] p = "pipeline" -> PlInPlace(s)
    [] p = "rtm_halo" -> RtmHaloInPlace(RtmPlane, s)
    [] p = "rtm_halo_row" -> RtmHaloInPlace(RtmRow, s)
    [] OTHER -> {}

MCCount(p, i) ==
  CASE p = "cholesky" -> CholeskyCount(i[2])
    [] p \in {"inverse2", "inverse3", "inverse_spmd"} /\ i[1] = "m_tiles" -> InverseCount(i[2])
    [] p = "inverse_unsafe" /\ i[1] = "m_tiles" -> InverseUnsafeCount(i[2])
    [] p = "floyd1d" -> Floyd1dCount(i)
    [] p = "floyd2d" -> Floyd2dCount(i)
    [] p = "floyd3d" -> Floyd3dCount(i[2])
    [] p \in {"fib_getcount", "fib_memoize"} -> FibCount(i[2])
    [] p = "stream_with_state" -> 1
    [] p = "pipeline" -> PlCount(i)
    [] p = "mandelbrot_vector" -> MandelRowsCount(i)
    [] p = "sor3D" -> Sor3dCount(SorSquare, i)
    [] p = "rtm_tiled" -> RtmTiledCount(RtmPlane, i)
    [] p = "rtm_halo" -> RtmHaloCount(RtmPlane, i)
    [] p = "rtm_halo_row" -> RtmHaloCount(RtmRow, i)
    [] p = "mapreduce" -> MrCount(i)
    [] p = "mpicnc" -> MpiCount(i)
    [] p = "count_all_words" /\ i[1] = "counts_per_block" -> 0
    [] OTHER -> NO_GETCOUNT

MCKept(p, i) ==
  CASE p \in FibVariants -> FibKept(i[2])
    [] p = "stream_with_state" -> StreamKept(i)
    [] p = "sor3D" -> Sor3dKept(i)
    [] p = "rtm_tiled" -> RtmTiledKept(RtmPlane, i)
    [] OTHER -> FALSE

MCLayouts(p) ==
  CASE p = "cholesky" -> CholeskyLayouts
    [] p = "inverse2" -> InverseLayouts(2)
    [] p = "inverse3" -> InverseLayouts(3)
    [] p = "inverse_spmd" -> InverseLayouts(2) \ {<<1>>}
    [] p \in {"floyd1d", "floyd2d", "floyd3d"} -> FloydLayouts
    [] p = "pipeline" -> ProcCounts \X {"STREAM", "STAGE", "BLOCK"}
    [] p = "rtm_tiled" -> RtmTiledLayouts(RtmPlane, ProcCounts)
    [] p = "rtm_halo" -> RtmHaloLayouts(RtmPlane, ProcCounts)
    [] p = "rtm_halo_row" -> RtmHaloLayouts(RtmRow, ProcCounts)
    [] OTHER -> {<<np>> : np \in ProcCounts}

MCOn(p, w, s) ==
  CASE p = "cholesky" -> CholeskyOn(w, s)
    [] p \in {"inverse2", "inverse3", "inverse_spmd"} /\ s[1] = "mi" -> InverseOn(w[1], s[2][1], s[2][3], s[2][4])
    [] p = "cannon" /\ s[1] = "mm_compute" -> CannonOn(w[1], s[2])
    [] p = "johnson" -> JohnsonOn(w[1], s)
    [] p = "floyd1d" -> Floyd1dOn(w, s)
    [] p \in {"floyd2d", "floyd3d"} -> Floyd2dOn(w, s)
    [] p = "primes" -> PrimesOn(w[1], s[2])
    [] p = "pipeline" -> PlOn(w, PlStage(s), s[2][1])
    [] p = "mandelbrot_vector" /\ s[1] = "m_steps" -> MandelRowsOn(w[1], s[2])
    [] p = "rtm_tiled" -> RtmTiledOn(RtmPlane, w[1], RtmPos(s[2]))
    [] p = "rtm_halo" -> RtmStepOn(LAMBDA q : RtmHaloOn(RtmPlane, w, q), s)
    [] p = "rtm_halo_row" -> RtmStepOn(LAMBDA q : RtmHaloOn(RtmRow, w, q), s)
    [] p = "primes_range" -> PrimesRangeOn(w[1], s[2])
    [] p = "mapreduce" -> MrOn(w[1], s)
    [] p = "blackscholes" -> BsOn(w[1], s[2])
    [] p = "mpicnc" -> MpiOn(w[1], s[2])
    [] OTHER -> 0

MCConsumedOn(p, w, i) ==
  CASE p = "cholesky" -> CholeskyConsumedOn(w, i[2])
    [] p \in {"inverse2", "inverse3", "inverse_spmd"} /\ i[1] = "m_tiles" -> InverseConsumedOn(w[1], i[2])
    [] p = "cannon" -> CannonConsumedOn(w[1], i)
    [] p = "johnson" -> JohnsonConsumedOn(w[1], i)
    [] p = "floyd1d" -> Floyd1dConsumedOn(w, i)
    [] p = "floyd2d" -> Floyd2dConsumedOn(w, i)
    [] p = "floyd3d" -> Floyd3dConsumedOn(w, i[2])
    [] p = "pipeline" -> PlConsumedOn(w, i)
    [] p = "mandelbrot_vector" -> MandelRowsConsumedOn(w[1], i)
    [] p = "rtm_tiled" -> RtmTiledConsumedOn(RtmPlane, w[1], i)
    [] p = "rtm_halo" -> RtmHaloConsumedOn(RtmPlane, w, i)
    [] p = "rtm_halo_row" -> RtmHaloConsumedOn(RtmRow, w, i)
    [] p = "mapreduce" -> MrBlockOn(w[1], i)
    [] p = "blackscholes" -> BsConsumedOn(w[1], i)
    [] p = "mpicnc" -> MpiConsumedOn(w[1], i)
    [] OTHER -> UNKNOWN

MCProducedOn(p, w, i) ==
  CASE p \in {"inverse2", "inverse3"} /\ i[1] = "m_tiles" -> InverseProducedOn(w[1], i[2])
    [] p = "johnson" -> JohnsonProducedOn(w[1], i)
    [] p = "floyd1d" -> Floyd1dProducedOn(w, i)
    [] p \in {"floyd2d", "floyd3d"} -> Floyd2dProducedOn(w, i)
    [] p = "mapreduce" -> MrBlockOn(w[1], i)
    [] OTHER -> UNKNOWN

MCExpected(p) ==
  CASE p = "cholesky" -> CholeskyExpected
    [] p = "inverse2" -> InverseMainExpected(2)
    [] p = "inverse_spmd" -> InverseExpected(2)
    [] p = "kernel" -> KernelExpected({4, 8}, {4}, {1, 2})
    [] p \in {"inverse3", "inverse_unsafe"} -> InverseMainExpected(3)
    [] p = "cannon" -> CannonExpected
    [] p = "johnson" -> JohnsonExpected
    [] p = "floyd1d" -> Floyd1dExpected
    [] p = "floyd2d" -> Floyd2dExpected
    [] p = "floyd3d" -> Floyd3dExpected
    [] p \in FibVariants -> FibExpected
    [] p = "primes" -> PrimesExpected(12)
    [] p = "gen_new_iter_space" -> GenIterExpected
    [] p = "partition_string" -> PartStrExpected
    [] p = "producer_consumer" -> ProdConsExpected
    [] p = "search_in_sorted_tree" -> SearchExpected
    [] p = "reduce_rows" -> RedRowsExpected
    [] p = "divide_conquer" -> DivConqExpected
    [] p = "hidden_graph" -> HiddenExpected
    [] p = "reduce_2d" -> Red2dExpected
    [] p = "stream_with_state" -> StreamExpected
    [] p = "thread_ring" -> RingExpected
    [] p = "pipeline" -> PlExpected
    [] p = "mandelbrot" -> MandelExpected
    [] p = "nqueens" -> QueensExpected
    [] p = "mandelbrot_vector" -> MandelRowsExpected
    [] p = "heat1" -> HeatExpected(2, 1)
    [] p = "heat2" -> HeatExpected(4, 2)
    [] p = "jacobi2d" -> JacobiExpected
    [] p = "sorTiled" -> SorTiledExpected(SorSquare)
    [] p = "sorDataTiled" -> SorExpected(SorSquare, Sweeps - 1)
    [] p = "sorPrior" -> SorExpected(SorPoints, Sweeps - 1)
    [] p = "sor3D" -> SorExpected(SorSquare, Sweeps)
    [] p = "rtm_tiled" -> RtmExpected(RtmPlane, TRUE)
    [] p = "rtm_halo" -> RtmExpected(RtmPlane, FALSE)
    [] p = "rtm_halo_row" -> RtmExpected(RtmRow, FALSE)
    [] p = "primes_parfor" -> PrimesExpected(14)
    [] p = "primes_range" -> PrimesExpected(12)
    [] p \in {"count_words", "count_all_words"} -> CountsExpected
    [] p = "mapreduce" -> MrExpected
    [] p = "blackscholes" -> BsExpected
    [] p = "mpicnc" -> MpiExpected
    [] p \in {"raytracer0", "raytracer1", "raytracer2"} -> RayExpected
    [] p = "uts_cnc" -> UtsCncExpected
    [] p = "faces" -> FaceExpected
    [] OTHER -> <<>>

MCComplete(p) ==
  CASE p \in {"primes", "primes_parfor", "primes_range"} -> {"m_primes"}
    [] p = "blackscholes" -> {"prices"}
    [] p = "jacobi2d" -> {"m_resultitems"}
    [] p = "gen_new_iter_space" -> {"result"}
    [] p = "partition_string" -> {"results"}
    [] p = "search_in_sorted_tree" -> {"success"}
    [] p = "hidden_graph" -> {"result_data"}
    [] p = "reduce_2d" -> {"sum1", "sum2"}
    [] p = "nqueens" -> {"m_solutions"}
    [] p = "faces" -> {"face"}
    [] OTHER -> {}

MCStuck(p) == IF p = "stream_with_state" THEN StreamStuck ELSE {}
=============================================================================
