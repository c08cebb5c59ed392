----------------------------- MODULE SamplesMore -----------------------------
(***************************************************************************)
(* Samples that take their input apart and put results together again:     *)
(* word counts and map-reduce over the blocks of a text, option pricing,   *)
(* a ray tracer that balances its load, the CnC version of the unbalanced  *)
(* tree search.  What a reduction delivers after wait() (module Reduce) is *)
(* written as puts of main().                                              *)
(***************************************************************************)
EXTENDS SamplesBasic, UtsTree

Occurrences(x, seq) == Cardinality({n \in DOMAIN seq : seq[n] = x})

-----------------------------------------------------------------------------
\* primes_range puts one range of tags, primes_parfor runs a parallel_for up to
\* and including n on a context of its own.
PrimesParforGraph == [pfor |-> {"FindPrimes"}]
PrimesParforMain(n) ==
  [x \in DOMAIN Odds(n) |-> Tag("pfor", <<Odds(n)[x]>>)] \o <<Wait>>
PrimesRangeMain(n) == [x \in DOMAIN Odds(n - 1) |-> Tag("m_tags", <<Odds(n - 1)[x]>>)] \o <<Wait>>
PrimesParforOps(s) == When(FirstFactor(s[2][1]) = s[2][1], <<Put(<<"m_primes", s[2]>>, s[2][1])>>)
PrimesPerProc == 4     \* 1000000 / 20
PrimesRangeOn(np, t) == (1 + t[1] \div PrimesPerProc) % np

-----------------------------------------------------------------------------
\* count_all_words: a line of the text is a block, a sequence of words; every
\* word is put with an id of its own, block << 16 + position.
TextLines == <<<<"w", "u", "w">>, <<>>, <<"u", "w">>>>
IdsPerBlock == 4       \* 1 << 16
Line(b) == <<"blocks", <<b>>>>
TextWords == {"u", "w"}
CountAllGraph == [tags |-> {"counter"}]
CountAllMain(v) ==
  For(0, Len(TextLines), LAMBDA b : <<Put(Line(b), TextLines[b + 1]), Tag("tags", <<b>>)>>)
  \o <<Wait>>
  \o [x \in 1..Cardinality(TextWords) |->
        LET w == SetToSeq(TextWords)[x]
        IN Put(<<"counts", <<w>>>>,
               Cardinality({i \in DOMAIN v : i[1] = "counts_per_block" /\ i[2][2] = w}))]
  \o <<Wait>>
CountAllOps(s, v) ==
  LET words == At(v, Line(s[2][1]), <<>>)
  IN <<Get(Line(s[2][1]))>> \o
     For(0, Len(words), LAMBDA k :
           <<Put(<<"counts_per_block", <<s[2][1] * IdsPerBlock + k, words[k + 1]>>>>, 1)>>)
CountsExpected ==
  [i \in {<<"counts", <<w>>>> : w \in TextWords} |-> Occurrences(i[2][1], FlattenSeq(TextLines))]

\* count_words: one step per line and wanted word; red_counts says how many.
CountWordsMain(v) ==
  FlattenSeq([b \in DOMAIN TextLines |->
    <<Put(Line(b - 1), TextLines[b])>> \o
    [x \in 1..Cardinality(TextWords) |-> Tag("tags", <<b - 1, SetToSeq(TextWords)[x]>>)]])
  \o [x \in 1..Cardinality(TextWords) |->
        Put(<<"red_counts", <<SetToSeq(TextWords)[x]>>>>, Len(TextLines))]
  \o <<Wait>>
  \o [x \in 1..Cardinality(TextWords) |->
        LET w == SetToSeq(TextWords)[x]
            per == {i \in DOMAIN v : i[1] = "counts_per_block" /\ i[2][2] = w}
        IN Put(<<"counts", <<w>>>>,
               IF Cardinality(per) = At(v, <<"red_counts", <<w>>>>, 0)
               THEN MapThenSumSet(LAMBDA i : v[i], per) ELSE -1)]
  \o <<Wait>>
CountWordsOps(s, v) ==
  <<Get(Line(s[2][1])),
    Put(<<"counts_per_block", s[2]>>, Occurrences(s[2][2], At(v, Line(s[2][1]), <<>>)))>>

-----------------------------------------------------------------------------
\* mapreduce: read_steps cut a file into blocks at the last white space of what
\* has been read, map_steps take a block apart.  A file <<n, host>> is named
\* "n:host"; without host, -1, its hash decides, here n.
MIN_BLK_SZ == 4
MrFiles == {<<1, 2>>, <<3, -1>>}
MrText(file) == IF file[1] = 1 THEN <<"w", " ", "u", "u", " ", "w", " ">>
                ELSE <<"u", "u", " ", "u", "u", " ", "w", " ">>
WordsIn(text) ==
  FoldLeft(LAMBDA a, c : IF c = " " THEN [out |-> IF a.word = <<>> THEN a.out ELSE Append(a.out, a.word),
                                          word |-> <<>>]
                         ELSE [a EXCEPT !.word = Append(@, c)],
           [out |-> <<>>, word |-> <<>>], Append(text, " ")).out
MrGraph == [read_tags |-> {"reader"}, map_tags |-> {"mapper"}]
BlockAt(file, id) == <<"blocks", <<file, id>>>>

\* blocks of the text from position pos on, with the characters first left over
\* from the block before; the stream is good until a read comes up short.  A
\* block without any white space, or a last word without, is not provided for.
RECURSIVE BlocksFrom(_, _, _)
BlocksFrom(text, pos, first) ==
  LET got == SubSeq(text, pos, Min({pos + MIN_BLK_SZ - 1, Len(text)}))
      block == first \o got
      good == Len(got) = MIN_BLK_SZ
      last == Max({0} \cup {n \in DOMAIN block : block[n] = " "})
  IN (IF block = <<>> THEN <<>> ELSE <<SubSeq(block, 1, last - 1)>>) \o
     (IF good THEN BlocksFrom(text, pos + MIN_BLK_SZ, SubSeq(block, last + 1, Len(block))) ELSE <<>>)
MrReaderOps(file) ==
  LET blocks == BlocksFrom(MrText(file), 1, <<>>)
  IN For(0, Len(blocks), LAMBDA id : <<Put(BlockAt(file, id), blocks[id + 1]), Tag("map_tags", <<file, id>>)>>)
\* The puts of one word all go to map_out[word]; with get count 0 nothing is
\* kept, each reaches the reduction, and is told apart here by where it is from.
MrMapperOps(t, v) ==
  LET words == WordsIn(At(v, BlockAt(t[1], t[2]), <<>>))
  IN <<Get(BlockAt(t[1], t[2]))>> \o
     For(1, Len(words) + 1, LAMBDA k : <<Put(<<"map_out", <<t, k>>>>, words[k])>>)
MrOps(s, v) == IF s[1] = "reader" THEN MrReaderOps(s[2][1]) ELSE MrMapperOps(s[2], v)
MrWords == UNION {{WordsIn(MrText(f))[k] : k \in DOMAIN WordsIn(MrText(f))} : f \in MrFiles}
MrMain(v) ==
  [x \in 1..Cardinality(MrFiles) |-> Tag("read_tags", <<SetToSeq(MrFiles)[x]>>)]
  \o <<Wait>>
  \o [x \in 1..Cardinality(MrWords) |->
        LET w == SetToSeq(MrWords)[x]
        IN Put(<<"results", <<w>>>>, Cardinality({i \in DOMAIN v : i[1] = "map_out" /\ v[i] = w}))]
  \o <<Wait>>
MrCount(i) == CASE i[1] = "blocks" -> 1 [] i[1] = "map_out" -> 0 [] OTHER -> NO_GETCOUNT
MrReadOn(np, file) == (IF file[2] = -1 THEN file[1] ELSE file[2]) % np
\* A mapper executes where its tag was put: COMPUTE_ON_LOCAL.
MrOn(np, s) == MrReadOn(np, s[2][1])
\* CONSUMER_LOCAL and PRODUCER_LOCAL: blocks stay where they were read.
MrBlockOn(np, i) == IF i[1] = "blocks" THEN {MrReadOn(np, i[2][1])} ELSE UNKNOWN
MrExpected ==
  [i \in {<<"results", <<w>>>> : w \in MrWords} |->
     MapThenSumSet(LAMBDA file : Occurrences(i[2][1], WordsIn(MrText(file))), MrFiles)]

-----------------------------------------------------------------------------
\* blackscholes: full blocks of options are priced, a last one that is not full
\* is never put.  What an option is worth is left open.
NumOptions == 7
Granularity == 2
BsGraph == [tags |-> {"compute"}]
OptData(b) == <<"opt_data", <<b>>>>
BsMain ==
  For(0, NumOptions, LAMBDA i :
    When(i % Granularity = Granularity - 1,
         LET b == i \div Granularity
         IN <<Put(OptData(b), [o \in 0..(Granularity - 1) |-> b * Granularity + o]), Tag("tags", <<b>>)>>))
  \o <<Wait>>
BsOps(s, v) ==
  LET opts == At(v, OptData(s[2][1]), <<>>)
  IN <<Get(OptData(s[2][1])), Put(<<"prices", s[2]>>, [o \in DOMAIN opts |-> <<"price", opts[o]>>])>>
BsOn(np, t) == t[1] % np
BsConsumedOn(np, i) == {BsOn(np, i[2])}
BsExpected ==
  [i \in {<<"prices", <<b>>>> : b \in 0..(NumOptions \div Granularity - 1)} |->
     [o \in 0..(Granularity - 1) |-> <<"price", i[2][1] * Granularity + o>>]]

-----------------------------------------------------------------------------
\* mpicnc: step t needs item t / F.  With dist_env every rank puts its share of
\* the tags, without it rank 0 puts all: the same tags.  int wraps at IntRange.
MpiN == 9
MpiF == 3
NT == 2
IntRange == 256
MpiItem(t) == <<"m_items", <<t>>>>
MpiGraph == [m_tags |-> {"m_steps"}]
MpiMain == For(0, MpiN, LAMBDA t : <<Tag("m_tags", <<t>>)>>) \o <<Wait>>
MpiOps(s, v) ==
  LET t == s[2][1]
      item == IF t # 0 THEN At(v, MpiItem(t \div MpiF), 0) ELSE 11
  IN When(t # 0, <<Get(MpiItem(t \div MpiF))>>) \o <<Put(MpiItem(t), (t + item * item) % IntRange)>>
MpiOn(np, t) == (t[1] \div NT) % np
MpiConsumedOn(np, i) ==
  LET s == i[2][1] * MpiF
      e == Min({MpiF, np * NT, MpiN - s})
  IN IF e <= 0 THEN UNKNOWN ELSE {MpiOn(np, <<s + x>>) : x \in 0..(e - 1)}
MpiCount(i) ==
  LET t == i[2][1]
      mx == MpiN \div MpiF
  IN CASE t > mx -> 0
       [] t <= mx /\ t # 0 -> IF t = mx THEN MpiN % MpiF ELSE MpiF
       [] t = 0 -> MpiF - 1
MpiExpected ==
  LET val[t \in 0..(MpiN - 1)] == IF t = 0 THEN 121 ELSE (t + val[t \div MpiF] ^ 2) % IntRange
  IN [i \in {MpiItem(t) : t \in 0..(MpiN - 1)} |-> val[i[2][1]]]
-----------------------------------------------------------------------------
\* raytracer: a frame is cut into fragments that are traced one by one; from the
\* second frame on the cut follows the times that the frame before has taken.
\* r stands for what the clock and rand() yield: r = 2 is a clock too coarse to
\* see any time pass.
Width == 3
Height == 2
Fragments == 4
Frames == 3
TimeUnit == 60         \* divisible by every number of pixels of a fragment
RayGraph == [frame |-> {"compute_dynamic_scene", "decompose_image", "compose_image"},
             frame_fragment |-> {"ray_trace"}]
RayMain == <<Tag("frame", <<0>>), Wait>> \o
           For(0, Fragments, LAMBDA k : <<Get(<<"pixel_locations", <<Frames - 1, k>>>>)>>)
Scene(f) == <<"dynamic_scene", <<f>>>>
Locations(f, k) == <<"pixel_locations", <<f, k>>>>
Traced(f, k) == <<"pixels", <<f, k>>>>
TraceTime(f, k) == <<"execution_time", <<f, k>>>>
AllPoints == FlattenSeq([i \in 1..Width |-> [j \in 1..Height |-> <<i - 1, j - 1>>]])

Clock(r, points) == IF r = 2 THEN 0 ELSE TimeUnit * Total([n \in DOMAIN points |-> 1 + r + points[n][1]])
TraceOps(r, f, k, v) ==
  LET points == At(v, Locations(f, k), <<>>)
  IN <<Get(Scene(f)), Get(Locations(f, k)),
       Put(Traced(f, k), [n \in DOMAIN points |-> <<points[n], At(v, Scene(f), 0)>>]),
       Put(TraceTime(f, k), Clock(r, points))>>

\* The image that is written to a file: the pixels of all fragments in place.
ImageOf(traced) == [q \in {traced[n][1] : n \in DOMAIN traced} |->
                      traced[Max({n \in DOMAIN traced : traced[n][1] = q})][2]]
ComposeOps(f, v) ==
  <<Get(Scene(f))>> \o For(0, Fragments, LAMBDA k : <<Get(Traced(f, k))>>) \o
  When(f + 1 < Frames, <<Tag("frame", <<f + 1>>)>>) \o
  <<Put(<<"image", <<f>>>>, ImageOf(FlattenSeq([k \in 1..Fragments |-> At(v, Traced(f, k - 1), <<>>)])))>>

\* The first frame: equal numbers of pixels, the rest to the last fragment.
FirstCut ==
  LET distribution == (Width * Height) \div Fragments
  IN FoldLeft(LAMBDA a, q :
                LET cut == a.at + 1 < Fragments /\ a.distributed % distribution = 0
                    at == IF cut THEN a.at + 1 ELSE a.at
                IN [at |-> at, distributed |-> a.distributed + 1,
                    points |-> [a.points EXCEPT ![at] = Append(@, q)]],
              [at |-> -1, distributed |-> 0, points |-> [k \in 0..(Fragments - 1) |-> <<>>]],
              AllPoints).points
\* Each element takes a place among those before it, whose element moves to the end.
Shuffle(r, seq) ==
  FoldLeft(LAMBDA out, x :
             LET lastPos == Len(out)
                 at == ((r * lastPos) \div 2) + 1
             IN IF at <= lastPos THEN [Append(out, out[at]) EXCEPT ![at] = x] ELSE Append(out, x),
           <<>>, seq)
\* A fragment ends when one more pixel would exceed an eighth of the total time.
CutByTime(timed, total) ==
  FoldLeft(LAMBDA a, q :
             LET cut == a.at + 1 < Fragments /\ 8 * (a.time + q[2]) > total
                 at == IF cut THEN a.at + 1 ELSE a.at
             IN [at |-> at, time |-> (IF cut THEN 0 ELSE a.time) + q[2],
                 points |-> [a.points EXCEPT ![at] = Append(@, q[1])]],
           [at |-> 0, time |-> 0, points |-> [k \in 0..(Fragments - 1) |-> <<>>]],
           Reverse(timed)).points
DecomposeOps(r, f, v) ==
  LET locations(k) == At(v, Locations(f - 1, k), <<>>)
      time(k) == At(v, TraceTime(f - 1, k), 0)
      timed == FlattenSeq([k \in 1..Fragments |->
                 [n \in DOMAIN locations(k - 1) |->
                    <<locations(k - 1)[n], time(k - 1) \div Len(locations(k - 1))>>]])
      total == Total([k \in 1..Fragments |-> time(k - 1)])
      cuts == IF f = 0 THEN FirstCut
              ELSE CutByTime(Shuffle(r, timed), total)
  IN When(f > 0, For(0, Fragments, LAMBDA k : <<Get(Locations(f - 1, k)), Get(TraceTime(f - 1, k))>>)) \o
     For(0, Fragments, LAMBDA k : <<Put(Locations(f, k), cuts[k]), Tag("frame_fragment", <<f, k>>)>>)
RayOps(r, s, v) ==
  LET f == s[2][1]
  IN CASE s[1] = "ray_trace" -> TraceOps(r, f, s[2][2], v)
       [] s[1] = "compose_image" -> ComposeOps(f, v)
       [] s[1] = "decompose_image" -> DecomposeOps(r, f, v)
       [] s[1] = "compute_dynamic_scene" -> <<Put(Scene(f), f)>>
\* Every image shows every pixel, traced in the scene of its own frame.
RayExpected ==
  [i \in {<<"image", <<f>>>> : f \in 0..(Frames - 1)} |->
     [q \in (0..(Width - 1)) \X (0..(Height - 1)) |-> i[2][1]]]

-----------------------------------------------------------------------------
\* uts_cnc: a step counts a chunk of the tree.  The last child of a node is
\* always visited in place, the others are when the node lies deeper than
\* InlineBelow and the chunk has less than ChunkLimit nodes; the rest are tags.
InlineBelow == 1       \* 4
ChunkLimit == 3        \* 10000
UtsCncTree == [type |-> "GEO", b_0 |-> 4, rootId |-> 1, gen_mx |-> 3, shape |-> "LINEAR",
               nonLeafBF |-> 2, nonLeafProb |-> 4, shift |-> 1]
UtsCncGraph == [m_tags |-> {"m_steps"}]

RECURSIVE Chunk(_, _, _)
Chunk(node, sl, c) ==
  LET children == uts_numChildren(UtsCncTree, node)
      seen == [c EXCEPT !.numNodes = @ + 1,
                        !.numLeafs = IF children = 0 THEN @ + 1 ELSE @,
                        !.maxDepth = IF children > 0 THEN Max({@, Len(node) - sl}) ELSE @]
      visit(d, i) ==
        IF (Len(node) > InlineBelow /\ d.num < ChunkLimit) \/ i >= children - 1
        THEN Chunk(Append(node, i), sl, d)
        ELSE [d EXCEPT !.tags = Append(@, Append(node, i))]
  IN [FoldLeft(visit, seen, UpTo(0, children - 1)) EXCEPT !.num = @ + 1]
ChunkOf(node) ==
  Chunk(node, Len(node), [num |-> 0, numNodes |-> 0, numLeafs |-> 0, maxDepth |-> 0, tags |-> <<>>])
\* id_gen() yields an id that nobody else has; here the root of the chunk.
UtsCncOps(s) ==
  LET c == ChunkOf(s[2])
  IN [n \in DOMAIN c.tags |-> Tag("m_tags", c.tags[n])] \o <<Put(<<"m_stats", s[2]>>, c)>>
UtsCncMain(v) ==
  LET stats == {i \in DOMAIN v : i[1] = "m_stats"}
  IN <<Tag("m_tags", <<>>), Wait,
       Put(<<"numNodes", <<>>>>, MapThenSumSet(LAMBDA i : v[i].numNodes, stats)),
       Put(<<"numLeafs", <<>>>>, MapThenSumSet(LAMBDA i : v[i].numLeafs, stats)),
       Put(<<"maxDepth", <<>>>>, Max({0} \cup {v[i].maxDepth : i \in stats}))>>
\* maxDepth is a depth within a chunk, not the depth of the tree.
UtsCncExpected ==
  LET nodes == Levels(UtsCncTree, UtsCncTree.gen_mx + 1)
  IN [i \in {<<"numNodes", <<>>>>, <<"numLeafs", <<>>>>} |->
        IF i[1] = "numNodes" THEN Cardinality(nodes)
        ELSE Cardinality({n \in nodes : uts_numChildren(UtsCncTree, n) = 0})]

-----------------------------------------------------------------------------
\* FaceDetection: each classifier looks for its characteristic anywhere in the
\* image and prescribes the next one; the last puts the image as a face.
Faces == <<<<"eyes", "nose", "mouth">>, <<"eyes", "nose", "n/a">>, <<"eyes", "n/a", "mouth">>,
           <<"n/a", "nose", "mouth">>, <<"eyes", "nose", "mouth">>>>
Shows(image, what) == \E k \in 1..3 : image[k] = what

FaceGraph ==
  [classifier1_tags |-> {"classifier1"}, classifier2_tags |-> {"classifier2"},
   classifier3_tags |-> {"classifier3"}]

FaceMain ==
  For(0, Len(Faces), LAMBDA t : <<Put(<<"image", t>>, Faces[t + 1]), Tag("classifier1_tags", t)>>)
    \o <<Wait>>

FaceOps(s, v) ==
  LET t == s[2]  image == At(v, <<"image", t>>, <<"n/a", "n/a", "n/a">>)
      found(what, ops) == <<Get(<<"image", t>>)>> \o When(Shows(image, what), ops)
  IN CASE s[1] = "classifier1" -> found("eyes", <<Tag("classifier2_tags", t)>>)
       [] s[1] = "classifier2" -> found("nose", <<Tag("classifier3_tags", t)>>)
       [] s[1] = "classifier3" -> found("mouth", <<Put(<<"face", t>>, image)>>)

\* facedetector() of FaceDetection_serial: the images that pass all three.
FaceExpected ==
  LET faces == {t \in 0..(Len(Faces) - 1) :
                  \A what \in {"eyes", "nose", "mouth"} : Shows(Faces[t + 1], what)}
  IN [x \in {"face"} \X faces |-> Faces[x[2] + 1]]
=============================================================================
