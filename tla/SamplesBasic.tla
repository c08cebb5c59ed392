----------------------------- MODULE SamplesBasic -----------------------------
(***************************************************************************)
(* The small samples: each shows one pattern of tags, items and steps.     *)
(* Tags are sequences; numbers of iterations are scaled down by BasicN.    *)
(***************************************************************************)
EXTENDS CnCProgram

CONSTANT BasicN     \* rows, streams, numbers, ... of the samples below

ASSUME BasicAssumption == BasicN \in Nat \ {0, 1}

Total(seq) == FoldLeft(LAMBDA a, x : a + x, 0, seq)
UpTo(a, b) == [x \in 1..(b - a + 1) |-> a + x - 1]

-----------------------------------------------------------------------------
\* fib, and its variants with depends (fib_tuner), get counts (fib_getcount),
\* kept tags (fib_memoize) and a range of tags (fib_range).
FibN == BasicN + 2
Fib(n) == <<"m_fibs", <<n>>>>
FibGraph == [m_tags |-> {"m_steps"}]
FibMain == For(0, FibN + 1, LAMBDA i : <<Tag("m_tags", <<i>>)>>) \o <<Wait, Get(Fib(FibN))>>
FibOps(s, v) ==
  LET t == s[2][1]
  IN IF t < 2 THEN <<Put(Fib(t), t)>>
     ELSE <<Get(Fib(t - 1)), Get(Fib(t - 2)), Put(Fib(t), At(v, Fib(t - 1), 0) + At(v, Fib(t - 2), 0))>>
FibDeps(s) == IF s[2][1] > 1 THEN {Fib(s[2][1] - 1), Fib(s[2][1] - 2)} ELSE {}
FibCount(t) == IF t[1] > 0 THEN 2 ELSE 1
FibMemoized == {"m_tags"}

FibNumber == [n \in 0..FibN |-> LET f[m \in 0..FibN] == IF m < 2 THEN m ELSE f[m - 1] + f[m - 2] IN f[n]]
FibExpected == [i \in {Fib(FibN)} |-> FibNumber[FibN]]
\* Counted for two readers that the last numbers do not have.
FibKept(t) == t[1] >= FibN - 1

-----------------------------------------------------------------------------
\* primes: trial division by odd numbers.
PrimesGraph == [m_tags |-> {"FindPrimes"}]
Odds(n) == SelectSeq(UpTo(3, n), LAMBDA x : x % 2 = 1)
PrimesMain(n) == [x \in DOMAIN Odds(n - 1) |-> Tag("m_tags", <<Odds(n - 1)[x]>>)] \o <<Wait>>
\* factor = 3; while( n % factor ) factor += 2;
FirstFactor(n) == LET f[x \in 3..n] == IF n % x = 0 THEN x ELSE f[x + 2] IN f[3]
PrimesOps(s) == When(FirstFactor(s[2][1]) = s[2][1], <<Put(<<"m_primes", s[2]>>, s[2][1])>>)
PrimesOn(np, t) == (((t[1] * 5) \div 3) + 1) % np
PrimesExpected(n) ==
  [i \in {<<"m_primes", <<x>>>> : x \in {y \in 3..(n - 1) : \A d \in 2..(y - 1) : y % d # 0}} |-> i[2][1]]

-----------------------------------------------------------------------------
\* gen_new_iter_space: one step puts the tags of another collection.
GenIterGraph == [single |-> {"generateIterations"}, iterations |-> {"executeIterations"}]
GenIterMain == <<Put(<<"imax", <<0>>>>, BasicN), Tag("single", <<0>>), Wait>>
GenIterOps(s, v) ==
  IF s[1] = "executeIterations" THEN <<Put(<<"result", s[2]>>, s[2][1])>>
  ELSE <<Get(<<"imax", s[2]>>)>> \o For(1, At(v, <<"imax", s[2]>>, 0) + 1, LAMBDA i : <<Tag("iterations", <<i>>)>>)
GenIterExpected == [i \in {<<"result", <<n>>>> : n \in 1..BasicN} |-> i[2][1]]

-----------------------------------------------------------------------------
\* partition_string: maximal runs of one letter; those of odd length are kept.
InString == <<"a", "a", "a", "f", "f", "q">>
PartStrGraph == [singletonTag |-> {"createSpan"}, spanTags |-> {"processSpan"}]
PartStrMain == <<Put(<<"input", <<0>>>>, InString), Tag("singletonTag", <<0>>), Wait>>
\* One pass over the string with ch, len and j (the start of the current run).
Spans(in) ==
  LET pass(a, i) == IF in[i] = in[a.j + 1] THEN [a EXCEPT !.len = @ + 1]
                    ELSE [out |-> a.out \o <<<<a.j, a.len>>>>, j |-> i - 1, len |-> 1]
      last == FoldLeft(pass, [out |-> <<>>, j |-> 0, len |-> 0], UpTo(1, Len(in)))
  IN When(in # <<>>, last.out \o <<<<last.j, last.len>>>>)
PartStrOps(s, v) ==
  LET spans == Spans(At(v, <<"input", <<0>>>>, <<>>))
      span == At(v, <<"span", s[2]>>, <<>>)
  IN IF s[1] = "processSpan"
     THEN <<Get(<<"span", s[2]>>)>> \o When(Len(span) % 2 # 0, <<Put(<<"results", s[2]>>, span)>>)
     ELSE <<Get(<<"input", s[2]>>)>> \o For(1, Len(spans) + 1, LAMBDA n :
            LET j == spans[n][1]
            IN <<Put(<<"span", <<j>>>>, SubSeq(InString, j + 1, j + spans[n][2])), Tag("spanTags", <<j>>)>>)
PartStrExpected ==
  LET run(a, b) == /\ \A x \in a..b : InString[x] = InString[a]
                   /\ a = 1 \/ InString[a - 1] # InString[a]
                   /\ b = Len(InString) \/ InString[b + 1] # InString[b]
      runs == {r \in (DOMAIN InString) \X (DOMAIN InString) : r[1] <= r[2] /\ run(r[1], r[2]) /\ (r[2] - r[1]) % 2 = 0}
  IN [i \in {<<"results", <<r[1] - 1>>>> : r \in runs} |->
        SubSeq(InString, i[2][1] + 1, (CHOOSE r \in runs : r[1] = i[2][1] + 1)[2])]

-----------------------------------------------------------------------------
\* producer_consumer: one tag prescribes both.
ProdConsGraph == [prodConsTag |-> {"producer", "consumer"}]
ProdConsMain ==
  For(0, BasicN, LAMBDA i : <<Put(<<"inItem", <<i>>>>, i * 10), Tag("prodConsTag", <<i>>)>>) \o <<Wait>>
ProdConsOps(s, v) ==
  LET in == <<"inItem", s[2]>>  value == <<"valueItem", s[2]>>
  IN IF s[1] = "producer" THEN <<Get(in), Put(value, At(v, in, 0) * 10)>>
     ELSE <<Get(value), Put(<<"outItem", s[2]>>, At(v, value, 0) + 3)>>
ProdConsExpected == [i \in {<<"outItem", <<n>>>> : n \in 0..(BasicN - 1)} |-> 100 * i[2][1] + 3]

-----------------------------------------------------------------------------
\* search_in_sorted_tree: a tag is (node, number of the value looked for).
TreeNodes == [n \in {1, 10, 11, 100, 101, 110, 111} |->
  CASE n = 1 -> <<35, TRUE>> [] n = 10 -> <<15, TRUE>> [] n = 11 -> <<55, TRUE>>
    [] n = 100 -> <<15, FALSE>> [] n = 101 -> <<35, FALSE>> [] n = 110 -> <<55, FALSE>> [] n = 111 -> <<75, FALSE>>]
SearchVals == <<20, 35, 55>>
SearchGraph == [searchTag |-> {"search"}]
SearchMain ==
  FlattenSeq([n \in 1..7 |-> LET node == SetToSortSeq(DOMAIN TreeNodes, <)[n]
                             IN <<Put(<<"treeNode", <<node>>>>, TreeNodes[node])>>])
    \o For(1, Len(SearchVals) + 1, LAMBDA i : <<Put(<<"searchVal", <<i>>>>, SearchVals[i]), Tag("searchTag", <<1, i>>)>>)
    \o <<Wait>>
SearchOps(s, v) ==
  LET node == s[2][1]  i == s[2][2]
      val == At(v, <<"searchVal", <<i>>>>, 0)
      content == At(v, <<"treeNode", <<node>>>>, <<0, FALSE>>)
  IN <<Get(<<"searchVal", <<i>>>>), Get(<<"treeNode", <<node>>>>)>>
     \o (IF content[2] THEN <<Tag("searchTag", <<IF val <= content[1] THEN node * 10 ELSE node * 10 + 1, i>>)>>
         ELSE When(val = content[1], <<Put(<<"success", <<node>>>>, i)>>))
SearchExpected ==
  LET hit(n, i) == ~TreeNodes[n][2] /\ TreeNodes[n][1] = SearchVals[i]
  IN [x \in {<<"success", <<n>>>> : n \in {m \in DOMAIN TreeNodes : \E i \in DOMAIN SearchVals : hit(m, i)}} |->
        CHOOSE i \in DOMAIN SearchVals : hit(x[2][1], i)]

-----------------------------------------------------------------------------
\* reduce_rows: a running sum along each row.
RedRowsGraph == [fixedIterations |-> {"processFixedItems"}]
RowsSum(r, c) == <<"sum", <<r, c>>>>
RedRowsMain ==
  For(1, BasicN, LAMBDA i : <<Put(RowsSum(i, 0), 0)>>)
    \o For(1, BasicN, LAMBDA i : For(1, BasicN + 1, LAMBDA j :
         <<Put(<<"readOnlyItem", <<i, j>>>>, i * 10 + j), Tag("fixedIterations", <<i, j>>)>>))
    \o <<Wait>> \o For(1, BasicN, LAMBDA i : <<Get(RowsSum(i, BasicN))>>)
RedRowsOps(s, v) ==
  LET prev == RowsSum(s[2][1], s[2][2] - 1)  val == <<"readOnlyItem", s[2]>>
  IN <<Get(prev), Get(val), Put(<<"sum", s[2]>>, At(v, prev, 0) + At(v, val, 0))>>
RedRowsExpected ==
  [i \in {RowsSum(r, BasicN) : r \in 1..(BasicN - 1)} |-> Total([j \in 1..BasicN |-> i[2][1] * 10 + j])]

\* red_rows_until_pred: each row goes on until its sum exceeds MAXSUM.
MAXSUM == 12
NextValue(x) == 3 + ((5 * x) % 4)      \* the pseudo-random successor of a value
UntilGraph == [controlTags |-> {"process"}]
UntilMain ==
  For(1, BasicN + 1, LAMBDA id :
        <<Put(<<"dataValues", <<id, 1>>>>, <<id, 0>>), Tag("controlTags", <<id, 1>>)>>)
    \o <<Wait>> \o For(1, BasicN + 1, LAMBDA id : <<Get(<<"results", <<id>>>>)>>)
UntilOps(s, v) ==
  LET id == s[2][1]  current == s[2][2]
      data == At(v, <<"dataValues", s[2]>>, <<0, 0>>)
      sum == data[1] + data[2]
  IN <<Get(<<"dataValues", s[2]>>)>>
     \o (IF sum > MAXSUM THEN <<Put(<<"results", <<id>>>>, data[1])>>
         ELSE <<Put(<<"dataValues", <<id, current + 1>>>>, <<NextValue(data[1]), sum>>), Tag("controlTags", <<id, current + 1>>)>>)

-----------------------------------------------------------------------------
\* divide_conquer: a node is split in two until it is below 2; the left child
\* of a pair prescribes the parent, which then gets both.
Left(t) == t * 10
Right(t) == t * 10 + 1
DivConqGraph == [divideTag |-> {"divide"}, conquerTag |-> {"conquer"}]
DivConqMain ==
  <<Put(<<"divideItem", <<1>>>>, BasicN + 2), Tag("divideTag", <<1>>), Wait, Get(<<"conquerItem", <<1>>>>)>>
ConquerParent(t) == When(t % 10 = 0, <<Tag("conquerTag", <<t \div 10>>)>>)
DivideOps(t, v) ==
  LET in == <<"divideItem", <<t>>>>
      temp == At(v, in, 0)
  IN <<Get(in)>> \o (IF temp >= 2
       THEN <<Put(<<"divideItem", <<Left(t)>>>>, temp \div 2), Tag("divideTag", <<Left(t)>>),
              Put(<<"divideItem", <<Right(t)>>>>, temp - (temp \div 2)), Tag("divideTag", <<Right(t)>>)>>
       ELSE <<Put(<<"conquerItem", <<t>>>>, temp)>> \o ConquerParent(t))
ConquerOps(t, v) ==
  LET l == <<"conquerItem", <<Left(t)>>>>  r == <<"conquerItem", <<Right(t)>>>>
  IN <<Get(l), Get(r), Put(<<"conquerItem", <<t>>>>, At(v, l, 0) + At(v, r, 0))>> \o ConquerParent(t)
DivConqExpected == [i \in {<<"conquerItem", <<1>>>>} |-> BasicN + 2]

-----------------------------------------------------------------------------
\* hidden_graph: a thread takes the items from a queue in the order they are
\* put; its iteration number n is the step "observe" n, which hands its tag on
\* in "state".  Wait cannot return before the thread is through with its items
\* (leave_quiescence).  Which values are passed on is up to the data.
HiddenTags == 2
HiddenGraph == [queue |-> {"observe"}, consumer_tags |-> {"consumer"}]
HiddenMain ==
  <<Put(<<"state", <<0>>>>, 0)>>
    \o For(0, BasicN + 1, LAMBDA i : <<Put(<<"input_data", <<i>>>>, 7 * i + 2), Tag("queue", <<i>>)>>) \o <<Wait>>
HiddenOps(s, v) ==
  LET n == s[2][1]
      tag == At(v, <<"state", <<n>>>>, 0)
      item == At(v, <<"input_data", <<n>>>>, 0)
      passed == tag < HiddenTags /\ item % 4 # 0
      done == At(v, <<"processed_data", s[2]>>, 0)
  IN IF s[1] = "consumer" THEN <<Get(<<"processed_data", s[2]>>), Put(<<"result_data", <<n + n>>>>, done * done)>>
     ELSE <<Get(<<"state", <<n>>>>), Get(<<"input_data", <<n>>>>)>>
          \o When(passed, <<Put(<<"processed_data", <<tag>>>>, item + 1), Tag("consumer_tags", <<tag>>)>>)
          \o <<Put(<<"state", <<n + 1>>>>, IF passed THEN tag + 1 ELSE tag)>>
HiddenExpected == [i \in {<<"result_data", <<2 * n>>>> : n \in 0..(HiddenTags - 1)} |-> IF i[2][1] = 0 THEN 9 ELSE 100]

-----------------------------------------------------------------------------
\* reduce_2d: a reduction over each column of the rows below RedMX and one over
\* its results.  A reduction is taken as what it promises: once its count is
\* there it gets that many items and puts their sum (steps red1 and red2).
RedN == 3
RedMX == 2
Red2dGraph == [tags |-> {"putter"}, cnt1 |-> {"red1"}, cnt2 |-> {"red2"}]
Red2dMain ==
  For(1, RedMX, LAMBDA i : <<Tag("cnt1", <<i>>)>>)
    \o For(0, RedN, LAMBDA i : For(0, RedN, LAMBDA j : <<Tag("tags", <<i, RedN - 1 - j>>)>>))
    \o <<Tag("cnt1", <<0>>), Tag("cnt2", <<0>>), Wait, Get(<<"sum2", <<0>>>>)>>
Gathered(items, v) == [n \in DOMAIN items |-> At(v, items[n], 0)]
Red2dOps(s, v) ==
  LET t == s[2]
      cells == [n \in 1..RedMX |-> <<"a", <<n - 1, t[1]>>>>]
      sums == [n \in 1..RedN |-> <<"sum1", <<n - 1>>>>]
      gets(items) == [n \in DOMAIN items |-> Get(items[n])]
  IN CASE s[1] = "putter" -> <<Put(<<"a", t>>, 1)>> \o When(t[1] >= RedMX /\ t[1] = t[2], <<Tag("cnt1", <<t[1]>>)>>)
       [] s[1] = "red1" -> gets(cells) \o <<Put(<<"sum1", t>>, Total(Gathered(cells, v)))>>
       [] s[1] = "red2" -> gets(sums) \o <<Put(<<"sum2", t>>, Total(Gathered(sums, v)))>>
Red2dExpected == [i \in {<<"sum1", <<n>>>> : n \in 0..(RedN - 1)} \cup {<<"sum2", <<0>>>>} |->
                    IF i[1] = "sum1" THEN RedMX ELSE RedN * RedMX]

-----------------------------------------------------------------------------
\* stream_with_state: the actor prescribes its own successor, so that the one
\* after the last input waits for ever.
StreamGraph == [tag_in |-> {"StreamActor"}, tag_out |-> {"StreamSink"}]
StreamMain ==
  <<Put(<<"state", <<0>>>>, 0)>> \o For(0, BasicN, LAMBDA i : <<Put(<<"data_in", <<i>>>>, 100 + i)>>)
    \o <<Tag("tag_in", <<0>>), Wait>>
StreamOps(s, v) ==
  LET i == s[2][1]  next == <<"state", <<i + 1>>>>
      input == <<"data_in", s[2]>>  state == <<"state", s[2]>>
  IN IF s[1] = "StreamSink" THEN <<Get(<<"data_out", s[2]>>)>>
     ELSE <<Get(input), Get(state), Put(next, At(v, state, 0) + 1), Tag("tag_in", <<i + 1>>),
            Put(<<"data_out", s[2]>>, At(v, input, 0) + At(v, state, 0)), Tag("tag_out", s[2])>>
StreamStuck == {<<"StreamActor", <<BasicN>>>>}
StreamKept(i) == i = <<"state", <<BasicN>>>>
StreamExpected == [i \in {<<"data_out", <<n>>>> : n \in 0..(BasicN - 1)} |-> 100 + 2 * i[2][1]]

\* thread_ring_1_stepcoll: a token is passed on until it is 0.
RingGraph == [tags |-> {"RingActor"}]
RingMain == <<Put(<<"items", <<0>>>>, BasicN), Tag("tags", <<0>>), Wait>>
RingOps(s, v) ==
  LET n == s[2][1]  token == At(v, <<"items", s[2]>>, 0)
  IN <<Get(<<"items", s[2]>>)>>
     \o When(token # 0, <<Put(<<"items", <<n + 1>>>>, token - 1), Tag("tags", <<n + 1>>)>>)
RingExpected == [i \in {<<"items", <<n>>>> : n \in 0..BasicN} |-> BasicN - i[2][1]]

-----------------------------------------------------------------------------
\* pipeline: a step collection per stage, all of them prescribed by the tag of
\* a stream; stage 1 makes a vector that each later stage overwrites in place.
PlStages == 3
PlStreams == BasicN - 1
PlGraph == [m_tagColl |-> {"stage1", "stage2", "stage3"}]
PlStage(s) == CASE s[1] = "stage1" -> 1 [] s[1] = "stage2" -> 2 [] s[1] = "stage3" -> 3
PlStageData(id) == <<"m_stageData", <<id>>>>
PlStreamData(id, tag) == <<"m_streamData", <<id, tag>>>>
PlMain ==
  For(1, PlStages + 1, LAMBDA i : <<Put(PlStageData(i), i)>>)
    \o For(1, PlStreams + 1, LAMBDA i : <<Tag("m_tagColl", <<i>>)>>) \o <<Wait>>
    \o For(1, PlStreams + 1, LAMBDA i : <<Get(PlStreamData(PlStages, i))>>)
PlOps(s, v) ==
  LET id == PlStage(s)  tag == s[2][1]
      in == PlStreamData(id - 1, tag)
  IN <<Get(PlStageData(id))>> \o When(id # 1, <<Get(in)>>)
     \o <<Put(PlStreamData(id, tag), 2 * (IF id = 1 THEN tag ELSE At(v, in, 0)) + At(v, PlStageData(id), 0))>>
PlDeps(s) == {PlStageData(PlStage(s))} \cup (IF PlStage(s) # 1 THEN {PlStreamData(PlStage(s) - 1, s[2][1])} ELSE {})
PlInPlace(s) == IF PlStage(s) # 1 THEN {PlStreamData(PlStage(s) - 1, s[2][1])} ELSE {}
PlCount(i) ==
  IF i[1] = "m_stageData" THEN PlStreams ELSE IF i[2][1] < PlStages THEN 1 ELSE NO_GETCOUNT
\* BLOCK halves the number of processes in x while it is even and the larger one.
PlGrid(np) ==
  LET halve[x \in 1..np] == IF x % 2 = 0 /\ x > np \div x THEN halve[x \div 2] ELSE x
  IN <<halve[np], np \div halve[np]>>
PlOn(w, id, stream) ==
  LET np == w[1]  nx == PlGrid(np)[1]  ny == PlGrid(np)[2]
  IN CASE w[2] = "STREAM" -> stream % np
       [] w[2] = "STAGE" -> id % np
       [] w[2] = "BLOCK" -> (((stream - 1) * nx) \div PlStreams) + (((id - 1) * ny) \div PlStages) * nx
PlConsumedOn(w, i) ==
  IF i[1] = "m_stageData" THEN UNKNOWN ELSE {IF i[2][1] = PlStages THEN 0 ELSE PlOn(w, i[2][1] + 1, i[2][2])}
PlExpected ==
  [i \in {PlStreamData(PlStages, n) : n \in 1..PlStreams} |-> 8 * i[2][2] + 4 + 4 + 3]

-----------------------------------------------------------------------------
\* nqueens: a tag is the sequence of columns of the queens set so far; below
\* the tuning factor the step goes on by recursion instead of by tags.  The tags
\* preserved in m_solutions prescribe nothing and are only counted: items here.
QueensSize == 4
QueensFactor == 2
QueensGraph == [m_tags |-> {"QueensStep"}]
QueensMain == <<Tag("m_tags", <<>>), Wait>>
verifyNextQueenPosition(config, col) ==
  \A i \in DOMAIN config :
    /\ config[i] # col
    /\ config[i] - col \notin {Len(config) + 1 - i, -(Len(config) + 1 - i)}
QueensStepAt ==
  LET boards == UNION {[1..n -> 0..(QueensSize - 1)] : n \in 0..QueensSize}
      step[t \in boards] ==
        IF Len(t) = QueensSize THEN <<>>
        ELSE For(0, QueensSize, LAMBDA i :
          LET next == Append(t, i)
          IN CASE ~verifyNextQueenPosition(t, i) -> <<>>
               [] verifyNextQueenPosition(t, i) /\ Len(next) >= QueensSize -> <<Put(<<"m_solutions", next>>, TRUE)>>
               [] verifyNextQueenPosition(t, i) /\ Len(next) < QueensSize /\ Len(next) <= QueensFactor -> <<Tag("m_tags", next)>>
               [] OTHER -> step[next])
  IN step
QueensOps(s) == QueensStepAt[s[2]]
QueensExpected ==
  [x \in {<<"m_solutions", b>> : b \in {c \in [1..QueensSize -> 0..(QueensSize - 1)] :
     \A i, j \in 1..QueensSize : i < j => c[i] # c[j] /\ c[i] - c[j] \notin {j - i, i - j}}} |-> TRUE]

-----------------------------------------------------------------------------
\* mandelbrot (an item and a step per point) and mandelbrot_vector (per row,
\* put by a parallel_for); the orbit of a point is integer here.
MandelDepth == 4
mandel(c) ==
  LET count[z \in Int, n \in 0..MandelDepth] == IF n = MandelDepth \/ z >= 20 THEN n ELSE count[z * z + c, n + 1]
  IN count[0, 0]
MandelGraph == [m_position |-> {"m_steps"}, pfor |-> {"rows"}]
MandelPoints(ops(_, _)) == For(0, 2, LAMBDA i : For(0, BasicN, LAMBDA j : ops(i, j)))
MandelMain ==
  MandelPoints(LAMBDA i, j : <<Put(<<"m_data", <<i, j>>>>, i + j), Tag("m_position", <<i, j>>)>>)
    \o <<Wait>> \o MandelPoints(LAMBDA i, j : <<Get(<<"m_pixel", <<i, j>>>>)>>)
MandelOps(s, v) ==
  <<Get(<<"m_data", s[2]>>), Put(<<"m_pixel", s[2]>>, mandel(At(v, <<"m_data", s[2]>>, 0)))>>
MandelExpected == [p \in {<<"m_pixel", <<i, j>>>> : i \in 0..1, j \in 0..(BasicN - 1)} |-> mandel(p[2][1] + p[2][2])]

MandelRowsMain ==
  For(0, BasicN, LAMBDA i : <<Tag("pfor", <<i>>)>>) \o <<Wait, Wait>>
    \o For(0, BasicN, LAMBDA i : <<Get(<<"m_pixel", <<i>>>>)>>)
MandelRowsOps(s, v) ==
  LET i == s[2][1]  row == At(v, <<"m_data", <<i>>>>, <<>>)
  IN IF s[1] = "rows" THEN <<Put(<<"m_data", <<i>>>>, [j \in 1..2 |-> i + j]), Tag("m_position", <<i, 2>>)>>
     ELSE <<Get(<<"m_data", <<i>>>>), Put(<<"m_pixel", <<i>>>>, [j \in DOMAIN row |-> mandel(row[j])])>>
MandelRowsCount(i) == IF i[1] = "m_data" THEN 1 ELSE NO_GETCOUNT
MandelRowsOn(np, t) == t[1] % np
MandelRowsConsumedOn(np, i) == {IF i[1] = "m_data" THEN MandelRowsOn(np, i[2]) ELSE 0}
MandelRowsExpected == [p \in {<<"m_pixel", <<i>>>> : i \in 0..(BasicN - 1)} |-> [j \in 1..2 |-> mandel(p[2][1] + j)]]
=============================================================================
