---------------------------- MODULE SamplesLinAlg ----------------------------
(***************************************************************************)
(* The tiled linear algebra samples: what they share; cholesky, whose      *)
(* tiles are one number, so that a kernel is the operation it performs on  *)
(* whole tiles; matrix multiplication after Cannon and Johnson.            *)
(***************************************************************************)
EXTENDS CnCProgram

CONSTANTS
  Tiles,        \* number of tiles in a row of the matrix (cholesky, Cannon)
  FewTiles,     \* the same where more of them would be independent (Johnson, floyd)
  FloydB,       \* entries in a row of a tile (floyd_warshall)
  ProcCounts    \* numbers of processes for which the tuners are compared

ASSUME LinAlgAssumption ==
  /\ Tiles \in Nat \ {0} /\ FewTiles \in Nat \ {0} /\ FloydB \in Nat \ {0}
  /\ ProcCounts \subseteq Nat \ {0}

Sum(a, b, f(_)) == FoldLeft(LAMBDA acc, x : acc + f(x), 0, [x \in 1..(b - a) |-> a + x - 1])
Lesser(a, b) == IF a < b THEN a ELSE b
Square == (0..(Tiles - 1)) \X (0..(Tiles - 1))
Grid(n, ops(_, _)) == For(0, n, LAMBDA i : For(0, n, LAMBDA j : ops(i, j)))

-----------------------------------------------------------------------------
\* cholesky.  The input is M * M^T for a known factor M.
CholeskyFactor(i, j) == 1 + ((i + 2 * j) % 3)
CholeskyInput(i, j) == Sum(0, Lesser(i, j) + 1, LAMBDA k : CholeskyFactor(i, k) * CholeskyFactor(j, k))
Sqrt(x) == IF \E r \in 1..9 : r * r = x THEN CHOOSE r \in 1..9 : r * r = x ELSE 0
Lkji(k, j, i) == <<"Lkji", <<k, j, i>>>>

CholeskyGraph == [pfor |-> {"init"}, control_S1 |-> {"S1"}, control_S2 |-> {"S2"}, control_S3 |-> {"S3"}]

CholeskyMain ==
  For(0, Tiles, LAMBDA i : <<Tag("pfor", <<i>>)>>) \o <<Wait>>
    \o For(0, Tiles, LAMBDA i : For(0, i + 1, LAMBDA j : <<Get(Lkji(j + 1, i, j))>>))

\* Mutation: S3 is prescribed for the column of the pivot, which S2 updates.
CholeskyInit_FromPivot(i) ==
  For(0, i + 1, LAMBDA j : <<Put(Lkji(0, i, j), CholeskyInput(i, j))>>)
    \o <<Tag("control_S1", <<i>>)>>
    \o For(i + 1, Tiles, LAMBDA j :
         <<Tag("control_S2", <<i, j>>)>> \o For(i, j + 1, LAMBDA l : <<Tag("control_S3", <<i, j, l>>)>>))

\* Mutation: the row below the diagonal tile is never prescribed to S2.
CholeskyInit_SkipsRow(i) ==
  For(0, i + 1, LAMBDA j : <<Put(Lkji(0, i, j), CholeskyInput(i, j))>>)
    \o <<Tag("control_S1", <<i>>)>>
    \o For(i + 1, Tiles, LAMBDA j :
         When(j > i + 1, <<Tag("control_S2", <<i, j>>)>>)
           \o For(i + 1, j + 1, LAMBDA l : <<Tag("control_S3", <<i, j, l>>)>>))

CholeskyInit(i) ==
  For(0, i + 1, LAMBDA j : <<Put(Lkji(0, i, j), CholeskyInput(i, j))>>)
    \o <<Tag("control_S1", <<i>>)>>
    \o For(i + 1, Tiles, LAMBDA j :
         <<Tag("control_S2", <<i, j>>)>> \o For(i + 1, j + 1, LAMBDA l : <<Tag("control_S3", <<i, j, l>>)>>))

\* Mutation: S3 reads the tile of the column before S2 has updated it.
CholeskyOps_Early(s, v) ==
  LET t == s[2]  k == t[1]
      get(i) == At(v, i, 1)
  IN CASE s[1] = "init" -> CholeskyInit(k)
       [] s[1] = "S1" -> <<Get(Lkji(k, k, k)), Put(Lkji(k + 1, k, k), Sqrt(get(Lkji(k, k, k))))>>
       [] s[1] = "S2" -> <<Get(Lkji(k, t[2], k)), Get(Lkji(k + 1, k, k)),
                           Put(Lkji(k + 1, t[2], k), get(Lkji(k, t[2], k)) \div get(Lkji(k + 1, k, k)))>>
       [] s[1] = "S3" -> <<Get(Lkji(k, t[2], t[3])), Get(Lkji(k, t[3], k)),
                           Put(Lkji(k + 1, t[2], t[3]), get(Lkji(k, t[2], t[3])))>>

CholeskyOps(s, v) ==
  LET t == s[2]  k == t[1]
      get(i) == At(v, i, 1)
  IN CASE s[1] = "init" -> CholeskyInit(k)
       [] s[1] = "S1" -> <<Get(Lkji(k, k, k)), Put(Lkji(k + 1, k, k), Sqrt(get(Lkji(k, k, k))))>>
       [] s[1] = "S2" -> <<Get(Lkji(k, t[2], k)), Get(Lkji(k + 1, k, k)),
                           Put(Lkji(k + 1, t[2], k), get(Lkji(k, t[2], k)) \div get(Lkji(k + 1, k, k)))>>
       [] s[1] = "S3" -> <<Get(Lkji(k, t[2], t[3])), Get(Lkji(k + 1, t[3], k))>>
            \o When(t[2] # t[3], <<Get(Lkji(k + 1, t[2], k))>>)
            \o <<Put(Lkji(k + 1, t[2], t[3]),
                     get(Lkji(k, t[2], t[3])) - get(Lkji(k + 1, t[3], k)) * get(Lkji(k + 1, t[2], k)))>>

\* Without MKL, S1 and S2 update their input tile too while they fill a new one.
CholeskyInPlace(s) ==
  LET t == s[2]
  IN CASE s[1] = "S1" -> {Lkji(t[1], t[1], t[1])}
       [] s[1] = "S2" -> {Lkji(t[1], t[2], t[1])}
       [] s[1] = "S3" -> {Lkji(t[1], t[2], t[3])}
       [] OTHER -> {}

\* Mutation: one reader more for the tiles of a finished column.
CholeskyCount_OneMore(t) ==
  IF t[1] = t[3] + 1 THEN NO_GETCOUNT ELSE IF t[1] > 0 /\ t[1] >= t[3] THEN Tiles - t[1] ELSE 1

CholeskyCount(t) ==
  IF t[1] = t[3] + 1 THEN NO_GETCOUNT ELSE IF t[1] > 0 /\ t[1] > t[3] THEN Tiles - t[1] ELSE 1

\* compute_on of the four distributions; the matrix is twice as large as Tiles.
CholeskyOn(w, s) ==
  LET t == s[2]  np == w[1]  dt == w[2]
      i == CASE s[1] = "S3" -> t[3] [] OTHER -> t[1]
      j == CASE s[1] = "S1" -> t[1] [] OTHER -> t[2]
      n == IF s[1] = "S1" THEN 2 * Tiles ELSE Tiles
      div == (((Tiles * Tiles) \div 2) + 1) \div np
  IN CASE s[1] = "init" -> 0
       [] dt = "BLOCKED_ROWS" -> (((((j * j) \div 2) + 1) + i) \div div) % np
       [] dt = "ROW_CYCLIC" -> j % np
       [] dt = "COLUMN_CYCLIC" -> i % np
       [] dt = "BLOCKED_CYCLIC" -> ((i \div 2) * n + (j \div 2)) % np

CholeskyConsumedOn(w, t) ==
  LET k == t[1]  j == t[2]  i == t[3]
      on(c, tag) == CholeskyOn(w, <<c, tag>>)
  IN CASE i = j /\ i = k -> {on("S1", <<k>>)}
       [] i = j /\ i # k /\ k = Tiles -> {0}
       [] i # j /\ i = k -> {on("S2", <<k, j>>)}
       [] OTHER -> {on("S3", t)} \cup
            (IF i # k - 1 THEN {}
             ELSE IF i = j THEN {on("S2", <<k - 1, l>>) : l \in k..(Tiles - 1)}
             ELSE {on("S3", <<k - 1, l, m>>) : l \in j..(Tiles - 1), m \in k..j})

CholeskyLayouts == ProcCounts \X {"BLOCKED_ROWS", "ROW_CYCLIC", "COLUMN_CYCLIC", "BLOCKED_CYCLIC"}

CholeskyExpected ==
  [i \in {Lkji(t[2] + 1, t[1], t[2]) : t \in {u \in Square : u[2] <= u[1]}} |->
     CholeskyFactor(i[2][2], i[2][3])]

-----------------------------------------------------------------------------
(* Matrix multiplication after Cannon and Johnson (POSUMM), and the three  *)
(* tilings of floyd_warshall.                                              *)

LeftInput(i, j) == 1 + ((2 * i + j) % 4)
RightInput(i, j) == 1 + ((i + 3 * j) % 5)
ProductOf(n, i, j) == Sum(0, n, LAMBDA k : LeftInput(i, k) * RightInput(k, j))

\* How often the tiled loops of mm_kernel_l3_tiled reach each row (and column)
\* and, in steps of UF, each summand, for tiles of n entries in blocks of S * T.
UF == 4
floord(x, y) == IF x > 0 THEN x \div y ELSE 1 - ((1 - x) \div y)
Blocks(n, S, T) ==
  UNION {{<<c1, c4>> : c4 \in (T * c1)..Lesser(floord(n - 1, S), T * c1 + T - 1)} : c1 \in 0..floord(n - 1, S * T)}
KernelRows(n, S, T) ==
  [x \in 0..(n - 1) |-> Cardinality({c \in Blocks(n, S, T) : x \in (S * c[2])..Lesser(n - 1, S * c[2] + S - 1)})]

KernelSummands(n, S, T) ==
  LET starts(c) == {S * c[2] + UF * m : m \in {q \in 0..(S \div UF) : S * c[2] + UF * q + (UF - 1) < Lesser(n, S * c[2] + S)}}
  IN [x \in 0..(n - 1) |-> Cardinality({<<c, b>> \in Blocks(n, S, T) \X (0..n) : b \in starts(c) /\ x \in b..(b + UF - 1)})]

\* One call of the kernel for each tile size, block size and block count.
KernelMain(ns, ss, ts) == SetToSeq({Tag("k", t) : t \in ns \X ss \X ts}) \o <<Wait>>
KernelOps(s) ==
  <<Put(s, <<KernelRows(s[2][1], s[2][2], s[2][3]), KernelSummands(s[2][1], s[2][2], s[2][3])>>)>>
KernelExpected(ns, ss, ts) ==
  [x \in {<<"kernel", t>> : t \in ns \X ss \X ts} |->
     LET once == [r \in 0..(x[2][1] - 1) |-> 1] IN <<once, once>>]

-----------------------------------------------------------------------------
\* Cannon: tiles of A and B are shifted round the grid, C is summed up.
A(i, j, k) == <<"A", <<i, j, k>>>>
B(i, j, k) == <<"B", <<i, j, k>>>>
C(i, j, k) == <<"C", <<i, j, k>>>>
SHIFTA0(i, j, k, s) == A(i, (j - i + s) % s, k)
SHIFTB0(i, j, k, s) == B((i - j + s) % s, j, k)
SHIFTA1(i, j, k, s) == A(i, (j - 1 + s) % s, k)
SHIFTB1(i, j, k, s) == B((i - 1 + s) % s, j, k)

CannonGraph == [start_graph |-> {"tag_generator"}, mm_tags |-> {"mm_compute"}]

CannonMain ==
  LET nb == Tiles
  IN Grid(nb, LAMBDA i, j : <<Put(SHIFTA0(i, j, 0, nb), LeftInput(i, j))>>)
     \o Grid(nb, LAMBDA i, j : <<Put(SHIFTB0(i, j, 0, nb), RightInput(i, j))>>)
     \o Grid(nb, LAMBDA i, j : <<Put(C(i, j, 0), 0)>>)
     \o <<Tag("start_graph", <<0>>), Wait>>
     \o Grid(nb, LAMBDA i, j : <<Get(C(i, j, nb))>>)

CannonOps(s, v) ==
  LET i == s[2][1]  j == s[2][2]  k == s[2][3]  nb == Tiles
      get(x) == At(v, x, 0)
  IN IF s[1] = "tag_generator"
     THEN Grid(nb, LAMBDA x, y : For(0, nb, LAMBDA z : <<Tag("mm_tags", <<x, y, z>>)>>))
     ELSE <<Get(A(i, j, k)), Get(B(i, j, k)), Get(C(i, j, k)),
            Put(SHIFTA1(i, j, k + 1, nb), get(A(i, j, k))), Put(SHIFTB1(i, j, k + 1, nb), get(B(i, j, k))),
            Put(C(i, j, k + 1), get(C(i, j, k)) + get(A(i, j, k)) * get(B(i, j, k)))>>

\* depends() names the C tile of the iteration before the one the step reads.
CannonDeps(s) ==
  IF s[1] = "mm_compute" /\ s[2][3] > 0 THEN {C(s[2][1], s[2][2], s[2][3] - 1)} ELSE {}

CannonInPlace(s) == IF s[1] = "mm_compute" THEN {<<"C", s[2]>>} ELSE {}

CannonOn(np, t) == (t[1] * Tiles + t[2]) % np
CannonConsumedOn(np, i) == {IF i[1] # "C" \/ i[2][3] < Tiles THEN CannonOn(np, i[2]) ELSE 0}

CannonExpected ==
  [x \in {C(i, j, Tiles) : i, j \in 0..(Tiles - 1)} |-> ProductOf(Tiles, x[2][1], x[2][2])]

-----------------------------------------------------------------------------
\* Johnson: all products at once, then a chain of additions for each tile.
Cred(i, j, k) == <<"C_red", <<i, j, k>>>>

JohnsonGraph == [start_graph |-> {"tag_generator"}, mm_tags |-> {"mm_compute"}, reduce_tags |-> {"mm_reduce"}]

JohnsonMain ==
  Grid(FewTiles, LAMBDA i, j : For(0, FewTiles, LAMBDA k : <<Put(A(i, j, k), LeftInput(i, j))>>))
    \o Grid(FewTiles, LAMBDA i, j : For(0, FewTiles, LAMBDA k : <<Put(B(i, j, k), RightInput(i, j))>>))
    \o Grid(FewTiles, LAMBDA i, j : <<Put(Cred(i, j, 0), 0)>>)
    \o <<Tag("start_graph", <<0>>), Wait>>
    \o Grid(FewTiles, LAMBDA i, j : <<Get(Cred(i, j, FewTiles))>>)

JohnsonOps(s, v) ==
  LET i == s[2][1]  j == s[2][2]  k == s[2][3]
      get(x) == At(v, x, 0)
  IN CASE s[1] = "tag_generator" ->
            Grid(FewTiles, LAMBDA x, y : For(0, FewTiles, LAMBDA z :
              <<Tag("mm_tags", <<x, y, z>>), Tag("reduce_tags", <<x, y, z>>)>>))
       [] s[1] = "mm_compute" -> <<Get(A(i, k, j)), Get(B(k, j, i)), Put(C(i, j, k), get(A(i, k, j)) * get(B(k, j, i)))>>
       [] s[1] = "mm_reduce" -> <<Get(C(i, j, k)), Get(Cred(i, j, k)), Put(Cred(i, j, k + 1), get(Cred(i, j, k)) + get(C(i, j, k)))>>

\* Again one iteration early for the tile that is summed up.
JohnsonDeps(s) ==
  IF s[1] = "mm_reduce"
  THEN {<<"C", s[2]>>} \cup (IF s[2][3] > 0 THEN {Cred(s[2][1], s[2][2], s[2][3] - 1)} ELSE {})
  ELSE {}

JohnsonInPlace(s) == IF s[1] = "mm_reduce" THEN {<<"C_red", s[2]>>} ELSE {}

JohnsonOn2d(np, i, j) == (i * FewTiles + j) % np
JohnsonOn3d(np, i, j, k) == (i * FewTiles * FewTiles + j * FewTiles + k) % np
JohnsonOn(np, s) ==
  LET t == s[2]
  IN CASE s[1] = "mm_compute" -> JohnsonOn3d(np, t[1], t[2], t[3])
       [] s[1] = "mm_reduce" -> IF t[3] < FewTiles THEN JohnsonOn2d(np, t[1], t[2]) ELSE 0
       [] OTHER -> 0

JohnsonConsumedOn(np, i) ==
  LET t == i[2]
  IN CASE i[1] = "A" -> {JohnsonOn3d(np, t[1], t[3], t[2])}
       [] i[1] = "B" -> {JohnsonOn3d(np, t[3], t[2], t[1])}
       [] i[1] = "C" -> {JohnsonOn2d(np, t[1], t[2])}
       [] i[1] = "C_red" -> {IF t[3] = FewTiles THEN 0 ELSE JohnsonOn2d(np, t[1], t[2])}

JohnsonProducedOn(np, i) ==
  LET t == i[2]
  IN CASE i[1] = "C" -> {JohnsonOn3d(np, t[1], t[2], t[3])}
       [] i[1] = "C_red" -> {IF t[3] = 0 THEN 0 ELSE JohnsonOn2d(np, t[1], t[2])}
       [] OTHER -> {JohnsonOn3d(np, 0, 0, 0)}

JohnsonExpected ==
  [x \in {Cred(i, j, FewTiles) : i, j \in 0..(FewTiles - 1)} |-> ProductOf(FewTiles, x[2][1], x[2][2])]
=============================================================================
