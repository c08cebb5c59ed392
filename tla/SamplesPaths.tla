----------------------------- MODULE SamplesPaths -----------------------------
(***************************************************************************)
(* floyd_warshall: shortest paths on a matrix of FewTiles * FloydB nodes, cut *)
(* into bands of rows (1d), into square tiles with the pivot row and       *)
(* column sent along (2d), or blocked in the pivot as well (3d).           *)
(***************************************************************************)
EXTENDS SamplesLinAlg

FloydN == FewTiles * FloydB
Nodes == 0..(FloydN - 1)
InTile == 0..(FloydB - 1)
Distance(i, j) == IF i = j THEN 0 ELSE 1 + ((3 * i + 5 * j + i * j) % 7)

\* floyd_seq, the reference of the option -check.
FloydSeq ==
  FoldLeft(LAMBDA d, k : [e \in Nodes \X Nodes |-> Lesser(d[e[1], k] + d[k, e[2]], d[e])],
           [e \in Nodes \X Nodes |-> Distance(e[1], e[2])], [k \in 1..FloydN |-> k - 1])

FloydGraph == [m_singleton |-> {"node_gen"}, m_tag_control |-> {"tag_gen"}, m_tags |-> {"compute"}]

\* The processes are numbered by node_gen, and tag_gen puts for each of them the
\* tags whose last component is dealt to it.
FloydProcs == 2
FloydTags(s, n, tags(_, _)) ==
  IF s[1] = "node_gen" THEN For(0, FloydProcs, LAMBDA p : <<Tag("m_tag_control", <<p>>)>>)
  ELSE For(0, n, LAMBDA k : For(0, FewTiles, LAMBDA i : tags(k, i)))

\* Where a tile is computed; BLOCKED_ROW needs a multiple of the processes.
FloydPlace(w, i, j) ==
  CASE w[2] = "ROW_CYCLIC" -> i % w[1]
    [] w[2] = "COLUMN_CYCLIC" -> j % w[1]
    [] w[2] = "BLOCKED_CYCLIC" -> (i * FewTiles + j) % w[1]
    [] w[2] = "BLOCKED_ROW" -> i \div (FewTiles \div w[1])
FloydLayouts ==
  ProcCounts \X {"ROW_CYCLIC", "COLUMN_CYCLIC", "BLOCKED_CYCLIC"}
    \cup {q \in ProcCounts : FewTiles % q = 0} \X {"BLOCKED_ROW"}

Block(t) == <<"m_blocks", t>>
Row(t) == <<"m_row_transfer", t>>
Col(t) == <<"m_col_transfer", t>>

-----------------------------------------------------------------------------
Floyd1dMain ==
  For(0, FewTiles, LAMBDA i :
        <<Put(Block(<<0, i>>), [e \in InTile \X Nodes |-> Distance(i * FloydB + e[1], e[2])])>>)
    \o <<Put(Row(<<0>>), [q \in Nodes |-> Distance(0, q)]), Tag("m_singleton", <<1>>), Wait>>
    \o For(0, FewTiles, LAMBDA i : <<Get(Block(<<FloydN, i>>))>>)

Floyd1dOps(s, v) ==
  IF s[1] # "compute"
  THEN FloydTags(s, FloydN, LAMBDA k, i : When(s[2][1] = i % FloydProcs, <<Tag("m_tags", <<k, i>>)>>))
  ELSE LET k == s[2][1]  i == s[2][2]
           mine == k \div FloydB = i
           block == At(v, Block(<<k, i>>), [e \in InTile \X Nodes |-> 0])
           row == IF mine THEN [q \in Nodes |-> block[k % FloydB, q]]
                  ELSE At(v, Row(<<k>>), [q \in Nodes |-> 0])
           new == [e \in InTile \X Nodes |-> Lesser(block[e[1], k] + row[e[2]], block[e])]
       IN <<Get(Block(<<k, i>>))>> \o When(~mine, <<Get(Row(<<k>>))>>)
          \o <<Put(Block(<<k + 1, i>>), new)>>
          \o When((k + 1) \div FloydB = i,
                  <<Put(Row(<<k + 1>>), [q \in Nodes |-> new[(k + 1) % FloydB, q]])>>)

Floyd1dDeps(s) ==
  IF s[1] # "compute" THEN {}
  ELSE {Block(s[2])} \cup (IF s[2][1] \div FloydB # s[2][2] THEN {Row(<<s[2][1]>>)} ELSE {})

Floyd1dCount(i) ==
  IF i[1] = "m_row_transfer" THEN FewTiles - 1 ELSE IF i[2][1] = FloydN THEN NO_GETCOUNT ELSE 1

Floyd1dOn(w, s) == IF s[1] = "compute" THEN FloydPlace(w, s[2][2], 0) ELSE s[2][1] % w[1]
\* Rows go to everybody (CONSUMER_ALL).
Floyd1dConsumedOn(w, i) == IF i[1] = "m_blocks" /\ i[2][1] < FloydN THEN {FloydPlace(w, i[2][2], 0)} ELSE UNKNOWN
Floyd1dProducedOn(w, i) ==
  IF i[2][1] = 0 THEN UNKNOWN
  ELSE {FloydPlace(w, IF i[1] = "m_blocks" THEN i[2][2] ELSE i[2][1] \div FloydB, 0)}

Floyd1dExpected ==
  [x \in {Block(<<FloydN, i>>) : i \in 0..(FewTiles - 1)} |->
     [e \in InTile \X Nodes |-> FloydSeq[x[2][2] * FloydB + e[1], e[2]]]]

-----------------------------------------------------------------------------
Entry(i, j) == [e \in InTile \X InTile |-> Distance(i * FloydB + e[1], j * FloydB + e[2])]

Floyd2dMain ==
  Grid(FewTiles, LAMBDA i, j : <<Put(Block(<<0, i, j>>), Entry(i, j))>>)
    \o For(0, FewTiles, LAMBDA j : <<Put(Row(<<0, j>>), [q \in InTile |-> Distance(0, j * FloydB + q)])>>)
    \o For(0, FewTiles, LAMBDA i : <<Put(Col(<<0, i>>), [p \in InTile |-> Distance(i * FloydB + p, 0)])>>)
    \o <<Tag("m_singleton", <<1>>), Wait>>
    \o Grid(FewTiles, LAMBDA i, j : <<Get(Block(<<FloydN, i, j>>))>>)

FloydGen(s, n) ==
  FloydTags(s, n, LAMBDA k, i : For(0, FewTiles, LAMBDA j : When(s[2][1] = j % FloydProcs, <<Tag("m_tags", <<k, i, j>>)>>)))

Floyd2dOps(s, v) ==
  IF s[1] # "compute" THEN FloydGen(s, FloydN)
  ELSE LET k == s[2][1]  i == s[2][2]  j == s[2][3]
           r == k % FloydB
           zero == [q \in InTile |-> 0]
           block == At(v, Block(s[2]), [e \in InTile \X InTile |-> 0])
           row == IF k \div FloydB = i THEN [q \in InTile |-> block[r, q]] ELSE At(v, Row(<<k, j>>), zero)
           col == IF k \div FloydB = j THEN [p \in InTile |-> block[p, r]] ELSE At(v, Col(<<k, i>>), zero)
           new == [e \in InTile \X InTile |-> Lesser(col[e[1]] + row[e[2]], block[e])]
           rr == (k + 1) % FloydB
       IN <<Get(Block(s[2]))>>
          \o When(k \div FloydB # i, <<Get(Row(<<k, j>>))>>)
          \o When(k \div FloydB # j, <<Get(Col(<<k, i>>))>>)
          \o When((k + 1) \div FloydB = i, <<Put(Row(<<k + 1, j>>), [q \in InTile |-> new[rr, q]])>>)
          \o When((k + 1) \div FloydB = j, <<Put(Col(<<k + 1, i>>), [p \in InTile |-> new[p, rr]])>>)
          \o <<Put(Block(<<k + 1, i, j>>), new)>>

Floyd2dDeps(s) ==
  LET k == s[2][1]
  IN IF s[1] # "compute" THEN {}
     ELSE {Block(s[2])} \cup (IF k \div FloydB # s[2][3] THEN {Col(<<k, s[2][2]>>)} ELSE {})
                        \cup (IF k \div FloydB # s[2][2] THEN {Row(<<k, s[2][3]>>)} ELSE {})

Floyd2dCount(i) ==
  IF i[1] # "m_blocks" THEN FewTiles - 1 ELSE IF i[2][1] = FloydN THEN NO_GETCOUNT ELSE 1

Floyd2dOn(w, s) == IF s[1] = "compute" THEN FloydPlace(w, s[2][2], s[2][3]) ELSE s[2][1] % w[1]

\* A column segment is for the tiles of row i, a row segment for those of column i.
Floyd2dConsumedOn(w, x) ==
  LET k == x[2][1]  i == x[2][2]  line == 0..(FewTiles - 1)
  IN CASE k = FloydN -> IF x[1] = "m_blocks" THEN {0} ELSE UNKNOWN
       [] k # FloydN /\ x[1] = "m_blocks" -> {FloydPlace(w, i, x[2][3])}
       [] k # FloydN /\ x[1] = "m_col_transfer" -> {FloydPlace(w, i, p) : p \in line}
       [] k # FloydN /\ x[1] = "m_row_transfer" -> {FloydPlace(w, p, i) : p \in line}

Floyd2dProducedOn(w, x) ==
  LET k == x[2][1]  i == x[2][2]
  IN CASE k = 0 -> UNKNOWN
       [] k # 0 /\ x[1] = "m_blocks" -> {FloydPlace(w, i, x[2][3])}
       [] k # 0 /\ x[1] = "m_col_transfer" -> {FloydPlace(w, i, k \div FloydB)}
       [] k # 0 /\ x[1] = "m_row_transfer" -> {FloydPlace(w, k \div FloydB, i)}

Floyd2dExpected ==
  [x \in {Block(<<FloydN, i, j>>) : i, j \in 0..(FewTiles - 1)} |->
     [e \in InTile \X InTile |-> FloydSeq[x[2][2] * FloydB + e[1], x[2][3] * FloydB + e[2]]]]

-----------------------------------------------------------------------------
Floyd3dMain ==
  Grid(FewTiles, LAMBDA i, j : <<Put(Block(<<0, i, j>>), Entry(i, j))>>)
    \o <<Tag("m_singleton", <<1>>), Wait>>
    \o Grid(FewTiles, LAMBDA i, j : <<Get(Block(<<FewTiles, i, j>>))>>)

Floyd3dOps(s, v) ==
  IF s[1] # "compute" THEN FloydGen(s, FewTiles)
  ELSE LET k == s[2][1]  i == s[2][2]  j == s[2][3]
           zero == [e \in InTile \X InTile |-> 0]
           rows == At(v, Block(<<k + 1, k, j>>), zero)
           cols == At(v, Block(<<k + 1, i, k>>), zero)
           pivot(b, r) == LET row == IF k = i THEN b ELSE rows
                              col == IF k = j THEN b ELSE cols
                          IN [e \in InTile \X InTile |-> Lesser(col[e[1], r] + row[r, e[2]], b[e])]
       IN <<Get(Block(s[2]))>>
          \o When(k # i, <<Get(Block(<<k + 1, k, j>>))>>)
          \o When(k # j, <<Get(Block(<<k + 1, i, k>>))>>)
          \o <<Put(Block(<<k + 1, i, j>>),
                   FoldLeft(pivot, At(v, Block(s[2]), zero), [r \in 1..FloydB |-> r - 1]))>>

Floyd3dDeps(s) ==
  LET k == s[2][1]  i == s[2][2]  j == s[2][3]
  IN IF s[1] # "compute" THEN {}
     ELSE {Block(s[2])} \cup (IF k # j THEN {Block(<<k + 1, i, k>>)} ELSE {})
                        \cup (IF k # i THEN {Block(<<k + 1, k, j>>)} ELSE {})

Floyd3dCount(t) ==
  LET k == t[1]  i == t[2]  j == t[3]
  IN CASE k = FewTiles -> NO_GETCOUNT
       [] k # FewTiles /\ i + 1 # k /\ j + 1 # k -> 1
       [] OTHER -> (IF i + 1 = k THEN FewTiles ELSE 0) + (IF j + 1 = k THEN FewTiles ELSE 0)
                     - (IF i + 1 = k /\ j + 1 = k THEN 1 ELSE 0)

Floyd3dConsumedOn(w, t) ==
  LET k == t[1]  i == t[2]  j == t[3]
      on(x, y) == FloydPlace(w, x, y)
  IN CASE k = FewTiles -> UNKNOWN
       [] k # FewTiles /\ i + 1 # k /\ j + 1 # k -> {on(i, j)}
       [] OTHER -> (IF i + 1 = k THEN {on(p, j) : p \in 0..(FewTiles - 1)} ELSE {})
                     \cup (IF j + 1 = k THEN {on(i, p) : p \in 0..(FewTiles - 1)} ELSE {})

Floyd3dExpected ==
  [x \in {Block(<<FewTiles, i, j>>) : i, j \in 0..(FewTiles - 1)} |->
     [e \in InTile \X InTile |-> FloydSeq[x[2][2] * FloydB + e[1], x[2][3] * FloydB + e[2]]]]
=============================================================================
