---------------------------- MODULE SamplesStencil ----------------------------
(***************************************************************************)
(* The stencil samples: heat_equation, jacobi2d_heureka and the variants   *)
(* of successive over-relaxation.  Each is compared with the same stencil  *)
(* swept sequentially over the undivided matrix.  Numbers are residues, so *)
(* that the averages are exact.                                            *)
(***************************************************************************)
EXTENDS CnCProgram

CONSTANT Sweeps     \* number of time steps or iterations

ASSUME StencilAssumption == Sweeps \in Nat \ {0}

Prime == 97
Cells(rows, cols, ops(_, _)) == For(0, rows, LAMBDA i : For(0, cols, LAMBDA j : ops(i, j)))
RowMajor(rows, cols) == Cells(rows, cols, LAMBDA i, j : <<<<i, j>>>>)
AbsDiff(a, b) == IF a < b THEN b - a ELSE a - b

-----------------------------------------------------------------------------
\* heat_equation: blocks of a line, whose ends follow the analytical solution.
\* main() rounds the number of points up to a multiple of the block size.
HeatShape(nx, bs) ==
  LET block_size == IF bs > nx + 1 THEN nx + 1 ELSE bs
      Nx == IF bs > nx + 1 THEN nx ELSE ((nx + bs) \div bs) * bs - 1
  IN [bs |-> block_size, nbl |-> (Nx + 1) \div block_size, nt |-> Sweeps]
Analitical(x, t) == 3 * x + 5 * t * t
Update(a) == a[2] + 2 * (a[1] - 2 * a[2] + a[3])

H(i, j) == <<"H", <<i, j>>>>
HeatGraph == [Tag |-> {"Steps"}]

HeatMain(nx, bs) ==
  LET d == HeatShape(nx, bs)
  IN <<Put(<<"gd", <<0>>>>, d)>>
     \o For(0, d.nbl, LAMBDA i : <<Put(H(0, i), [m \in 0..(d.bs - 1) |-> Analitical(d.bs * i + m, 0)])>>)
     \o For(0, d.nbl, LAMBDA j : <<Tag("Tag", <<1, j>>)>>) \o <<Wait>>
     \o For(0, d.nt + 1, LAMBDA i : For(0, d.nbl, LAMBDA j : <<Get(H(i, j))>>))

HeatOps(s, v) ==
  LET d == At(v, <<"gd", <<0>>>>, [bs |-> 1, nbl |-> 1, nt |-> 0])
      i == s[2][1]  j == s[2][2]
      h(x) == At(v, H(i - 1, x), [m \in 0..(d.bs - 1) |-> 0])
      a(m) == <<IF m = 0 THEN h(j - 1)[d.bs - 1] ELSE h(j)[m - 1], h(j)[m],
                IF m = d.bs - 1 THEN h(j + 1)[0] ELSE h(j)[m + 1]>>
      outdata == [m \in 0..(d.bs - 1) |->
                    CASE j = d.nbl - 1 /\ m = d.bs - 1 -> Analitical(d.nbl * d.bs - 1, i)
                      [] j = 0 /\ m = 0 /\ ~(d.nbl = 1 /\ d.bs = 1) -> Analitical(0, i)
                      [] OTHER -> Update(a(m))]
  IN <<Get(<<"gd", <<0>>>>)>> \o When(j > 0, <<Get(H(i - 1, j - 1))>>) \o <<Get(H(i - 1, j))>>
     \o When(j + 1 < d.nbl, <<Get(H(i - 1, j + 1))>>)
     \o <<Put(H(i, j), outdata)>> \o When(i + 1 <= d.nt, <<Tag("Tag", <<i + 1, j>>)>>)

HeatExpected(nx, bs) ==
  LET d == HeatShape(nx, bs)
      last == d.nbl * d.bs - 1
      line[t \in 0..Sweeps] ==
        [x \in 0..last |-> IF t = 0 \/ x \in {0, last} THEN Analitical(x, t)
                           ELSE Update(<<line[t - 1][x - 1], line[t - 1][x], line[t - 1][x + 1]>>)]
  IN [b \in {H(Sweeps, j) : j \in 0..(d.nbl - 1)} |-> [m \in 0..(d.bs - 1) |-> line[Sweeps][b[2][2] * d.bs + m]]]

-----------------------------------------------------------------------------
\* jacobi2d_heureka: each iteration puts the tags of its blocks, of the test
\* for convergence, and of the next iteration.  A tile knows its place in the
\* matrix; there is no tile (NULL, all zero) beyond the borders.
JacobiBlocks == 2
JacobiSize == 2
JacobiEpsilon == 45
Blk(t) == <<"m_blockitems", t>>
NoTile == <<0, -1, -1>>
TileArea(i, j) == ((i * JacobiSize)..((i + 1) * JacobiSize - 1)) \X ((j * JacobiSize)..((j + 1) * JacobiSize - 1))
Inside(i, j) == i \in 0..(JacobiBlocks - 1) /\ j \in 0..(JacobiBlocks - 1)
Quarter(x) == (73 * x) % Prime         \* 4 * 73 = 1 modulo Prime
JacobiGraph == [m_itertags |-> {"iter"}, m_blocktags |-> {"block"}, m_deltatags |-> {"delta"}]

\* The last row and column are taken at numBlocks - 1 inside the tile; what is
\* not set is left as the memory was: some numbers.
JacobiInitial(i, j) ==
  LET last == JacobiBlocks - 1
      set(b, x) == (b = 0 /\ x = 0) \/ (b # 0 /\ b = last /\ x = last)
  IN [c \in TileArea(i, j) |->
        IF set(i, c[1] % JacobiSize) \/ set(j, c[2] % JacobiSize) THEN 1 ELSE 7 * c[1] + 11 * c[2]]

JacobiMain ==
  Cells(JacobiBlocks, JacobiBlocks, LAMBDA i, j : <<Put(Blk(<<0, i, j>>), JacobiInitial(i, j))>>)
    \o <<Put(Blk(NoTile), <<>>), Tag("m_itertags", <<1>>), Wait>>

tileGet(t, c) == IF c \in DOMAIN t THEN t[c] ELSE 0

\* get(): the tile that holds a cell is found by comparing with the borders of
\* the destination.
JacobiCell(i, j, tiles, r, c) ==
  LET row0 == i * JacobiSize  row1 == (i + 1) * JacobiSize
      col0 == j * JacobiSize  col1 == (j + 1) * JacobiSize
      where == CASE r < row0 -> "top" [] r >= row1 -> "bottom" [] c < col0 -> "left" [] c >= col1 -> "right" [] OTHER -> "old"
  IN tileGet(tiles[where], <<r, c>>)

JacobiOps(s, v) ==
  LET it == s[2][1]  i == s[2][2]  j == s[2][3]
      prev(x, y) == Blk(IF Inside(x, y) THEN <<it - 1, x, y>> ELSE NoTile)
      near == [old |-> prev(i, j), top |-> prev(i - 1, j), left |-> prev(i, j - 1),
               bottom |-> prev(i + 1, j), right |-> prev(i, j + 1)]
      tiles == [n \in DOMAIN near |-> At(v, near[n], <<>>)]
      cell(r, c) == JacobiCell(i, j, tiles, r, c)
      delta == {AbsDiff(tileGet(At(v, Blk(<<it - 1, x, y>>), <<>>), c), tileGet(At(v, Blk(<<it, x, y>>), <<>>), c)) :
                  x, y \in 0..(JacobiBlocks - 1), c \in (0..3) \X (0..3)}
  IN CASE s[1] = "iter" ->
            Cells(JacobiBlocks, JacobiBlocks, LAMBDA x, y : <<Tag("m_blocktags", <<it, x, y>>)>>)
              \o <<Tag("m_deltatags", <<it>>)>> \o When(it < Sweeps, <<Tag("m_itertags", <<it + 1>>)>>)
       [] s[1] = "block" ->
            <<Get(near.old), Get(near.top), Get(near.left), Get(near.bottom), Get(near.right),
              Put(Blk(s[2]), [c \in TileArea(i, j) |->
                Quarter(cell(c[1], c[2] - 1) + cell(c[1] - 1, c[2]) + cell(c[1], c[2] + 1) + cell(c[1] + 1, c[2]))])>>
       [] s[1] = "delta" ->
            Cells(JacobiBlocks, JacobiBlocks, LAMBDA x, y : <<Get(Blk(<<it - 1, x, y>>)), Get(Blk(<<it, x, y>>))>>)
              \o When(\A d \in delta : d < JacobiEpsilon, <<Put(<<"m_resultitems", <<it>>>>, it)>>)

JacobiSeq ==
  LET n == JacobiBlocks * JacobiSize
      area == (0..(n - 1)) \X (0..(n - 1))
      at(f, r, c) == IF <<r, c>> \in area THEN f[r, c] ELSE 0
      sweep[t \in 0..Sweeps] ==
        [c \in area |-> IF t = 0 THEN JacobiInitial(c[1] \div JacobiSize, c[2] \div JacobiSize)[c]
                        ELSE LET f == sweep[t - 1]
                             IN Quarter(at(f, c[1], c[2] - 1) + at(f, c[1] - 1, c[2]) + at(f, c[1], c[2] + 1) + at(f, c[1] + 1, c[2]))]
  IN sweep
JacobiExpected ==
  LET f == JacobiSeq
      close == {t \in 1..Sweeps : \A c \in DOMAIN f[t] : AbsDiff(f[t][c], f[t - 1][c]) < JacobiEpsilon}
  IN [x \in {Blk(<<Sweeps, i, j>>) : i, j \in 0..(JacobiBlocks - 1)} \cup {<<"m_resultitems", <<t>>>> : t \in close} |->
        IF x[1] = "m_resultitems" THEN x[2][1] ELSE [c \in TileArea(x[2][2], x[2][3]) |-> f[Sweeps][c]]]

-----------------------------------------------------------------------------
\* Successive over-relaxation.  The kernel sweeps a tile row by row and uses
\* the new values of what it has passed; a cell at the border of the matrix has
\* a neighbour missing and is left alone.
SorInput(r, c) == (11 * c + 5 * r) % Prime
SorUpdate(near, old) == (2 * near - 7 * old) % Prime       \* omega is 8
SorKernel(tile, rows, cols, above, left, below, right) ==
  LET sweep(t, c) ==
        LET i == c[1]  j == c[2]
            hasUp == i > 0 \/ above # <<>>         hasDown == i < rows - 1 \/ below # <<>>
            hasPrev == j > 0 \/ left # <<>>        hasNext == j < cols - 1 \/ right # <<>>
            up == IF i > 0 THEN t[i - 1, j] ELSE above[rows - 1, j]
            down == IF i < rows - 1 THEN t[i + 1, j] ELSE below[0, j]
            prev == IF j > 0 THEN t[i, j - 1] ELSE left[i, cols - 1]
            next == IF j < cols - 1 THEN t[i, j + 1] ELSE right[i, 0]
        IN IF hasUp /\ hasDown /\ hasPrev /\ hasNext THEN [t EXCEPT ![i, j] = SorUpdate(down + next + up + prev, @)] ELSE t
  IN FoldLeft(sweep, tile, RowMajor(rows, cols))

\* The reference: the kernel over the whole matrix as one tile, n times.
SorSeq(rows, cols, n) ==
  LET sweep[k \in 0..n] == IF k = 0 THEN [c \in (0..(rows - 1)) \X (0..(cols - 1)) |-> SorInput(c[1], c[2])]
                           ELSE SorKernel(sweep[k - 1], rows, cols, <<>>, <<>>, <<>>, <<>>)
  IN sweep[n]
SorArea(sh) == (0..(sh.r - 1)) \X (0..(sh.c - 1))
SorCut(sh, m, i, j) == [c \in SorArea(sh) |-> m[i * sh.r + c[1], j * sh.c + c[2]]]
SorZero(sh) == [c \in SorArea(sh) |-> 0]

\* Shapes: nr times nc tiles of r times c elements.
SorSquare == [nr |-> 2, nc |-> 2, r |-> 2, c |-> 2]
SorPoints == [nr |-> 3, nc |-> 3, r |-> 1, c |-> 1]
SorNumbers(sh) == <<Put(<<"nRowsInTile", <<222>>>>, sh.r), Put(<<"nColumnsInTile", <<333>>>>, sh.c)>>
SorGrid(sh) == <<Put(<<"nRowsOfTiles", <<444>>>>, sh.nr), Put(<<"nColumnsOfTiles", <<555>>>>, sh.nc)>>

\* Every iteration has a context of its own; its number is part of a tag here.
Prev(t) == <<"prev", t>>
Curr(t) == <<"curr", t>>
SorGraph == [iterationSpace |-> {"iterationStep"}, tileSpace |-> {"relaxation"}]
SorTilePut(sh, it, v) ==
  Cells(sh.nr, sh.nc, LAMBDA i, j :
    <<Put(Prev(<<it, i, j>>), IF it = 0 THEN SorCut(sh, SorSeq(sh.nr * sh.r, sh.nc * sh.c, 0), i, j)
                              ELSE At(v, Curr(<<it - 1, i, j>>), <<>>))>>)
SorTileGet(sh, it) == Cells(sh.nr, sh.nc, LAMBDA i, j : <<Get(Curr(<<it, i, j>>))>>)

\* sorDataTiled: tiles are items, and a step puts the tags of the tiles.
SorDataMain(sh, v) ==
  SorNumbers(sh) \o SorGrid(sh)
    \o For(0, Sweeps, LAMBDA it : SorTilePut(sh, it, v) \o <<Tag("iterationSpace", <<it>>), Wait>> \o SorTileGet(sh, it))

\* sorPrior: main() puts a tile and its tag in turn, there is no iteration step.
SorPriorMain(sh, v) ==
  SorNumbers(sh)
    \o For(0, Sweeps, LAMBDA it :
         LET puts == SorTilePut(sh, it, v)
         IN FlattenSeq([n \in DOMAIN puts |-> <<puts[n], Tag("tileSpace", puts[n].item[2])>>]) \o <<Wait>> \o SorTileGet(sh, it))

SorIteration(sh, it) ==
  <<Get(<<"nRowsOfTiles", <<444>>>>), Get(<<"nColumnsOfTiles", <<555>>>>)>>
    \o Cells(sh.nr, sh.nc, LAMBDA i, j : <<Tag("tileSpace", <<it, i, j>>)>>)

\* grid: the step looks up how many tiles there are (sorDataTiled).
SorRelaxation(sh, grid, t, v) ==
  LET it == t[1]  i == t[2]  j == t[3]
      hasAbove == i # 0  hasLeft == j # 0  hasBelow == i # sh.nr - 1  hasRight == j # sh.nc - 1
      get(x) == At(v, x, SorZero(sh))
      above == Curr(<<it, i - 1, j>>)  left == Curr(<<it, i, j - 1>>)
      below == Prev(<<it, i + 1, j>>)  right == Prev(<<it, i, j + 1>>)
  IN When(grid, <<Get(<<"nRowsOfTiles", <<444>>>>), Get(<<"nColumnsOfTiles", <<555>>>>)>>)
     \o <<Get(<<"nRowsInTile", <<222>>>>), Get(<<"nColumnsInTile", <<333>>>>)>>
     \o When(hasAbove, <<Get(above)>>) \o When(hasLeft, <<Get(left)>>)
     \o When(hasBelow, <<Get(below)>>) \o When(hasRight, <<Get(right)>>)
     \o <<Get(Prev(t)),
          Put(Curr(t), SorKernel(get(Prev(t)), sh.r, sh.c, When(hasAbove, get(above)), When(hasLeft, get(left)),
                                 When(hasBelow, get(below)), When(hasRight, get(right))))>>

SorDataOps(sh, s, v) == IF s[1] = "iterationStep" THEN SorIteration(sh, s[2][1]) ELSE SorRelaxation(sh, TRUE, s[2], v)
SorPriorOps(sh, s, v) == SorRelaxation(sh, FALSE, s[2], v)
SorExpected(sh, last) ==
  LET m == SorSeq(sh.nr * sh.r, sh.nc * sh.c, Sweeps)
  IN [x \in {Curr(<<last, i, j>>) : i \in 0..(sh.nr - 1), j \in 0..(sh.nc - 1)} |-> SorCut(sh, m, x[2][2], x[2][3])]

\* sorTiled: the elements are items; a step gets its tile and the neighbouring
\* row or column of each of the four tiles around it.
SorTiledMain(sh, v) ==
  SorNumbers(sh) \o SorGrid(sh)
    \o For(0, Sweeps, LAMBDA it :
         <<Tag("iterationSpace", <<it>>)>>
         \o Cells(sh.nr * sh.r, sh.nc * sh.c, LAMBDA r, c :
              <<Put(Prev(<<it, r, c>>), IF it = 0 THEN SorInput(r, c) ELSE At(v, Curr(<<it - 1, r, c>>), 0))>>)
         \o <<Wait>> \o Cells(sh.nr * sh.r, sh.nc * sh.c, LAMBDA r, c : <<Get(Curr(<<it, r, c>>))>>))

SorTiledOps(sh, s, v) ==
  LET it == s[2][1]
      r0 == s[2][2] * sh.r  c0 == s[2][3] * sh.c
      hasAbove == s[2][2] # 0  hasLeft == s[2][3] # 0  hasBelow == s[2][2] # sh.nr - 1  hasRight == s[2][3] # sh.nc - 1
      items(coll, rows, cols) == FlattenSeq([x \in DOMAIN rows |-> [y \in DOMAIN cols |-> <<coll, <<it, r0 + rows[x], c0 + cols[y]>>>>]])
      rows == [x \in 1..sh.r |-> x - 1]  cols == [y \in 1..sh.c |-> y - 1]
      gets(seq) == [n \in DOMAIN seq |-> Get(seq[n])]
      tile(coll, dr, dc) == [e \in SorArea(sh) |-> At(v, <<coll, <<it, r0 + dr + e[1], c0 + dc + e[2]>>>>, 0)]
      new == SorKernel(tile("prev", 0, 0), sh.r, sh.c, When(hasAbove, tile("curr", -sh.r, 0)), When(hasLeft, tile("curr", 0, -sh.c)),
                       When(hasBelow, tile("prev", sh.r, 0)), When(hasRight, tile("prev", 0, sh.c)))
  IN IF s[1] = "iterationStep" THEN SorIteration(sh, it)
     ELSE <<Get(<<"nRowsOfTiles", <<444>>>>), Get(<<"nColumnsOfTiles", <<555>>>>),
            Get(<<"nRowsInTile", <<222>>>>), Get(<<"nColumnsInTile", <<333>>>>)>>
          \o When(hasAbove, gets(items("curr", <<-1>>, cols))) \o When(hasLeft, gets(items("curr", rows, <<-1>>)))
          \o When(hasBelow, gets(items("prev", <<sh.r>>, cols))) \o When(hasRight, gets(items("prev", rows, <<sh.c>>)))
          \o gets(items("prev", rows, cols))
          \o Cells(sh.r, sh.c, LAMBDA i, j : <<Put(Curr(<<it, r0 + i, c0 + j>>), new[i, j])>>)

SorTiledExpected(sh) ==
  LET m == SorSeq(sh.nr * sh.r, sh.nc * sh.c, Sweeps)
  IN [x \in {Curr(<<Sweeps - 1, c[1], c[2]>>) : c \in DOMAIN m} |-> m[x[2][2], x[2][3]]]

\* sor3D: one graph for all iterations; tiles above and to the left are those
\* of the next iteration.
Sor3dGraph == [tileSpace |-> {"relaxation"}]
Sor3dMain(sh) ==
  SorNumbers(sh)
    \o For(0, Sweeps, LAMBDA it : Cells(sh.nr, sh.nc, LAMBDA i, j :
         When(it = 0, <<Put(Curr(<<0, i, j>>), SorCut(sh, SorSeq(sh.nr * sh.r, sh.nc * sh.c, 0), i, j))>>)
           \o <<Tag("tileSpace", <<it, i, j>>)>>))
    \o <<Wait>> \o SorTileGet(sh, Sweeps)

Sor3dOps(sh, s, v) ==
  LET it == s[2][1]  i == s[2][2]  j == s[2][3]
      hasAbove == i # 0  hasLeft == j # 0  hasBelow == i # sh.nr - 1  hasRight == j # sh.nc - 1
      get(x) == At(v, x, SorZero(sh))
      above == Curr(<<it + 1, i - 1, j>>)  left == Curr(<<it + 1, i, j - 1>>)
      below == Curr(<<it, i + 1, j>>)  right == Curr(<<it, i, j + 1>>)
  IN <<Get(<<"nRowsInTile", <<222>>>>), Get(<<"nColumnsInTile", <<333>>>>)>>
     \o When(hasAbove, <<Get(above)>>) \o When(hasLeft, <<Get(left)>>)
     \o When(hasBelow, <<Get(below)>>) \o When(hasRight, <<Get(right)>>)
     \o <<Get(Curr(s[2])),
          Put(Curr(<<it + 1, i, j>>), SorKernel(get(Curr(s[2])), sh.r, sh.c, When(hasAbove, get(above)), When(hasLeft, get(left)),
                                 When(hasBelow, get(below)), When(hasRight, get(right))))>>

Sor3dCount(sh, x) ==
  LET it == x[2][1]
      one(c) == IF c THEN 1 ELSE 0
  IN IF x[1] # "curr" THEN NO_GETCOUNT
     ELSE one(x[2][2] # 0 /\ it # Sweeps) + one(x[2][3] # 0 /\ it # Sweeps) + 1
            + one(x[2][3] # sh.nc - 1 /\ it # 0) + one(x[2][2] # sh.nr - 1 /\ it # 0)
\* The tiles of the last iteration are counted for a step that does not exist.
Sor3dKept(x) == x[2][1] = Sweeps
=============================================================================
