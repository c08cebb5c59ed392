--------------------------- MODULE SamplesInverse ---------------------------
(***************************************************************************)
(* The matrix_inverse samples: Gauss-Jordan elimination on tiles, in the   *)
(* shared or distributed form, with unsafe_get, and as an SPMD program.    *)
(* A tile is a matrix of TILESIZE rows; its entries are numbers modulo a   *)
(* prime, so that every pivot but zero has an inverse and a result is      *)
(* exact.                                                                  *)
(***************************************************************************)
EXTENDS SamplesLinAlg, TLC

Mod == 7
TILESIZE == 2
Rows == [k \in 1..TILESIZE |-> k - 1]
Reciprocal(x) == IF x % Mod = 0 THEN 0 ELSE CHOOSE r \in 1..(Mod - 1) : (r * x) % Mod = 1
Places(n) == (0..(n - 1)) \X (0..(n - 1))
TileCells == Places(TILESIZE)

\* f, as a table: TLC then computes each entry once.
Table(f) == f @@ <<>>

-----------------------------------------------------------------------------
\* tile.h.  A tile is a function on TileCells.
Dot(a, b, c) == Sum(0, TILESIZE, LAMBDA k : a[<<c[1], k>>] * b[<<k, c[2]>>])
multiply_(a, b) == Table([c \in TileCells |-> Dot(a, b, c) % Mod])
multiply_negate_(a, b) == Table([c \in TileCells |-> (-Dot(a, b, c)) % Mod])
multiply_subtract(t, a, b) == Table([c \in TileCells |-> (t[c] - Dot(a, b, c)) % Mod])
multiply_add_in_place(t, a, b) == Table([c \in TileCells |-> (t[c] + Dot(a, b, c)) % Mod])
zero == [c \in TileCells |-> 0]

\* Step n of the elimination: row n is divided by the pivot, then n is
\* eliminated from the other rows.  (exit() at a pivot of zero is not modelled:
\* no tile of the input leads to one.)
inverse_(t) ==
  LET step(b, n) ==
        LET row == [j \in 0..(TILESIZE - 1) |->
                      (IF j = n THEN 1 ELSE b[<<n, j>>]) * Reciprocal(b[<<n, n>>])]
        IN Table([c \in TileCells |->
             (CASE c[1] = n -> row[c[2]]
                [] c[1] # n /\ c[2] = n -> -(b[c] * row[n])
                [] OTHER -> b[c] - b[<<c[1], n>>] * row[c[2]]) % Mod])
  IN FoldLeft(step, t, Rows)

\* The number of entries that are reported: a zero is accepted on the diagonal.
tile_identity_check(t) == Cardinality({c \in TileCells : ~(c[1] = c[2] /\ t[c] = 1) /\ t[c] # 0})
zero_check(t) == Cardinality({c \in TileCells : t[c] # 0})

-----------------------------------------------------------------------------
\* tile_array: a function on Places(dim).  The matrix does not fill its last
\* tiles; for an input of 3 * min(ii, jj) the inverse is known.
SizeOf(dim) == TILESIZE * dim - 1
InverseInput(ii, jj) == 3 * (Lesser(ii, jj) + 1)
InverseKnown(size, ii, jj) ==
  5 * (CASE ii = jj -> IF ii = size - 1 THEN 1 ELSE 2
         [] ii - jj \in {-1, 1} -> -1
         [] OTHER -> 0)
Padded(size, ii, jj, e) ==
  IF ii < size /\ jj < size THEN e % Mod ELSE IF ii = jj THEN 1 ELSE 0

GenerateTile(dim, I, J) ==
  [c \in TileCells |-> LET ii == I * TILESIZE + c[1]  jj == J * TILESIZE + c[2]
                   IN Padded(SizeOf(dim), ii, jj, InverseInput(ii, jj))]
generate_matrix(dim) == [p \in Places(dim) |-> GenerateTile(dim, p[1], p[2])]

identity_check(dim, a) ==
  Sum(0, dim, LAMBDA i : Sum(0, dim, LAMBDA j :
    IF i = j THEN tile_identity_check(a[<<i, j>>]) ELSE zero_check(a[<<i, j>>])))

multiply(dim, a, b) ==
  [p \in Places(dim) |->
     FoldLeft(LAMBDA t, k : multiply_add_in_place(t, a[<<p[1], k>>], b[<<k, p[2]>>]),
              zero, [k \in 1..dim |-> k - 1])]

\* The serial inverse: the same elimination, tile by tile.
inverse(dim, a) ==
  LET step(b, n) ==
        LET pivot_inverse == inverse_(b[<<n, n>>])
            row == [j \in 0..(dim - 1) |->
                      IF j = n THEN pivot_inverse ELSE multiply_(pivot_inverse, b[<<n, j>>])]
        IN Table([p \in Places(dim) |->
             CASE p[1] = n -> row[p[2]]
               [] p[1] # n /\ p[2] = n -> multiply_negate_(b[p], pivot_inverse)
               [] OTHER -> multiply_subtract(b[p], b[<<p[1], n>>], row[p[2]])])
  IN FoldLeft(step, a, [k \in 1..dim |-> k - 1])

-----------------------------------------------------------------------------
\* The CnC program.  The number of tiles in a row is part of a tag.
Tile(dim, n, i, j) == <<"m_tiles", <<dim, n, i, j>>>>
Problems(mode) == <<"stdout", mode>>

InverseGraph == [m_tags |-> {"mi"}]

inverse_cnc(dim) ==
  Grid(dim, LAMBDA i, j : <<Put(Tile(dim, 0, i, j), GenerateTile(dim, i, j))>>)
    \o Grid(dim, LAMBDA i, j : <<Tag("m_tags", <<dim, 0, i, j>>)>>)
    \o <<Wait>>
    \o Grid(dim, LAMBDA i, j : <<Get(Tile(dim, dim, i, j))>>)

\* What the check prints of the array that inverse_cnc has returned.
CheckCnC(dim, v) ==
  LET out_array2 == [p \in Places(dim) |-> v[Tile(dim, dim, p[1], p[2])]]
  IN Put(Problems("CnC"),
       IF \A p \in Places(dim) : Tile(dim, dim, p[1], p[2]) \in DOMAIN v
       THEN identity_check(dim, multiply(dim, generate_matrix(dim), out_array2)) ELSE -1)

\* main(): inverts serially and checks the product, then with CnC.
CheckSerial == [dim \in 2..3 |->
  identity_check(dim, multiply(dim, generate_matrix(dim), inverse(dim, generate_matrix(dim))))]
InverseMain(dim, v) ==
  <<Put(Problems("Serial"), CheckSerial[dim])>> \o inverse_cnc(dim) \o <<CheckCnC(dim, v)>>

\* Mutation: the last iteration is not prescribed.
InverseOps_StopsEarly(s, v) ==
  LET dim == s[2][1]  n == s[2][2]  i == s[2][3]  j == s[2][4]
      in == Tile(dim, n, i, j)  pivot == Tile(dim, n + 1, n, n)
  IN <<Get(in)>> \o When(i # n \/ j # n, <<Get(pivot)>>)
       \o <<Put(Tile(dim, n + 1, i, j), At(v, in, zero))>>
       \o When(n + 2 < dim, <<Tag("m_tags", <<dim, n + 1, i, j>>)>>)

InverseOps(s, v) ==
  LET dim == s[2][1]  n == s[2][2]  i == s[2][3]  j == s[2][4]
      tile(m, x, y) == Tile(dim, m, x, y)
      in == tile(n, i, j)  out == tile(n + 1, i, j)  pivot == tile(n + 1, n, n)
      get(x) == At(v, x, zero)
  IN (CASE i = n /\ j = n -> <<Get(in), Put(out, inverse_(get(in)))>>
        [] i = n /\ j # n -> <<Get(in), Get(pivot), Put(out, multiply_(get(pivot), get(in)))>>
        [] i # n /\ j = n -> <<Get(in), Get(pivot), Put(out, multiply_negate_(get(in), get(pivot)))>>
        [] OTHER -> <<Get(in), Get(tile(n, i, n)), Get(tile(n + 1, n, j)),
                      Put(out, multiply_subtract(get(in), get(tile(n, i, n)), get(tile(n + 1, n, j))))>>)
     \o When(n + 1 < dim, <<Tag("m_tags", <<dim, n + 1, i, j>>)>>)

\* Mutation: the pivot row of the step is declared before it is updated.
InverseDeps_OldRow(s) ==
  LET dim == s[2][1]  n == s[2][2]  i == s[2][3]  j == s[2][4]
  IN {<<"m_tiles", s[2]>>} \cup
       (CASE i = n /\ j = n -> {}
          [] (i = n) # (j = n) -> {Tile(dim, n + 1, n, n)}
          [] OTHER -> {Tile(dim, n, i, n), Tile(dim, n, n, j)})

InverseDeps(s) ==
  LET dim == s[2][1]  n == s[2][2]  i == s[2][3]  j == s[2][4]
  IN {<<"m_tiles", s[2]>>} \cup
       (CASE i = n /\ j = n -> {}
          [] (i = n) # (j = n) -> {Tile(dim, n + 1, n, n)}
          [] OTHER -> {Tile(dim, n, i, n), Tile(dim, n + 1, n, j)})

InverseCount(t) ==
  LET dim == t[1]  n == t[2]  i == t[3]  j == t[4]
  IN IF n = dim THEN NO_GETCOUNT
     ELSE 1 + (IF i = n - 1 /\ j = n - 1 THEN 2 * (dim - 1) ELSE 0)
            + (IF i = n - 1 /\ j # n - 1 THEN dim - 1 ELSE 0)
            + (IF j = n /\ i # n THEN dim - 1 ELSE 0)

\* The processes form a grid of tnx times tny, each owning tsx times tsy tiles;
\* the constructor asserts that this divides the tiles evenly.
InverseShape(dim, np) ==
  LET double[x \in 1..np] == IF x < np \div x /\ (np \div x) % 2 = 0 THEN double[2 * x] ELSE x
      tnx == IF np > 1 THEN double[2] ELSE 0
      tny == IF np > 1 THEN np \div tnx ELSE 0
  IN [tnx |-> tnx, ok |-> np = 1 \/ (tnx * tny = np /\ dim % tnx = 0 /\ dim % tny = 0),
      tsx |-> IF np > 1 THEN dim \div tnx ELSE 1, tsy |-> IF np > 1 THEN dim \div tny ELSE 1]

InverseOn(np, dim, i, j) ==
  LET w == InverseShape(dim, np) IN (((j \div w.tsy) * w.tnx + 31) + (i \div w.tsx)) % np

\* Mutation: an updated tile of the pivot row is sent along its row only.
InverseConsumedOn_Row(np, t) ==
  LET dim == t[1]  n == t[2]  i == t[3]  j == t[4]
      col == {InverseOn(np, dim, i, y) : y \in 0..(dim - 1)}
  IN IF n - 1 = i \/ n = j THEN col ELSE {InverseOn(np, dim, i, j)}

\* The vectors m_rows, m_cols, m_rowcols and m_procs of the constructor.
InverseConsumedOn(np, t) ==
  LET dim == t[1]  n == t[2]  i == t[3]  j == t[4]
      row == {InverseOn(np, dim, x, j) : x \in 0..(dim - 1)}
      col == {InverseOn(np, dim, i, y) : y \in 0..(dim - 1)}
  IN CASE n - 1 = i /\ (i = j \/ n = j) -> row \cup col
       [] n - 1 = i /\ i # j /\ n # j -> row
       [] n - 1 # i /\ n = j -> col
       [] OTHER -> {InverseOn(np, dim, i, j)}

\* produced_on: the process of the tile, or 0 for the tiles of the environment.
InverseProducedOn(np, t) == {IF t[2] > 0 THEN InverseOn(np, t[1], t[3], t[4]) ELSE 0}
InverseLayouts(dim) == {<<np>> : np \in {q \in ProcCounts : InverseShape(dim, q).ok}}

InverseExpected(dim) ==
  LET known(I, J) ==
        [c \in TileCells |-> LET ii == I * TILESIZE + c[1]  jj == J * TILESIZE + c[2]
                         IN Padded(SizeOf(dim), ii, jj, InverseKnown(SizeOf(dim), ii, jj))]
  IN [x \in {Tile(dim, dim, p[1], p[2]) : p \in Places(dim)} |-> known(x[2][3], x[2][4])]
       @@ [x \in {Problems("CnC")} |-> 0]
InverseMainExpected(dim) == InverseExpected(dim) @@ [x \in {Problems("Serial")} |-> 0]

-----------------------------------------------------------------------------
\* matrix_inverse_unsafeget reads everything before it looks whether all is
\* there; its tuner has get counts only.
\* Mutation: the step goes on with what it has, without flush_gets.
InverseUnsafeOps_NoFlush(s, v) ==
  LET dim == s[2][1]  n == s[2][2]  i == s[2][3]  j == s[2][4]
  IN <<UnsafeGet(Tile(dim, n, i, j)), UnsafeGet(Tile(dim, n + 1, n, n)),
       Put(Tile(dim, n + 1, i, j), At(v, Tile(dim, n, i, j), zero))>>

InverseUnsafeOps(s, v) ==
  LET dim == s[2][1]  n == s[2][2]  i == s[2][3]  j == s[2][4]
      in == Tile(dim, n, i, j)  pivot == Tile(dim, n + 1, n, n)
      left == Tile(dim, n, i, n)  up == Tile(dim, n + 1, n, j)
      gets == CASE i = n /\ j = n -> <<in>>
                [] (i = n) # (j = n) -> <<in, pivot>>
                [] OTHER -> <<in, left, up>>
      get(x) == At(v, x, zero)
  IN [m \in DOMAIN gets |-> UnsafeGet(gets[m])] \o <<FlushGets>>
     \o <<Put(Tile(dim, n + 1, i, j),
            CASE i = n /\ j = n -> inverse_(get(in))
              [] i = n /\ j # n -> multiply_(get(pivot), get(in))
              [] i # n /\ j = n -> multiply_negate_(get(in), get(pivot))
              [] OTHER -> multiply_subtract(get(in), get(left), get(up)))>>
     \o When(n + 1 < dim, <<Tag("m_tags", <<dim, n + 1, i, j>>)>>)

\* The rest of the program is that of matrix_inverse.
InverseUnsafeMain(dim, v) == InverseMain(dim, v)
InverseUnsafeCount(t) == InverseCount(t)

-----------------------------------------------------------------------------
\* matrix_inverse_distenv: main() runs on every process; it generates, puts and
\* prescribes the tiles that FOR_ME gives to its rank, all wait together, and
\* the process 0, which has all tiles, checks the product.
FOR_ME(np, dim, rank, i, j) == rank = InverseOn(np, dim, i, j)
SpmdGenerate(np, dim, rank) ==
  [p \in {q \in Places(dim) : rank = 0 \/ FOR_ME(np, dim, rank, q[1], q[2])} |->
     GenerateTile(dim, p[1], p[2])]

InverseSpmdGraph == [ranks |-> {"main"}, m_tags |-> {"mi"}]

InverseSpmdMain(dim, np, v) ==
  For(0, np, LAMBDA r : <<Tag("ranks", <<dim, np, r>>)>>) \o <<Wait>>
    \o Grid(dim, LAMBDA i, j : <<Get(Tile(dim, dim, i, j))>>)
    \o <<CheckCnC(dim, v)>>

InverseSpmdRank(t) ==
  LET dim == t[1]  np == t[2]  rank == t[3]
      in_array == SpmdGenerate(np, dim, rank)
  IN Grid(dim, LAMBDA i, j : When(FOR_ME(np, dim, rank, i, j),
                               <<Put(Tile(dim, 0, i, j), in_array[<<i, j>>])>>))
     \o Grid(dim, LAMBDA i, j : When(FOR_ME(np, dim, rank, i, j),
                               <<Tag("m_tags", <<dim, 0, i, j>>)>>))

\* execute() of this variant handles pointers to tiles that nobody changes once
\* they are put; what it gets and puts is the same.
InverseSpmdOps(s, v) ==
  IF s[1] = "main" THEN InverseSpmdRank(s[2]) ELSE InverseOps(s, v)
=============================================================================
