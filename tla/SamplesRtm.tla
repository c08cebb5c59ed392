----------------------------- MODULE SamplesRtm -----------------------------
(***************************************************************************)
(* samples/rtm_stencil: the 3D wave equation on tiles, with whole tiles    *)
(* exchanged (rtm_stencil_tiled) or only their sides (rtm_stencil_halo).   *)
(* A tile is one cell and the six cells around it, the order of the        *)
(* stencil is one, values are numbers modulo a prime.                      *)
(***************************************************************************)
EXTENDS CnCProgram, FiniteSetsExt

RtmPrime == 101

\* Shapes: the tiles in x, y, z, the number T of time steps, the grains of the
\* range of start tags.
RtmPlane == [n |-> <<2, 1, 2>>, T |-> 3, grain |-> <<1, 1, 1>>]
RtmRow == [n |-> <<3, 1, 1>>, T |-> 2, grain |-> <<2, 1, 1>>]

\* direction_type and where it leads.
RtmDirs == {"UP", "NORTH", "EAST", "DOWN", "SOUTH", "WEST"}
RtmOffset == [UP |-> <<0, 0, 1>>, NORTH |-> <<0, 1, 0>>, EAST |-> <<1, 0, 0>>,
              DOWN |-> <<0, 0, -1>>, SOUTH |-> <<0, -1, 0>>, WEST |-> <<-1, 0, 0>>]
RtmOpposite == [UP |-> "DOWN", NORTH |-> "SOUTH", EAST |-> "WEST", DOWN |-> "UP", SOUTH |-> "NORTH", WEST |-> "EAST"]
RtmTo(p, d) == [i \in 1..3 |-> p[i] + RtmOffset[d][i]]
RtmInside(sh, p) == \A i \in 1..3 : p[i] \in 0..(sh.n[i] - 1)
RtmNear(sh, p) == {d \in RtmDirs : RtmInside(sh, RtmTo(p, d))}
RtmSides(sh, p, order) == SelectSeq(order, LAMBDA d : d \in RtmNear(sh, p))
RtmGetOrder == <<"UP", "NORTH", "EAST", "DOWN", "SOUTH", "WEST">>

RtmAll(sh, ops(_)) ==
  For(0, sh.n[3], LAMBDA z : For(0, sh.n[2], LAMBDA y : For(0, sh.n[1], LAMBDA x : ops(<<x, y, z>>))))
RtmTag(t, p) == <<t, p[1], p[2], p[3]>>
RtmPos(tag) == <<tag[2], tag[3], tag[4]>>
RtmTile(t, p) == <<"m_tiles", RtmTag(t, p)>>

\* What the initial step computes for a cell, the border included, and the
\* kernel of the stencil.
RtmStart(p) == (5 * p[1] + 17 * p[2] + 43 * p[3] + 70) % RtmPrime
RtmFirst(p) == [mid |-> RtmStart(p), halo |-> [d \in RtmDirs |-> RtmStart(RtmTo(p, d))]]
RtmSum(halo) == MapThenSumSet(LAMBDA d : halo[d], RtmDirs)
RtmKernel(mid, halo, prev) == (2 * mid - prev + 3 * mid + 2 * RtmSum(halo)) % RtmPrime
RtmNone == [mid |-> 0, halo |-> [d \in RtmDirs |-> 0]]

\* The reference: all cells at once.  The sides of a cell at its last time come
\* from the cells around it; with late, those of the time 0 are still what the
\* initial step has put there.
RtmCells(sh) == (0..(sh.n[1] - 1)) \X (0..(sh.n[2] - 1)) \X (0..(sh.n[3] - 1))
RtmSeq(sh, late) ==
  LET u[t \in -1..(sh.T - 1)] ==
        [p \in RtmCells(sh) |->
          IF t = -1 THEN RtmStart(p)
          ELSE RtmKernel(u[t - 1][p],
                         [d \in RtmDirs |-> IF d \in RtmNear(sh, p) /\ ~(late /\ t = 1) THEN u[t - 1][RtmTo(p, d)]
                                            ELSE RtmStart(RtmTo(p, d))],
                         IF t = 0 THEN u[-1][p] ELSE u[t - 2][p])]
  IN u[sh.T - 1]
\* A new tile has no values at the sides where there is another tile.
RtmNew(sh, p, mid) == [mid |-> mid, halo |-> [d \in RtmDirs |-> IF d \in RtmNear(sh, p) THEN 0 ELSE RtmStart(RtmTo(p, d))]]
RtmExpected(sh, late) ==
  LET u == RtmSeq(sh, late)
  IN [i \in {RtmTile(sh.T - 1, p) : p \in RtmCells(sh)} |-> RtmNew(sh, RtmPos(i[2]), u[RtmPos(i[2])])]

\* rtm_stencil_tiled
RtmGraph == [m_tags |-> {"stencil_step"}, m_initTags |-> {"matrix_init"}, m_startTags |-> {"start_step"}]
RtmGetRow(sh) ==   \* print_y
  For(0, sh.n[2], LAMBDA y : <<Get(RtmTile(sh.T - 1, <<sh.n[1] \div 2, y, sh.n[3] \div 2>>))>>)
RtmInit(sh) == RtmAll(sh, LAMBDA p : <<Tag("m_initTags", RtmTag(-1, p))>>)
RtmTiledMain(sh) ==
  RtmInit(sh) \o When(sh.T > 0, RtmAll(sh, LAMBDA p : <<Tag("m_tags", RtmTag(0, p))>>) \o <<Wait>>) \o RtmGetRow(sh)

\* The sides of the tile are set from the tiles around it from time 2 on
\* (update_halo); a new tile takes over the sides at which there is no tile.
RtmTiledStep(sh, t, p, v) ==
  LET sides == IF t > 0 THEN RtmSides(sh, p, RtmGetOrder) ELSE <<>>
      near == Range(sides)
      get(i) == At(v, i, RtmNone)
      tile == get(RtmTile(t - 1, p))
      prev == IF t > 0 THEN get(RtmTile(t - 2, p)) ELSE tile
      halo == [d \in RtmDirs |-> IF d \in near /\ t > 1 THEN get(RtmTile(t - 1, RtmTo(p, d))).mid ELSE tile.halo[d]]
  IN [n \in DOMAIN sides |-> Get(RtmTile(t - 1, RtmTo(p, sides[n])))]
     \o <<Get(RtmTile(t - 1, p))>> \o When(t > 0, <<Get(RtmTile(t - 2, p))>>)
     \o <<Put(RtmTile(t, p), [mid |-> RtmKernel(tile.mid, halo, prev.mid),
                              halo |-> [d \in RtmDirs |-> IF d \in near THEN 0 ELSE halo[d]]])>>
     \o When(t + 1 < sh.T, <<Tag("m_tags", RtmTag(t + 1, p))>>)
RtmTiledOps(sh, s, v) ==
  IF s[1] = "matrix_init" THEN <<Put(RtmTile(-1, RtmPos(s[2])), RtmFirst(RtmPos(s[2])))>>
  ELSE RtmTiledStep(sh, s[2][1], RtmPos(s[2]), v)

RtmTiledDeps(sh, s) ==
  LET t == s[2][1]  p == RtmPos(s[2])
  IN IF s[1] = "matrix_init" \/ t < 1 THEN {}
     ELSE {RtmTile(t - 1, RtmTo(p, d)) : d \in RtmNear(sh, p)} \cup {RtmTile(t - 1, p), RtmTile(t - 2, p)}
RtmTiledCount(sh, i) ==
  LET t == i[2][1]
  IN CASE t = sh.T -> NO_GETCOUNT
       [] t = -1 -> 2
       [] OTHER -> 2 + Cardinality(RtmNear(sh, RtmPos(i[2]))) - (IF t = sh.T - 1 THEN 1 ELSE 0)
\* The tiles of the last two times are counted for steps that do not exist.
RtmTiledKept(sh, i) == i[2][1] >= sh.T - 2

\* The tuner's constructor and PROC_FOR_TILE: np[i] partitions of ps[i] tiles in
\* each of the three dimensions.
RtmHalve(np) ==
  LET f[q \in Seq(Nat)] ==   \* q is <<m_npx, m_npy, m_npz>>
        IF q[1] % 2 = 0 /\ 2 * q[2] < q[1] THEN f[<<q[1] \div 2, q[3], 2 * q[2]>>] ELSE q
  IN f[<<np, 1, 1>>]
RtmProc(np, parts, size, p) ==
  ((p[3] \div size[3]) * parts[1] * parts[2] + (p[2] \div size[2]) * parts[1] + p[1] \div size[1]) % np
RtmTiledOn(sh, np, p) ==
  LET parts == RtmHalve(np)
  IN IF np = 1 THEN 0 ELSE RtmProc(np, parts, [i \in 1..3 |-> sh.n[i] \div parts[i]], p)
\* The numbers of processes its assertions allow.
RtmTiledLayouts(sh, counts) ==
  {<<np>> : np \in {k \in counts : \A i \in 1..3 : sh.n[i] % RtmHalve(k)[i] = 0}}
RtmTiledConsumedOn(sh, np, i) ==
  LET p == RtmPos(i[2])
  IN IF i[2][1] = sh.T THEN UNKNOWN
     ELSE {RtmTiledOn(sh, np, p)}
            \cup (IF i[2][1] < 0 THEN {} ELSE {RtmTiledOn(sh, np, RtmTo(p, d)) : d \in RtmNear(sh, p)})

\* rtm_stencil_halo: blocked_range of tile positions, split until no side is
\* longer than its grain.
RtmSize(r) == (r.e[1] - r.s[1]) * (r.e[2] - r.s[2]) * (r.e[3] - r.s[3])
RtmLongSides(sh, r) == {i \in 1..3 : r.e[i] - r.s[i] > sh.grain[i]}
RtmDivisible(sh, r) == RtmSize(r) > 1 /\ RtmLongSides(sh, r) # {}
RtmCut(sh, r, i) == LET g == sh.grain[i] IN (((r.e[i] - r.s[i] + 1) \div 2 + g - 1) \div g) * g
RtmSplit(sh, r) ==
  LET best == Max({RtmCut(sh, r, i) : i \in RtmLongSides(sh, r)})
      i == Min({j \in RtmLongSides(sh, r) : RtmCut(sh, r, j) = best})
  IN {[r EXCEPT !.e[i] = r.s[i] + best], [r EXCEPT !.s[i] = r.s[i] + best]}
RECURSIVE RtmLeaves(_, _)
RtmLeaves(sh, r) == IF RtmDivisible(sh, r) THEN UNION {RtmLeaves(sh, h) : h \in RtmSplit(sh, r)} ELSE {r}
RtmTagSpace(sh) == [s |-> <<0, 0, 0>>, e |-> sh.n]

RtmHaloMain(sh) ==
  RtmInit(sh) \o <<Wait>>
    \o When(sh.T > 0, [n \in 1..Cardinality(RtmLeaves(sh, RtmTagSpace(sh))) |->
                        Tag("m_startTags", SetToSeq(RtmLeaves(sh, RtmTagSpace(sh)))[n])] \o <<Wait>>)
    \o RtmGetRow(sh)

\* start_step: the tags of all tiles of a range.
RtmStartOps(r) ==
  For(r.s[1], r.e[1], LAMBDA x : For(r.s[2], r.e[2], LAMBDA y : For(r.s[3], r.e[3], LAMBDA z :
    <<Tag("m_tags", <<0, x, y, z>>)>>)))

\* The side that the tile at p receives from direction d.
RtmHalo(t, p, d) ==
  <<CASE d \in {"EAST", "WEST"} -> "m_xhalos" [] d \in {"NORTH", "SOUTH"} -> "m_yhalos" [] OTHER -> "m_zhalos",
    RtmTag(t, p) \o <<d>>>>
RtmPutOrder == <<"DOWN", "SOUTH", "WEST", "EAST", "NORTH", "UP">>

\* get_tile_and_halo, the stencil, put_tile_and_halo
RtmHaloStep(sh, t, p, v) ==
  LET sides == IF t > 0 THEN RtmSides(sh, p, RtmGetOrder) ELSE <<>>
      to == RtmSides(sh, p, RtmPutOrder)
      tile == At(v, RtmTile(t - 1, p), RtmNone)
      prev == IF t > 0 THEN At(v, RtmTile(t - 2, p), RtmNone) ELSE tile
      halo == [d \in RtmDirs |-> IF d \in Range(sides) THEN At(v, RtmHalo(t - 1, p, d), 0) ELSE prev.halo[d]]
      next == RtmKernel(tile.mid, halo, prev.mid)
  IN <<Get(RtmTile(t - 1, p))>>
     \o [n \in DOMAIN sides |-> Get(RtmHalo(t - 1, p, sides[n]))]
     \o When(t > 0, <<Get(RtmTile(t - 2, p))>>)
     \o [n \in DOMAIN to |-> Put(RtmHalo(t, RtmTo(p, to[n]), RtmOpposite[to[n]]), next)]
     \o <<Put(RtmTile(t, p), RtmNew(sh, p, next))>>
     \o When(t + 1 < sh.T, <<Tag("m_tags", RtmTag(t + 1, p))>>)
RtmHaloOps(sh, s, v) ==
  CASE s[1] = "matrix_init" -> <<Put(RtmTile(-1, RtmPos(s[2])), RtmFirst(RtmPos(s[2])))>>
    [] s[1] = "start_step" -> RtmStartOps(s[2])
    [] OTHER -> RtmHaloStep(sh, s[2][1], RtmPos(s[2]), v)

RtmHaloDeps(sh, s) ==
  LET t == s[2][1]  p == RtmPos(s[2])
  IN IF s[1] # "stencil_step" THEN {}
     ELSE IF t < 1 THEN {}
     ELSE {RtmHalo(t - 1, p, d) : d \in RtmNear(sh, p)} \cup {RtmTile(t - 1, p), RtmTile(t - 2, p)}
RtmHaloCount(sh, i) ==
  LET t == i[2][1]
  IN IF i[1] = "m_tiles"
     THEN CASE t < sh.T - 2 -> 2 [] t >= sh.T - 1 -> NO_GETCOUNT [] OTHER -> 1
     ELSE IF t < sh.T - 1 THEN 1 ELSE 0

\* The objects of the sides and of the tile before the last one are reused.
RtmHaloInPlace(sh, s) ==
  IF s[1] # "stencil_step" THEN {}
  ELSE IF s[2][1] < 1 THEN {} ELSE RtmHaloDeps(sh, s) \ {RtmTile(s[2][1] - 1, RtmPos(s[2]))}

\* The tuner's constructor: partitions and their sizes for a distribution.
\* BLOCKED_3D: the dimension with the largest blocks is cut by the smallest
\* factor that the number of processes and of tiles have in common.
RtmBlocked3d(sh, np) ==
  LET huge == 1 + np * np
      prod(q) == q[1] * q[2] * q[3]
      more(q, i) == LET fs == {f \in 2..(np \div prod(q)) :
                                 /\ f <= sh.n[i] \div q[i]
                                 /\ (np \div prod(q)) % f = 0 /\ (sh.n[i] \div q[i]) % f = 0}
                    IN IF fs = {} THEN huge ELSE q[i] * Min(fs)
      longest(x, i) == \A j \in 1..3 : x[i] >= x[j]
      grown(q) ==
        LET mx == [i \in 1..3 |-> more(q, i)]
            cut == [i \in 1..3 |-> sh.n[i] \div mx[i]]
            size == [i \in 1..3 |-> sh.n[i] \div q[i]]
            fits(i) == sh.n[i] % mx[i] = 0
        IN CASE fits(2) /\ longest(cut, 2) -> [q EXCEPT ![2] = mx[2]]
             [] ~(fits(2) /\ longest(cut, 2)) /\ fits(3) /\ longest(cut, 3) -> [q EXCEPT ![3] = mx[3]]
             [] ~(fits(2) /\ longest(cut, 2)) /\ ~(fits(3) /\ longest(cut, 3)) /\ fits(1) -> [q EXCEPT ![1] = mx[1]]
             [] OTHER -> IF longest(size, 2) THEN [q EXCEPT ![2] = 2 * @]
                         ELSE IF longest(size, 3) THEN [q EXCEPT ![3] = 2 * @] ELSE [q EXCEPT ![1] = 2 * @]
      f[q \in Seq(Nat)] == IF prod(q) < np THEN f[grown(q)] ELSE q
  IN f[<<1, 1, 1>>]
RtmBlocked2d(np) ==
  LET f[q \in Seq(Nat)] == IF q[1] > q[2] /\ q[1] % 2 = 0 THEN f[<<q[1] \div 2, 2 * q[2], 1>>] ELSE q
  IN f[<<np, 1, 1>>]
RtmBlocks(sh, np, dt) ==
  LET blocks(q) == [parts |-> q, size |-> [i \in 1..3 |-> sh.n[i] \div q[i]]]
      cyclic(size) == [parts |-> [i \in 1..3 |-> sh.n[i] \div size[i]], size |-> size]
  IN CASE dt = "BLOCKED_2D" -> blocks(RtmBlocked2d(np))
       [] dt = "BLOCKED_CYCLIC_3D" -> cyclic(<<2, 2, 2>>)
       [] dt = "BLOCKED_CYCLIC_2D" -> cyclic(<<2, 1, sh.n[3]>>)
       [] dt = "CYCLIC" -> cyclic(<<1, 1, 1>>)
       [] OTHER -> blocks(RtmBlocked3d(sh, np))
RtmHaloOn(sh, w, p) ==
  LET np == w[1]  b == RtmBlocks(sh, np, w[2])
  IN CASE w[2] = "RED_BLACK" -> (p[3] % (np \div 2)) * 2 + ((p[1] + (p[2] % 2)) % 2)
       [] w[2] # "RED_BLACK" /\ np = 1 -> 0
       [] OTHER -> RtmProc(np, b.parts, b.size, p)
\* No block may be empty (the code would divide by zero), which RED_BLACK needs
\* two processes for.
RtmHaloLayouts(sh, counts) ==
  {w \in counts \X {"BLOCKED_3D", "BLOCKED_2D", "BLOCKED_CYCLIC_3D", "BLOCKED_CYCLIC_2D", "CYCLIC", "RED_BLACK"} :
     IF w[2] = "RED_BLACK" THEN w[1] > 1
     ELSE w[1] = 1 \/ \A i \in 1..3 : RtmBlocks(sh, w[1], w[2]).size[i] > 0}
RtmHaloConsumedOn(sh, w, i) == IF i[1] = "m_tiles" /\ i[2][1] = sh.T THEN UNKNOWN ELSE {RtmHaloOn(sh, w, RtmPos(i[2]))}
RtmStepOn(where(_), s) == where(IF s[1] = "start_step" THEN s[2].s ELSE RtmPos(s[2]))
=============================================================================
