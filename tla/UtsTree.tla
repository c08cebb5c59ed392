------------------------------- MODULE UtsTree -------------------------------
(***************************************************************************)
(* samples/uts: the unbalanced tree that all variants of the search count. *)
(* A node is the path that leads to it from the root; the state of its     *)
(* random number generator, and with it the number of its children, is a   *)
(* function of the path and of the parameters p of the tree.  Random       *)
(* numbers are below RngRange; probabilities are fractions of it.          *)
(***************************************************************************)
EXTENDS Integers, Sequences, FiniteSets, FiniteSetsExt

RngRange == 16
MAXNUMCHILDREN == 5

\* The generator itself (rng/) is external: any function of the state and of
\* the index of the child will do.
rng_init(seed) == (7 * seed + 3) % RngRange
rng_spawn(state, i) == (5 * state + 3 * i + 2) % RngRange
StateOf(p, path) ==
  LET at[n \in 0..Len(path)] == IF n = 0 THEN rng_init(p.rootId) ELSE rng_spawn(at[n - 1], path[n])
  IN at[Len(path)]

\* Parameters: type, b_0, rootId, gen_mx, shape ("LINEAR" or "FIX"), nonLeafBF,
\* nonLeafProb and shift, the depth at which a HYBRID tree changes.
uts_numChildren_bin(p, path) == IF StateOf(p, path) < p.nonLeafProb THEN p.nonLeafBF ELSE 0

\* floor(log(1 - u) / log(1 - 1 / (1 + b))) for b = num / gen_mx is the largest
\* n with (b / (1 + b))^n >= 1 - u.
uts_numChildren_geo(p, path) ==
  LET depth == Len(path)
      num == CASE depth = 0 -> p.b_0 * p.gen_mx
               [] depth > 0 /\ p.shape = "FIX" -> IF depth < p.gen_mx THEN p.b_0 * p.gen_mx ELSE 0
               [] depth > 0 /\ p.shape = "LINEAR" -> p.b_0 * (p.gen_mx - depth)
      holds(n) == num ^ n * RngRange >= (RngRange - StateOf(p, path)) * (num + p.gen_mx) ^ n
  IN IF num <= 0 THEN 0 ELSE Max({n \in 0..MAXNUMCHILDREN : holds(n)})

uts_numChildren(p, path) ==
  LET height == Len(path)
      wanted == CASE p.type = "BIN" -> IF height = 0 THEN p.b_0 ELSE uts_numChildren_bin(p, path)
                  [] p.type = "GEO" -> uts_numChildren_geo(p, path)
                  [] p.type = "HYBRID" -> IF height < p.shift THEN uts_numChildren_geo(p, path)
                                          ELSE uts_numChildren_bin(p, path)
                  [] p.type = "BALANCED" -> IF height < p.gen_mx THEN p.b_0 ELSE 0
  IN IF p.type = "BALANCED" \/ (p.type = "BIN" /\ height = 0) THEN wanted
     ELSE Min({wanted, MAXNUMCHILDREN})

\* The whole tree, level by level.
Levels(p, depth) ==
  LET level[h \in 0..depth] ==
        IF h = 0 THEN {<<>>}
        ELSE UNION {{Append(n, i) : i \in 0..(uts_numChildren(p, n) - 1)} : n \in level[h - 1]}
  IN UNION {level[h] : h \in 0..depth}
=============================================================================
