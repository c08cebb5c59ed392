--------------------------- MODULE MCStepRuntime ---------------------------
(***************************************************************************)
(* Programs for StepRuntime.                                               *)
(*                                                                         *)
(* Diamond: a puts x and prescribes nothing; b gets x and puts y; c reads  *)
(* x and y by unsafe_get and flush_gets. The consumers are prescribed      *)
(* first, so every order of put, get, suspend and resume occurs. x and y   *)
(* are counted: x is read twice, y once.                                   *)
(*                                                                         *)
(* Blocking: d depends on u, which the environment puts, prescribes e,    *)
(* and puts z, which the environment gets while the graph runs, and r,     *)
(* which nobody gets. e waits for q, which is never put; the environment   *)
(* asks for q once the graph has finished. f puts v twice.                 *)
(*                                                                         *)
(* Sequential: g and k are sequentialized; g is taken first, misses m and  *)
(* has to be replayed after k has put it; h waits for g's item n and is    *)
(* set aside until the sequential phase is over.                           *)
(*                                                                         *)
(* Racing: a puts x while the environment prepares b, which depends on x.  *)
(***************************************************************************)
EXTENDS StepRuntimeInv, TLC

CONSTANTS a, b, c, x, y,                \* Diamond
          d, e, f, u, z, v, q, r,       \* Blocking
          g, h, k, m, n                 \* Sequential

AllBodies ==
    a :> <<<<"put", x>>>> @@
    b :> <<<<"get", x>>, <<"put", y>>>> @@
    c :> <<<<"uget", x>>, <<"uget", y>>, <<"flush">>>> @@

    d :> <<<<"get", u>>, <<"tag", e>>, <<"put", z>>, <<"put", r>>>> @@
    e :> <<<<"uget", z>>, <<"uget", q>>, <<"flush">>>> @@
    f :> <<<<"put", v>>, <<"put", v>>>> @@

    g :> <<<<"get", m>>, <<"put", n>>>> @@
    h :> <<<<"get", n>>>> @@
    k :> <<<<"put", m>>>>

DiamondEnv == <<<<"tag", c>>, <<"tag", b>>, <<"tag", a>>, <<"wait">>, <<"exit">>>>
BlockingEnv == <<<<"tag", f>>, <<"tag", d>>, <<"put", u>>, <<"get", z>>, <<"wait">>,
                 <<"get", q>>, <<"get", v>>, <<"exit">>>>
SequentialEnv == <<<<"tag", h>>, <<"tag", k>>, <<"tag", g>>, <<"wait">>, <<"exit">>>>
AllEnvs == DiamondEnv \o BlockingEnv \o SequentialEnv
AllMains == {1, 1 + Len(DiamondEnv), 1 + Len(DiamondEnv) + Len(BlockingEnv)}

AllDepends == [s \in Steps |-> IF s = d THEN {u} ELSE {}]
AllCounts == [i \in Items |-> CASE i = x -> 2 [] i = y -> 1 [] i = r -> 0 [] OTHER -> NO_GET_COUNT]

RacingBody == a :> <<<<"put", x>>>> @@ b :> <<<<"get", x>>>>
RacingEnv == <<<<"tag", a>>, <<"tag", b>>, <<"wait">>>>
RacingDepends == a :> {} @@ b :> {x}

NoCounts == [i \in Items |-> NO_GET_COUNT]

\* These programs keep the rules that the theorems of StepRuntimeDataflow ask for.
ASSUME RulesKept == Disciplined
============================================================================
