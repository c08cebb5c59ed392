------------------------------ MODULE CnCGraph ------------------------------
(***************************************************************************)
(* A CnC program as its author sees it: tags prescribe step instances, a   *)
(* step instance executes as a whole once the items it gets are there, the *)
(* environment puts, waits and gets.  That the run-time does behave like   *)
(* this is what StepRuntime (ImplementsDataflow) shows; here the question  *)
(* is whether a PROGRAM keeps its side: single assignment, no effect       *)
(* before a get that may miss, right dependencies, get counts and places.  *)
(***************************************************************************)
EXTENDS CnCProgram, Bags, TLC

CONSTANTS
  Programs,            \* the programs that are run, each on its own
  Prescribes(_, _),    \* p, tag collection: the step collections it prescribes
  Memoized(_),         \* p: the tag collections that keep their tags
  Main(_, _),          \* p, items: what main() does
  Ops(_, _, _),        \* p, step, items: what execute() of the step does
  Deps(_, _),          \* p, step: the items declared by depends() of its tuner
  DeclaresAll(_),      \* p: depends() is meant to name everything a step gets
  InPlace(_, _),       \* p, step: the items whose object execute() overwrites
  Count(_, _),         \* p, item: get_count of its tuner
  Kept(_, _),          \* p, item: counted, but its readers do not exist
  Layouts(_),          \* p: <<number of processes, kind of distribution...>>
  On(_, _, _),         \* p, layout, step: compute_on of its tuner
  ConsumedOn(_, _, _), \* p, layout, item: consumed_on of its tuner
  ProducedOn(_, _, _), \* p, layout, item: produced_on of its tuner
  Expected(_),         \* p: the results, computed another way
  Complete(_),         \* p: the item collections that Expected lists in full
  Stuck(_)             \* p: the step instances that are meant never to execute

VARIABLES
  prog,     \* the program
  g,        \* items: item -> value; readers: item -> bag of steps that got it;
            \* todo: bag of prescribed steps; seen: tags kept by tag collections
  pc        \* index of the next operation of main()

vars == <<prog, g, pc>>

Init ==
  /\ prog \in Programs
  /\ g = [items |-> <<>>, readers |-> <<>>, todo |-> EmptyBag, seen |-> {}]
  /\ pc = 1

Steps == BagToSet(g.todo)
There(i) == i \in DOMAIN g.items
IsGet(o) == o.op \in {"get", "unsafe_get"}
GetsOf(ops) == {ops[n].item : n \in {m \in DOMAIN ops : IsGet(ops[m])}}
PutsOf(ops) == {n \in DOMAIN ops : ops[n].op = "put"}

\* The effect of one operation of a step or of the environment ("env").  A
\* second put of an item leaves the first value; a tag that its collection
\* has kept prescribes nothing; gets of the environment are not counted.
Effect(s, h, o) ==
  CASE o.op = "put" -> [h EXCEPT !.items = @ @@ (o.item :> o.val)]
    [] IsGet(o) -> IF s = <<"env">> THEN h
                       ELSE [h EXCEPT !.readers =
                              (o.item :> (At(@, o.item, EmptyBag) (+) SetToBag({s}))) @@ @]
    [] o.op = "tag" -> IF <<o.coll, o.tag>> \in h.seen THEN h
                       ELSE [h EXCEPT
                         !.todo = @ (+) SetToBag({<<c, o.tag>> : c \in Prescribes(prog, o.coll)}),
                         !.seen = IF o.coll \in Memoized(prog) THEN @ \cup {<<o.coll, o.tag>>} ELSE @]
    [] OTHER -> h

\* A step is queued once its declared dependencies are there, and its
\* execution, ops, succeeds once everything it gets is there.
Released(s) == \A i \in Deps(prog, s) : There(i)
Succeeds(ops) == \A i \in GetsOf(ops) : There(i)
Ready(s) == Released(s) /\ Succeeds(Ops(prog, s, g.items))

Execute ==
  \E s \in Steps :
    /\ Released(s)
    /\ \E ops \in {Ops(prog, s, g.items)} :
         /\ Succeeds(ops)
         /\ g' = FoldLeft(LAMBDA h, o : Effect(s, h, o), [g EXCEPT !.todo = @ (-) SetToBag({s})], ops)
    /\ UNCHANGED <<prog, pc>>

\* wait returns when no step can go on; a get of the environment blocks as long
\* as the item is missing and something still runs.
Quiet == \A s \in Steps : ~Ready(s)
EnvOp == LET main == Main(prog, g.items) IN IF pc \in DOMAIN main THEN main[pc] ELSE [op |-> "end"]

Environment ==
  \E o \in {EnvOp} :
    /\ o.op # "end"
    /\ o.op = "wait" \/ (o.op = "get" /\ ~There(o.item)) => Quiet
    /\ g' = Effect(<<"env">>, g, o)
    /\ pc' = pc + 1
    /\ UNCHANGED prog

Ended == EnvOp.op = "end" /\ Quiet
Terminated == Ended /\ UNCHANGED vars

Next == Execute \/ Environment \/ Terminated
Spec == Init /\ [][Next]_vars

-----------------------------------------------------------------------------
\* The items that ops puts are new, and it puts none of them twice.
PutsNew(ops) ==
  \A n \in PutsOf(ops) : /\ ~There(ops[n].item)
                         /\ \A m \in PutsOf(ops) : ops[m].item = ops[n].item => m = n

\* A get that misses aborts the execution, and so does flush_gets when an
\* unsafe_get before it has missed; puts come after all of these.
Misses(o) == IsGet(o) /\ ~There(o.item)
Aborts(ops, n) ==
  \/ ops[n].op = "get" /\ Misses(ops[n])
  \/ ops[n].op = "flush_gets" /\ \E m \in 1..n : Misses(ops[m])
EffectsAfterMisses(ops) ==
  \A n, m \in DOMAIN ops :
    Misses(ops[n]) /\ ops[m].op \in {"put", "tag"} => \E a \in 1..(m - 1) : Aborts(ops, a)

\* No item is put twice: not by a step that is about to execute, not twice by
\* the same step, not by the environment, whatever has been executed before (a
\* second put is an error that item_collection::put reports at run time); and a
\* step that is executed again from the start, in any state in which it may be
\* tried, has had no effect before.
PutsOnce ==
  /\ \A s \in Steps : Released(s) =>
       \A ops \in {Ops(prog, s, g.items)} :
         EffectsAfterMisses(ops) /\ (Succeeds(ops) => PutsNew(ops))
  /\ PutsNew(<<EnvOp>>)

\* A step whose tuner declares dependencies is not started before all it gets
\* is there: depends() and execute() agree, tag by tag.
DependsComplete ==
  DeclaresAll(prog) => \A s \in Steps : Deps(prog, s) # {} /\ Released(s) => Ready(s)

\* depends() names what a step gets. When nothing can go on, the environment
\* does not get an item that has not been put, and once main() is through only
\* the steps that are meant to are still waiting for an item.
NobodyStarves ==
  /\ DependsComplete
  /\ Quiet => \A o \in {EnvOp} :
       /\ \A i \in GetsOf(<<o>>) : There(i)
       /\ o.op = "end" => Steps = Stuck(prog)

\* Get counts: no item is read more often than its count says (it would have
\* been collected under its reader), the environment does not need an item that
\* may be gone, and at the end every counted item has been read to the last.
GetCountsExact ==
  /\ \A i \in DOMAIN g.readers :
       Count(prog, i) # NO_GETCOUNT => BagCardinality(g.readers[i]) <= Count(prog, i)
  /\ \A i \in GetsOf(<<EnvOp>>) : There(i) =>
       \/ Count(prog, i) = NO_GETCOUNT
       \/ BagCardinality(At(g.readers, i, EmptyBag)) < Count(prog, i)
  /\ Ended => \A i \in DOMAIN g.items :
       Count(prog, i) # NO_GETCOUNT /\ ~Kept(prog, i) =>
         BagCardinality(At(g.readers, i, EmptyBag)) = Count(prog, i)

\* Steps that overwrite the object of an item they got (shared pointers and
\* const_cast) are its only readers, or the last of the readers it was counted
\* for: nobody sees a half-updated tile.
OverwrittenUnshared ==
  \A s \in Steps : Ready(s) => \A i \in InPlace(prog, s) :
    /\ \/ i \notin DOMAIN g.readers
       \/ BagCardinality(g.readers[i]) = Count(prog, i) - 1
    /\ \A t \in Steps \ {s} : i \notin GetsOf(Ops(prog, t, g.items))

\* What the step on process where does with item o.item.
Names(places, where) == places = UNKNOWN \/ where \in places
PlacedRight(w, where, o) ==
  /\ IsGet(o) => Names(ConsumedOn(prog, w, o.item), where)
  /\ o.op = "put" => Names(ProducedOn(prog, w, o.item), where)

\* On every number of processes: compute_on names one of them, the processes
\* named by consumed_on of an item include the one on which each of its readers
\* executes (a reader elsewhere waits for ever), and produced_on names the
\* process of the step that puts it.
PlacesAgree ==
  \A s \in Steps : Released(s) =>
    \A ops \in {Ops(prog, s, g.items)} : Succeeds(ops) =>
      \A w \in Layouts(prog) : \A where \in {On(prog, w, s)} :
        where \in 0..(w[1] - 1) /\ \A o \in Range(ops) : PlacedRight(w, where, o)

\* The items e are there with their values, and no others of their collections.
Agrees(e) ==
  /\ \A i \in DOMAIN e : There(i) /\ g.items[i] = e[i]
  /\ \A i \in DOMAIN g.items : i[1] \in Complete(prog) => i \in DOMAIN e


\* Get counts are what is read, and an object that is reused has no other reader.
LifetimesRight == GetCountsExact /\ OverwrittenUnshared
=============================================================================
