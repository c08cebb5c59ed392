------------------------------ MODULE MCGraphs ------------------------------
(***************************************************************************)
(* What a put sets off in a context: tags prescribe steps (Launch), and    *)
(* the callbacks of reduction and join graphs.  The three have no state in *)
(* common, so each program uses one of them.                               *)
(***************************************************************************)
EXTENDS Launch, Reduce, Join, TLC

CONSTANTS x, y, A, B

-----------------------------------------------------------------------------
(* Programs for Launch: ranges on one process, tags and ranges on several. *)

NoOps(tags) == [t \in tags |-> <<>>]
All(tags, v) == [t \in tags |-> v]

\* Tags that wait for items of later tags, in the same part and in other parts.
Stencil(preschedule, grain) ==
    [procs |-> 1, workers |-> 2, colls |-> <<A>>, tags |-> 0 .. 4, preserve |-> FALSE,
     preschedule |-> preschedule, rangeIsTag |-> FALSE, grain |-> grain,
     on |-> A :> All(0 .. 4, COMPUTE_ON_LOCAL),
     times |-> A :> All(0 .. 4, 1), where |-> A :> All(0 .. 4, {0}),
     body |-> A :> (0 :> << <<"get", x>> >> @@ 1 :> << <<"get", x>>, <<"put", y>> >>
                    @@ 2 :> << <<"put", x>> >> @@ 3 :> << <<"get", y>> >> @@ 4 :> <<>>),
     main |-> << <<"range", <<0, 5, 1>> >>, <<"wait">> >>]

\* The range is the tag.
Blocked ==
    [procs |-> 1, workers |-> 2, colls |-> <<A>>, tags |-> 0 .. 6, preserve |-> FALSE,
     preschedule |-> FALSE, rangeIsTag |-> TRUE, grain |-> 2,
     on |-> A :> All(0 .. 6, COMPUTE_ON_LOCAL),
     times |-> A :> [t \in 0 .. 6 |-> IF t % 2 = 0 THEN 1 ELSE 0], where |-> A :> All(0 .. 6, {0}),
     body |-> A :> (0 :> << <<"get", x>> >> @@ 6 :> << <<"put", x>> >> @@ [t \in 1 .. 5 |-> <<>>]),
     main |-> << <<"range", <<0, 7, 2>> >>, <<"wait">> >>]

\* A range whose parts are computed on the process their first tag belongs to.
Spread ==
    [procs |-> 2, workers |-> 1, colls |-> <<A>>, tags |-> 0 .. 4, preserve |-> FALSE,
     preschedule |-> FALSE, rangeIsTag |-> FALSE, grain |-> 0,
     on |-> A :> [t \in 0 .. 4 |-> IF t < 3 THEN 1 ELSE 0],
     times |-> A :> All(0 .. 4, 1), where |-> A :> All(0 .. 4, {0, 1}),
     body |-> A :> (0 :> << <<"get", x>> >> @@ 4 :> << <<"put", x>> >> @@ NoOps(1 .. 3)),
     main |-> << <<"range", <<0, 5, 1>> >>, <<"wait">> >>]

\* Two collections prescribed by one tag collection, on several processes. In
\* Canceled a step cancels a tag that is put after the wait, in Memoized a tag is
\* put again, before and after a wait.
Tags(procs, preserve, onA, onB, whereA, whereB, times, bodyA, main) ==
    [procs |-> procs, workers |-> 1, colls |-> <<A, B>>, tags |-> 1 .. 2, preserve |-> preserve,
     preschedule |-> FALSE, rangeIsTag |-> FALSE, grain |-> 0,
     on |-> A :> onA @@ B :> onB,
     times |-> A :> times[1] @@ B :> times[2],
     where |-> A :> All(1 .. 2, whereA) @@ B :> All(1 .. 2, whereB),
     body |-> A :> bodyA @@ B :> NoOps(1 .. 2), main |-> main]

Everywhere ==
    [Tags(3, FALSE, <<COMPUTE_ON_ALL, COMPUTE_ON_ALL_OTHERS>>, <<0, 0>>, 0 .. 2, {},
          <<<<3, 2>>, <<0, 0>> >>, NoOps(1 .. 2), << <<"tag", 1>>, <<"wait">>, <<"tag", 2>>, <<"wait">> >>)
     EXCEPT !.colls = <<A>>, !.where[A][2] = 1 .. 2]
Canceled ==
    Tags(2, FALSE, All(1 .. 2, COMPUTE_ON_ALL), All(1 .. 2, 1), 0 .. 1, {1}, <<<<2, 2>>, <<1, 1>> >>,
         << << <<"cancel", <<2, 3, 1>> >> >>, <<>> >>, << <<"tag", 1>>, <<"wait">>, <<"tag", 2>>, <<"wait">> >>)
Memoized ==
    Tags(2, TRUE, All(1 .. 2, 1), All(1 .. 2, COMPUTE_ON_ROUND_ROBIN), {1}, 0 .. 1, <<<<1, 1>>, <<1, 1>> >>,
         << << <<"tag", 2>> >>, <<>> >>, << <<"tag", 1>>, <<"tag", 1>>, <<"wait">>, <<"tag", 1>>, <<"wait">> >>)

AllPrograms == {Stencil(FALSE, 2), Stencil(TRUE, 1), Blocked, Spread, Everywhere, Canceled, Memoized}

-----------------------------------------------------------------------------
(* Graphs *)

allVars == <<vars, reduceVars, joinVars>>

\* Nothing to do for one of the three.
NoProgram == [Blocked EXCEPT !.workers = 1, !.main = <<>>, !.times[A] = All(0 .. 6, 0)]
NoReduction == [procs |-> 1, items |-> {}, owner |-> 0, count |-> 0, late |-> FALSE, flush |-> FALSE]
NoJoin == [procs |-> 1, a |-> {}, b |-> {}, late |-> FALSE]

Counted(procs, items, own) ==
    [procs |-> procs, items |-> items, owner |-> own, count |-> Cardinality(items), late |-> FALSE, flush |-> FALSE]

AllReductions ==
    {NoReduction,
     Counted(1, {<<0, 1>>, <<0, 2>>}, 0),              \* one process, two threads
     Counted(2, {<<0, 1>>, <<0, 2>>, <<1, 1>>}, 0),
     Counted(2, {<<0, 1>>, <<0, 2>>}, 0),              \* all items on the owner
     Counted(3, {<<0, 1>>, <<2, 1>>}, 1),
     Counted(4, {<<3, 1>>}, 0),                        \* a tree of depth two
     [Counted(3, {<<0, 1>>, <<1, 1>>, <<2, 1>>}, 1) EXCEPT !.count = M1, !.late = TRUE],
     [Counted(1, {<<0, 1>>, <<0, 2>>}, 0) EXCEPT !.count = M1, !.late = TRUE],
     [Counted(4, {<<0, 1>>, <<3, 1>>}, 0) EXCEPT !.flush = TRUE],
     [Counted(1, {<<0, 1>>, <<0, 2>>}, 0) EXCEPT !.flush = TRUE]}

AllJoins ==
    {NoJoin,
     [procs |-> 1, a |-> {<<0, 1>>, <<0, 2>>}, b |-> {<<0, 1>>, <<0, 2>>}, late |-> FALSE],
     [procs |-> 3, a |-> {<<0, 1>>, <<1, 1>>}, b |-> {<<0, 1>>, <<2, 1>>}, late |-> TRUE]}

WithLaunch == AllPrograms \cup {NoProgram}
Nothing == {NoProgram}
NoReductions == {NoReduction}

\* Both collections are put at the same time on different processes.
RacingJoin == {[procs |-> 2, a |-> {<<0, 1>>}, b |-> {<<1, 1>>}, late |-> FALSE]}

GraphsInit ==
    /\ Init /\ ReduceInit /\ JoinInit
    /\ Cardinality({c \in {<<1, prog = NoProgram>>, <<2, red = NoReduction>>, <<3, join = NoJoin>>} : ~c[2]}) = 1

LaunchOnly(Step) == prog # NoProgram /\ Step /\ UNCHANGED <<reduceVars, joinVars>>
ReduceOnly(Step) == red # NoReduction /\ Step /\ UNCHANGED <<vars, joinVars>>
JoinOnly(Step) == join # NoJoin /\ Step /\ UNCHANGED <<vars, reduceVars>>

GraphsDone ==
    /\ EnvDone /\ JoinDone
    /\ red # NoReduction =>
        /\ \A th \in RThreads : task[th].pc \in {"end", "idle"}
        /\ \A p, q \in RProcs : wire[p][q] = <<>>
GraphsEnd == GraphsDone /\ UNCHANGED allVars

GraphsNext ==
    \/ LaunchOnly(LaunchNext)
    \/ ReduceOnly(ReduceNext)
    \/ JoinOnly(JoinNext)
    \/ GraphsEnd

\* Threads run, receivers poll, and main's wait loops until it can return; the
\* callbacks of a graph are executed and its messages are received.
GraphsSpec ==
    /\ GraphsInit /\ [][GraphsNext]_allVars
    /\ \A th \in (0 .. 2) \X (-1 .. 2) :
         WF_allVars(LaunchOnly(th \in Threads /\ ThreadStep(th)))
    /\ \A p \in 0 .. 2 : WF_allVars(LaunchOnly(p \in Procs /\ WaitAll(p)))
    /\ WF_allVars(LaunchOnly(WaitEnds))
    /\ WF_allVars(ReduceOnly(ReduceNext)) /\ WF_allVars(JoinOnly(JoinNext))

\* Types of the state of both graphs.
GraphTypes ==
    /\ red \in Reductions /\ join \in Joins
    /\ \A p \in RProcs :
        /\ nreduced[p] \in -1 .. 4 /\ nCounts[p] \in -5 .. 4 /\ nValues[p] \in -1 .. 1000
        /\ owner[p] \in RProcs \cup {-1} /\ status[p] \in IS_LOCAL .. DONE
    /\ \A p \in JProcs : seta[p] \subseteq join.a /\ setb[p] \subseteq join.b

\* A reduction delivers one result, of all the items that were put for it.
ReductionRight == GraphTypes /\ CountsExact /\ ResultOnce /\ ResultComplete

\* The status of a reduction only advances, and its result is put in the end.
ReductionEnds == StatusGrows /\ ResultPut
=============================================================================
