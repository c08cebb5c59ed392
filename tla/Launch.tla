------------------------------- MODULE Launch -------------------------------
(***************************************************************************)
(* From a tag to an executed step: tag collections with and without        *)
(* memoization, step launchers and compute_on over several processes,      *)
(* cancellation, and ranges that are partitioned, executed tag by tag,     *)
(* suspended as a whole and replayed.                                      *)
(*                                                                         *)
(* A program (a record, see Programs) fixes the processes, the step        *)
(* collections that the one tag collection prescribes, the operations of   *)
(* every step and of main, and what the tuners answer. Operations are      *)
(* <<"get", i>>, <<"put", i>>, <<"tag", t>>, <<"range", R>>,               *)
(* <<"cancel", R>> (R is a range: one tag, or all) and, for main,          *)
(* <<"wait">>. An item put is sent to all processes; StepRuntime has the   *)
(* locking of items and ItemDist their distribution.                       *)
(***************************************************************************)
EXTENDS Integers, Sequences, FiniteSets, SequencesExt

CONSTANTS
    Programs,
    Items,
    MaxThreads,    \* m_nt of the partitioner: tbb's number of threads
    MaxRounds      \* how often a wait gives pending steps back (99999 in the code)

COMPUTE_ON_LOCAL == -2
COMPUTE_ON_ROUND_ROBIN == -3
COMPUTE_ON_ALL == -4
COMPUTE_ON_ALL_OTHERS == -5

VARIABLES
    prog,
    inst,       \* the step and range instances created so far
    ready,      \* ready[p]: the instances p's scheduler has to execute
    pend,       \* pend[p]: m_pendingSteps
    inFlight,   \* m_userStepsInFlight, without the waiter itself
    thr,        \* the state of every thread
    stored,     \* stored[p]: the items that p has
    waiters,    \* waiters[p][i]: the suspend group of item i
    rounds,     \* rounds[p]: how often wait_all gave back pending steps
    tagTable,   \* tagTable[p][t]: the launchers recorded with the tag
    canceled,   \* canceled[p]: m_canceledTags
    net,        \* net[p][q]: the messages from p to q
    ran,        \* ran[p][c][t]: completed executions
    onPut       \* onPut[p][t]: calls of the on_put callback

schedVars == <<ready, pend, inFlight>>
itemVars == <<stored, waiters, rounds>>
ghosts == <<ran, onPut>>
vars == <<prog, inst, schedVars, thr, itemVars, tagTable, canceled, net, ghosts>>

Procs == 0 .. prog.procs - 1
Others(p) == Procs \ {p}
\* The threads: the workers of a process, its receiver, and main on process 0.
Workers == Procs \X (1 .. prog.workers)
Receivers == {<<p, 0>> : p \in Procs}
Main == <<0, -1>>
Threads == Workers \cup Receivers \cup {Main}
Launchers == Range(prog.colls)

-----------------------------------------------------------------------------
(* strided_range and default_partitioner *)

\* A range is <<m_start, m_last, m_step>>.
RangeSize(R) == IF R[2] <= R[1] THEN 0 ELSE (R[2] - R[1] + R[3] - 1) \div R[3]
TagAt(R, n) == R[1] + (n - 1) * R[3]
TagsOf(R) == {TagAt(R, n) : n \in 1 .. RangeSize(R)}
StartOf(R) == R[1]

\* The split point: the first tag from the second on that is not below the middle.
SplitPoint(R) ==
    LET m == R[1] + (R[2] - R[1]) \div 2
        k == CHOOSE k \in 1 .. RangeSize(R) + 1 :
                /\ R[1] + k * R[3] >= m
                /\ \A j \in 1 .. k - 1 : R[1] + j * R[3] < m
    IN  R[1] + k * R[3]
LeftPart(R) == <<R[1], SplitPoint(R), R[3]>>
RightPart(R) == <<SplitPoint(R), R[2], R[3]>>

\* grain_size: fixed by the template argument, or computed from the first range
\* the partitioner sees and kept.
GrainSize(g, R) ==
    IF prog.grain # 0 THEN prog.grain
    ELSE IF g > 0 THEN g
    ELSE LET q == (RangeSize(R) \div MaxThreads) \div 4 IN IF q > 1 THEN q ELSE 1
IsDivisible(R, g) == (prog.grain < 0 \/ RangeSize(R) > g) /\ R[1] + R[3] < R[2]

-----------------------------------------------------------------------------
(* Threads and instances *)

NoPut == [t |-> 0, mask |-> {}, old |-> {}, found |-> {}, todo |-> <<>>, on |-> FALSE]
Idle(l) == [pc |-> l, job |-> 0, mode |-> "", p |-> 1, k |-> 1, sus |-> 0, replay |-> 0,
            last |-> 0, mlast |-> 0, rv |-> "", put |-> NoPut, rr |-> 0]

Init ==
    /\ prog \in Programs
    /\ inst = <<>>
    /\ ready = [p \in Procs |-> <<>>]
    /\ pend = [p \in Procs |-> <<>>]
    /\ inFlight = [p \in Procs |-> 0]
    /\ thr = [th \in Threads |-> [Idle(IF th = Main THEN "body" ELSE "idle") EXCEPT !.rr = th[1]]]
    /\ stored = [p \in Procs |-> {}]
    /\ waiters = [p \in Procs |-> [i \in Items |-> <<>>]]
    /\ rounds = [p \in Procs |-> 0]
    /\ tagTable = [p \in Procs |-> [t \in prog.tags |-> {}]]
    /\ canceled = [p \in Procs |-> {}]
    /\ net = [p \in Procs |-> [q \in Procs |-> <<>>]]
    /\ ran = [p \in Procs |-> [c \in Launchers |-> [t \in prog.tags |-> 0]]]
    /\ onPut = [p \in Procs |-> [t \in prog.tags |-> 0]]

NewInst(p, c, kind, R, g) ==
    [proc |-> p, coll |-> c, kind |-> kind, range |-> R, grain |-> g, stat |-> <<>>, inited |-> FALSE,
     nSus |-> 0, status |-> "Prepared", inPending |-> FALSE, deleted |-> 0]

Job(th) == inst[thr[th].job]

\* The current body: main's, or that of the tag the thread is at. A range that is
\* itself the tag is passed to the step whole.
CurTags(th) ==
    IF Job(th).kind = "range" THEN {TagAt(Job(th).range, thr[th].p)} ELSE TagsOf(Job(th).range)
Body(th) ==
    IF th = Main THEN prog.main
    ELSE FlattenSeq([n \in 1 .. Cardinality(CurTags(th)) |->
            prog.body[Job(th).coll][SetToSortSeq(CurTags(th), <)[n]]])
AtOp(th, op) ==
    /\ thr[th].pc = "body"
    /\ thr[th].k <= Len(Body(th))
    /\ Body(th)[thr[th].k][1] = op
Arg(th) == Body(th)[thr[th].k][2]

\* A message from p to each process of Q.
Send(p, Q, m) == [net EXCEPT ![p] = [q \in Procs |-> IF q \in Q THEN Append(@[q], m) ELSE @[q]]]
Msg(kind, c, R) == [kind |-> kind, coll |-> c, range |-> R]

\* scheduler_i::schedule for a set of instances of one process.
Schedule(p, S) ==
    /\ ready' = [ready EXCEPT ![p] = @ \o SetToSeq(S)]
    /\ inFlight' = [inFlight EXCEPT ![p] = @ + Cardinality(S)]

-----------------------------------------------------------------------------
(* prepare: where is the step computed? *)

\* get_target_pid( tuner.compute_on(...) ); rr is this thread's round-robin counter.
TargetPid(p, on, rr) ==
    IF on = COMPUTE_ON_LOCAL THEN p
    ELSE IF on \in {COMPUTE_ON_ALL, COMPUTE_ON_ALL_OTHERS} \cup Procs THEN on
    ELSE rr % prog.procs
AsksRoundRobin(p, on) == on \notin {COMPUTE_ON_LOCAL, COMPUTE_ON_ALL, COMPUTE_ON_ALL_OTHERS} \cup Procs

Recipients(p, tgt) == IF tgt \in {COMPUTE_ON_ALL, COMPUTE_ON_ALL_OTHERS} THEN Others(p) ELSE {tgt} \ {p}
StaysHere(p, tgt) == tgt \in {p, COMPUTE_ON_ALL}

\* scheduler_i::prepare of a new instance: it is sent to the processes compute_on
\* names and, when it stays, scheduled. The caller leaves old of inst and me of
\* its own state.
Prepare(th, c, kind, R, g, compute_on, old, me) ==
    LET p == th[1]
        on == prog.on[c][StartOf(R)]
        dist == compute_on /\ prog.procs > 1
        rr == IF dist /\ AsksRoundRobin(p, on) THEN thr[th].rr + 1 ELSE thr[th].rr
        tgt == IF dist THEN TargetPid(p, on, rr) ELSE p
    IN  /\ net' = Send(p, Recipients(p, tgt), Msg(kind, c, R))
        /\ IF StaysHere(p, tgt)
           THEN /\ inst' = Append(old, NewInst(p, c, kind, R, g))
                /\ Schedule(p, {Len(old) + 1})
           ELSE /\ inst' = old
                /\ UNCHANGED <<ready, inFlight>>
        /\ thr' = [thr EXCEPT ![th] = [me EXCEPT !.rr = rr]]

-----------------------------------------------------------------------------
(* tag_collection_base::Put, called from a body or by the receiver *)

EnterPut(th, t, mask, on) ==
    thr' = [thr EXCEPT ![th].put = [NoPut EXCEPT !.t = t, !.mask = mask, !.on = on, !.todo = prog.colls],
                       ![th].pc = IF prog.preserve THEN "insert" ELSE "launch"]

\* hash_tag_table::insert reads the bits; no other thread is kept out.
InsertRead(th) ==
    /\ thr[th].pc = "insert"
    /\ LET old == tagTable[th[1]][thr[th].put.t]
       IN  thr' = [thr EXCEPT ![th].put.old = old, ![th].put.found = old \cap thr[th].put.mask,
                              ![th].pc = "or"]
    /\ UNCHANGED <<prog, inst, schedVars, itemVars, tagTable, canceled, net, ghosts>>

\* ... and writes them back with the mask.
InsertOr(th) ==
    /\ thr[th].pc = "or"
    /\ tagTable' = [tagTable EXCEPT ![th[1]][thr[th].put.t] = thr[th].put.old \cup thr[th].put.mask]
    /\ thr' = [thr EXCEPT ![th].pc = "launch"]
    /\ UNCHANGED <<prog, inst, schedVars, itemVars, canceled, net, ghosts>>

\* The launcher at the head: create_step_instance unless it is masked or memoized.
ToLaunch_Always(put) == Head(put.todo) \in put.mask
ToLaunch(put) == Head(put.todo) \in put.mask /\ Head(put.todo) \notin put.found
LaunchOne(th) ==
    LET put == thr[th].put
    IN  /\ thr[th].pc = "launch" /\ put.todo # <<>> /\ ToLaunch(put)
        /\ Prepare(th, Head(put.todo), "step", <<put.t, put.t + 1, 1>>, 0, put.on, inst,
                   [thr[th] EXCEPT !.put.todo = Tail(@)])
        /\ UNCHANGED <<prog, pend, itemVars, tagTable, canceled, ghosts>>
LaunchNone(th) ==
    /\ thr[th].pc = "launch" /\ thr[th].put.todo # <<>> /\ ~ToLaunch(thr[th].put)
    /\ thr' = [thr EXCEPT ![th].put.todo = Tail(@)]
    /\ UNCHANGED <<prog, inst, schedVars, itemVars, tagTable, canceled, net, ghosts>>

\* Every launcher visited: the callbacks if nothing was found, then return.
LeavePut(th) ==
    LET put == thr[th].put
    IN  /\ thr[th].pc = "launch" /\ put.todo = <<>>
        /\ onPut' = IF put.found = {} THEN [onPut EXCEPT ![th[1]][put.t] = @ + 1] ELSE onPut
        /\ thr' = [thr EXCEPT ![th].put = NoPut,
                              ![th].pc = IF th \in Receivers THEN "idle" ELSE "body",
                              ![th].k = IF th \in Receivers THEN 1 ELSE @ + 1]
        /\ UNCHANGED <<prog, inst, schedVars, itemVars, tagTable, canceled, net, ran>>

-----------------------------------------------------------------------------
(* The operations of a body *)

Next1(th) == thr' = [thr EXCEPT ![th].k = @ + 1]

\* A tag without memoization: no_tag_table finds nothing.
OpTag(th) ==
    /\ AtOp(th, "tag")
    /\ EnterPut(th, Arg(th), Launchers, TRUE)
    /\ UNCHANGED <<prog, inst, schedVars, itemVars, tagTable, canceled, net, ghosts>>

\* create_range_instances, for one prescribed collection.
RangeKind == IF prog.rangeIsTag THEN "tagrange" ELSE "range"
OpRange(th) ==
    /\ AtOp(th, "range")
    /\ Prepare(th, prog.colls[1], RangeKind, Arg(th), 0, TRUE, inst, [thr[th] EXCEPT !.k = @ + 1])
    /\ UNCHANGED <<prog, pend, itemVars, tagTable, canceled, ghosts>>

\* cancel_tuner: the tags are remembered here and everywhere; a request that came
\* in a message is not sent on.
CancelSendsTo_Echo(p, from_msg) == Others(p)
CancelSendsTo(p, from_msg) == IF from_msg THEN {} ELSE Others(p)
OpCancel(th) ==
    /\ AtOp(th, "cancel")
    /\ canceled' = [canceled EXCEPT ![th[1]] = @ \cup TagsOf(Arg(th))]
    /\ net' = Send(th[1], CancelSendsTo(th[1], FALSE), Msg("cancel", "", Arg(th)))
    /\ Next1(th)
    /\ UNCHANGED <<prog, inst, schedVars, itemVars, tagTable, ghosts>>

\* item_collection::put, here or when the item arrives: the group is resumed, one
\* unsuspend per entry; an instance with no suspends left is scheduled, unless
\* this thread runs it.
LastUnsuspend_Early(s, n) == inst[s].nSus >= n
LastUnsuspend(s, n) == inst[s].nSus = n
StoreItem(th, i) ==
    LET p == th[1]
        Entries(s) == Cardinality({n \in DOMAIN waiters[p][i] : waiters[p][i][n] = s})
        woken == {s \in Range(waiters[p][i]) : LastUnsuspend(s, Entries(s))} \ {thr[th].job}
    IN  /\ stored' = [stored EXCEPT ![p] = @ \cup {i}]
        /\ waiters' = [waiters EXCEPT ![p][i] = <<>>]
        /\ inst' = [s \in DOMAIN inst |-> [inst[s] EXCEPT !.nSus = @ - Entries(s)]]
        /\ Schedule(p, woken)
        /\ UNCHANGED rounds
OpPut(th) ==
    /\ AtOp(th, "put")
    /\ StoreItem(th, Arg(th))
    /\ net' = Send(th[1], Others(th[1]), Msg("item", Arg(th), <<0, 0, 1>>))
    /\ Next1(th)
    /\ UNCHANGED <<prog, pend, tagTable, canceled, ghosts>>

OpGet(th) ==
    /\ AtOp(th, "get") /\ Arg(th) \in stored[th[1]]
    /\ Next1(th)
    /\ UNCHANGED <<prog, inst, schedVars, itemVars, tagTable, canceled, net, ghosts>>

\* A get that misses suspends the instance and unwinds to whoever runs the tag.
OpMiss(th) ==
    /\ AtOp(th, "get") /\ Arg(th) \notin stored[th[1]]
    /\ waiters' = [waiters EXCEPT ![th[1]][Arg(th)] = Append(@, thr[th].job)]
    /\ LET s == thr[th].job
           me == thr[th]
           pass == me.mode = "pass"
       IN  /\ inst' = [inst EXCEPT ![s].nSus = @ + 1,
                                   ![s].stat = IF inst[s].kind = "range" /\ ~pass
                                               THEN Append(@, "PREPARED") ELSE @]
           /\ thr' = [thr EXCEPT ![th] =
                IF inst[s].kind = "range"
                THEN [me EXCEPT !.pc = "tags", !.p = @ + 1, !.k = 1,
                                !.replay = IF pass THEN @ + 1 ELSE @,
                                !.last = IF pass THEN me.p ELSE @]
                ELSE [me EXCEPT !.pc = "finish", !.rv = "Unfinished"]]
    /\ UNCHANGED <<prog, schedVars, stored, rounds, tagTable, canceled, net, ghosts>>

-----------------------------------------------------------------------------
(* Messages *)

\* step_launcher::recv_msg: a tag is put with the launcher's id as mask, a range
\* instance is created; neither is sent on. cancel_tuner::recv_msg.
Handle(th, m, rest) ==
    CASE m.kind = "step" ->
            /\ EnterPut(th, StartOf(m.range), {m.coll}, FALSE)
            /\ net' = rest
            /\ UNCHANGED <<inst, ready, inFlight, itemVars, canceled>>
      [] m.kind = "cancel" ->
            /\ canceled' = [canceled EXCEPT ![th[1]] = @ \cup TagsOf(m.range)]
            /\ net' = [rest EXCEPT ![th[1]] = [q \in Procs |->
                        IF q \in CancelSendsTo(th[1], TRUE) THEN Append(@[q], m) ELSE @[q]]]
            /\ UNCHANGED <<inst, ready, inFlight, itemVars, thr>>
      [] m.kind = "item" ->
            /\ StoreItem(th, m.coll)
            /\ net' = rest
            /\ UNCHANGED <<thr, canceled>>
      [] OTHER ->
            /\ inst' = Append(inst, NewInst(th[1], m.coll, m.kind, m.range, 0))
            /\ Schedule(th[1], {Len(inst) + 1})
            /\ net' = rest
            /\ UNCHANGED <<itemVars, thr, canceled>>

Recv(th) ==
    /\ th \in Receivers /\ thr[th].pc = "idle"
    /\ \E q \in Others(th[1]) :
        /\ net[q][th[1]] # <<>>
        /\ Handle(th, Head(net[q][th[1]]), [net EXCEPT ![q][th[1]] = Tail(@)])
    /\ UNCHANGED <<prog, pend, tagTable, ghosts>>

-----------------------------------------------------------------------------
(* Execution of an instance *)

FirstTime_Always(s) == TRUE
FirstTime(s) == inst[s].stat = <<>>
\* scheduler_i::do_execute, up to execute(): the extra suspend, unless the waiter
\* has made it.
Enter(th, s) ==
    /\ inst' = [inst EXCEPT ![s].nSus = IF inst[s].status = "FromPending" THEN @ ELSE @ + 1,
                            ![s].status = IF @ = "FromPending" THEN "Prepared" ELSE @]
    /\ thr' = [thr EXCEPT ![th] = [@ EXCEPT
            !.job = s, !.p = 1, !.k = 1,
            !.mode = IF FirstTime(s) THEN "prep" ELSE "pass",
            !.sus = inst[s].nSus + IF inst[s].status = "FromPending" THEN 0 ELSE 1,
            !.replay = 0, !.last = RangeSize(inst[s].range), !.mlast = RangeSize(inst[s].range),
            !.pc = CASE inst[s].kind = "step" -> "tags"
                     [] inst[s].kind = "range" /\ ~FirstTime(s) -> "tags"
                     [] OTHER -> "split"]]

Begin(th) ==
    /\ th \in Workers /\ thr[th].pc = "idle"
    /\ \E n \in DOMAIN ready[th[1]] :
        /\ Enter(th, ready[th[1]][n])
        /\ ready' = [ready EXCEPT ![th[1]] = RemoveAt(@, n)]
    /\ UNCHANGED <<prog, pend, inFlight, itemVars, tagTable, canceled, net, ghosts>>

Reexecute(th) ==
    /\ thr[th].pc = "again"
    /\ Enter(th, thr[th].job)
    /\ UNCHANGED <<prog, schedVars, itemVars, tagTable, canceled, net, ghosts>>

\* divide_and_originate: the second half becomes an instance of its own, which is
\* prepared, and perhaps sent away, like any other.
Grain(s) == GrainSize(inst[s].grain, inst[s].range)
Split(th) ==
    LET s == thr[th].job
        R == inst[s].range
    IN  /\ thr[th].pc = "split" /\ IsDivisible(R, Grain(s))
        /\ Prepare(th, inst[s].coll, inst[s].kind, RightPart(R), Grain(s), TRUE,
                   [inst EXCEPT ![s].range = LeftPart(R), ![s].grain = Grain(s)], thr[th])
        /\ UNCHANGED <<prog, pend, itemVars, tagTable, canceled, ghosts>>

\* No more splitting. A range iterates over its tags, a range that is a tag has one.
SplitDone(th) ==
    LET s == thr[th].job
    IN  /\ thr[th].pc = "split" /\ ~IsDivisible(inst[s].range, Grain(s))
        /\ IF inst[s].nSus > 1 /\ inst[s].kind = "tagrange"
           THEN thr' = [thr EXCEPT ![th].pc = "finish", ![th].rv = "Unfinished"]
           ELSE thr' = [thr EXCEPT ![th].pc = "tags",
                                   ![th].last = RangeSize(inst[s].range),
                                   ![th].mlast = RangeSize(inst[s].range)]
        /\ UNCHANGED <<prog, inst, schedVars, itemVars, tagTable, canceled, net, ghosts>>

\* The tag the thread is at is executed: in prepare only with preschedule, in a
\* pass unless it is done. A step has one tag, and so has a range that is a tag.
Count(th) == IF Job(th).kind = "range" THEN RangeSize(Job(th).range) ELSE 1
Skipped(th) ==
    /\ Job(th).kind = "range"
    /\ IF thr[th].mode = "prep" THEN ~prog.preschedule ELSE Job(th).stat[thr[th].p] = "DONE"
WasCanceled(th) == StartOf(Job(th).range) + (thr[th].p - 1) * Job(th).range[3] \in canceled[th[1]]
MoreTags(th) == thr[th].pc = "tags" /\ thr[th].p <= Count(th) /\ (thr[th].mode = "pass" => thr[th].p <= thr[th].mlast)

SkipTag(th) ==
    /\ MoreTags(th) /\ Skipped(th)
    /\ thr' = [thr EXCEPT ![th].p = @ + 1]
    /\ inst' = IF thr[th].mode = "prep"
               THEN [inst EXCEPT ![thr[th].job].stat = Append(@, "PREPARED")] ELSE inst
    /\ UNCHANGED <<prog, schedVars, itemVars, tagTable, canceled, net, ghosts>>

RunTag(th) ==
    /\ MoreTags(th) /\ ~Skipped(th) /\ ~WasCanceled(th)
    /\ thr' = [thr EXCEPT ![th].pc = "body", ![th].k = 1]
    /\ UNCHANGED <<prog, inst, schedVars, itemVars, tagTable, canceled, net, ghosts>>

\* execute_from_range or do_execute returned CNC_Success, executed or canceled.
Success(th) ==
    LET s == thr[th].job
        me == thr[th]
    IN  /\ thr' = [thr EXCEPT ![th] =
                IF inst[s].kind = "range" THEN [me EXCEPT !.pc = "tags", !.p = @ + 1, !.k = 1]
                ELSE [me EXCEPT !.pc = "finish",
                        !.rv = IF inst[s].kind = "tagrange" /\ ~inst[s].inited /\ prog.preschedule
                               THEN "Unfinished" ELSE "Success"]]
        /\ inst' = [inst EXCEPT
                ![s].inited = TRUE,
                ![s].stat = CASE inst[s].kind # "range" -> @
                              [] me.mode = "prep" -> Append(@, "DONE")
                              [] OTHER -> [@ EXCEPT ![me.p] = "DONE"],
                ![s].status = IF inst[s].kind = "step" THEN "Done" ELSE @]

CancelTag(th) ==
    /\ MoreTags(th) /\ ~Skipped(th) /\ WasCanceled(th)
    /\ Success(th)
    /\ UNCHANGED <<prog, schedVars, itemVars, tagTable, canceled, net, ghosts>>

BodyDone(th) ==
    /\ thr[th].pc = "body" /\ th # Main /\ thr[th].k > Len(Body(th))
    /\ Success(th)
    /\ ran' = [ran EXCEPT ![th[1]][Job(th).coll] = [t \in DOMAIN @ |-> @[t] + IF t \in CurTags(th) THEN 1 ELSE 0]]
    /\ UNCHANGED <<prog, schedVars, itemVars, tagTable, canceled, net, onPut>>

\* The end of the preparation: with items missing the instance is left suspended.
\* Otherwise, and at the end of a pass, another pass begins: after a pass only if
\* some put has unsuspended the range meanwhile.
Progressed(th) == thr[th].sus > Job(th).nSus - thr[th].replay
StartPass(th) ==
    thr' = [thr EXCEPT ![th] = [@ EXCEPT !.mode = "pass", !.p = 1, !.k = 1, !.replay = 0,
                                           !.sus = Job(th).nSus, !.mlast = thr[th].last]]

NextPass(th) ==
    /\ thr[th].pc = "tags" /\ Job(th).kind = "range" /\ ~MoreTags(th)
    /\ IF thr[th].mode = "prep" THEN Job(th).nSus <= 1 ELSE Progressed(th)
    /\ StartPass(th)
    /\ UNCHANGED <<prog, inst, schedVars, itemVars, tagTable, canceled, net, ghosts>>

PreparedOnly(th) ==
    /\ thr[th].pc = "tags" /\ Job(th).kind = "range" /\ ~MoreTags(th)
    /\ thr[th].mode = "prep" /\ Job(th).nSus > 1
    /\ thr' = [thr EXCEPT ![th].pc = "finish", ![th].rv = "Unfinished"]
    /\ UNCHANGED <<prog, inst, schedVars, itemVars, tagTable, canceled, net, ghosts>>

\* No progress: done, or CNC_NeedsExtraWake, for which the range becomes pending.
LastPass(th) ==
    LET s == thr[th].job
        open == thr[th].replay > 0
    IN  /\ thr[th].pc = "tags" /\ inst[s].kind = "range" /\ ~MoreTags(th)
        /\ thr[th].mode = "pass" /\ ~Progressed(th)
        /\ inst' = [inst EXCEPT ![s].status = IF open THEN "Pending" ELSE "Done",
                                ![s].inPending = @ \/ open]
        /\ pend' = IF open THEN [pend EXCEPT ![th[1]] = Append(@, s)] ELSE pend
        /\ thr' = [thr EXCEPT ![th].pc = "finish", ![th].rv = IF open THEN "Unfinished" ELSE "Success"]
        /\ UNCHANGED <<prog, ready, inFlight, itemVars, tagTable, canceled, net, ghosts>>

DeletedNow_Always(s) == TRUE
DeletedNow(s) == ~inst[s].inPending
\* scheduler_i::do_execute after execute().
Finish(th) ==
    LET s == thr[th].job
        p == th[1]
        success == thr[th].rv = "Success"
        again == ~success /\ inst[s].nSus = 1 /\ inst[s].status # "Done"
    IN  /\ thr[th].pc = "finish"
        /\ inst' = [inst EXCEPT
                ![s].nSus = IF success THEN @ ELSE @ - 1,
                ![s].deleted = IF success /\ DeletedNow(s) THEN @ + 1 ELSE @]
        /\ inFlight' = IF again THEN inFlight ELSE [inFlight EXCEPT ![p] = @ - 1]
        /\ thr' = [thr EXCEPT ![th] = IF again THEN [@ EXCEPT !.pc = "again"]
                                      ELSE [Idle("idle") EXCEPT !.rr = thr[th].rr]]
        /\ UNCHANGED <<prog, ready, pend, itemVars, tagTable, canceled, net, ghosts>>

-----------------------------------------------------------------------------
(* wait *)

\* Main in context::wait; every process then runs wait_all.
Waiting == AtOp(Main, "wait")

WaitSuspends == 1
WaitAll(p) ==
    LET P == pend[p]
        Entries(s) == Cardinality({n \in DOMAIN P : P[n] = s})
        done == {s \in Range(P) : inst[s].status = "Done"}
        again == SelectSeq(P, LAMBDA s : s \notin done)
    IN  /\ Waiting /\ inFlight[p] = 0 /\ P # <<>>
        /\ again # <<>> => rounds[p] < MaxRounds
        /\ rounds' = IF again # <<>> THEN [rounds EXCEPT ![p] = @ + 1] ELSE rounds
        /\ inst' = [s \in DOMAIN inst |->
                IF s \in done THEN [inst[s] EXCEPT !.deleted = @ + Entries(s)]
                ELSE IF s \in Range(P)
                THEN [inst[s] EXCEPT !.nSus = @ + WaitSuspends * Entries(s), !.status = "FromPending",
                                     !.inPending = FALSE]
                ELSE inst[s]]
        /\ ready' = [ready EXCEPT ![p] = @ \o Reverse(again)]
        /\ inFlight' = [inFlight EXCEPT ![p] = @ + Len(again)]
        /\ pend' = [pend EXCEPT ![p] = <<>>]
        /\ UNCHANGED <<prog, thr, stored, waiters, tagTable, canceled, net, ghosts>>

\* The wait ends when nothing is left anywhere (module DistWait).
Quiet ==
    /\ \A p \in Procs : inFlight[p] = 0 /\ pend[p] = <<>>
    /\ \A p, q \in Procs : net[p][q] = <<>>
    /\ \A th \in Receivers : thr[th].pc = "idle"
WaitEnds ==
    /\ Waiting /\ Quiet
    /\ Next1(Main)
    /\ UNCHANGED <<prog, inst, schedVars, itemVars, tagTable, canceled, net, ghosts>>

EnvDone == thr[Main].pc = "body" /\ thr[Main].k > Len(prog.main)

ThreadStep(th) ==
    \/ OpTag(th) \/ OpRange(th) \/ OpCancel(th) \/ OpPut(th) \/ OpGet(th) \/ OpMiss(th)
    \/ InsertRead(th) \/ InsertOr(th) \/ LaunchOne(th) \/ LaunchNone(th) \/ LeavePut(th)
    \/ Recv(th)
    \/ Begin(th) \/ Reexecute(th) \/ Split(th) \/ SplitDone(th) \/ SkipTag(th) \/ RunTag(th)
    \/ CancelTag(th) \/ BodyDone(th) \/ NextPass(th) \/ PreparedOnly(th) \/ LastPass(th) \/ Finish(th)

LaunchNext ==
    \/ \E th \in Threads : ThreadStep(th)
    \/ \E p \in Procs : WaitAll(p)
    \/ WaitEnds

-----------------------------------------------------------------------------
(* Properties *)

Active(th) == thr[th].job # 0 /\ thr[th].pc # "idle"
Executing(s) == {th \in Workers : Active(th) /\ thr[th].job = s}
QueuedTimes(s) == Cardinality({n \in DOMAIN ready[inst[s].proc] : ready[inst[s].proc][n] = s})
WaitingTimes(s) ==
    LET w == waiters[inst[s].proc]
    IN  Cardinality({<<i, n>> \in Items \X (1 .. 4) : n \in DOMAIN w[i] /\ w[i][n] = s})
RanSomewhere(c, t) == FoldFunction(+, 0, [p \in Procs |-> ran[p][c][t]])

\* Types of the model's state.
TypeOK ==
    /\ prog \in Programs
    /\ \A s \in DOMAIN inst :
        /\ inst[s].proc \in Procs /\ inst[s].coll \in Launchers /\ inst[s].nSus \in 0 .. 8
        /\ inst[s].kind \in {"step", "range", "tagrange"}
        /\ inst[s].status \in {"Prepared", "Pending", "FromPending", "Done"}
        /\ inst[s].stat # <<>> => Len(inst[s].stat) <= RangeSize(inst[s].range)
    /\ \A p \in Procs : Range(ready[p]) \cup Range(pend[p]) \subseteq DOMAIN inst
    /\ \A th \in Threads : thr[th].pc \in {"idle", "body", "insert", "or", "launch", "tags", "split",
                                           "finish", "again"}
    /\ stored \in [Procs -> SUBSET Items] /\ inFlight \in [Procs -> Nat]

\* Splitting, sending, suspending and replaying a range never executes a tag more
\* often than it was put, and on no process its tuner did not name.
NotTooOften ==
    \A c \in Launchers, t \in prog.tags :
        /\ RanSomewhere(c, t) <= prog.times[c][t]
        /\ \A p \in Procs : ran[p][c][t] > 0 => p \in prog.where[c][t]

\* When context::wait has returned every tag that was not canceled has been
\* executed as often as it was put: no part of a range and no tag sent to
\* another process got lost.
AllAfterWait ==
    EnvDone => \A c \in Launchers, t \in prog.tags :
        t \in canceled[0] \/ RanSomewhere(c, t) = prog.times[c][t]

\* An instance is deleted once, and then nobody refers to it: not the scheduler,
\* not the pending list, no suspend group and no thread.
NoDanglingInstance ==
    \A s \in DOMAIN inst :
        /\ inst[s].deleted <= 1
        /\ inst[s].deleted = 1 =>
            /\ QueuedTimes(s) = 0 /\ WaitingTimes(s) = 0 /\ Executing(s) = {}
            /\ s \notin Range(pend[inst[s].proc])

\* The suspend counter of an instance that is not done is what holds it: an entry
\* in a suspend group for every get that missed, and the extra suspend of the
\* thread that executes it or of the waiter that is about to have it executed.
SuspendsBalanced ==
    \A s \in DOMAIN inst :
        inst[s].status # "Done" /\ inst[s].deleted = 0 =>
            inst[s].nSus = WaitingTimes(s)
                + Cardinality({th \in Executing(s) : thr[th].pc # "again"})
                + IF inst[s].status = "FromPending" THEN QueuedTimes(s) ELSE 0

\* A part of a range is executed by one thread at a time: m_statuses is not
\* protected.
OneExecutor == \A s \in DOMAIN inst : Cardinality(Executing(s)) + QueuedTimes(s) <= 1

\* Every wait returns: ranges that depend on each other's items are replayed until
\* all their tags are done.
EnvEnds == <>EnvDone


=============================================================================
