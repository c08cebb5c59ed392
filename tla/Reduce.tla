------------------------------- MODULE Reduce -------------------------------
(***************************************************************************)
(* The reduction graph of reduce.h: one reduction (reductions with         *)
(* different ids share nothing but flush), reduced on every process that   *)
(* puts items and finished by a count, by the done flag -1, or by flush.   *)
(*                                                                         *)
(* Processes put items while the count is put: every access to the atomic  *)
(* fields of red_tls is a step of its own, where another thread can see    *)
(* the difference. The value of a reduction is the bag of the items in it, *)
(* so a result shows what has been lost or counted twice.                  *)
(***************************************************************************)
EXTENDS Integers, Sequences, FiniteSets, Functions, SequencesExt

CONSTANT Reductions     \* what the program does, see MCGraphs

VARIABLES
    red,        \* the chosen program: procs, items (a set of <<process, number>>),
                \* owner, count, late (count only when the items are in), flush
    val,        \* val[p]: the items combined on p, each with how often
    nreduced, n, nCounts, nValues, owner, status, nDones,
    wire,       \* wire[p][q]: messages from p to q
    task,       \* the threads
    out         \* the values put into the output collection

redVars == <<nreduced, n, nCounts, nValues, owner, status, nDones>>
reduceVars == <<red, val, redVars, wire, task, out>>

M1 == -1
IS_LOCAL == 0
CNT_AVAILABLE == 1
BCAST_DONE == 2
FINISH == 3
DONE == 4

RProcs == 0 .. red.procs - 1
Distributed == red.procs > 1

\* Threads: one per item, one that puts the count or calls flush, one receiver.
ItemThreads == red.items
CountThread == <<red.owner, 0>>
RecvThreads == {<<p, -1>> : p \in RProcs}
RThreads == ItemThreads \cup {CountThread} \cup RecvThreads
Pid(th) == th[1]

ReduceInit ==
    /\ red \in Reductions
    /\ val = [p \in RProcs |-> [i \in red.items |-> 0]]
    /\ nreduced = [p \in RProcs |-> 0]
    /\ n = [p \in RProcs |-> M1]
    /\ nCounts = [p \in RProcs |-> -1]
    /\ nValues = [p \in RProcs |-> -1]
    /\ owner = [p \in RProcs |-> -1]
    /\ status = [p \in RProcs |-> IS_LOCAL]
    /\ nDones = [p \in RProcs |-> -1]
    /\ wire = [p \in RProcs |-> [q \in RProcs |-> <<>>]]
    /\ task = [th \in RThreads |-> [pc |-> CASE th \in ItemThreads -> "add"
                                            [] th = CountThread -> "count"
                                            [] OTHER -> "idle",
                                    k |-> 0, own |-> -1]]
    /\ out = <<>>

RGoto(th, l) == task' = [task EXCEPT ![th].pc = l]
End(th) == IF th \in RecvThreads THEN "idle" ELSE "end"

-----------------------------------------------------------------------------
(* The tree of processes below a root *)

Rank(p, root) == IF p >= root THEN p - root ELSE p + red.procs - root
Children(p, root) ==
    LET r1 == (Rank(p, root) + 1) * 2 - 1
    IN  {(root + r) % red.procs : r \in {r \in {r1, r1 + 1} : r < red.procs}}
my_parent_for_root(p, root) == (((Rank(p, root) - 1) \div 2) + root) % red.procs

SendTo(p, Q, m) == [wire EXCEPT ![p] = [q \in RProcs |-> IF q \in Q THEN Append(@[q], m) ELSE @[q]]]
RMsg(kind, own, v) == [kind |-> kind, own |-> own, v |-> v]

AddTo(p, v) == [val EXCEPT ![p] = [i \in DOMAIN @ |-> @[i] + v[i]]]

-----------------------------------------------------------------------------
(* on_item_put::on_put *)

AddValue(th) ==
    /\ task[th].pc = "add"
    /\ val' = AddTo(Pid(th), [i \in red.items |-> IF i = th THEN 1 ELSE 0])
    /\ RGoto(th, "inc")
    /\ UNCHANGED <<red, redVars, wire, out>>

\* _n = ++nreduced
Increment(th) ==
    /\ task[th].pc = "inc"
    /\ nreduced' = [nreduced EXCEPT ![Pid(th)] = @ + 1]
    /\ task' = [task EXCEPT ![th].pc = "test", ![th].k = nreduced[Pid(th)] + 1]
    /\ UNCHANGED <<red, val, n, nCounts, nValues, owner, status, nDones, wire, out>>

\* Before the count is known nothing happens; then the owner looks whether this
\* was the last item, and others report the new count to the owner.
AllCounted_EarlyOwner(p, k) == nCounts[p] <= 0
AllCounted(p, k) == k = n[p] /\ nCounts[p] <= 0
AfterItem(th) ==
    LET p == Pid(th)
    IN  /\ task[th].pc = "test"
        /\ task' = [task EXCEPT
                ![th].pc = CASE ~Distributed -> "try_put"
                             [] status[p] < CNT_AVAILABLE -> "end"
                             [] owner[p] # p -> "send"
                             [] AllCounted(p, task[th].k) -> "on_done"
                             [] OTHER -> "end",
                ![th].own = p]
        /\ UNCHANGED <<red, val, redVars, wire, out>>

\* send_count: the counts go with an exchange, so none is reported twice.
Taken_Keep(p) == nreduced[p]
Taken(p) == 0
SendCount(th, to, always, l) ==
    LET p == Pid(th)
    IN  /\ IF to < 0 \/ to = p THEN UNCHANGED <<nreduced, wire>>
           ELSE /\ nreduced' = [nreduced EXCEPT ![p] = Taken(p)]
                /\ wire' = IF always \/ nreduced[p] > 0
                           THEN SendTo(p, {to}, RMsg("GATHERCOUNT", -1, nreduced[p])) ELSE wire
        /\ RGoto(th, l)

ReportCount(th) ==
    /\ task[th].pc = "send"
    /\ SendCount(th, owner[Pid(th)], FALSE, "end")
    /\ UNCHANGED <<red, val, n, nCounts, nValues, owner, status, nDones, out>>

-----------------------------------------------------------------------------
(* on_count_put::on_put *)

ItemsIn ==
    /\ \A th \in ItemThreads : task[th].pc = "end"
    /\ \A p, q \in RProcs : wire[p][q] = <<>>

\* A count is put at any time. The done flag, and flush, are for when nothing
\* more comes in.
PutCount(th) ==
    LET p == Pid(th)
    IN  /\ task[th].pc = "count" /\ ~red.flush
        /\ red.late => ItemsIn
        /\ IF red.count # M1 THEN n' = [n EXCEPT ![p] = red.count]
           ELSE IF ~Distributed THEN n' = [n EXCEPT ![p] = nreduced[p]]
           ELSE UNCHANGED n
        /\ IF red.count = M1 /\ Distributed
           THEN /\ status' = [status EXCEPT ![p] = IF @ = IS_LOCAL THEN CNT_AVAILABLE ELSE @]
                /\ nCounts' = [nCounts EXCEPT ![p] = 0]
                /\ task' = [task EXCEPT ![th].pc = "on_done", ![th].own = p]
           ELSE /\ task' = [task EXCEPT ![th].pc = "try_put", ![th].own = p]
                /\ UNCHANGED <<status, nCounts>>
        /\ UNCHANGED <<red, val, nreduced, nValues, owner, nDones, wire, out>>

\* try_put_value: under the lock, once. A count that does not match yet is
\* broadcast.
NotYetPut_Unchecked(p) == TRUE
NotYetPut(p) == status[p] # DONE
TryPut(th) ==
    LET p == Pid(th)
        put == nreduced[p] = n[p] /\ NotYetPut(p)
    IN  /\ task[th].pc = "try_put"
        /\ out' = IF put THEN Append(out, val[p]) ELSE out
        /\ status' = IF put THEN [status EXCEPT ![p] = DONE] ELSE status
        /\ RGoto(th, IF ~put /\ Distributed /\ th = CountThread THEN "on_bcast" ELSE End(th))
        /\ UNCHANGED <<red, val, nreduced, n, nCounts, nValues, owner, nDones, wire>>

\* on_bcastCount, on the owner and where the broadcast arrives.
OnBcastCount(th) ==
    LET p == Pid(th)
    IN  /\ task[th].pc = "on_bcast"
        /\ owner' = [owner EXCEPT ![p] = task[th].own]
        /\ status' = [status EXCEPT ![p] = IF @ = IS_LOCAL THEN CNT_AVAILABLE ELSE @]
        /\ RGoto(th, "bcast")
        /\ UNCHANGED <<red, val, nreduced, n, nCounts, nValues, nDones, wire, out>>

BcastCount(th) ==
    LET p == Pid(th)
        C == Children(p, task[th].own)
    IN  /\ task[th].pc = "bcast"
        /\ nCounts' = [nCounts EXCEPT ![p] = 1]
        /\ wire' = SendTo(p, C, RMsg("BCASTCOUNT", task[th].own, n[p]))
        /\ task' = [task EXCEPT ![th].pc = "bcasted", ![th].k = Cardinality(C)]
        /\ UNCHANGED <<red, val, nreduced, n, nValues, owner, status, nDones, out>>

\* nCounts += children, then --nCounts: a leaf answers at once.
AfterBcast(th) ==
    LET p == Pid(th)
        left == nCounts[p] + task[th].k - 1
    IN  /\ task[th].pc = "bcasted"
        /\ nCounts' = [nCounts EXCEPT ![p] = left]
        /\ IF left = 0 /\ task[th].own # p
           THEN SendCount(th, my_parent_for_root(p, task[th].own), TRUE, End(th))
           ELSE RGoto(th, End(th)) /\ UNCHANGED <<nreduced, wire>>
        /\ UNCHANGED <<red, val, n, nValues, owner, status, nDones, out>>

\* on_gatherCount
OnGatherCount(th, m, rest) ==
    LET p == Pid(th)
        left == nCounts[p] - 1
        sum == nreduced[p] + m.v
    IN  /\ nCounts' = [nCounts EXCEPT ![p] = left]
        /\ CASE left <= 0 /\ owner[p] = p ->
                    /\ nreduced' = [nreduced EXCEPT ![p] = sum]
                    /\ task' = [task EXCEPT ![th].pc = IF n[p] = sum THEN "on_done" ELSE "idle",
                                            ![th].own = p]
                    /\ wire' = rest
             [] left <= 0 /\ owner[p] # p ->
                    /\ nreduced' = [nreduced EXCEPT ![p] = 0]
                    /\ wire' = [rest EXCEPT ![p][my_parent_for_root(p, owner[p])] =
                                    Append(@, RMsg("GATHERCOUNT", -1, sum))]
                    /\ UNCHANGED task
             [] OTHER ->
                    /\ nreduced' = [nreduced EXCEPT ![p] = sum]
                    /\ wire' = rest
                    /\ UNCHANGED task
        /\ UNCHANGED <<val, n, nValues, owner, status, nDones, out>>

-----------------------------------------------------------------------------
(* on_done: collect the values *)

\* Only one thread of the owner gets past the exchange of the status.
MayFinish_Twice(p, own) == TRUE
MayFinish(p, own) == own # p \/ status[p] = CNT_AVAILABLE
OnDone(th) ==
    LET p == Pid(th)
        own == task[th].own
        go == MayFinish(p, own)
    IN  /\ task[th].pc = "on_done"
        /\ owner' = [owner EXCEPT ![p] = own]
        /\ status' = IF own = p /\ go THEN [status EXCEPT ![p] = BCAST_DONE] ELSE status
        /\ nValues' = IF go THEN [nValues EXCEPT ![p] = 1000] ELSE nValues
        /\ RGoto(th, IF go THEN "bcast_done" ELSE End(th))
        /\ UNCHANGED <<red, val, nreduced, n, nCounts, nDones, wire, out>>

BcastDone(th) ==
    LET p == Pid(th)
        C == Children(p, task[th].own)
    IN  /\ task[th].pc = "bcast_done"
        /\ wire' = SendTo(p, C, RMsg("DONE", task[th].own, 0))
        /\ task' = [task EXCEPT ![th].pc = "done_sent", ![th].k = Cardinality(C)]
        /\ UNCHANGED <<red, val, redVars, out>>

\* nValues += children; BCAST_DONE becomes FINISH; nValues -= 999
Expected_OneMore(k) == k - 998
Expected_StillProtected(k) == k
Expected(k) == k - 999
DoneSent(th) ==
    LET p == Pid(th)
    IN  /\ task[th].pc = "done_sent"
        /\ nValues' = [nValues EXCEPT ![p] = @ + Expected(task[th].k)]
        /\ status' = [status EXCEPT ![p] = IF @ = BCAST_DONE THEN FINISH ELSE @]
        /\ RGoto(th, "value")
        /\ UNCHANGED <<red, val, nreduced, n, nCounts, owner, nDones, wire, out>>

\* try_send_or_put_value: the last value makes the owner put the result and
\* others send theirs to the parent.
LastValue(th) ==
    LET p == Pid(th)
        last == nValues[p] = 1
        put == last /\ owner[p] = p /\ status[p] = FINISH
        send == last /\ owner[p] # p
    IN  /\ task[th].pc = "value"
        /\ nValues' = [nValues EXCEPT ![p] = @ - 1]
        /\ nreduced' = IF put THEN [nreduced EXCEPT ![p] = n[p]] ELSE nreduced
        /\ out' = IF put THEN Append(out, val[p]) ELSE out
        /\ status' = IF put \/ send THEN [status EXCEPT ![p] = DONE] ELSE status
        /\ wire' = IF send THEN SendTo(p, {my_parent_for_root(p, owner[p])}, RMsg("VALUE", -1, val[p]))
                   ELSE wire
        /\ RGoto(th, End(th))
        /\ UNCHANGED <<red, val, n, nCounts, owner, nDones>>

-----------------------------------------------------------------------------
(* flush *)

\* On process 0, or where ALLDONE arrives: pass it on and send the values when
\* the children's are in. m_nDones = 1000; += sent; -= 999
AllDone(th) ==
    LET p == Pid(th)
        C == Children(p, 0)
    IN  /\ task[th].pc = "all_done"
        /\ wire' = SendTo(p, C, RMsg("ALLDONE", 0, 0))
        /\ nDones' = [nDones EXCEPT ![p] = Cardinality(C) + 1]
        /\ RGoto(th, "try_all")
        /\ UNCHANGED <<red, val, nreduced, n, nCounts, nValues, owner, status, out>>

Flush(th) ==
    /\ task[th].pc = "count" /\ red.flush /\ ItemsIn
    /\ IF Distributed
       THEN RGoto(th, "all_done") /\ UNCHANGED out
       ELSE RGoto(th, "end") /\ out' = Append(out, val[Pid(th)])
    /\ UNCHANGED <<red, val, redVars, wire>>

\* try_send_or_put_all
TryAll(th) ==
    LET p == Pid(th)
        last == nDones[p] = 1
    IN  /\ task[th].pc = "try_all"
        /\ nDones' = [nDones EXCEPT ![p] = @ - 1]
        /\ out' = IF last /\ p = 0 THEN Append(out, val[p]) ELSE out
        /\ wire' = IF last /\ p # 0
                   THEN SendTo(p, {my_parent_for_root(p, 0)}, RMsg("ALLVALUES", -1, val[p])) ELSE wire
        /\ RGoto(th, End(th))
        /\ UNCHANGED <<red, val, nreduced, n, nCounts, nValues, owner, status>>

-----------------------------------------------------------------------------
\* recv_msg
Receive(th) ==
    /\ th \in RecvThreads /\ task[th].pc = "idle"
    /\ \E q \in RProcs :
        /\ wire[q][Pid(th)] # <<>>
        /\ LET m == Head(wire[q][Pid(th)])
               rest == [wire EXCEPT ![q][Pid(th)] = Tail(@)]
               p == Pid(th)
           IN  CASE m.kind = "GATHERCOUNT" -> OnGatherCount(th, m, rest)
                 [] m.kind = "BCASTCOUNT" ->
                        /\ n' = [n EXCEPT ![p] = m.v]
                        /\ task' = [task EXCEPT ![th].pc = "on_bcast", ![th].own = m.own]
                        /\ wire' = rest
                        /\ UNCHANGED <<val, nreduced, nCounts, nValues, owner, status, nDones, out>>
                 [] m.kind = "DONE" ->
                        /\ task' = [task EXCEPT ![th].pc = "on_done", ![th].own = m.own]
                        /\ wire' = rest
                        /\ UNCHANGED <<val, redVars, out>>
                 [] m.kind \in {"VALUE", "ALLVALUES"} ->
                        /\ val' = AddTo(p, m.v)
                        /\ RGoto(th, IF m.kind = "VALUE" THEN "value" ELSE "try_all")
                        /\ wire' = rest
                        /\ UNCHANGED <<redVars, out>>
                 [] m.kind = "ALLDONE" ->
                        /\ RGoto(th, "all_done")
                        /\ wire' = rest
                        /\ UNCHANGED <<val, redVars, out>>
    /\ UNCHANGED red

ReduceThread(th) ==
    \/ AddValue(th) \/ Increment(th) \/ AfterItem(th) \/ ReportCount(th)
    \/ PutCount(th) \/ TryPut(th) \/ OnBcastCount(th) \/ BcastCount(th) \/ AfterBcast(th)
    \/ OnDone(th) \/ BcastDone(th) \/ DoneSent(th) \/ LastValue(th)
    \/ Flush(th) \/ AllDone(th) \/ TryAll(th) \/ Receive(th)
ReduceNext == \E th \in RThreads : ReduceThread(th)

-----------------------------------------------------------------------------
(* Properties *)

Once == [i \in red.items |-> 1]

\* The result is put once, whoever completes the count: the last item's put, the
\* put of the count or a message.
ResultOnce == Len(out) <= 1

\* A result contains every item exactly once, although items are counted and
\* collected while others are still being put.
ResultComplete == \A k \in DOMAIN out : out[k] = Once

\* No count is lost or reported twice: until the result is put, what the processes
\* and the GATHERCOUNT messages hold is the number of items that were counted.
CountsOf(q) == FoldSeq(LAMBDA m, acc : acc + IF m.kind = "GATHERCOUNT" THEN m.v ELSE 0, 0, q)
CountsExact ==
    out = <<>> =>
        Cardinality({th \in ItemThreads : task[th].pc \notin {"add", "inc"}})
            = FoldFunction(+, 0, nreduced) + FoldFunction(+, 0, [pq \in RProcs \X RProcs |-> CountsOf(wire[pq[1]][pq[2]])])

\* What the owner and the other processes know about the reduction is never taken
\* back.
StatusGrows == [][\A p \in RProcs : status'[p] >= status[p]]_reduceVars

\* The result is put in the end: no count that arrives early, late or together
\* with the last item leaves everybody waiting.
ResultPut == red.items # {} => <>(out # <<>>)
=============================================================================
