------------------------------ MODULE UtsManager ------------------------------
(***************************************************************************)
(* samples/uts, mpi_worksharing.c: the last process keeps the global queue *)
(* of blocks.  A worker sends full blocks that it can spare and asks for   *)
(* one when it has nothing left.  Blocks and requests have different tags, *)
(* so the manager may see a request before blocks that were sent earlier;  *)
(* the count in the request tells how many messages came before it.        *)
(*                                                                         *)
(* A release happens at every polling_interval-th node; here it may happen *)
(* at any put.  MPI_Waitall of the answers does not block for ever: they   *)
(* go to workers that sit in MPI_Recv.                                     *)
(***************************************************************************)
EXTENDS UtsQueue, FiniteSets, FiniteSetsExt

CONSTANTS
  comm_size,         \* number of processes, the manager included
  Nodes,             \* the nodes of the tree, paths from the root <<>>
  numChildren        \* numChildren[n]: uts_numChildren of node n

Workers == 0..(comm_size - 2)

VARIABLES
  proc,      \* per worker: its queue, msg_counter, and where it is
  wqm,       \* the manager: globalQueue, waiting, timestamps, msg_counts, done
  net,       \* messages sent and not yet received
  visited    \* the nodes taken from a queue so far

vars == <<proc, wqm, net, visited>>

Init ==
  /\ proc = [r \in Workers |->
       [queue |-> IF r = 0 THEN ss_put_work(<<>>, <<>>) ELSE <<>>, msg_counter |-> 0,
        pc |-> "get", node |-> <<>>, i |-> 0, nNodes |-> 0]]
  /\ wqm = [globalQueue |-> <<>>, waiting |-> {}, timestamps |-> [r \in Workers |-> 0],
            msg_counts |-> [r \in Workers |-> 0], done |-> FALSE]
  /\ net = {}
  /\ visited = {}

work(r) == localWork(proc[r].queue)
Released(r, n, block) == [type |-> "MAKEWORKGLOBAL", from |-> r, n |-> n, work |-> block]
Request(r, n) == [type |-> "WORKREQUEST", from |-> r, n |-> n]
Respond(r, block) == [type |-> "RESPONDWORK", to |-> r, work |-> block]

\* parTreeSearch, with work: ss_get_work.
GetWork(r) ==
  LET p == proc[r]
      n == NextNode(p.queue)
  IN /\ p.pc = "get" /\ work(r) > 0
     /\ visited' = visited \cup {n}
     /\ proc' = [proc EXCEPT ![r] = [p EXCEPT
          !.queue = ss_get_work(@), !.nNodes = @ + 1,
          !.pc = IF numChildren[n] = 0 THEN "get" ELSE "gen", !.node = n, !.i = 0]]
     /\ UNCHANGED <<wqm, net>>

\* genChildren: ss_put_work and, with enough work, release.
PutWork(r) ==
  LET p == proc[r]
      q == [p EXCEPT !.queue = ss_put_work(@, Append(p.node, p.i)), !.i = @ + 1,
                     !.pc = IF p.i + 1 < numChildren[p.node] THEN "gen" ELSE "get"]
  IN /\ p.pc = "gen"
     /\ \/ proc' = [proc EXCEPT ![r] = q] /\ UNCHANGED net
        \/ /\ MayRelease(q.queue)
           /\ proc' = [proc EXCEPT ![r] = [q EXCEPT !.queue = deq_popBack(@), !.msg_counter = @ + 1]]
           /\ net' = net \cup {Released(r, p.msg_counter + 1, deq_peekBack(q.queue))}
     /\ UNCHANGED <<wqm, visited>>

\* ensureLocalWork: ask, and wait for a block or for the end.
CountOfRequest(n) == n + 1
Ask(r) ==
  /\ proc[r].pc = "get" /\ work(r) = 0
  /\ proc' = [proc EXCEPT ![r].pc = "wait", ![r].msg_counter = @ + 1]
  /\ net' = net \cup {Request(r, CountOfRequest(proc[r].msg_counter))}
  /\ UNCHANGED <<wqm, visited>>
TakeAnswer(r) ==
  \E m \in net :
    /\ proc[r].pc = "wait" /\ m.type = "RESPONDWORK" /\ m.to = r
    /\ proc' = [proc EXCEPT ![r] = IF m.work = <<>> THEN [@ EXCEPT !.pc = "end"]
                                   ELSE [@ EXCEPT !.pc = "get", !.queue = deq_pushBack(@, m.work)]]
    /\ net' = net \ {m}
    /\ UNCHANGED <<wqm, visited>>

\* doWorkQueueManager, one round of its loop: a message is entered, blocks go to
\* the workers that wait, in the order of their ranks, and the end is noticed.
Received(w, m) ==
  LET v == [w EXCEPT !.msg_counts[m.from] = @ + 1]
  IN IF m.type = "MAKEWORKGLOBAL" THEN [v EXCEPT !.globalQueue = deq_pushFront(@, m.work)]
     ELSE [v EXCEPT !.waiting = @ \cup {m.from}, !.timestamps[m.from] = m.n]
Served(w) ==
  LET order == SetToSortSeq(w.waiting, <) IN SubSeq(order, 1, Min({Len(order), Len(w.globalQueue)}))
AllDone_Uncounted(w) == w.waiting = Workers
AllDone(w) == w.waiting = Workers /\ w.msg_counts = w.timestamps

Manage ==
  \E m \in net :
    LET w == Received(wqm, m)
        served == Served(w)
        v == [w EXCEPT !.waiting = @ \ Range(served),
                       !.globalQueue = SubSeq(@, Len(served) + 1, Len(@))]
        answers == {Respond(served[k], w.globalQueue[k]) : k \in DOMAIN served}
    IN /\ ~wqm.done /\ m.type # "RESPONDWORK"
       /\ wqm' = [v EXCEPT !.done = AllDone(v)]
       /\ net' = (net \ {m}) \cup answers
                   \cup (IF AllDone(v) THEN {Respond(r, <<>>) : r \in Workers} ELSE {})
       /\ UNCHANGED <<proc, visited>>

Worker(r) == GetWork(r) \/ PutWork(r) \/ Ask(r) \/ TakeAnswer(r)
Ended == wqm.done /\ \A r \in Workers : proc[r].pc = "end"
Next == (\E r \in Workers : Worker(r)) \/ Manage \/ (Ended /\ UNCHANGED vars)

\* Processes go on, and messages are delivered.
Fairness == (\A r \in Workers : WF_vars(Worker(r))) /\ WF_vars(Manage)
Spec == Init /\ [][Next]_vars /\ Fairness

-----------------------------------------------------------------------------
\* No node is searched twice, and a block that is given away is full.
OnceEach ==
  \A r \in Workers : /\ ReleaseIsFull(proc[r].queue)
                     /\ proc[r].pc = "get" /\ work(r) > 0 => NextNode(proc[r].queue) \notin visited

\* The checks of the manager hold: no worker has more messages counted than it
\* announced, and the manager ends with no work left and none on its way.
ManagerChecks ==
  /\ \A r \in wqm.waiting : wqm.timestamps[r] >= wqm.msg_counts[r]
  /\ wqm.done => /\ wqm.globalQueue = <<>> /\ visited = Nodes
                 /\ \A m \in net : m.type = "RESPONDWORK"

\* Every process comes to an end.
AllEnd == <>Ended
=============================================================================
