------------------------------- MODULE UtsGlobal -------------------------------
(***************************************************************************)
(* samples/uts, upc_worksharing.c: the threads of a UPC program share one  *)
(* global queue of blocks under gq_lock.  A thread without work enters the *)
(* barrier; the last one to enter while the queue is empty ends the search *)
(* for all.  The queue is looked at without the lock before it is tried.   *)
(***************************************************************************)
EXTENDS UtsQueue, FiniteSets, FiniteSetsExt

CONSTANTS
  THREADS,           \* number of threads
  Nodes,             \* the nodes of the tree, paths from the root <<>>
  numChildren        \* numChildren[n]: uts_numChildren of node n

Threads == 0..(THREADS - 1)
Free == -1

VARIABLES
  th,            \* per thread: its queue and where it is
  globalQueue,   \* the blocks that were released
  cb,            \* cb_count, cb_done, and the holders of cb_lock and gq_lock
  visited        \* the nodes taken from a queue so far

vars == <<th, globalQueue, cb, visited>>

Init ==
  /\ th = [t \in Threads |->
       [queue |-> IF t = 0 THEN ss_put_work(<<>>, <<>>) ELSE <<>>,
        pc |-> "get", node |-> <<>>, i |-> 0, work_ptr |-> <<>>, nNodes |-> 0]]
  /\ globalQueue = <<>>
  /\ cb = [count |-> 0, done |-> [t \in Threads |-> FALSE], cb_lock |-> Free, gq_lock |-> Free]
  /\ visited = {}

work(t) == localWork(th[t].queue)
Goto(t, pc) == th' = [th EXCEPT ![t].pc = pc]

\* parTreeSearch, with work: ss_get_work.
GetWork(t) ==
  LET p == th[t]
      n == NextNode(p.queue)
  IN /\ p.pc = "get" /\ work(t) > 0
     /\ visited' = visited \cup {n}
     /\ th' = [th EXCEPT ![t] = [p EXCEPT
          !.queue = ss_get_work(@), !.nNodes = @ + 1,
          !.pc = IF numChildren[n] = 0 THEN "get" ELSE "gen", !.node = n, !.i = 0]]
     /\ UNCHANGED <<globalQueue, cb>>

\* genChildren: ss_put_work and, at some of the nodes, release.
PutWork(t) ==
  LET p == th[t]
      q == [p EXCEPT !.queue = ss_put_work(@, Append(p.node, p.i)), !.i = @ + 1,
                     !.pc = IF p.i + 1 < numChildren[p.node] THEN "gen" ELSE "get"]
  IN /\ p.pc = "gen"
     /\ \/ th' = [th EXCEPT ![t] = q] /\ UNCHANGED globalQueue
        \/ /\ MayRelease(q.queue) /\ cb.gq_lock = Free
           /\ th' = [th EXCEPT ![t] = [q EXCEPT !.queue = deq_popBack(@)]]
           /\ globalQueue' = deq_pushFront(globalQueue, deq_peekBack(q.queue))
     /\ UNCHANGED <<cb, visited>>

\* ensureLocalWork: both locks, then the count.
LockBarrier(t) ==
  /\ th[t].pc = "get" /\ work(t) = 0 /\ cb.cb_lock = Free
  /\ cb' = [cb EXCEPT !.cb_lock = t] /\ Goto(t, "enter")
  /\ UNCHANGED <<globalQueue, visited>>
LastOne_AnyQueue(count) == count = THREADS
LastOne(count) == count = THREADS /\ globalQueue = <<>>
EnterBarrier(t) ==
  LET last == LastOne(cb.count + 1)
  IN /\ th[t].pc = "enter" /\ cb.gq_lock = Free
     /\ cb' = [cb EXCEPT !.count = @ + 1, !.cb_lock = Free,
                         !.done = [u \in Threads |-> last \/ @[u]]]
     /\ Goto(t, "barrier") /\ UNCHANGED <<globalQueue, visited>>

\* One round in the barrier: done, or the queue looks empty, or its lock is tried.
LeaveBarrier(t) ==
  /\ th[t].pc = "barrier" /\ cb.done[t]
  /\ Goto(t, "end") /\ UNCHANGED <<globalQueue, cb, visited>>
TryQueue(t) ==
  /\ th[t].pc = "barrier" /\ ~cb.done[t] /\ globalQueue # <<>>
  /\ Goto(t, "try") /\ UNCHANGED <<globalQueue, cb, visited>>
LockAttempt(t) ==
  /\ th[t].pc = "try"
  /\ IF cb.gq_lock = Free THEN cb' = [cb EXCEPT !.gq_lock = t] /\ Goto(t, "take")
     ELSE UNCHANGED cb /\ Goto(t, "barrier")
  /\ UNCHANGED <<globalQueue, visited>>
CountAfterTake_Unchanged(n) == n
CountAfterTake(n) == n - 1
Take(t) ==
  /\ th[t].pc = "take"
  /\ IF globalQueue = <<>>
     THEN cb' = [cb EXCEPT !.gq_lock = Free] /\ Goto(t, "barrier") /\ UNCHANGED globalQueue
     ELSE /\ cb' = [cb EXCEPT !.gq_lock = Free, !.count = CountAfterTake(@)]
          /\ th' = [th EXCEPT ![t].pc = "took", ![t].work_ptr = deq_peekFront(globalQueue)]
          /\ globalQueue' = deq_popFront(globalQueue)
  /\ UNCHANGED visited
\* The block is used unless the end was announced meanwhile.
Took(t) ==
  /\ th[t].pc = "took"
  /\ th' = [th EXCEPT ![t] = IF cb.done[t] THEN [@ EXCEPT !.pc = "end"]
                             ELSE [@ EXCEPT !.pc = "get", !.queue = deq_pushBack(@, th[t].work_ptr), !.work_ptr = <<>>]]
  /\ UNCHANGED <<globalQueue, cb, visited>>

Thread(t) ==
  \/ GetWork(t) \/ PutWork(t) \/ LockBarrier(t) \/ EnterBarrier(t) \/ LeaveBarrier(t)
  \/ TryQueue(t) \/ LockAttempt(t) \/ Take(t) \/ Took(t)
Ended == \A t \in Threads : th[t].pc = "end"
Next == (\E t \in Threads : Thread(t)) \/ (Ended /\ UNCHANGED vars)

\* Threads go on.
Fairness == \A t \in Threads : WF_vars(Thread(t))
Spec == Init /\ [][Next]_vars /\ Fairness

-----------------------------------------------------------------------------
\* No node is searched twice, and a block that is given away is full.
OnceEach ==
  \A t \in Threads : /\ ReleaseIsFull(th[t].queue)
                     /\ th[t].pc = "get" /\ work(t) > 0 => NextNode(th[t].queue) \notin visited

\* The end is announced only when the whole tree has been searched, whatever a
\* thread saw of the queue before it took the lock.
DoneWhenSearched ==
  (\E t \in Threads : cb.done[t]) => /\ visited = Nodes /\ globalQueue = <<>>
                                     /\ \A t \in Threads : th[t].pc # "took" /\ work(t) = 0

\* Every thread comes to an end.
AllEnd == <>Ended
=============================================================================
