-------------------------------- MODULE UtsShm --------------------------------
(***************************************************************************)
(* samples/uts, uts_shm.c: threads that search the tree depth first, each  *)
(* on a stack whose lower part others may steal from, and a barrier that a *)
(* thread with new work cancels.  The copy of what was stolen is made      *)
(* after the victim's lock is released; workAvail is read without the      *)
(* lock, cb_cancel is written and reset without regard to who has seen it. *)
(***************************************************************************)
EXTENDS Integers, Sequences, FiniteSets, FiniteSetsExt

CONSTANTS
  NumThreads,        \* GET_NUM_THREADS
  chunkSize,         \* nodes released, acquired or stolen at a time
  cbint,             \* the barrier is cancelled when the number of nodes is a multiple
  StackSize,         \* MAXSTACKDEPTH
  Nodes,             \* the nodes of the tree, paths from the root <<>>
  numChildren        \* numChildren[n]: uts_numChildren of node n

Threads == 0..(NumThreads - 1)

VARIABLES
  ss,        \* stealStack[t]; a stack entry is a node and whether it has been expanded
  cb,        \* cb_count, cb_cancel, cb_done
  th,        \* where thread t is in parTreeSearch, and its local variables
  visited    \* the nodes expanded so far

vars == <<ss, cb, th, visited>>

\* The stack ends at top: what is above it is never read.
Empty == [stack |-> <<>>, sharedStart |-> 0, local |-> 0, workAvail |-> 0,
          nNodes |-> 0, nLeaves |-> 0, nRelease |-> 0, nAcquire |-> 0, nSteal |-> 0]
top(s) == Len(s.stack)
ss_localDepth(s) == top(s) - s.local
ss_push(s, n) ==
  [s EXCEPT !.stack = Append(@, [node |-> n, expanded |-> FALSE]), !.nNodes = @ + 1]
ss_pop(s) == [s EXCEPT !.stack = SubSeq(@, 1, top(s) - 1)]

Init ==
  /\ ss = [t \in Threads |-> IF t = 0 THEN ss_push(Empty, <<>>) ELSE Empty]
  /\ cb = [count |-> 0, cancel |-> FALSE, done |-> FALSE]
  /\ th = [t \in Threads |-> [pc |-> "search", back |-> "search", node |-> <<>>, i |-> 0, victim |-> t, from |-> 0]]
  /\ visited = {}

\* releaseNodes: a stack that has grown moves a chunk to the shared part and
\* cancels the barrier (a write of its own, without a lock).
ss_release(s) ==
  IF ss_localDepth(s) > 2 * chunkSize
  THEN [s EXCEPT !.local = @ + chunkSize, !.workAvail = @ + chunkSize, !.nRelease = @ + 1]
  ELSE s
releaseNodes(t, s, l) ==
  /\ ss' = [ss EXCEPT ![t] = ss_release(s)]
  /\ th' = [th EXCEPT ![t] = IF ss_release(s) # s /\ s.nNodes % cbint = 0
                              THEN [l EXCEPT !.pc = "cancel", !.back = l.pc] ELSE l]
  /\ UNCHANGED cb

cbarrier_cancel(t) ==
  /\ th[t].pc = "cancel"
  /\ cb' = [cb EXCEPT !.cancel = TRUE]
  /\ th' = [th EXCEPT ![t].pc = th[t].back]
  /\ UNCHANGED <<ss, visited>>

\* The node on top is expanded, and popped when it is on top again.
Visit(t) ==
  LET s == ss[t]
      n == s.stack[top(s)]
      opened == [s EXCEPT !.stack[top(s)].expanded = TRUE]
  IN /\ th[t].pc = "search" /\ ss_localDepth(s) > 0
     /\ visited' = visited \cup {n.node}
     /\ CASE n.expanded -> releaseNodes(t, ss_pop(s), th[t])
          [] ~n.expanded /\ numChildren[n.node] = 0 ->
               releaseNodes(t, [opened EXCEPT !.nLeaves = @ + 1], th[t])
          [] OTHER -> /\ ss' = [ss EXCEPT ![t] = opened]
                      /\ th' = [th EXCEPT ![t].pc = "gen", ![t].node = n.node, ![t].i = 0]
                      /\ UNCHANGED cb

genChildren(t) ==
  LET i == th[t].i
  IN /\ th[t].pc = "gen"
     /\ releaseNodes(t, ss_push(ss[t], Append(th[t].node, i)),
                     [th[t] EXCEPT !.i = i + 1, !.pc = IF i + 1 < numChildren[th[t].node] THEN "gen" ELSE "search"])
     /\ UNCHANGED visited

\* An empty local part is refilled from the own shared part, or else from
\* another thread.
ss_acquire(t) ==
  LET s == ss[t]
      ok == s.local - s.sharedStart >= chunkSize
  IN /\ th[t].pc = "search" /\ ss_localDepth(s) = 0
     /\ ss' = IF ok THEN [ss EXCEPT ![t].local = @ - chunkSize, ![t].workAvail = @ - chunkSize, ![t].nAcquire = @ + 1]
              ELSE ss
     /\ th' = IF ok THEN th ELSE [th EXCEPT ![t].pc = "find", ![t].i = 1]
     /\ UNCHANGED <<cb, visited>>

findwork(t) ==
  LET v == (t + th[t].i) % NumThreads
  IN /\ th[t].pc = "find"
     /\ th' = CASE th[t].i = NumThreads -> [th EXCEPT ![t].pc = "enter"]
                [] th[t].i < NumThreads /\ ss[v].workAvail >= chunkSize ->
                     [th EXCEPT ![t].pc = "steal", ![t].victim = v]
                [] OTHER -> [th EXCEPT ![t].i = @ + 1]
     /\ UNCHANGED <<ss, cb, visited>>

\* ss_steal: the chunk is taken under the lock, where workAvail is read again,
\* and copied after it.
CanSteal_Unchecked(v) == TRUE
CanSteal(v) == ss[v].workAvail >= chunkSize
ss_steal(t) ==
  LET v == th[t].victim
      ok == CanSteal(v)
  IN /\ th[t].pc = "steal"
     /\ ss' = IF ok THEN [ss EXCEPT ![v].sharedStart = @ + chunkSize, ![v].workAvail = @ - chunkSize] ELSE ss
     /\ th' = IF ok THEN [th EXCEPT ![t].pc = "copy", ![t].from = ss[v].sharedStart]
              ELSE [th EXCEPT ![t].pc = "find", ![t].i = 1]
     /\ UNCHANGED <<cb, visited>>

StealCopy(t) ==
  LET from == th[t].from
  IN /\ th[t].pc = "copy"
     /\ ss' = [ss EXCEPT ![t].stack = @ \o SubSeq(ss[th[t].victim].stack, from + 1, from + chunkSize),
                         ![t].nSteal = @ + 1]
     /\ th' = [th EXCEPT ![t].pc = "search"]
     /\ UNCHANGED <<cb, visited>>

\* cbarrier_wait
LastToEnter_OneMissing(count) == count >= NumThreads - 1
LastToEnter(count) == count = NumThreads
BarrierEnter(t) ==
  /\ th[t].pc = "enter"
  /\ cb' = [cb EXCEPT !.count = @ + 1, !.done = @ \/ LastToEnter(cb.count + 1)]
  /\ th' = [th EXCEPT ![t].pc = "spin"]
  /\ UNCHANGED <<ss, visited>>
BarrierSpin(t) ==
  /\ th[t].pc = "spin" /\ (cb.cancel \/ cb.done)
  /\ th' = [th EXCEPT ![t].pc = "leave"]
  /\ UNCHANGED <<ss, cb, visited>>
BarrierLeave(t) ==
  /\ th[t].pc = "leave"
  /\ cb' = [cb EXCEPT !.count = @ - 1, !.cancel = FALSE]
  /\ th' = [th EXCEPT ![t].pc = "return"]
  /\ UNCHANGED <<ss, visited>>
BarrierReturn(t) ==
  /\ th[t].pc = "return"
  /\ th' = [th EXCEPT ![t].pc = IF cb.done THEN "end" ELSE "search"]
  /\ UNCHANGED <<ss, cb, visited>>

Thread(t) ==
  \/ Visit(t) \/ genChildren(t) \/ cbarrier_cancel(t)
  \/ ss_acquire(t) \/ findwork(t) \/ ss_steal(t) \/ StealCopy(t)
  \/ BarrierEnter(t) \/ BarrierSpin(t) \/ BarrierLeave(t) \/ BarrierReturn(t)

Ended == \A t \in Threads : th[t].pc = "end"
Next == (\E t \in Threads : Thread(t)) \/ (Ended /\ UNCHANGED vars)
Fairness == \A t \in Threads : WF_vars(Thread(t))
Spec == Init /\ [][Next]_vars /\ Fairness

-----------------------------------------------------------------------------
\* No node is expanded twice: of an entry that is stolen, or taken back, at
\* most one copy is live.
OnceEach ==
  \A t \in Threads : th[t].pc = "search" /\ ss_localDepth(ss[t]) > 0
     /\ ~ss[t].stack[top(ss[t])].expanded => ss[t].stack[top(ss[t])].node \notin visited

\* A thread ends the search only when the whole tree has been searched,
\* however the cancellations of the barrier fell.
NothingLeft == (cb.done \/ \E t \in Threads : th[t].pc = "end") => visited = Nodes

\* The checks of the code: ss_push overflows nowhere, a thief's stack is empty
\* and has room, the victim's counters agree, nothing is popped from an empty
\* part; and at the end every chunk released was acquired or stolen, and the
\* nodes and leaves of all threads add up to those of the tree.
Sum(f(_)) == MapThenSumSet(f, Threads)
ChecksHold ==
  /\ \A t \in Threads : top(ss[t]) <= StackSize /\ ss[t].sharedStart <= ss[t].local /\ ss[t].local <= top(ss[t])
  /\ \A t \in Threads : th[t].pc = "steal" =>
       /\ ss[t].sharedStart = top(ss[t]) /\ top(ss[t]) + chunkSize < StackSize
       /\ LET v == ss[th[t].victim] IN v.local - v.sharedStart = v.workAvail
  /\ Ended => /\ Sum(LAMBDA t : ss[t].nNodes) = Cardinality(Nodes)
              /\ Sum(LAMBDA t : ss[t].nLeaves) = Cardinality({n \in Nodes : numChildren[n] = 0})
              /\ Sum(LAMBDA t : ss[t].nRelease) = Sum(LAMBDA t : ss[t].nAcquire + ss[t].nSteal)

\* Every thread comes to an end: a cancellation that another thread has reset
\* before this one saw it costs parallelism, never termination.
AllEnd == <>Ended
=============================================================================
