-------------------------------- MODULE UtsUpc --------------------------------
(***************************************************************************)
(* samples/uts, uts_upc_enhanced.c: a thief leaves a request with a thread *)
(* that has enough work, and that thread, when it polls, grants half of    *)
(* its stack or, when it runs dry, turns the request down.  A thread that  *)
(* finds nobody working enters a barrier, and leaves it again when its     *)
(* neighbour works, unless all are in it.                                  *)
(***************************************************************************)
EXTENDS Integers, Sequences, FiniteSets, FiniteSetsExt

CONSTANTS
  NumThreads,          \* GET_NUM_THREADS
  chunkSize,           \* a thread with more than two chunks grants chunks
  stealPollInterval,   \* nodes generated between two polls
  Nodes,               \* the nodes of the tree, paths from the root <<>>
  numChildren          \* numChildren[n]: uts_numChildren of node n

Threads == 0..(NumThreads - 1)
NOT_WORKING == -1
REQ_AVAILABLE == -1
REQ_UNAVAILABLE == -2
WAITING_FOR_WORK == -1
NONE_STOLEN == -2

VARIABLES
  ss,         \* stealStack[t]
  cb_count,   \* threads in the barrier
  th,         \* where thread t is in parTreeSearch, and its local variables
  visited     \* the nodes expanded so far

vars == <<ss, cb_count, th, visited>>

Empty == [stack |-> <<>>, local |-> 0, workAvail |-> 0, req_thread |-> REQ_UNAVAILABLE,
          stolen_work_addr |-> WAITING_FOR_WORK, stolen_work_amt |-> 0, nNodes |-> 0, nLeaves |-> 0]
top(s) == Len(s.stack)
ss_localDepth(s) == top(s) - s.local
ss_push(s, n) == [s EXCEPT !.stack = Append(@, [node |-> n, expanded |-> FALSE]), !.nNodes = @ + 1]

Init ==
  /\ ss = [t \in Threads |-> IF t = 0 THEN ss_push(Empty, <<>>) ELSE Empty]
  /\ cb_count = 0
  /\ th = [t \in Threads |-> [pc |-> "work", node |-> <<>>, i |-> 0, to |-> t, found |-> FALSE, back |-> "dfs"]]
  /\ visited = {}

At(t, pc) == th[t].pc = pc
Goto(t, pc) == th' = [th EXCEPT ![t].pc = pc]

StartWork(t) ==
  /\ At(t, "work")
  /\ ss' = [ss EXCEPT ![t].workAvail = 0, ![t].req_thread = REQ_AVAILABLE]
  /\ Goto(t, "dfs")
  /\ UNCHANGED <<cb_count, visited>>

\* dfsWithPolling
Visit(t) ==
  LET s == ss[t]
      n == s.stack[top(s)]
  IN /\ At(t, "dfs") /\ ss_localDepth(s) > 0
     /\ visited' = visited \cup {n.node}
     /\ ss' = [ss EXCEPT ![t] =
                IF n.expanded THEN [s EXCEPT !.stack = SubSeq(@, 1, top(s) - 1)]
                ELSE [s EXCEPT !.stack[top(s)].expanded = TRUE,
                               !.nLeaves = IF numChildren[n.node] = 0 THEN @ + 1 ELSE @]]
     /\ th' = IF n.expanded \/ numChildren[n.node] = 0 THEN th
              ELSE [th EXCEPT ![t].pc = "gen", ![t].node = n.node, ![t].i = 0]
     /\ UNCHANGED cb_count

\* checkSteal: what is granted leaves the stack at its lower end; the thief is
\* told how much, and then, in a step of its own, where.
stealAmt(d) == ((d \div 2) \div chunkSize) * chunkSize
genChildren(t) ==
  LET s == ss_push(ss[t], Append(th[t].node, th[t].i))
      d == ss_localDepth(s)
      polls == s.nNodes % stealPollInterval = 0
      grants == polls /\ d > 2 * chunkSize /\ s.req_thread >= 0
      back == IF th[t].i + 1 < numChildren[th[t].node] THEN "gen" ELSE "dfs"
  IN /\ At(t, "gen")
     /\ ss' = IF grants
              THEN [ss EXCEPT ![t] = [s EXCEPT !.local = @ + stealAmt(d), !.workAvail = d - stealAmt(d),
                                               !.req_thread = REQ_AVAILABLE],
                              ![s.req_thread].stolen_work_amt = stealAmt(d)]
              ELSE [ss EXCEPT ![t] = [s EXCEPT !.workAvail = IF polls THEN d ELSE @]]
     /\ th' = [th EXCEPT ![t] = [@ EXCEPT !.pc = IF grants THEN "grant" ELSE back, !.back = back,
                                          !.i = @ + 1, !.to = IF grants THEN s.req_thread ELSE @]]
     /\ UNCHANGED <<cb_count, visited>>

Grant(t) ==
  /\ At(t, "grant")
  /\ ss' = [ss EXCEPT ![th[t].to].stolen_work_addr = ss[t].local - ss[th[t].to].stolen_work_amt]
  /\ Goto(t, th[t].back)
  /\ UNCHANGED <<cb_count, visited>>

\* Out of work: no further request is accepted, a pending one is turned down.
Pending_Forgotten(req) == FALSE
Pending(req) == req >= 0
StopWork(t) ==
  LET pendingReq == ss[t].req_thread
  IN /\ At(t, "dfs") /\ ss_localDepth(ss[t]) = 0
     /\ ss' = [ss EXCEPT ![t].workAvail = NOT_WORKING, ![t].req_thread = REQ_UNAVAILABLE]
     /\ th' = [th EXCEPT ![t].pc = IF Pending(pendingReq) THEN "deny" ELSE "search",
                         ![t].to = IF Pending(pendingReq) THEN pendingReq ELSE @]
     /\ UNCHANGED <<cb_count, visited>>
Deny(t) ==
  /\ At(t, "deny")
  /\ ss' = [ss EXCEPT ![th[t].to].stolen_work_addr = NONE_STOLEN]
  /\ Goto(t, "search")
  /\ UNCHANGED <<cb_count, visited>>

\* findwork scans the other threads, again and again while one of them works.
Search(t) ==
  /\ At(t, "search")
  /\ ss' = [ss EXCEPT ![t].stolen_work_addr = WAITING_FOR_WORK]
  /\ th' = [th EXCEPT ![t].pc = "probe", ![t].i = 1, ![t].found = FALSE]
  /\ UNCHANGED <<cb_count, visited>>

Victim(t) == (t + th[t].i) % NumThreads
Probe(t) ==
  LET workProbe == ss[Victim(t)].workAvail
  IN /\ At(t, "probe")
     /\ th' = IF th[t].i = NumThreads
              THEN [th EXCEPT ![t].pc = IF th[t].found THEN "probe" ELSE "idle", ![t].i = 1, ![t].found = FALSE]
              ELSE [th EXCEPT ![t] = [@ EXCEPT !.found = @ \/ workProbe # NOT_WORKING,
                                               !.pc = IF workProbe >= 2 * chunkSize THEN "request" ELSE "probe",
                                               !.i = IF workProbe >= 2 * chunkSize THEN @ ELSE @ + 1]]
     /\ UNCHANGED <<ss, cb_count, visited>>
Request(t) ==
  LET v == Victim(t)
      success == ss[v].req_thread = REQ_AVAILABLE
  IN /\ At(t, "request")
     /\ ss' = IF success THEN [ss EXCEPT ![v].req_thread = t] ELSE ss
     /\ th' = IF success THEN [th EXCEPT ![t].pc = "wait"] ELSE [th EXCEPT ![t].pc = "probe", ![t].i = @ + 1]
     /\ UNCHANGED <<cb_count, visited>>

\* ss_steal waits for the answer.
ss_steal(t) ==
  LET stealIndex == ss[t].stolen_work_addr
  IN /\ At(t, "wait") /\ stealIndex # WAITING_FOR_WORK
     /\ ss' = IF stealIndex >= 0
              THEN [ss EXCEPT ![t].stack = @ \o SubSeq(ss[Victim(t)].stack, stealIndex + 1, stealIndex + ss[t].stolen_work_amt)]
              ELSE ss
     /\ Goto(t, IF stealIndex >= 0 THEN "work" ELSE "search")
     /\ UNCHANGED <<cb_count, visited>>

\* The barrier: cb_count is changed under its lock and tested without.
cbarrier_inc(t) == At(t, "idle") /\ cb_count' = cb_count + 1 /\ Goto(t, "test") /\ UNCHANGED <<ss, visited>>
cbarrier_test(t) ==
  At(t, "test") /\ Goto(t, IF cb_count = NumThreads THEN "end" ELSE "detect") /\ UNCHANGED <<ss, cb_count, visited>>
detectWork(t) ==
  /\ At(t, "detect")
  /\ Goto(t, IF ss[(t + 1) % NumThreads].workAvail # NOT_WORKING THEN "dec" ELSE "test")
  /\ UNCHANGED <<ss, cb_count, visited>>
cbarrier_dec(t) ==
  /\ At(t, "dec")
  /\ cb_count' = IF cb_count < NumThreads THEN cb_count - 1 ELSE cb_count
  /\ Goto(t, IF cb_count < NumThreads THEN "search" ELSE "test")
  /\ UNCHANGED <<ss, visited>>

Thread(t) ==
  \/ StartWork(t) \/ Visit(t) \/ genChildren(t) \/ Grant(t) \/ StopWork(t) \/ Deny(t)
  \/ Search(t) \/ Probe(t) \/ Request(t) \/ ss_steal(t)
  \/ cbarrier_inc(t) \/ cbarrier_test(t) \/ detectWork(t) \/ cbarrier_dec(t)

Ended == \A t \in Threads : At(t, "end")
Next == (\E t \in Threads : Thread(t)) \/ (Ended /\ UNCHANGED vars)
Fairness == \A t \in Threads : WF_vars(Thread(t))
Spec == Init /\ [][Next]_vars /\ Fairness

-----------------------------------------------------------------------------
\* No node is expanded twice, by its thread and by a thief.
OnceEach ==
  \A t \in Threads : At(t, "dfs") /\ ss_localDepth(ss[t]) > 0
     /\ ~ss[t].stack[top(ss[t])].expanded => ss[t].stack[top(ss[t])].node \notin visited

\* The barrier is complete, and a thread ends, only when the whole tree has
\* been searched; the nodes counted are those of the tree.
NothingLeft == cb_count = NumThreads \/ (\E t \in Threads : At(t, "end")) => visited = Nodes
Counted ==
  Ended => /\ MapThenSumSet(LAMBDA t : ss[t].nNodes, Threads) = Cardinality(Nodes)
           /\ MapThenSumSet(LAMBDA t : ss[t].nLeaves, Threads) = Cardinality({n \in Nodes : numChildren[n] = 0})

\* A thief that waits has a thread that knows of it: the request is pending
\* there, or being answered, or answered; and it is pending in one place only.
ThiefRemembered ==
  \A t \in Threads : At(t, "wait") =>
    \/ ss[t].stolen_work_addr # WAITING_FOR_WORK
    \/ ss[Victim(t)].req_thread = t
    \/ \E v \in Threads : th[v].pc \in {"grant", "deny"} /\ th[v].to = t

\* Every thread comes to an end.
AllEnd == <>Ended
=============================================================================
