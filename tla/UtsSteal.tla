------------------------------- MODULE UtsSteal -------------------------------
(***************************************************************************)
(* samples/uts, mpi_workstealing.c: a process without work asks one other  *)
(* process after the other, and a token with a colour and message counts   *)
(* goes round to find out that all work is done.  A white token that comes *)
(* back to a white rank 0 with equal counts of chunks sent and received    *)
(* becomes pink and stops the requests; with equal counts of control       *)
(* messages it becomes red and ends the search.                            *)
(*                                                                         *)
(* Of a pair of counters only the difference (sent minus received) is      *)
(* kept: nothing but their equality is ever tested.  A message that has    *)
(* been sent may be seen by any later MPI_Test of its receiver, so a round *)
(* of the waiting loop that sees nothing is no step.  The polling interval *)
(* adapts itself; here a process may poll at any put.                      *)
(***************************************************************************)
EXTENDS UtsQueue, FiniteSets, FiniteSetsExt

CONSTANTS
  comm_size,         \* number of processes
  Nodes,             \* the nodes of the tree, paths from the root <<>>
  numChildren        \* numChildren[n]: uts_numChildren of node n

Ranks == 0..(comm_size - 1)
NoToken == [color |-> "none", diff |-> 0]

VARIABLES
  proc,      \* per rank: queue, my_color, request outstanding, last_steal, chunks and
             \* control messages sent minus received, token held, and where it is
  net,       \* messages sent and not yet received
  visited    \* the nodes taken from a queue so far

vars == <<proc, net, visited>>

Init ==
  /\ proc = [r \in Ranks |->
       [queue |-> IF r = 0 THEN ss_put_work(<<>>, <<>>) ELSE <<>>, my_color |-> "WHITE", wrout |-> FALSE,
        last_steal |-> r, chunks |-> 0, ctrl |-> 0,
        token |-> IF r = 0 THEN [color |-> "BLACK", diff |-> 0] ELSE NoToken,
        pc |-> "get", node |-> <<>>, i |-> 0, nNodes |-> 0, nLeaves |-> 0]]
  /\ net = {}
  /\ visited = {}

work(r) == localWork(proc[r].queue)
Request(from, to) == [type |-> "WORKREQUEST", from |-> from, to |-> to]
Response(from, to, chunk) == [type |-> "WORKRESPONSE", from |-> from, to |-> to, work |-> chunk]
Token(to, color, diff) == [type |-> "TDTOKEN", to |-> to, color |-> color, diff |-> diff]
For(r, type) == {m \in net : m.type = type /\ m.to = r}

\* ws_make_progress: one request is answered with a block or with "no work".
\* p is the record of rank r.
Progress(r, p) ==
  \E m \in For(r, "WORKREQUEST") :
    IF MayRelease(p.queue)
    THEN /\ proc' = [proc EXCEPT ![r] = [p EXCEPT
              !.queue = deq_popBack(@), !.ctrl = @ - 1, !.chunks = @ + 1,
              !.my_color = IF m.from < r THEN "BLACK" ELSE @]]
         /\ net' = (net \ {m}) \cup {Response(r, m.from, deq_peekBack(p.queue))}
    ELSE /\ proc' = [proc EXCEPT ![r] = p]       \* one control message in, one out
         /\ net' = (net \ {m}) \cup {Response(r, m.from, <<>>)}

\* ss_get_work with local work, and the children of the node: ss_put_work.
GetWork(r) ==
  LET p == proc[r]
      n == NextNode(p.queue)
      leaf == numChildren[n] = 0
  IN /\ p.pc \in {"get", "token"} /\ work(r) > 0
     /\ visited' = visited \cup {n}
     /\ proc' = [proc EXCEPT ![r] = [p EXCEPT
          !.queue = ss_get_work(@), !.nNodes = @ + 1, !.nLeaves = IF leaf THEN @ + 1 ELSE @,
          !.pc = IF leaf THEN "get" ELSE "gen", !.node = n, !.i = 0]]
     /\ UNCHANGED net

PutWork(r) ==
  LET p == proc[r]
      q == [p EXCEPT !.queue = ss_put_work(@, Append(p.node, p.i)), !.i = @ + 1,
                     !.pc = IF p.i + 1 < numChildren[p.node] THEN "gen" ELSE "get"]
  IN /\ p.pc = "gen"
     /\ Progress(r, q) \/ (proc' = [proc EXCEPT ![r] = q] /\ UNCHANGED net)
     /\ UNCHANGED visited

\* ensureLocalWork, the rounds of its loop: ask, answer requests, look for the
\* answer (pc "loop"), then for the token (pc "token"; a round in which no
\* answer was seen looks for it too).
victim(r) == LET v == (proc[r].last_steal + 1) % comm_size IN IF v = r THEN (v + 1) % comm_size ELSE v
Ask(r) ==
  LET p == proc[r]
      asks == ~p.wrout /\ p.my_color # "PINK"
  IN /\ p.pc \in {"get", "token"} /\ work(r) = 0
     /\ proc' = [proc EXCEPT ![r] = [p EXCEPT
          !.pc = "loop", !.wrout = @ \/ asks,
          !.last_steal = IF asks THEN victim(r) ELSE @, !.ctrl = IF asks THEN @ + 1 ELSE @]]
     /\ net' = IF asks THEN net \cup {Request(r, victim(r))} ELSE net
     /\ UNCHANGED visited
Serve(r) == proc[r].pc \in {"loop", "token"} /\ work(r) = 0 /\ Progress(r, proc[r]) /\ UNCHANGED visited

TakeAnswer(r) ==
  \E m \in For(r, "WORKRESPONSE") :
    /\ proc[r].pc = "loop"
    /\ proc' = [proc EXCEPT ![r] = [@ EXCEPT
         !.pc = "token", !.wrout = FALSE,
         !.queue = IF m.work = <<>> THEN @ ELSE deq_pushBack(@, m.work),
         !.chunks = IF m.work = <<>> THEN @ ELSE @ - 1,
         !.ctrl = IF m.work = <<>> THEN @ - 1 ELSE @]]
    /\ net' = net \ {m}
    /\ UNCHANGED visited

AllReceived(d) == d = 0

\* What becomes of the process and of a token of colour c with difference d:
\* <<new colour of the process, colour of the token sent on>>.
Colors(r, c, d) ==
  LET mine == proc[r].my_color
  IN CASE c = "WHITE" /\ r = 0 /\ mine = "WHITE" -> IF AllReceived(d) THEN <<"PINK", "PINK">> ELSE <<"WHITE", "WHITE">>
       [] c = "WHITE" /\ r # 0 /\ mine = "WHITE" -> <<"WHITE", "WHITE">>
       [] c = "WHITE" /\ mine # "WHITE" -> <<"WHITE", "BLACK">>
       [] c = "PINK" -> IF r = 0 /\ AllReceived(d) THEN <<"RED", "RED">> ELSE <<"PINK", "PINK">>
       [] c = "BLACK" -> IF r = 0 THEN <<mine, "WHITE">> ELSE <<"WHITE", "BLACK">>
       [] c = "RED" -> <<"RED", "RED">>

\* A white token waits until the work is done (the completed request is tested
\* again); the last process does not send the red one on.
Keeps_Never(r, t) == FALSE
Keeps(r, t) == t.color = "WHITE" /\ work(r) # 0
HandleToken(r, t, n) ==
  LET p == proc[r]
      new == Colors(r, t.color, t.diff)
      count == IF new[2] = "PINK" THEN p.ctrl ELSE p.chunks
      keeps == Keeps(r, t)
  IN /\ proc' = [proc EXCEPT ![r] =
          IF keeps THEN [p EXCEPT !.pc = "get", !.token = t]
          ELSE [p EXCEPT !.pc = IF new[1] = "RED" THEN "end" ELSE @, !.my_color = new[1], !.token = NoToken]]
     /\ net' = IF keeps \/ (t.color = "RED" /\ r = comm_size - 1) THEN n
               ELSE n \cup {Token((r + 1) % comm_size, new[2], count + IF r = 0 THEN 0 ELSE t.diff)}
     /\ UNCHANGED visited

TakeToken(r) ==
  /\ proc[r].pc \in {"loop", "token"}
  /\ IF proc[r].token # NoToken THEN HandleToken(r, proc[r].token, net)
     ELSE \E m \in For(r, "TDTOKEN") : HandleToken(r, [color |-> m.color, diff |-> m.diff], net \ {m})

Search(r) == GetWork(r) \/ PutWork(r) \/ Ask(r)
Process(r) == Search(r) \/ Serve(r) \/ TakeAnswer(r) \/ TakeToken(r)

Ended == \A r \in Ranks : proc[r].pc = "end"
Next == (\E r \in Ranks : Process(r)) \/ (Ended /\ UNCHANGED vars)

\* Processes go on, and a message is seen by one of the tests that look for it.
Fairness ==
  \A r \in Ranks : WF_vars(Search(r)) /\ WF_vars(Serve(r)) /\ WF_vars(TakeAnswer(r)) /\ WF_vars(TakeToken(r))
Spec == Init /\ [][Next]_vars /\ Fairness

-----------------------------------------------------------------------------
\* No node is searched twice, and a block that is given away is full.
OnceEach ==
  \A r \in Ranks : /\ ReleaseIsFull(proc[r].queue)
                   /\ proc[r].pc # "gen" /\ work(r) > 0 => NextNode(proc[r].queue) \notin visited

\* A process that ends cancels its receives. "This is safe now that the pink
\* token has mopped up all outstanding messages" (mpi_workstealing.c:385): when
\* a process ends, no request, answer or block is on its way.
PinkMoppedUp == (\E r \in Ranks : proc[r].pc = "end") => \A m \in net : m.type = "TDTOKEN"

\* The nodes and leaves counted are those of the tree.
Counted ==
  Ended => /\ MapThenSumSet(LAMBDA r : proc[r].nNodes, Ranks) = Cardinality(Nodes)
           /\ MapThenSumSet(LAMBDA r : proc[r].nLeaves, Ranks) = Cardinality({n \in Nodes : numChildren[n] = 0})

\* Every process comes to an end.
AllEnd == <>Ended
=============================================================================
