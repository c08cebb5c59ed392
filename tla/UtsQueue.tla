------------------------------- MODULE UtsQueue -------------------------------
(***************************************************************************)
(* samples/uts: the queue of blocks of nodes that the distributed variants *)
(* of the search (uts_dm.c) keep on each process.  Nodes are put into and  *)
(* taken from the block in front; a full block at the back may be given    *)
(* away.                                                                   *)
(***************************************************************************)
EXTENDS Integers, Sequences, SequencesExt

CONSTANT chunk_size      \* nodes in a full block

deq_isEmpty(q) == q = <<>>
deq_pushFront(q, e) == <<e>> \o q
deq_pushBack(q, e) == Append(q, e)
deq_popFront(q) == Tail(q)
deq_peekFront(q) == Head(q)
deq_popBack_Kept(q) == q
deq_popBack(q) == Front(q)
deq_peekBack(q) == Last(q)

localWork(q) == FoldLeft(LAMBDA n, b : n + Len(b), 0, q)

ss_put_work(q, n) ==
  IF deq_isEmpty(q) \/ Len(deq_peekFront(q)) = chunk_size THEN deq_pushFront(q, <<n>>)
  ELSE [q EXCEPT ![1] = Append(@, n)]
NextNode(q) == Last(deq_peekFront(q))
ss_get_work(q) == IF Len(deq_peekFront(q)) = 1 THEN deq_popFront(q) ELSE [q EXCEPT ![1] = Front(@)]

\* A process gives away a block when it has more than two chunks of work; the
\* code stops if that block is not full.
MayRelease(q) == localWork(q) > 2 * chunk_size
ReleaseIsFull(q) == MayRelease(q) => Len(deq_peekBack(q)) = chunk_size
=============================================================================
