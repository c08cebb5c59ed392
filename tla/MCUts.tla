-------------------------------- MODULE MCUts --------------------------------
(***************************************************************************)
(* The parallel variants of the unbalanced tree search, each on a tree of  *)
(* another type.  impl is the variant that runs: th are its threads or     *)
(* processes, mem the stacks, the shared queue or the queue manager, cb    *)
(* the barrier and net the messages.                                       *)
(***************************************************************************)
EXTENDS UtsTree

CONSTANTS
  Impls,        \* the variants that are checked
  StealTree,    \* the tree and the number of processes of the work stealing
  StealProcs

VARIABLES impl, th, mem, cb, net, visited

vars == <<impl, th, mem, cb, net, visited>>

Tree(type, rootId, b_0, gen_mx, nonLeafBF, nonLeafProb) ==
  [type |-> type, rootId |-> rootId, b_0 |-> b_0, gen_mx |-> gen_mx, shape |-> "FIX",
   nonLeafBF |-> nonLeafBF, nonLeafProb |-> nonLeafProb, shift |-> 1]
Size(p) == LET all == Levels(p, 4) IN [n \in all |-> uts_numChildren(p, n)]

GeoTree == Size(Tree("GEO", 14, 3, 2, 0, 0))           \* 6 nodes
HybridTree == Size(Tree("HYBRID", 1, 3, 2, 2, 5))      \* 6 nodes
BalancedTree == Size(Tree("BALANCED", 0, 2, 2, 0, 0))  \* 7 nodes
BinTree == Size(Tree("BIN", 0, 4, 0, 3, 3))            \* 8 nodes
DeepTree == Size(Tree("BIN", 6, 4, 0, 3, 4))           \* 11 nodes, three levels below the root
ASSUME TreesOK == \A t \in {GeoTree, HybridTree, BalancedTree, BinTree, DeepTree} : Cardinality(DOMAIN t) \in 6..11

Shm == INSTANCE UtsShm WITH NumThreads <- 3, chunkSize <- 1, cbint <- 1, StackSize <- 10,
         Nodes <- DOMAIN GeoTree, numChildren <- GeoTree, ss <- mem
Upc == INSTANCE UtsUpc WITH NumThreads <- 3, chunkSize <- 1, stealPollInterval <- 1,
         Nodes <- DOMAIN HybridTree, numChildren <- HybridTree, ss <- mem, cb_count <- cb
Steal == INSTANCE UtsSteal WITH comm_size <- StealProcs, chunk_size <- 1,
         Nodes <- DOMAIN StealTree, numChildren <- StealTree, proc <- th
Manager == INSTANCE UtsManager WITH comm_size <- 4, chunk_size <- 1,
         Nodes <- DOMAIN BalancedTree, numChildren <- BalancedTree, proc <- th, wqm <- mem
Global == INSTANCE UtsGlobal WITH THREADS <- 3, chunk_size <- 1,
         Nodes <- DOMAIN BinTree, numChildren <- BinTree, globalQueue <- mem

Off == "off"
Init ==
  /\ impl \in Impls
  /\ \/ impl = "shm" /\ Shm!Init /\ net = Off
     \/ impl = "upc" /\ Upc!Init /\ net = Off
     \/ impl = "steal" /\ Steal!Init /\ mem = Off /\ cb = Off
     \/ impl = "manager" /\ Manager!Init /\ cb = Off
     \/ impl = "global" /\ Global!Init /\ net = Off

Runs(name, A) == impl = name /\ A /\ UNCHANGED impl
ShmThread(t) == Runs("shm", Shm!Thread(t)) /\ UNCHANGED net
UpcThread(t) == Runs("upc", Upc!Thread(t)) /\ UNCHANGED net
StealProcess(r) == Runs("steal", Steal!Process(r)) /\ UNCHANGED <<mem, cb>>
ManagerWorker(r) == Runs("manager", Manager!Worker(r)) /\ UNCHANGED cb
ManagerManages == Runs("manager", Manager!Manage) /\ UNCHANGED cb
GlobalThread(t) == Runs("global", Global!Thread(t)) /\ UNCHANGED net

Ended ==
  \/ impl = "shm" /\ Shm!Ended
  \/ impl = "upc" /\ Upc!Ended
  \/ impl = "steal" /\ Steal!Ended
  \/ impl = "manager" /\ Manager!Ended
  \/ impl = "global" /\ Global!Ended

Agents == 0..3
Agent(t) ==
  \/ t < 3 /\ (ShmThread(t) \/ UpcThread(t) \/ ManagerWorker(t) \/ GlobalThread(t))
  \/ t < StealProcs /\ StealProcess(t)
  \/ t = 3 /\ ManagerManages
Next == (\E t \in Agents : Agent(t)) \/ (Ended /\ UNCHANGED vars)

\* The fairness of the variants: only one of them runs.
Spec ==
  /\ Init /\ [][Next]_vars
  /\ \A t \in Agents : WF_vars(Agent(t))
  /\ \A r \in 0..(StealProcs - 1) :
       /\ WF_vars(Runs("steal", Steal!Search(r)) /\ UNCHANGED <<mem, cb>>)
       /\ WF_vars(Runs("steal", Steal!Serve(r)) /\ UNCHANGED <<mem, cb>>)
       /\ WF_vars(Runs("steal", Steal!TakeAnswer(r)) /\ UNCHANGED <<mem, cb>>)
       /\ WF_vars(Runs("steal", Steal!TakeToken(r)) /\ UNCHANGED <<mem, cb>>)

-----------------------------------------------------------------------------
\* What the modules of the variants state.  No node is searched twice.
OnceEach ==
  /\ impl = "shm" => Shm!OnceEach
  /\ impl = "upc" => Upc!OnceEach
  /\ impl = "steal" => Steal!OnceEach
  /\ impl = "manager" => Manager!OnceEach
  /\ impl = "global" => Global!OnceEach

\* A thread of uts_shm.c or uts_upc_enhanced.c ends only when all is searched.
NothingLeft == (impl = "shm" => Shm!NothingLeft) /\ (impl = "upc" => Upc!NothingLeft)

\* The checks of uts_shm.c (overflow, room for a stolen chunk, chunks released
\* equal to chunks acquired and stolen) hold.
ChecksHold == impl = "shm" => Shm!ChecksHold

\* uts_upc_enhanced.c: a thief that waits is known to one thread.
ThiefRemembered == impl = "upc" => Upc!ThiefRemembered

\* Nodes and leaves add up to those of the tree.
Counted == (impl = "upc" => Upc!Counted) /\ (impl = "steal" => Steal!Counted)

\* mpi_workstealing.c:385: "the pink token has mopped up all outstanding messages".
PinkMoppedUp == impl = "steal" => Steal!PinkMoppedUp

\* The checks of the queue manager of mpi_worksharing.c hold.
ManagerChecks == impl = "manager" => Manager!ManagerChecks

\* upc_worksharing.c announces the end only when all is searched.
DoneWhenSearched == impl = "global" => Global!DoneWhenSearched

\* Every thread and process comes to an end.
AllEnd == <>Ended

\* Every node is searched once, nobody ends before all of them are, and the nodes
\* and leaves that are reported are those of the tree.
SearchedOnce == OnceEach /\ NothingLeft /\ DoneWhenSearched /\ Counted

\* What the programs check themselves, and what the thieves rely on.
ChecksPass == ChecksHold /\ ManagerChecks /\ ThiefRemembered
=============================================================================
