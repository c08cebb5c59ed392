---------------------------- MODULE MCStepQueues ----------------------------
(***************************************************************************)
(* What the threads of a process share: the queues of the scheduler and    *)
(* the tables of the item collections, one of them in each behaviour.      *)
(* Programs for StepQueues: c waits for b's item and then prescribes d; a  *)
(* prescribes b. All of them are started in the order that makes c miss    *)
(* its item. Affinities name two queues; d has the highest priority.       *)
(***************************************************************************)
EXTENDS StepQueues, ItemTable, TLC

CONSTANTS a, b, c, d, p, q, r, x, y

SmallBody == a :> <<<<"tag", b>>>> @@ b :> <<>> @@ c :> <<<<"get", b>>, <<"tag", d>>>> @@ d :> <<>>
SmallEnv == <<<<"tag", c>>, <<"tag", a>>, <<"wait">>>>
SmallAffinity == a :> 1 @@ b :> 2 @@ c :> AFFINITY_HERE @@ d :> 1
SmallPriority == a :> 0 @@ b :> 1 @@ c :> 0 @@ d :> 2

Setting(n, pol, prio, bypass) == [threads |-> n, policy |-> pol, prio |-> prio, bypass |-> bypass]

\* The four policies, with and without priorities; bypass with one thread.
AllConfigs ==
    {Setting(3, pol, prio, FALSE) : pol \in {"single", "steal", "affinity"}, prio \in BOOLEAN}
    \cup {Setting(3, "task", FALSE, FALSE), Setting(1, "steal", FALSE, TRUE)}

\* Bypass with a second thread: see BypassAlone in StepQueuesProofs.
BypassThreads == {Setting(2, "steal", FALSE, TRUE)}

-----------------------------------------------------------------------------
VARIABLE part

allVars == <<part, vars, tableVars>>

\* x is counted and read by two steps. Either the third thread rests, or nobody
\* uses the tag that is not counted.
SmallReaders == x :> {p, q}

ASSUME TableConstants == ConstantsOK

PartsInit ==
  /\ part \in {"queues", "wide", "deep"}
  /\ Init /\ TableInit
  /\ part # "queues" => cfg = Setting(1, "steal", FALSE, TRUE)
  /\ part = "queues" => kind = "vec"

Queues(A) == part = "queues" /\ A /\ UNCHANGED <<part, tableVars>>
Table(A) == part # "queues" /\ A /\ UNCHANGED <<part, vars>>
PartsNext ==
  \/ Queues(Next)
  \/ Table(TableNext /\ IF part = "wide" THEN at'[r] = "idle" ELSE \A th \in Callers : tag'[th] # y)

\* For the fairness see FairSpec of StepQueues.
PartsSpec ==
  /\ PartsInit /\ [][PartsNext]_allVars
  /\ \A th \in 0 .. MaxThreads - 1 : WF_allVars(Queues(th \in Threads /\ ThreadStep(th)))

\* Every step is executed although threads sleep on m_gQueue, and every thread
\* ends: see AllFinish of StepQueues.
QueuesFinish == part = "queues" => AllFinish
=============================================================================
