----------------------------- MODULE StepQueues -----------------------------
(***************************************************************************)
(* The schedulers below scheduler_i: the queue scheduler with its local    *)
(* queues, stealing, affinity, priorities and the sleep on m_gQueue        *)
(* (tbb_concurrent_queue_scheduler.cpp), the task scheduler                *)
(* (simplest_scheduler.cpp), and the execution loop of scheduler_i with    *)
(* scheduler bypass. StepRuntime replaces all of this by one bag of steps. *)
(*                                                                         *)
(* A step is reduced to what the scheduler sees: it prescribes steps and   *)
(* waits for items; the item a step puts last is named by the step.        *)
(* Operations are <<"tag", s>>, <<"get", s>> and, for main, <<"wait">>.    *)
(***************************************************************************)
EXTENDS Integers, Sequences, FiniteSets, SequencesExt

CONSTANTS
    Steps,
    None,
    Body,       \* Body[s]: the operations of step s
    EnvBody,    \* the operations of main
    Affinity,   \* Affinity[s]: the queue its tuner asks for, or AFFINITY_HERE
    Priority,   \* Priority[s]: higher is first
    Configs     \* the settings new_scheduler may read from the environment

AFFINITY_HERE == -1

ASSUME QueuesOK ==
    /\ None \notin Steps
    /\ Affinity \in [Steps -> Int] /\ Priority \in [Steps -> Nat]
    /\ Body \in [Steps -> Seq({"tag", "get"} \X Steps)]
    /\ EnvBody \in Seq(({"tag", "get"} \X Steps) \cup {<<"wait">>})
    /\ Configs \subseteq [threads : Nat \ {0}, policy : {"single", "steal", "affinity", "task"},
                          prio : BOOLEAN, bypass : BOOLEAN]

VARIABLES
    cfg,        \* m_numThreads, m_steal, use_affinity, Q and m_bypass of this scheduler
    queues,     \* m_queues; the task group's tasks for the task scheduler
    gQueue,     \* the elements of m_gQueue: "wake" (wakeUpStep) or "null"
    pc, job, ip,
    scan,       \* the loop variable of pop_next
    newS,       \* _newS of do_execute
    rest,       \* the members of the suspend group still to be resumed
    state,      \* of a step: "none", "live" or "done"
    nSuspenders,
    waiters,    \* waiters[s]: the suspend group of the item s puts
    succ,       \* m_succStep
    inFlight,   \* m_userStepsInFlight
    envIp

execVars == <<job, ip, newS, rest>>
stepVars == <<state, nSuspenders, waiters, succ>>
vars == <<cfg, queues, gQueue, pc, scan, execVars, stepVars, inFlight, envIp>>

Threads == 0 .. cfg.threads - 1
Main == 0
Workers == Threads \ {Main}
Queued == cfg.policy # "task"

\* new_scheduler chooses the class; its constructor starts the threads, which
\* look for work at once. Thread 0 is main.
Init ==
    /\ cfg \in Configs
    /\ queues = [i \in Threads |-> <<>>]
    /\ gQueue = <<>>
    /\ pc = [th \in Threads |-> IF th = Main THEN "run" ELSE "pop"]
    /\ job = [th \in Threads |-> None]
    /\ ip = [th \in Threads |-> 1]
    /\ scan = [th \in Threads |-> 0]
    /\ newS = [th \in Threads |-> None]
    /\ rest = [th \in Threads |-> {}]
    /\ state = [s \in Steps |-> "none"]
    /\ nSuspenders = [s \in Steps |-> 0]
    /\ waiters = [s \in Steps |-> {}]
    /\ succ = [s \in Steps |-> None]
    /\ inFlight = 0
    /\ envIp = 1

Goto(th, l) == pc' = [pc EXCEPT ![th] = l]

-----------------------------------------------------------------------------
(* do_schedule *)

\* m_localQueue of the thread; NULL, which stands for queue 0, outside run_steps.
LocalQueue(th) == th

TargetQueue(th, s) ==
    CASE cfg.policy \in {"single", "task"} -> 0
      [] cfg.policy = "affinity" /\ Affinity[s] \in 0 .. cfg.threads - 1 -> Affinity[s]
      [] OTHER -> LocalQueue(th)

\* m_gQueue->size(): negative when threads are blocked in pop.
Asleep == {th \in Threads : pc[th] = "asleep"}
GSize == Len(gQueue) - Cardinality(Asleep)

\* After the push do_schedule looks at m_gQueue, then schedule() returns.
WakeBefore == [run |-> "wake_run", resume |-> "wake_resume"]

\* scheduler_i::schedule( s, true, job[th] ), called in place l of the thread:
\* the step is counted, then made the successor of the running step or pushed.
Counted_Not == inFlight
Counted == inFlight + 1
Schedule(th, s, l) ==
    /\ inFlight' = Counted
    /\ IF cfg.bypass /\ job[th] # None /\ succ[job[th]] = None
       THEN /\ succ' = [succ EXCEPT ![job[th]] = s]
            /\ Goto(th, l)
            /\ UNCHANGED queues
       ELSE /\ queues' = [queues EXCEPT ![TargetQueue(th, s)] = Append(@, s)]
            /\ Goto(th, IF Queued THEN WakeBefore[l] ELSE l)
            /\ UNCHANGED succ

\* "wake another thread if at least one thread is waiting"
WakeAnother(th) ==
    /\ \E l \in {"run", "resume"} : pc[th] = WakeBefore[l] /\ Goto(th, l)
    /\ gQueue' = IF GSize < 0 THEN Append(gQueue, "wake") ELSE gQueue
    /\ UNCHANGED <<cfg, queues, scan, execVars, stepVars, inFlight, envIp>>

-----------------------------------------------------------------------------
(* pop_next *)

\* The elements try_pop may return: the first, or one of highest priority.
Poppable(q) ==
    IF cfg.prio
    THEN {i \in 1 .. Len(q) : \A j \in 1 .. Len(q) : Priority[q[i]] >= Priority[q[j]]}
    ELSE {i \in {1} : q # <<>>}

TryPop(th, k) ==
    \E i \in Poppable(queues[k]) :
        /\ job' = [job EXCEPT ![th] = queues[k][i]]
        /\ queues' = [queues EXCEPT ![k] = RemoveAt(@, i)]
        /\ Goto(th, "begin")
        /\ scan' = [scan EXCEPT ![th] = 0]

\* The queue looked at next: the own one, then all of them starting with the
\* neighbour's; without stealing there is only one.
ScanLength_OwnOnly == 0
ScanLength == IF cfg.policy = "single" THEN 0 ELSE cfg.threads
ScanQueue(th) ==
    IF cfg.policy = "single" THEN 0
    ELSE IF scan[th] = 0 THEN th
    ELSE (th + scan[th]) % cfg.threads

PopFound(th) ==
    /\ pc[th] = "pop" /\ Queued
    /\ TryPop(th, ScanQueue(th))
    /\ UNCHANGED <<cfg, gQueue, ip, newS, rest, stepVars, inFlight, envIp>>

\* Nothing there: go on, and after the last queue block in m_gQueue, except for
\* main, which must not block: it returns to wait.
PopEmpty(th) ==
    /\ pc[th] = "pop" /\ Queued
    /\ queues[ScanQueue(th)] = <<>>
    /\ IF scan[th] < ScanLength
       THEN scan' = [scan EXCEPT ![th] = @ + 1] /\ UNCHANGED <<pc, gQueue>>
       ELSE /\ scan' = [scan EXCEPT ![th] = 0]
            /\ Goto(th, IF th = Main THEN "poll" ELSE "asleep")
            /\ gQueue' = IF th = Main /\ cfg.policy = "single" /\ GSize > 0
                         THEN Tail(gQueue) ELSE gQueue
    /\ UNCHANGED <<cfg, queues, execVars, stepVars, inFlight, envIp>>

\* m_gQueue->pop returns: wakeUpStep makes the thread look again, NULL ends it.
Awake(th) ==
    /\ pc[th] = "asleep"
    /\ gQueue # <<>>
    /\ gQueue' = Tail(gQueue)
    /\ Goto(th, IF Head(gQueue) = "null" THEN "dead" ELSE "pop")
    /\ UNCHANGED <<cfg, queues, scan, execVars, stepVars, inFlight, envIp>>

\* TBB runs a task of the group on a thread of the arena, any time.
RunTask(th) ==
    /\ pc[th] = "pop" /\ ~Queued
    /\ \E i \in 1 .. Len(queues[0]) :
          /\ job' = [job EXCEPT ![th] = queues[0][i]]
          /\ queues' = [queues EXCEPT ![0] = RemoveAt(@, i)]
    /\ Goto(th, "begin")
    /\ UNCHANGED <<cfg, gQueue, scan, ip, newS, rest, stepVars, inFlight, envIp>>

-----------------------------------------------------------------------------
(* scheduler_i::do_execute *)

\* The head of the loop: the step is protected from the puts of other threads.
Begin(th) ==
    /\ pc[th] = "begin"
    /\ nSuspenders' = [nSuspenders EXCEPT ![job[th]] = @ + 1]
    /\ ip' = [ip EXCEPT ![th] = 1]
    /\ Goto(th, "run")
    /\ UNCHANGED <<cfg, queues, gQueue, scan, job, newS, rest, state, waiters, succ, inFlight, envIp>>

Ops(th) == IF job[th] = None THEN EnvBody ELSE Body[job[th]]
Place(th) == IF job[th] = None THEN envIp ELSE ip[th]
AtOp(th, op) == pc[th] = "run" /\ Place(th) <= Len(Ops(th)) /\ Ops(th)[Place(th)] = op
Advance(th) ==
    IF job[th] = None THEN envIp' = envIp + 1 /\ UNCHANGED ip
    ELSE ip' = [ip EXCEPT ![th] = @ + 1] /\ UNCHANGED envIp

\* A tag is put; its step depends on nothing it has to be prepared for.
PutTag(th, t) ==
    /\ AtOp(th, <<"tag", t>>)
    /\ state[t] = "none"
    /\ state' = [state EXCEPT ![t] = "live"]
    /\ Schedule(th, t, "run")
    /\ Advance(th)
    /\ UNCHANGED <<cfg, gQueue, scan, job, newS, rest, nSuspenders, waiters>>

\* An item is there; or a replayed step puts a tag again, which is memoized.
Skip(th, s) ==
    /\ \/ AtOp(th, <<"get", s>>) /\ state[s] = "done"
       \/ AtOp(th, <<"tag", s>>) /\ state[s] # "none"
    /\ Advance(th)
    /\ UNCHANGED <<cfg, queues, gQueue, pc, scan, job, newS, rest, stepVars, inFlight>>

\* get of a missing item suspends the step and throws. (Main blocks instead.)
GetMissing(th, s) ==
    /\ AtOp(th, <<"get", s>>) /\ job[th] # None
    /\ state[s] # "done"
    /\ waiters' = [waiters EXCEPT ![s] = @ \cup {job[th]}]
    /\ nSuspenders' = [nSuspenders EXCEPT ![job[th]] = @ + 1]
    /\ Goto(th, "failed")
    /\ UNCHANGED <<cfg, queues, gQueue, scan, execVars, state, succ, inFlight, envIp>>

\* The last put of the step: its suspend group is to be resumed.
PutItem(th) ==
    /\ pc[th] = "run" /\ job[th] # None /\ ip[th] > Len(Body[job[th]])
    /\ state' = [state EXCEPT ![job[th]] = "done"]
    /\ rest' = [rest EXCEPT ![th] = waiters[job[th]]]
    /\ waiters' = [waiters EXCEPT ![job[th]] = {}]
    /\ Goto(th, "resume")
    /\ UNCHANGED <<cfg, queues, gQueue, scan, job, ip, newS, nSuspenders, succ, inFlight, envIp>>

\* re_schedule for one member of the group
Resume(th, s) ==
    /\ pc[th] = "resume" /\ s \in rest[th]
    /\ rest' = [rest EXCEPT ![th] = @ \ {s}]
    /\ nSuspenders' = [nSuspenders EXCEPT ![s] = @ - 1]
    /\ IF nSuspenders[s] = 1
       THEN Schedule(th, s, "resume")
       ELSE UNCHANGED <<pc, queues, succ, inFlight>>
    /\ UNCHANGED <<cfg, gQueue, scan, job, ip, newS, state, waiters, envIp>>

\* What the thread does when do_execute leaves its loop
AfterExecute(th) == IF th = Main THEN "poll" ELSE "pop"

\* s = _newS == s ? NULL : _newS, and the loop goes on if there is an s
Continue(th, n) ==
    LET next == IF n = job[th] THEN None ELSE n
    IN  /\ job' = [job EXCEPT ![th] = next]
        /\ Goto(th, IF next = None THEN AfterExecute(th) ELSE "begin")

\* CNC_Success: the step is not counted any more and deleted.
Succeed(th) ==
    /\ pc[th] = "resume" /\ rest[th] = {}
    /\ inFlight' = inFlight - 1
    /\ Continue(th, succ[job[th]])
    /\ UNCHANGED <<cfg, queues, gQueue, scan, ip, newS, rest, stepVars, envIp>>

\* Failure: _newS is read before the step is let go.
ReadSuccessor(th) ==
    /\ pc[th] = "failed"
    /\ newS' = [newS EXCEPT ![th] = succ[job[th]]]
    /\ Goto(th, "unsuspend")
    /\ UNCHANGED <<cfg, queues, gQueue, scan, job, ip, rest, stepVars, inFlight, envIp>>

\* "oops, all deps available now -> just re-execute"
Reexecutes_Never(s) == FALSE
Reexecutes(s) == nSuspenders[s] = 1

Unsuspend(th) ==
    /\ pc[th] = "unsuspend"
    /\ nSuspenders' = [nSuspenders EXCEPT ![job[th]] = @ - 1]
    /\ Goto(th, IF Reexecutes(job[th]) THEN "begin" ELSE "leave")
    /\ UNCHANGED <<cfg, queues, gQueue, scan, execVars, state, waiters, succ, inFlight, envIp>>

\* The thread has let go of the step; with bypass it still writes m_succStep.
LeaveSuspended(th) ==
    /\ pc[th] = "leave"
    /\ inFlight' = inFlight - 1
    /\ succ' = IF ~cfg.bypass THEN succ
               ELSE [s \in Steps |-> CASE s = job[th] -> None
                                       [] s = newS[th] /\ s # job[th] -> s
                                       [] OTHER -> succ[s]]
    /\ Continue(th, newS[th])
    /\ newS' = [newS EXCEPT ![th] = None]
    /\ UNCHANGED <<cfg, queues, gQueue, scan, ip, rest, state, nSuspenders, waiters, envIp>>

-----------------------------------------------------------------------------
(* wait, and the end of the process *)

EnvWait ==
    /\ AtOp(Main, <<"wait">>) /\ job[Main] = None
    /\ inFlight' = inFlight + 1
    /\ Goto(Main, "poll")
    /\ UNCHANGED <<cfg, queues, gQueue, scan, execVars, stepVars, envIp>>

GroupEmpty == queues[0] = <<>> /\ \A th \in Threads : job[th] = None

\* steps_in_flight > 1, or m_taskGroup.wait()
StillRunning_TooFew == inFlight > 2
StillRunning_CountsWaiter == inFlight > 0
StillRunning == IF Queued THEN inFlight > 1 ELSE ~GroupEmpty

\* One turn of the loop in wait: main helps, or wait returns.
Poll ==
    /\ pc[Main] = "poll"
    /\ IF StillRunning
       THEN Goto(Main, "pop") /\ UNCHANGED <<inFlight, envIp>>
       ELSE Goto(Main, "run") /\ inFlight' = inFlight - 1 /\ envIp' = envIp + 1
    /\ UNCHANGED <<cfg, queues, gQueue, scan, execVars, stepVars>>

\* Main waits for the group without finding a task of it to run.
WaitForGroup ==
    /\ pc[Main] = "pop" /\ ~Queued
    /\ Goto(Main, "poll")
    /\ UNCHANGED <<cfg, queues, gQueue, scan, execVars, stepVars, inFlight, envIp>>

\* ~tcq_init: a NULL for every thread, then join. (The task scheduler has no
\* threads of its own.)
Exit ==
    /\ pc[Main] = "run" /\ job[Main] = None /\ envIp > Len(EnvBody)
    /\ Goto(Main, "joining")
    /\ gQueue' = IF Queued THEN gQueue \o [i \in 1 .. cfg.threads |-> "null"] ELSE gQueue
    /\ UNCHANGED <<cfg, queues, scan, execVars, stepVars, inFlight, envIp>>

Join ==
    /\ pc[Main] = "joining"
    /\ Queued => \A w \in Workers : pc[w] = "dead"
    /\ Goto(Main, "dead")
    /\ UNCHANGED <<cfg, queues, gQueue, scan, execVars, stepVars, inFlight, envIp>>

ThreadStep(th) ==
    \/ WakeAnother(th) \/ PopFound(th) \/ PopEmpty(th) \/ Awake(th) \/ RunTask(th)
    \/ Begin(th) \/ PutItem(th) \/ Succeed(th) \/ ReadSuccessor(th) \/ Unsuspend(th)
    \/ LeaveSuspended(th)
    \/ \E s \in Steps : PutTag(th, s) \/ Skip(th, s) \/ GetMissing(th, s) \/ Resume(th, s)
    \/ th = Main /\ (EnvWait \/ Poll \/ WaitForGroup \/ Exit \/ Join)

Terminated == pc[Main] = "dead" /\ UNCHANGED vars

Next == (\E th \in Threads : ThreadStep(th)) \/ Terminated

Spec == Init /\ [][Next]_vars

\* The operating system runs every thread; a thread that blocks in m_gQueue has
\* no step to take, and TBB runs the tasks it was given.
MaxThreads == 3
FairSpec == Spec /\ \A th \in 0 .. MaxThreads - 1 : WF_vars(th \in Threads /\ ThreadStep(th))

-----------------------------------------------------------------------------
(* Properties *)

\* A thread executes a step until it lets go of it.
Runs(th, s) == job[th] = s /\ pc[th] # "leave"

\* A thread has a step to run next: the successor of the one it runs.
Inherits(th, s) ==
    \/ pc[th] \in {"unsuspend", "leave"} /\ newS[th] = s /\ job[th] # s
    \/ /\ job[th] # None /\ pc[th] \notin {"unsuspend", "leave"}
       /\ succ[job[th]] = s /\ job[th] # s

\* Where a ready step is: places in the queues, the threads that run it, and
\* those that will run it next.
QueuePlaces(s) ==
    UNION {{<<"queue", k, i>> : i \in {j \in 1 .. Len(queues[k]) : queues[k][j] = s}} : k \in Threads}
Places(s) ==
    QueuePlaces(s) \cup {<<"runs", th, 0>> : th \in {u \in Threads : Runs(u, s)}}
                   \cup {<<"next", th, 0>> : th \in {u \in Threads : Inherits(u, s)}}

\* What is declared in schedulable.h and tbb_concurrent_queue_scheduler.h, and
\* no suspend counter is negative.
TypeOK ==
    /\ queues \in [Threads -> Seq(Steps)]
    /\ gQueue \in Seq({"wake", "null"})
    /\ job \in [Threads -> Steps \cup {None}]
    /\ nSuspenders \in [Steps -> Nat]
    /\ inFlight \in Nat

\* main.dox:1126-1131: bypass executes a successor without the normal
\* scheduling procedure. Whatever the policy, a step that waits for no item is
\* in one place: queued, executed or next in line.
InOnePlace ==
    \A s \in Steps :
        /\ \A p1, p2 \in Places(s) : p1 = p2
        /\ state[s] = "live" /\ (\A u \in Steps : s \notin waiters[u])
             /\ (\A th \in Threads : s \notin rest[th]) => Places(s) # {}

\* scheduler_i.h:168-170: the counter wait is given never misses a step, so a
\* NULL reaches a worker only when all queues are empty (~tcq_init asserts it).
StopLeavesNothing ==
    (\E th \in Threads : pc[th] = "dead") =>
        \A k \in Threads : queues[k] = <<>> /\ job[k] = None

\* Every prescribed step is executed, in whatever queue it is and whoever
\* sleeps, once main is in wait.
StepsFinish == <>[](\A s \in Steps : state[s] # "none" => state[s] = "done")

\* The threads end although they sleep in m_gQueue, and main can join them.
ThreadsEnd == <>(pc[Main] = "dead")

\* A step instance is in one queue or in the hands of one thread, and the threads
\* stop only when no step is left anywhere.
NothingMislaid == TypeOK /\ InOnePlace /\ StopLeavesNothing

\* Every step is executed although threads sleep on m_gQueue, and every thread ends.
AllFinish == StepsFinish /\ ThreadsEnd
=============================================================================
