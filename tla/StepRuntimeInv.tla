--------------------------- MODULE StepRuntimeInv ---------------------------
(***************************************************************************)
(* An inductive invariant of StepRuntime for programs whose tuners do not  *)
(* sequentialize steps: who has a step in its hands, what its suspend      *)
(* counter is then, which thread holds which item, and what the in-flight  *)
(* counter counts. It implies TypeOK, SuspendersExact, SingleOwner,        *)
(* NoStepLost and WaitExact; with ReplayInv and DeleteInv, below, also     *)
(* GetCountsKept and ImplementsDataflow.                                   *)
(***************************************************************************)
EXTENDS StepRuntime

\* Nothing is set aside for wait_all.
NoneSequential ==
    /\ pendingSteps = <<>> /\ seqSteps = <<>> /\ seq2 = <<>>
    /\ \A s \in Steps : ~sequentialized[s] /\ status[s] \notin {"Pending", "FromPending"}
    /\ \A th \in Threads : pc[th] # "sequentialize" /\ ret[th] # "idle"

\* Where a thread has a step to work on, and where it has none.
Control ==
    \A th \in Threads :
        /\ pc[th] \in {"depends", "prepared", "schedule", "enqueue"} => tgt[th] # Null
        /\ pc[th] \in {"begin", "succeeded", "delete", "failed", "unsuspend"} => job[th] # Null
        /\ pc[th] \in {"idle", "leave"} => job[th] = Null

Unborn(s) ==
    /\ queue[s] = 0
    /\ \A i \in Items : group[i][s] = 0
    /\ \A th \in Threads : job[th] # s /\ tgt[th] # s

\* The life of an instance: born unprepared in the hands of the thread that
\* put the tag, done only in those of the thread that executed it.
UnbornUnseen == \A s \in Steps : status[s] = "None" => Unborn(s)
QueuedPrepared == \A s \in Steps : queue[s] > 0 => status[s] = "Prepared"
TargetAlive ==
    \A th \in Threads :
        /\ pc[th] = "depends" => status[tgt[th]] = "Unprepared"
        /\ pc[th] \in {"schedule", "enqueue"} => status[tgt[th]] = "Prepared"
UnpreparedHeld ==
    \A s \in Steps :
        status[s] = "Unprepared" => \E th \in Threads : tgt[th] = s /\ pc[th] = "depends"
JobAlive ==
    \A th \in Threads :
        job[th] # Null =>
            status[job[th]] = IF pc[th] \in {"succeeded", "delete"} THEN "Done" ELSE "Prepared"

Life == UnbornUnseen /\ QueuedPrepared /\ TargetAlive /\ UnpreparedHeld /\ JobAlive

\* The accessor discipline of the item table.
LockHolder(i, th) ==
    /\ pc[th] \in {"resume", "schedule", "enqueue", "blockForPut"}
    /\ pc[th] \in {"schedule", "enqueue"} => ret[th] = "resume"
    /\ item[i] = IF pc[th] = "blockForPut" THEN "entry" ELSE "stored"

HolderInPlace == \A i \in Items : lock[i] # Null => LockHolder(i, lock[i])
OneAccessor == \A i, j \in Items : lock[i] # Null /\ lock[i] = lock[j] => i = j
CountedIfStored == \A i \in Items : item[i] # "stored" => getCount[i] <= 0
GroupAwaitsPut ==
    \A i \in Items, s \in Steps : group[i][s] > 0 /\ lock[i] = Null => item[i] = "entry"

Locking == HolderInPlace /\ OneAccessor /\ CountedIfStored /\ GroupAwaitsPut

Countable == \A s \in Steps : IsFiniteSet(Registrations(group, s))

\* Ready to run: queued, on the way to a queue, or taken from one.
IsReady(s) ==
    \/ queue[s] > 0
    \/ \E th \in Threads : \/ tgt[th] = s /\ pc[th] \in {"schedule", "enqueue"}
                           \/ job[th] = s /\ pc[th] = "begin"

ReadyUnsuspended == \A s \in Steps : IsReady(s) => nSuspenders[s] = 0

Free(s) == queue[s] = 0 /\ \A th \in Threads : ~Holds(th, s)

FreeSuspended ==
    \A s \in Steps : status[s] \notin {"None", "Done"} /\ Free(s) => nSuspenders[s] >= 1

Shape == Typed /\ NoneSequential /\ Control
Ownership == Life /\ SingleOwner /\ ReadyUnsuspended /\ FreeSuspended
Counting == Countable /\ SuspendersMatch

Inv == Shape /\ Locking /\ Ownership /\ Counting

-----------------------------------------------------------------------------
(* What m_userStepsInFlight counts, and where the environment is meanwhile: *)
(* an inductive invariant on top of Inv that implies WaitExact.            *)

Queued == {s \in Steps : queue[s] >= 1}
Executing == {th \in Threads : job[th] # Null /\ pc[th] # "delete"}
Moving == {th \in Threads : pc[th] \in {"leave", "enqueue"}}
Waiters == IF waitPhase = "none" THEN 0 ELSE 1

\* The sets are finite whatever Steps and Threads are: every step of a thread
\* adds one element at most.
InFlightCounts ==
    /\ IsFiniteSet(Queued) /\ IsFiniteSet(Executing) /\ IsFiniteSet(Moving)
    /\ inFlight = Cardinality(Queued) + Cardinality(Executing) + Cardinality(Moving) + Waiters

WorkersAtLoop == \A w \in Workers : job[w] = Null => pc[w] \in {"idle", "leave"}

\* The environment is in the scheduler's loop exactly while it waits.
EnvInPlace ==
    /\ envIp >= 1
    /\ waitPhase = "none" => job[Env] = Null /\ pc[Env] \notin {"idle", "leave"}
    /\ waitPhase # "none" =>
          /\ pc[Env] \in {"idle", "leave"} \/ job[Env] # Null
          /\ envIp > 1 /\ EnvBody[envIp - 1] = <<"wait">>
    /\ waitPhase \in {"seq", "repost"} => pc[Env] = "idle"
    /\ pc[Env] = "probed" => waitPhase = "none"

WaitOver ==
    \/ waitPhase \in {"seq", "repost"}
    \/ waitPhase = "none" /\ envIp > 1 /\ EnvBody[envIp - 1] = <<"wait">>

\* From the moment wait_all sees only itself until the environment's next put.
QuietOnceOver ==
    WaitOver =>
        /\ \A s \in Steps : queue[s] = 0
        /\ \A w \in Workers : pc[w] \in {"idle", "delete"}
        /\ pc[Env] \in {"run", "probed", "idle"}

WaitInv == InFlightCounts /\ WorkersAtLoop /\ EnvInPlace /\ QuietOnceOver

-----------------------------------------------------------------------------
(* What an execution has behind it, and what that means for the items: an  *)
(* invariant on top of Inv that implies GetCountsKept and carries the      *)
(* refinement of Dataflow.                                                 *)

\* The reads of a step, and the flush_gets after an unsafe_get.
ReadsAt(s, n, i) == n \in 1..Len(Body[s]) /\ Body[s][n] \in {<<"get", i>>, <<"uget", i>>}
FlushedBy(s, m, n) == \E f \in 1..Len(Body[s]) : m < f /\ f < n /\ Body[s][f] = <<"flush">>

\* Whoever comes to place n of s has all its inputs.
InputsBefore(s, n) ==
    \A m \in 1..Len(Body[s]), i \in Items :
        ReadsAt(s, m, i) => m < n /\ (Body[s][m] = <<"uget", i>> => FlushedBy(s, m, n))

\* cnc.h:315, cnc.h:567: flush_gets comes after the last unsafe_get; and a step has no
\* effect before it has its inputs, since it may have to start all over again.
GetsFirst ==
    \A s \in Steps :
        /\ InputsBefore(s, Len(Body[s]) + 1)
        /\ \A n \in 1..Len(Body[s]) :
              (\E x \in Items \cup Steps : Body[s][n] \in {<<"put", x>>, <<"tag", x>>})
                  => InputsBefore(s, n)

Counted(i) == GetCount[i] > 0

PutsAt(s, n, i) == n \in 1..Len(Body[s]) /\ Body[s][n] = <<"put", i>>
EnvPutsAt(n, i) == n \in 1..Len(EnvBody) /\ EnvBody[n] = <<"put", i>>

\* Dynamic single assignment: one operation of the program puts the item.
SingleAssignment(i) ==
    /\ \A s, t \in Steps : \A m \in 1..Len(Body[s]), n \in 1..Len(Body[t]) :
          PutsAt(s, m, i) /\ PutsAt(t, n, i) => s = t /\ m = n
    /\ \A m \in 1..Len(EnvBody) : EnvPutsAt(m, i) =>
          /\ \A n \in 1..Len(EnvBody) : EnvPutsAt(n, i) => n = m
          /\ \A s \in Steps : \A n \in 1..Len(Body[s]) : ~PutsAt(s, n, i)

\* default_tuner.h:472: the count of an item is the number of its gets. It is put
\* once, no step gets it twice, and the environment, whose gets do not count, leaves it.
CountsGiven ==
    \A i \in Items : Counted(i) =>
        /\ IsFiniteSet(Readers(i)) /\ GetCount[i] = Cardinality(Readers(i))
        /\ SingleAssignment(i)
        /\ \A s \in Steps : \A m, n \in 1..Len(Body[s]) :
              ReadsAt(s, m, i) /\ ReadsAt(s, n, i) => m = n
        /\ \A n \in 1..Len(EnvBody) : EnvBody[n] # <<"get", i>>

\* A tuner's depends() names items that the step gets.
DependsOnReads == \A s \in Steps : Depends[s] \subseteq ReadSet(s)

Disciplined == GetsFirst /\ CountsGiven /\ DependsOnReads

\* The thread is in the body of its step or behind it, in an execution that has not failed.
Running(th) == job[th] # Null /\ pc[th] \notin {"begin", "failed", "unsuspend"}

Available(i) == item[i] = "stored" \/ (Counted(i) /\ HasBeenRead(i))

\* An unsafe_get of this execution that found nothing, and no flush_gets has seen it.
Missed(th, n, i) ==
    /\ Body[job[th]][n] = <<"uget", i>>
    /\ wasSuspended[job[th]]
    /\ ~FlushedBy(job[th], n, ip[th])

Held(s, i) == InSeq(i, getList[s])

InBody(th) == ip[th] \in 1..(Len(Body[job[th]]) + 1)
ReadsBehind(th) ==
    \A n \in 1..Len(Body[job[th]]), i \in Items :
        ReadsAt(job[th], n, i) /\ n < ip[th] => Available(i) \/ Missed(th, n, i)
HeldBehind(th) ==
    status[job[th]] # "Done" /\ ~AtBodyEnd(th) =>
        \A n \in 1..Len(Body[job[th]]), i \in Items :
            ReadsAt(job[th], n, i) /\ n < ip[th] /\ Counted(i) =>
                Held(job[th], i) \/ Missed(th, n, i)
PutsBehind(th) ==
    \A n \in 1..Len(Body[job[th]]), i \in Items :
        n < ip[th] /\ Body[job[th]][n] = <<"put", i>> /\ GetCount[i] # 0 => Available(i)
TagsBehind(th) ==
    \A n \in 1..Len(Body[job[th]]), t \in Steps :
        n < ip[th] /\ Body[job[th]][n] = <<"tag", t>> => status[t] # "None"
SuspendedSince(th) ==
    /\ wasSuspended[job[th]] =>
          \E n \in 1..Len(Body[job[th]]), i \in Items : n < ip[th] /\ Missed(th, n, i)
    /\ ~wasSuspended[job[th]] => WaitsFor(job[th]) = {}

Behind(th) ==
    Running(th) => /\ InBody(th) /\ ReadsBehind(th) /\ HeldBehind(th)
                   /\ PutsBehind(th) /\ TagsBehind(th) /\ SuspendedSince(th)

\* A get list holds, once each, the counted items that this execution has got.
GotBy(th, i) ==
    \/ pc[th] = "failed"
    \/ Running(th) /\ \E n \in 1..Len(Body[job[th]]) : ReadsAt(job[th], n, i) /\ n < ip[th]

ListRight(s) ==
    /\ \A m, n \in 1..Len(getList[s]) : getList[s][m] = getList[s][n] => m = n
    /\ \A i \in Items : Held(s, i) =>
          /\ item[i] = "stored" /\ Counted(i) /\ i \in ReadSet(s) /\ status[s] # "Done"
          /\ \E th \in Threads : job[th] = s /\ GotBy(th, i)

\* The readers of i that have not given back their get.
Owed(i) == {s \in Readers(i) : status[s] # "Done" /\ (Commits(s) => Held(s, i))}

CountRight(i) ==
    /\ item[i] # "stored" => getCount[i] = UNSET_GET_COUNT
    /\ item[i] = "stored" =>
          getCount[i] = IF Counted(i) THEN Cardinality(Owed(i)) ELSE NO_GET_COUNT
    /\ item[i] = "stored" => GetCount[i] # 0 /\ (Counted(i) => Owed(i) # {})
    /\ Counted(i) /\ item[i] # "stored" =>
          Owed(i) = Readers(i) \/ (Owed(i) = {} /\ item[i] = "none")

\* The put of i has been executed.
Assigned(i) ==
    \/ \E s \in Steps : \E n \in 1..Len(Body[s]) :
          /\ PutsAt(s, n, i)
          /\ status[s] = "Done" \/ \E th \in Threads : job[th] = s /\ Running(th) /\ n < ip[th]
    \/ \E n \in 1..Len(EnvBody) : n < envIp /\ EnvPutsAt(n, i)

AssignedOnce == \A i \in Items : Counted(i) /\ Available(i) => Assigned(i)

DoneRight(s) ==
    status[s] = "Done" => ReadSet(s) \subseteq {i \in Items : Available(i)} /\ WaitsFor(s) = {}

WaitsForReads ==
    /\ \A s \in Steps : WaitsFor(s) \subseteq ReadSet(s)
    /\ \A th \in Threads : pc[th] = "depends" => deps[th] \subseteq ReadSet(tgt[th])

NoAbort == \A th \in Threads : pc[th] # "abort"

ReplayInv ==
    /\ \A th \in Threads : Behind(th)
    /\ \A s \in Steps : ListRight(s) /\ DoneRight(s)
    /\ \A i \in Items : CountRight(i)
    /\ AssignedOnce /\ WaitsForReads /\ NoAbort

\* Without depends() an instance is prepared in one go, and only the thread that has
\* executed it deletes it.
DeleteInv ==
    /\ \A th \in Threads : pc[th] # "prepared" /\ (pc[th] = "depends" => deps[th] = {})
    /\ \A s \in Steps : status[s] = "Unprepared" => WaitsFor(s) = {}
    /\ \A s \in Steps : deleted[s] <= 1
    /\ \A s \in Steps : deleted[s] > 0 => status[s] = "Done" /\ \A th \in Threads : job[th] # s
=============================================================================
