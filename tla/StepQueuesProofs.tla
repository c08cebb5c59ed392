-------------------------- MODULE StepQueuesProofs --------------------------
(***************************************************************************)
(* Proofs about StepQueues for any number of steps and threads, in every   *)
(* setting of the scheduler; with bypass, for one thread.                  *)
(***************************************************************************)
EXTENDS StepQueues, FiniteSetTheorems, SequenceTheorems, TLAPS

-----------------------------------------------------------------------------
(* The inductive invariant *)

\* Where a thread may be.
Pcs == {"run", "wake_run", "resume", "wake_resume", "pop", "asleep", "dead", "begin",
        "failed", "unsuspend", "leave", "poll", "joining"}
\* Where a thread has a step, and where it keeps others from scheduling it.
WorkPcs == {"begin", "run", "wake_run", "resume", "wake_resume", "failed", "unsuspend", "leave"}
GuardPcs == WorkPcs \ {"begin", "leave"}
PutPcs == {"resume", "wake_resume"}
\* Where a worker, or main, is without one.
FreePcs == {"pop", "asleep", "dead"}
MainPcs == {"run", "wake_run", "pop", "poll", "joining", "dead"}

\* With bypass there is one thread. (do_execute resets m_succStep of a step it has let
\* go of, which a second thread may be executing again.)
BypassAlone == \A c \in Configs : c.bypass => c.threads = 1

\* Types, stronger than TypeOK; cfg never changes.
Typed ==
    /\ cfg \in Configs /\ (cfg.bypass => cfg.threads = 1)
    /\ queues \in [Threads -> Seq(Steps)]
    /\ gQueue \in Seq({"wake", "null"})
    /\ pc \in [Threads -> Pcs]
    /\ job \in [Threads -> Steps \cup {None}] /\ newS \in [Threads -> Steps \cup {None}]
    /\ ip \in [Threads -> Nat] /\ scan \in [Threads -> Nat]
    /\ rest \in [Threads -> SUBSET Steps]
    /\ state \in [Steps -> {"none", "live", "done"}]
    /\ nSuspenders \in [Steps -> Nat]
    /\ waiters \in [Steps -> SUBSET Steps]
    /\ succ \in [Steps -> Steps \cup {None}]
    /\ envIp \in Nat \ {0}

\* Where a thread is when it has a step, and what the step is like.
Control ==
    \A th \in Threads :
        /\ job[th] # None => pc[th] \in WorkPcs
        /\ job[th] = None => pc[th] \in IF th = Main THEN MainPcs ELSE FreePcs
        /\ rest[th] # {} => pc[th] \in PutPcs /\ job[th] # None
        /\ job[th] # None /\ pc[th] # "leave" =>
              state[job[th]] = IF pc[th] \in PutPcs THEN "done" ELSE "live"

\* m_succStep is used with bypass only, and only of the step that runs.
Successors ==
    /\ ~cfg.bypass => (\A s \in Steps : succ[s] = None) /\ \A th \in Threads : newS[th] = None
    /\ cfg.bypass =>
          /\ \A s \in Steps : state[s] # "done" /\ s # job[Main] => succ[s] = None
          /\ pc[Main] \in {"unsuspend", "leave"} => newS[Main] = succ[job[Main]]

\* The place of a step: in a queue, in the hands of a thread, or next in line.
InQueue(s) == \E k \in Threads : \E i \in 1 .. Len(queues[k]) : queues[k][i] = s
QueuedOnce(s) ==
    \A k, l \in Threads : \A i \in 1 .. Len(queues[k]), j \in 1 .. Len(queues[l]) :
        queues[k][i] = s /\ queues[l][j] = s => k = l /\ i = j
Placed(s) == InQueue(s) \/ \E th \in Threads : Runs(th, s) \/ Inherits(th, s)

\* A step is in one place.
Once(s) ==
    /\ QueuedOnce(s)
    /\ \A th, u \in Threads :
          /\ Runs(th, s) /\ Runs(u, s) => th = u
          /\ Inherits(th, s) /\ Inherits(u, s) => th = u
          /\ ~(Runs(th, s) /\ Inherits(u, s))
          /\ InQueue(s) => ~Runs(th, s) /\ ~Inherits(th, s)

\* A step waits for one item at a time.
Waiting(s) == (\E u \in Steps : s \in waiters[u]) \/ (\E th \in Threads : s \in rest[th])
WaitsOnce(s) ==
    /\ \A u, v \in Steps : s \in waiters[u] /\ s \in waiters[v] => u = v
    /\ \A th, u \in Threads : s \in rest[th] /\ s \in rest[u] => th = u
    /\ \A u \in Steps, th \in Threads : ~(s \in waiters[u] /\ s \in rest[th])

\* The suspend that do_execute adds while it executes the step.
Guarded(s) == \E th \in Threads : job[th] = s /\ pc[th] \in GuardPcs
One(P) == IF P THEN 1 ELSE 0

\* What holds of a step instance: m_nSuspenders counts the group it is in and the
\* guard of do_execute; it is never both queued and waiting for an item.
StepRight(s) ==
    /\ Once(s) /\ WaitsOnce(s)
    /\ state[s] = "none" => ~Placed(s) /\ ~Waiting(s) /\ nSuspenders[s] = 0
    /\ state[s] = "live" => /\ Placed(s) \/ Waiting(s)
                            /\ nSuspenders[s] = One(Waiting(s)) + One(Guarded(s))
    /\ state[s] = "done" =>
          /\ ~Waiting(s) /\ ~InQueue(s)
          /\ \A th \in Threads : ~Inherits(th, s)
    /\ Placed(s) /\ ~Guarded(s) => ~Waiting(s)
    /\ \A th \in Threads : job[th] = s /\ pc[th] \in {"run", "wake_run"} => ~Waiting(s)

\* What m_userStepsInFlight counts.
Ready == {s \in Steps : Placed(s)}
Leaving == {th \in Threads : pc[th] = "leave"}
InWait == pc[Main] \in {"poll", "pop"} \/ job[Main] # None

\* m_userStepsInFlight: the ready steps, those just suspended, and main in wait.
InFlightCounts ==
    /\ IsFiniteSet(Ready)
    /\ inFlight = Cardinality(Ready) + Cardinality(Leaving) + One(InWait)

\* Where main is, and that a NULL is sent at the end only.
EnvInPlace ==
    /\ InWait => envIp <= Len(EnvBody) /\ EnvBody[envIp] = <<"wait">>
    /\ ~Queued => \A k \in Threads : k # 0 => queues[k] = <<>>
    /\ pc[Main] \in {"joining", "dead"} => envIp > Len(EnvBody)
    /\ (\E i \in 1 .. Len(gQueue) : gQueue[i] = "null") \/ (\E th \in Threads : pc[th] = "dead")
          => pc[Main] \in {"joining", "dead"}

\* main's last operation is wait.
WaitsLast == EnvBody # <<>> /\ EnvBody[Len(EnvBody)] = <<"wait">>

\* When main is through, nothing is left.
EmptyAtEnd ==
    ~InWait /\ envIp > Len(EnvBody) =>
        \A th \in Threads : queues[th] = <<>> /\ job[th] = None

\* The inductive invariant.
QueuesInv ==
    /\ Typed /\ Control /\ Successors
    /\ \A s \in Steps : StepRight(s)
    /\ InFlightCounts /\ EnvInPlace

-----------------------------------------------------------------------------
(* Facts *)

\* The threads are numbered, and with bypass there is one.
LEMMA ThreadFacts ==
    ASSUME Typed
    PROVE  /\ Main \in Threads /\ None \notin Steps /\ IsFiniteSet(Threads)
           /\ cfg.threads \in Nat \ {0} /\ (cfg.bypass => Threads = {Main})
           /\ cfg.bypass \in BOOLEAN
<1>1. /\ cfg.threads \in Nat \ {0} /\ (cfg.bypass => cfg.threads = 1) /\ None \notin Steps
      /\ cfg.bypass \in BOOLEAN
  BY QueuesOK DEF Typed
<1>2. Main \in Threads /\ (cfg.bypass => Threads = {Main})
  BY <1>1 DEF Threads, Main
<1>3. IsFiniteSet(Threads)
  BY <1>1, FS_Interval DEF Threads
<1> QED BY <1>1, <1>2, <1>3

\* A push.
LEMMA AppendQueue ==
    ASSUME Typed, NEW k \in Threads, NEW s \in Steps, cfg' = cfg,
           queues' = [queues EXCEPT ![k] = Append(@, s)]
    PROVE  /\ queues' \in [Threads -> Seq(Steps)]
           /\ \A t \in Steps : t # s => (InQueue(t)' <=> InQueue(t)) /\ (QueuedOnce(t) => QueuedOnce(t)')
           /\ InQueue(s)' /\ (~InQueue(s) => QueuedOnce(s)')
           /\ \A l \in Threads : l # k => queues'[l] = queues[l]
<1>a. queues \in [Threads -> Seq(Steps)] /\ Threads' = Threads
  BY DEF Typed, Threads
<1>0. /\ queues \in [Threads -> Seq(Steps)] /\ Threads' = Threads
      /\ queues' \in [Threads -> Seq(Steps)]
      /\ \A l \in Threads : queues'[l] = IF l = k THEN Append(queues[k], s) ELSE queues[l]
  BY <1>a
<1>1. \A l \in Threads : Len(queues[l]) \in Nat
  BY <1>0
<1>2. /\ Len(queues'[k]) = Len(queues[k]) + 1 /\ queues'[k][Len(queues[k]) + 1] = s
      /\ \A i \in 1 .. Len(queues[k]) : queues'[k][i] = queues[k][i]
  BY <1>0
<1>3. \A l \in Threads : \A i \in 1 .. Len(queues'[l]) :
        \/ i \in 1 .. Len(queues[l]) /\ queues'[l][i] = queues[l][i]
        \/ l = k /\ i = Len(queues[k]) + 1 /\ queues'[l][i] = s
  BY <1>0, <1>1, <1>2
<1>4. \A l \in Threads : \A i \in 1 .. Len(queues[l]) :
        i \in 1 .. Len(queues'[l]) /\ queues'[l][i] = queues[l][i]
  BY <1>0, <1>1, <1>2
<1>5. Len(queues[k]) + 1 \in 1 .. Len(queues'[k])
  BY <1>1, <1>2
<1>6. ASSUME NEW t \in Steps, t # s PROVE (InQueue(t)' <=> InQueue(t)) /\ (QueuedOnce(t) => QueuedOnce(t)')
  BY <1>0, <1>3, <1>4, <1>6 DEF InQueue, QueuedOnce
<1>7. InQueue(s)'
  BY <1>0, <1>2, <1>5 DEF InQueue
<1>8. ~InQueue(s) => QueuedOnce(s)'
  BY <1>0, <1>3 DEF InQueue, QueuedOnce
<1> QED BY <1>0, <1>6, <1>7, <1>8

\* RemoveAt keeps the others and their order.
LEMMA RemoveElement ==
    ASSUME NEW q \in Seq(Steps), NEW i \in 1 .. Len(q)
    PROVE  LET r == RemoveAt(q, i)
           IN  /\ r \in Seq(Steps) /\ Len(r) = Len(q) - 1
               /\ \A j \in 1 .. Len(r) : r[j] = q[IF j < i THEN j ELSE j + 1]
<1> DEFINE a == SubSeq(q, 1, i - 1)
           b == SubSeq(q, i + 1, Len(q))
<1>1. a \in Seq(Steps) /\ Len(a) = i - 1 /\ \A j \in 1 .. Len(a) : a[j] = q[j]
  BY SubSeqProperties
<1>2. b \in Seq(Steps) /\ Len(b) = Len(q) - i /\ \A j \in 1 .. Len(b) : b[j] = q[i + j]
  BY SubSeqProperties
<1> HIDE DEF a, b
<1>c. /\ a \o b \in Seq(Steps) /\ Len(a \o b) = Len(a) + Len(b)
      /\ \A j \in 1 .. Len(a) + Len(b) : (a \o b)[j] = IF j <= Len(a) THEN a[j] ELSE b[j - Len(a)]
  BY <1>1, <1>2, ConcatProperties, Zenon
<1>d. Len(q) \in Nat
  OBVIOUS
<1>3. /\ a \o b \in Seq(Steps) /\ Len(a \o b) = Len(q) - 1
      /\ \A j \in 1 .. Len(a \o b) : (a \o b)[j] = IF j <= Len(a) THEN a[j] ELSE b[j - Len(a)]
  BY <1>1, <1>2, <1>c, <1>d
<1>4. \A j \in 1 .. Len(a \o b) : (a \o b)[j] = q[IF j < i THEN j ELSE j + 1]
  BY <1>1, <1>2, <1>3
<1> QED BY <1>3, <1>4 DEF RemoveAt, a, b

\* A pop.
LEMMA RemoveFromQueue ==
    ASSUME Typed, NEW k \in Threads, NEW i \in 1 .. Len(queues[k]), cfg' = cfg,
           NEW s \in Steps, s = queues[k][i], queues' = [queues EXCEPT ![k] = RemoveAt(@, i)]
    PROVE  /\ queues' \in [Threads -> Seq(Steps)] /\ InQueue(s)
           /\ \A t \in Steps : t # s => (InQueue(t)' <=> InQueue(t))
           /\ \A t \in Steps : QueuedOnce(t) => QueuedOnce(t)'
           /\ QueuedOnce(s) => ~InQueue(s)'
           /\ \A l \in Threads : l # k => queues'[l] = queues[l]
<1> DEFINE q == queues[k]
           r == RemoveAt(q, i)
<1>a. queues \in [Threads -> Seq(Steps)] /\ Threads' = Threads
  BY DEF Typed, Threads
<1>0. q \in Seq(Steps) /\ \A l \in Threads : Len(queues[l]) \in Nat
  BY <1>a
<1>1. /\ r \in Seq(Steps) /\ Len(r) = Len(q) - 1
      /\ \A j \in 1 .. Len(r) : r[j] = q[IF j < i THEN j ELSE j + 1]
  BY <1>0, RemoveElement
<1> HIDE DEF r
<1>2. /\ queues' \in [Threads -> Seq(Steps)] /\ queues' = [queues EXCEPT ![k] = r]
      /\ \A l \in Threads : queues'[l] = IF l = k THEN r ELSE queues[l]
  BY <1>a, <1>0, <1>1 DEF r
<1>3. InQueue(s)
  BY <1>a, <1>0 DEF InQueue
<1> DEFINE old(l, j) == IF l = k /\ j >= i THEN j + 1 ELSE j
<1>4. \A l \in Threads : \A j \in 1 .. Len(queues'[l]) :
        /\ old(l, j) \in 1 .. Len(queues[l]) /\ queues'[l][j] = queues[l][old(l, j)]
        /\ ~(l = k /\ old(l, j) = i)
  BY <1>a, <1>0, <1>1, <1>2
<1>5. \A l \in Threads : \A j, m \in 1 .. Len(queues'[l]) : old(l, j) = old(l, m) => j = m
  BY <1>a, <1>0, <1>1, <1>2
<1>6. ASSUME NEW l \in Threads, NEW j \in 1 .. Len(queues[l]), ~(l = k /\ j = i)
      PROVE  \E m \in 1 .. Len(queues'[l]) : queues'[l][m] = queues[l][j]
  <2>1. CASE l # k
    BY <1>a, <1>0, <1>2, <2>1
  <2>2. CASE l = k /\ j < i
    <3>1. j \in 1 .. Len(queues'[l]) /\ queues'[l][j] = queues[l][j]
      BY <1>a, <1>0, <1>1, <1>2, <2>2
    <3> QED BY <3>1
  <2>3. CASE l = k /\ j > i
    <3>0. j \in Nat /\ i \in Nat /\ j <= Len(q) /\ queues'[l] = r /\ Len(q) \in Nat
      BY <1>0, <1>2, <2>3
    <3>1. j - 1 \in 1 .. Len(r) /\ r[j - 1] = q[j]
      BY <3>0, <1>1, <2>3
    <3> QED BY <3>0, <3>1, <2>3
  <2> QED BY <2>1, <2>2, <2>3, <1>6, <1>a, <1>0
<1> HIDE DEF old
<1>7. ASSUME NEW t \in Steps, t # s PROVE InQueue(t)' <=> InQueue(t)
  <2>1. ASSUME InQueue(t)' PROVE InQueue(t)
    <3>1. PICK l \in Threads : \E j \in 1 .. Len(queues'[l]) : queues'[l][j] = t
      BY <1>a, <2>1 DEF InQueue
    <3>2. PICK j \in 1 .. Len(queues'[l]) : queues'[l][j] = t
      BY <3>1
    <3>3. old(l, j) \in 1 .. Len(queues[l]) /\ queues[l][old(l, j)] = t
      BY <1>4, <3>2
    <3> QED BY <3>3 DEF InQueue
  <2>2. ASSUME InQueue(t) PROVE InQueue(t)'
    <3>1. PICK l \in Threads : \E j \in 1 .. Len(queues[l]) : queues[l][j] = t
      BY <2>2 DEF InQueue
    <3>2. PICK j \in 1 .. Len(queues[l]) : queues[l][j] = t
      BY <3>1
    <3>3. ~(l = k /\ j = i)
      BY <1>7, <3>2
    <3> QED BY <1>a, <1>0, <1>6, <3>2, <3>3 DEF InQueue
  <2> QED BY <2>1, <2>2
<1>8. ASSUME NEW t \in Steps, QueuedOnce(t) PROVE QueuedOnce(t)'
  <2> SUFFICES ASSUME NEW l \in Threads, NEW m \in Threads,
                      NEW j \in 1 .. Len(queues'[l]), NEW n \in 1 .. Len(queues'[m]),
                      queues'[l][j] = t, queues'[m][n] = t
               PROVE  l = m /\ j = n
    BY <1>a, <1>0 DEF QueuedOnce
  <2>1. /\ old(l, j) \in 1 .. Len(queues[l]) /\ queues[l][old(l, j)] = t
        /\ old(m, n) \in 1 .. Len(queues[m]) /\ queues[m][old(m, n)] = t
    BY <1>4
  <2>2. l = m /\ old(l, j) = old(m, n)
    BY <2>1, <1>8 DEF QueuedOnce
  <2> QED BY <2>2, <1>5
<1>9. ASSUME QueuedOnce(s) PROVE ~InQueue(s)'
  <2> SUFFICES ASSUME NEW l \in Threads, NEW j \in 1 .. Len(queues'[l]), queues'[l][j] = s PROVE FALSE
    BY <1>a, <1>0 DEF InQueue
  <2>1. old(l, j) \in 1 .. Len(queues[l]) /\ queues[l][old(l, j)] = s /\ ~(l = k /\ old(l, j) = i)
    BY <1>4
  <2> QED BY <2>1, <1>9 DEF QueuedOnce
<1> QED BY <1>2, <1>3, <1>7, <1>8, <1>9

-----------------------------------------------------------------------------
(* Steps that concern no step instance *)

\* An instance keeps its places, its groups, its guard and its counter.
Untouched(s) ==
    /\ (InQueue(s)' <=> InQueue(s)) /\ (QueuedOnce(s) => QueuedOnce(s)')
    /\ \A th \in Threads : (Runs(th, s)' <=> Runs(th, s)) /\ (Inherits(th, s)' <=> Inherits(th, s))
    /\ \A u \in Steps : s \in waiters'[u] <=> s \in waiters[u]
    /\ \A th \in Threads : s \in rest'[th] <=> s \in rest[th]
    /\ state'[s] = state[s] /\ nSuspenders'[s] = nSuspenders[s]
    /\ Guarded(s)' <=> Guarded(s)
    /\ \A th \in Threads : job'[th] = s /\ pc'[th] \in {"run", "wake_run"} =>
          job[th] = s /\ pc[th] \in {"run", "wake_run"}

\* So all that is known of it stays true.
LEMMA UntouchedStep ==
    ASSUME cfg' = cfg, NEW s \in Steps, StepRight(s), Untouched(s)
    PROVE  StepRight(s)' /\ (Placed(s)' <=> Placed(s))
<1>0. Threads' = Threads
  BY DEF Threads
<1>1. Placed(s)' <=> Placed(s)
  BY <1>0 DEF Placed, Untouched
<1>2. Waiting(s)' <=> Waiting(s)
  BY <1>0 DEF Waiting, Untouched
<1>3. Once(s)'
  BY <1>0 DEF Once, StepRight, Untouched
<1>4. WaitsOnce(s)'
  BY <1>0 DEF WaitsOnce, StepRight, Untouched
<1>5. One(Waiting(s))' = One(Waiting(s)) /\ One(Guarded(s))' = One(Guarded(s))
  BY <1>2 DEF One, Untouched
<1> HIDE DEF Placed, Waiting, Guarded, One, Once, WaitsOnce, InQueue
<1> QED BY <1>0, <1>1, <1>2, <1>3, <1>4, <1>5 DEF StepRight, Untouched

\* The counter stays right when what it counts does not change.
LEMMA CountsKept ==
    ASSUME InFlightCounts, cfg' = cfg, inFlight' = inFlight, InWait' <=> InWait,
           \A s \in Steps : Placed(s)' <=> Placed(s),
           \A th \in Threads : pc'[th] = "leave" <=> pc[th] = "leave"
    PROVE  InFlightCounts'
<1>0. Threads' = Threads
  BY DEF Threads
<1>1. Ready' = Ready
  BY DEF Ready
<1>2. Leaving' = Leaving
  BY <1>0 DEF Leaving
<1>3. One(InWait)' = One(InWait)
  BY DEF One
<1> QED BY <1>1, <1>2, <1>3 DEF InFlightCounts

\* The summands are naturals.
LEMMA CountsAreNat ==
    ASSUME Typed, InFlightCounts
    PROVE  /\ Cardinality(Ready) \in Nat /\ Cardinality(Leaving) \in Nat /\ inFlight \in Nat
           /\ IsFiniteSet(Leaving)
<1>1. IsFiniteSet(Leaving)
  BY ThreadFacts, FS_Subset DEF Leaving
<1> QED BY <1>1, FS_CardinalityType DEF InFlightCounts, One

\* A step of th with no step instance, or without a change of its place.
Aside(th) ==
    /\ cfg' = cfg /\ queues' = queues /\ job' = job /\ newS' = newS /\ rest' = rest
    /\ stepVars' = stepVars
    /\ \A u \in Threads : u # th => pc'[u] = pc[u]
    /\ \/ job[th] = None /\ pc[th] # "leave" /\ pc'[th] \notin {"leave", "unsuspend"}
       \/ pc[th] \in {"run", "wake_run"} /\ pc'[th] \in {"run", "wake_run"}
       \/ pc[th] \in PutPcs /\ pc'[th] \in PutPcs

\* Such a step leaves every instance untouched.
LEMMA AsideStep ==
    ASSUME QueuesInv, NEW th \in Threads, Aside(th)
    PROVE  /\ \A s \in Steps : StepRight(s)' /\ (Placed(s)' <=> Placed(s))
           /\ \A u \in Threads : pc'[u] = "leave" <=> pc[u] = "leave"
           /\ Successors'
<1>0. Threads' = Threads /\ None \notin Steps /\ Main \in Threads
  BY ThreadFacts DEF Threads, QueuesInv, Aside
<1>1. job[th] = None => pc[th] \notin {"leave", "unsuspend"}
  BY DEF QueuesInv, Control, FreePcs, MainPcs
<1>2. ASSUME NEW s \in Steps PROVE Untouched(s)
  <2>1. (InQueue(s)' <=> InQueue(s)) /\ (QueuedOnce(s) => QueuedOnce(s)')
    BY <1>0 DEF InQueue, QueuedOnce, Aside
  <2>2. \A u \in Threads : (Runs(u, s)' <=> Runs(u, s)) /\ (Inherits(u, s)' <=> Inherits(u, s))
    BY <1>0, <1>1 DEF Runs, Inherits, Aside, stepVars, PutPcs
  <2>3. Guarded(s)' <=> Guarded(s)
    BY <1>0 DEF Guarded, Aside, PutPcs, GuardPcs, WorkPcs
  <2>4. \A u \in Threads : job'[u] = s /\ pc'[u] \in {"run", "wake_run"} =>
          job[u] = s /\ pc[u] \in {"run", "wake_run"}
    BY <1>0 DEF Aside, PutPcs
  <2> QED BY <2>1, <2>2, <2>3, <2>4 DEF Untouched, Aside, stepVars
<1>3. \A s \in Steps : StepRight(s)' /\ (Placed(s)' <=> Placed(s))
  BY <1>2, UntouchedStep DEF QueuesInv, Aside
<1>4. \A u \in Threads : pc'[u] = "leave" <=> pc[u] = "leave"
  BY DEF Aside, PutPcs
<1>5. Successors'
  BY <1>0, <1>1 DEF QueuesInv, Successors, Aside, stepVars, PutPcs
<1> QED BY <1>3, <1>4, <1>5

-----------------------------------------------------------------------------
(* The steps of a thread that concern no instance *)

\* The places in which do_schedule looks at m_gQueue.
LEMMA WakeBeforeIs == WakeBefore["run"] = "wake_run" /\ WakeBefore["resume"] = "wake_resume"
BY DEF WakeBefore

\* A wake-up concerns no step instance.
LEMMA WakeAnotherStep ==
    ASSUME QueuesInv, NEW th \in Threads, WakeAnother(th)
    PROVE  QueuesInv'
<1>0. /\ Threads' = Threads /\ None \notin Steps /\ Main \in Threads /\ pc \in [Threads -> Pcs]
      /\ job' = job /\ cfg' = cfg /\ inFlight' = inFlight /\ envIp' = envIp /\ queues' = queues
  BY ThreadFacts DEF WakeAnother, Threads, QueuesInv, Typed, execVars
<1>1. \/ pc[th] = "wake_run" /\ pc' = [pc EXCEPT ![th] = "run"]
      \/ pc[th] = "wake_resume" /\ pc' = [pc EXCEPT ![th] = "resume"]
  BY WakeBeforeIs DEF WakeAnother, Goto
<1>2. /\ gQueue' \in Seq({"wake", "null"})
      /\ (\E i \in 1 .. Len(gQueue') : gQueue'[i] = "null") => \E i \in 1 .. Len(gQueue) : gQueue[i] = "null"
  BY DEF WakeAnother, QueuesInv, Typed
<1>3. Aside(th)
  BY <1>0, <1>1 DEF Aside, WakeAnother, execVars, stepVars, PutPcs
<1>4. Typed'
  BY <1>0, <1>1, <1>2 DEF WakeAnother, QueuesInv, Typed, Pcs, execVars, stepVars
<1>5. Control'
  BY <1>0, <1>1 DEF WakeAnother, QueuesInv, Control, execVars, stepVars, PutPcs, WorkPcs, MainPcs, FreePcs
<1>6. InWait' <=> InWait
  BY <1>0, <1>1 DEF InWait
<1>7. EnvInPlace'
  BY <1>0, <1>1, <1>2, <1>6 DEF QueuesInv, EnvInPlace, Queued
<1> QED BY <1>0, <1>3, <1>4, <1>5, <1>6, <1>7, AsideStep, CountsKept DEF QueuesInv

\* Nor does a look at an empty queue,
LEMMA PopEmptyStep ==
    ASSUME QueuesInv, NEW th \in Threads, PopEmpty(th)
    PROVE  QueuesInv'
<1>0. /\ Threads' = Threads /\ None \notin Steps /\ Main \in Threads /\ pc \in [Threads -> Pcs]
      /\ job' = job /\ cfg' = cfg /\ inFlight' = inFlight /\ envIp' = envIp /\ queues' = queues
      /\ newS' = newS /\ rest' = rest /\ stepVars' = stepVars /\ ip' = ip
      /\ pc[th] = "pop" /\ job[th] = None
  BY ThreadFacts DEF PopEmpty, Threads, QueuesInv, Typed, execVars, Control, WorkPcs
<1>a. scan' \in [Threads -> Nat]
  <2>1. scan \in [Threads -> Nat]
    BY DEF QueuesInv, Typed
  <2>2. scan' = [scan EXCEPT ![th] = scan[th] + 1] \/ scan' = [scan EXCEPT ![th] = 0]
    BY DEF PopEmpty
  <2> QED BY <2>1, <2>2
<1>1. pc' = pc \/ pc' = [pc EXCEPT ![th] = IF th = Main THEN "poll" ELSE "asleep"]
  BY DEF PopEmpty, Goto
<1>2. /\ gQueue' \in Seq({"wake", "null"})
      /\ (\E i \in 1 .. Len(gQueue') : gQueue'[i] = "null") => \E i \in 1 .. Len(gQueue) : gQueue[i] = "null"
  <2>1. gQueue \in Seq({"wake", "null"}) /\ Len(gQueue) \in Nat
    BY DEF QueuesInv, Typed
  <2>2. CASE gQueue' = gQueue
    BY <2>1, <2>2
  <2>3. CASE gQueue' = Tail(gQueue) /\ GSize > 0
    <3>1. Cardinality(Asleep) \in Nat
      BY ThreadFacts, FS_Subset, FS_CardinalityType DEF Asleep, QueuesInv
    <3>2. gQueue # <<>>
      BY <2>1, <2>3, <3>1 DEF GSize
    <3> QED BY <2>1, <2>3, <3>2
  <2> QED BY <2>2, <2>3 DEF PopEmpty
<1>3. Aside(th)
  BY <1>0, <1>1 DEF Aside
<1>4. Typed'
  BY <1>0, <1>a, <1>1, <1>2 DEF QueuesInv, Typed, Pcs, stepVars
<1>5. Control'
  BY <1>0, <1>1 DEF QueuesInv, Control, stepVars, PutPcs, WorkPcs, MainPcs, FreePcs
<1>6. InWait' <=> InWait
  BY <1>0, <1>1 DEF InWait
<1>7. EnvInPlace'
  BY <1>0, <1>1, <1>2, <1>6 DEF QueuesInv, EnvInPlace, Queued
<1> QED BY <1>0, <1>3, <1>4, <1>5, <1>6, <1>7, AsideStep, CountsKept DEF QueuesInv

\* the end of a sleep,
LEMMA AwakeStep ==
    ASSUME QueuesInv, NEW th \in Threads, Awake(th)
    PROVE  QueuesInv'
<1>0. /\ Threads' = Threads /\ None \notin Steps /\ Main \in Threads /\ pc \in [Threads -> Pcs]
      /\ job' = job /\ cfg' = cfg /\ inFlight' = inFlight /\ envIp' = envIp /\ queues' = queues
      /\ newS' = newS /\ rest' = rest /\ stepVars' = stepVars /\ ip' = ip /\ scan' = scan
      /\ pc[th] = "asleep" /\ job[th] = None /\ th # Main
  BY ThreadFacts DEF Awake, Threads, QueuesInv, Typed, execVars, Control, WorkPcs, MainPcs
<1>1. pc' = [pc EXCEPT ![th] = IF Head(gQueue) = "null" THEN "dead" ELSE "pop"]
  BY DEF Awake, Goto
<1>2. /\ gQueue' \in Seq({"wake", "null"})
      /\ (\E i \in 1 .. Len(gQueue') : gQueue'[i] = "null") => \E i \in 1 .. Len(gQueue) : gQueue[i] = "null"
      /\ Head(gQueue) = "null" => \E i \in 1 .. Len(gQueue) : gQueue[i] = "null"
  <2>1. gQueue \in Seq({"wake", "null"}) /\ Len(gQueue) \in Nat /\ gQueue # <<>> /\ gQueue' = Tail(gQueue)
    BY DEF QueuesInv, Typed, Awake
  <2> QED BY <2>1
<1>3. Aside(th)
  BY <1>0, <1>1 DEF Aside
<1>4. Typed'
  BY <1>0, <1>1, <1>2 DEF QueuesInv, Typed, Pcs, stepVars
<1>5. Control'
  BY <1>0, <1>1 DEF QueuesInv, Control, stepVars, PutPcs, WorkPcs, MainPcs, FreePcs
<1>6. InWait' <=> InWait
  BY <1>0, <1>1 DEF InWait
<1>7. EnvInPlace'
  BY <1>0, <1>1, <1>2, <1>6 DEF QueuesInv, EnvInPlace, Queued
<1> QED BY <1>0, <1>3, <1>4, <1>5, <1>6, <1>7, AsideStep, CountsKept DEF QueuesInv

\* main's place in its program is not that of a step it executes in wait.
LEMMA AdvanceEnv ==
    ASSUME QueuesInv, NEW th \in Threads, Advance(th), pc[th] = "run", cfg' = cfg
    PROVE  /\ ip' \in [Threads -> Nat] /\ envIp' \in Nat \ {0}
           /\ job[th] # None => envIp' = envIp
           /\ job[th] = None => envIp' = envIp + 1 /\ th = Main /\ ~InWait
<1>1. ip \in [Threads -> Nat] /\ envIp \in Nat \ {0}
  BY DEF QueuesInv, Typed
<1>2. job[th] = None => th = Main /\ ~InWait
  BY DEF QueuesInv, Control, FreePcs, InWait
<1> QED BY <1>1, <1>2 DEF Advance

\* a get that finds its item, or a memoized tag.
LEMMA SkipStep ==
    ASSUME QueuesInv, NEW th \in Threads, NEW s \in Steps, Skip(th, s)
    PROVE  QueuesInv'
<1>0. /\ Threads' = Threads /\ None \notin Steps /\ Main \in Threads /\ pc \in [Threads -> Pcs]
      /\ job' = job /\ cfg' = cfg /\ inFlight' = inFlight /\ queues' = queues
      /\ newS' = newS /\ rest' = rest /\ stepVars' = stepVars /\ gQueue' = gQueue /\ scan' = scan
      /\ pc' = pc /\ pc[th] = "run" /\ Advance(th)
  BY ThreadFacts DEF Skip, AtOp, Threads, QueuesInv, Typed
<1>1. /\ ip' \in [Threads -> Nat] /\ envIp' \in Nat \ {0}
      /\ job[th] # None => envIp' = envIp
      /\ job[th] = None => envIp' = envIp + 1 /\ th = Main /\ ~InWait
  BY <1>0, AdvanceEnv
<1>3. Aside(th)
  BY <1>0 DEF Aside
<1>4. Typed'
  BY <1>0, <1>1 DEF QueuesInv, Typed, stepVars
<1>5. Control'
  BY <1>0 DEF QueuesInv, Control, stepVars
<1>6. InWait' <=> InWait
  BY <1>0 DEF InWait
<1>7. EnvInPlace'
  BY <1>0, <1>1, <1>6 DEF QueuesInv, EnvInPlace, Queued
<1> QED BY <1>0, <1>3, <1>4, <1>5, <1>6, <1>7, AsideStep, CountsKept DEF QueuesInv

\* main counts itself when it enters wait,
LEMMA EnvWaitStep ==
    ASSUME QueuesInv, EnvWait
    PROVE  QueuesInv'
<1>0. /\ Threads' = Threads /\ None \notin Steps /\ Main \in Threads /\ pc \in [Threads -> Pcs]
      /\ job' = job /\ cfg' = cfg /\ inFlight' = inFlight + 1 /\ queues' = queues /\ ip' = ip
      /\ newS' = newS /\ rest' = rest /\ stepVars' = stepVars /\ gQueue' = gQueue /\ scan' = scan
      /\ pc[Main] = "run" /\ job[Main] = None /\ envIp' = envIp
      /\ pc' = [pc EXCEPT ![Main] = "poll"]
      /\ envIp <= Len(EnvBody) /\ EnvBody[envIp] = <<"wait">>
  BY ThreadFacts DEF EnvWait, AtOp, Ops, Place, Goto, Threads, QueuesInv, Typed, execVars
<1>3. Aside(Main)
  BY <1>0 DEF Aside
<1>4. Typed'
  BY <1>0 DEF QueuesInv, Typed, stepVars, Pcs
<1>5. Control'
  BY <1>0 DEF QueuesInv, Control, stepVars, MainPcs, FreePcs, WorkPcs, PutPcs
<1>6. ~InWait /\ InWait'
  BY <1>0 DEF InWait
<1>7. EnvInPlace'
  BY <1>0, <1>6 DEF QueuesInv, EnvInPlace, Queued
<1>8. InFlightCounts'
  <2>1. Ready' = Ready
    BY <1>0, <1>3, AsideStep DEF Ready
  <2>2. Leaving' = Leaving
    BY <1>0 DEF Leaving
  <2>3. One(InWait)' = 1 /\ One(InWait) = 0
    BY <1>6 DEF One
  <2>4. Cardinality(Ready) \in Nat /\ Cardinality(Leaving) \in Nat
    BY CountsAreNat DEF QueuesInv
  <2> QED BY <1>0, <2>1, <2>2, <2>3, <2>4 DEF QueuesInv, InFlightCounts
<1> QED BY <1>0, <1>3, <1>4, <1>5, <1>7, <1>8, AsideStep DEF QueuesInv

\* and takes itself out of the count when wait returns.
LEMMA PollStep ==
    ASSUME QueuesInv, Poll
    PROVE  QueuesInv'
<1>0. /\ Threads' = Threads /\ None \notin Steps /\ Main \in Threads /\ pc \in [Threads -> Pcs]
      /\ job' = job /\ cfg' = cfg /\ queues' = queues /\ ip' = ip
      /\ newS' = newS /\ rest' = rest /\ stepVars' = stepVars /\ gQueue' = gQueue /\ scan' = scan
      /\ pc[Main] = "poll" /\ job[Main] = None /\ envIp \in Nat \ {0}
      /\ \/ pc' = [pc EXCEPT ![Main] = "pop"] /\ inFlight' = inFlight /\ envIp' = envIp
         \/ pc' = [pc EXCEPT ![Main] = "run"] /\ inFlight' = inFlight - 1 /\ envIp' = envIp + 1
  BY ThreadFacts DEF Poll, Goto, Threads, QueuesInv, Typed, execVars, Control, WorkPcs
<1>3. Aside(Main)
  BY <1>0 DEF Aside
<1>a. envIp' \in Nat \ {0} /\ pc' \in [Threads -> Pcs]
  BY <1>0 DEF Pcs
<1>4. Typed'
  BY <1>0, <1>a DEF QueuesInv, Typed, stepVars, Pcs
<1>5. Control'
  BY <1>0 DEF QueuesInv, Control, stepVars, MainPcs, FreePcs, WorkPcs, PutPcs
<1>6. InWait /\ (InWait' <=> inFlight' = inFlight)
  <2>1. inFlight \in Nat
    BY CountsAreNat DEF QueuesInv
  <2> QED BY <1>0, <2>1 DEF InWait
<1>7. EnvInPlace'
  BY <1>0, <1>6 DEF QueuesInv, EnvInPlace, Queued, InWait
<1>8. InFlightCounts'
  <2>1. Ready' = Ready
    BY <1>0, <1>3, AsideStep DEF Ready
  <2>2. Leaving' = Leaving
    BY <1>0 DEF Leaving
  <2>4. Cardinality(Ready) \in Nat /\ Cardinality(Leaving) \in Nat /\ inFlight \in Nat
    BY CountsAreNat DEF QueuesInv
  <2>3. One(InWait) = 1 /\ One(InWait)' = IF inFlight' = inFlight THEN 1 ELSE 0
    BY <1>6 DEF One
  <2> QED BY <1>0, <2>1, <2>2, <2>3, <2>4 DEF QueuesInv, InFlightCounts
<1> QED BY <1>0, <1>3, <1>4, <1>5, <1>7, <1>8, AsideStep DEF QueuesInv

\* WaitForGroup, Exit and Join: main goes on, or out.
LEMMA MainGoesOn ==
    ASSUME QueuesInv, WaitForGroup \/ Exit \/ Join
    PROVE  QueuesInv'
<1>0. /\ Threads' = Threads /\ None \notin Steps /\ Main \in Threads /\ pc \in [Threads -> Pcs]
      /\ job' = job /\ cfg' = cfg /\ queues' = queues /\ ip' = ip
      /\ newS' = newS /\ rest' = rest /\ stepVars' = stepVars /\ scan' = scan
      /\ job[Main] = None /\ envIp' = envIp /\ inFlight' = inFlight
      /\ \/ pc[Main] = "pop" /\ pc' = [pc EXCEPT ![Main] = "poll"] /\ gQueue' = gQueue
         \/ pc[Main] = "run" /\ pc' = [pc EXCEPT ![Main] = "joining"] /\ envIp > Len(EnvBody)
         \/ pc[Main] = "joining" /\ pc' = [pc EXCEPT ![Main] = "dead"] /\ gQueue' = gQueue
  BY ThreadFacts DEF WaitForGroup, Exit, Join, Goto, Threads, QueuesInv, Typed, execVars, Control, WorkPcs
<1>2. gQueue' \in Seq({"wake", "null"})
  <2>1. gQueue \in Seq({"wake", "null"}) /\ cfg.threads \in Nat
    BY ThreadFacts DEF QueuesInv, Typed
  <2>2. [i \in 1 .. cfg.threads |-> "null"] \in Seq({"wake", "null"})
    BY <2>1
  <2>3. \A x, y \in Seq({"wake", "null"}) : x \o y \in Seq({"wake", "null"})
    BY ConcatProperties
  <2> QED BY <2>1, <2>2, <2>3 DEF WaitForGroup, Exit, Join
<1>3. Aside(Main)
  BY <1>0 DEF Aside
<1>4. Typed'
  BY <1>0, <1>2 DEF QueuesInv, Typed, stepVars, Pcs
<1>5. Control'
  BY <1>0 DEF QueuesInv, Control, stepVars, MainPcs, FreePcs, WorkPcs, PutPcs
<1>6. InWait' <=> InWait
  BY <1>0 DEF InWait
<1>7. EnvInPlace'
  BY <1>0, <1>6 DEF QueuesInv, EnvInPlace, Queued
<1> QED BY <1>0, <1>3, <1>4, <1>5, <1>6, <1>7, AsideStep, CountsKept DEF QueuesInv

-----------------------------------------------------------------------------
(* A step is taken from a queue, and begins *)

\* TryPop of any queue, or a task of the group.
Takes(th, k, i) ==
    /\ pc[th] = "pop" /\ cfg' = cfg
    /\ job' = [job EXCEPT ![th] = queues[k][i]]
    /\ queues' = [queues EXCEPT ![k] = RemoveAt(@, i)]
    /\ pc' = [pc EXCEPT ![th] = "begin"]
    /\ scan' \in [Threads -> Nat]
    /\ UNCHANGED <<gQueue, ip, newS, rest, stepVars, inFlight, envIp>>

\* What a queue holds is live and in nobody's hands.
LEMMA QueuedIsReady ==
    ASSUME QueuesInv, NEW s \in Steps, InQueue(s)
    PROVE  /\ state[s] = "live" /\ ~Waiting(s) /\ QueuedOnce(s)
           /\ \A th \in Threads : ~Runs(th, s) /\ ~Inherits(th, s)
           /\ ~Guarded(s) /\ nSuspenders[s] = 0
<1>1. StepRight(s) /\ Placed(s) /\ state[s] \in {"none", "live", "done"}
  BY DEF QueuesInv, Typed, Placed
<1>2. state[s] = "live"
  BY <1>1 DEF StepRight
<1>3. QueuedOnce(s) /\ \A th \in Threads : ~Runs(th, s) /\ ~Inherits(th, s)
  BY <1>1 DEF StepRight, Once
<1>4. ~Guarded(s)
  BY <1>3 DEF Guarded, Runs, GuardPcs, WorkPcs
<1>5. ~Waiting(s)
  BY <1>1, <1>4 DEF StepRight
<1> QED BY <1>1, <1>2, <1>3, <1>4, <1>5 DEF StepRight, One

\* The step that is taken from a queue is in the hands of one thread then.
LEMMA TakesStep ==
    ASSUME QueuesInv, NEW th \in Threads, NEW k \in Threads, NEW i \in 1 .. Len(queues[k]),
           NEW s \in Steps, s = queues[k][i], Takes(th, k, i)
    PROVE  QueuesInv'
<1>0. /\ Threads' = Threads /\ None \notin Steps /\ Main \in Threads /\ pc \in [Threads -> Pcs]
      /\ job \in [Threads -> Steps \cup {None}] /\ cfg' = cfg
      /\ job' = [job EXCEPT ![th] = s] /\ pc' = [pc EXCEPT ![th] = "begin"]
      /\ newS' = newS /\ rest' = rest /\ stepVars' = stepVars /\ gQueue' = gQueue /\ ip' = ip
      /\ inFlight' = inFlight /\ envIp' = envIp
      /\ pc[th] = "pop" /\ job[th] = None
  BY ThreadFacts DEF Takes, Threads, QueuesInv, Typed, Control, WorkPcs
<1>1. /\ queues' \in [Threads -> Seq(Steps)] /\ InQueue(s)
      /\ \A t \in Steps : t # s => (InQueue(t)' <=> InQueue(t))
      /\ \A t \in Steps : QueuedOnce(t) => QueuedOnce(t)'
      /\ QueuedOnce(s) => ~InQueue(s)'
      /\ \A l \in Threads : l # k => queues'[l] = queues[l]
  BY RemoveFromQueue DEF Takes, QueuesInv
<1>2. /\ state[s] = "live" /\ ~Waiting(s) /\ QueuedOnce(s)
      /\ \A u \in Threads : ~Runs(u, s) /\ ~Inherits(u, s)
      /\ ~Guarded(s) /\ nSuspenders[s] = 0
  BY <1>1, QueuedIsReady
<1>3. succ[s] = None
  BY <1>0, <1>2, ThreadFacts DEF QueuesInv, Successors, Runs
<1>4. ASSUME NEW t \in Steps, t # s PROVE StepRight(t)' /\ (Placed(t)' <=> Placed(t))
  <2>1. \A u \in Threads : (Runs(u, t)' <=> Runs(u, t)) /\ (Inherits(u, t)' <=> Inherits(u, t))
    BY <1>0, <1>3, <1>4 DEF Runs, Inherits, stepVars
  <2>2. Guarded(t)' <=> Guarded(t)
    BY <1>0, <1>4 DEF Guarded, GuardPcs, WorkPcs
  <2>3. Untouched(t)
    BY <1>0, <1>1, <1>4, <2>1, <2>2 DEF Untouched, stepVars
  <2> QED BY <1>0, <2>3, UntouchedStep DEF QueuesInv
<1>5. /\ ~Waiting(s)' /\ ~Guarded(s)' /\ ~InQueue(s)'
      /\ \A u \in Threads : (Runs(u, s)' <=> u = th) /\ ~Inherits(u, s)'
  BY <1>0, <1>1, <1>2, <1>3 DEF Waiting, Guarded, Runs, Inherits, stepVars, GuardPcs, WorkPcs
<1>6. StepRight(s)' /\ Placed(s)'
  <2>1. Placed(s)'
    BY <1>0, <1>5 DEF Placed
  <2>2. Once(s)'
    BY <1>0, <1>1, <1>2, <1>5 DEF Once
  <2>3. WaitsOnce(s)' /\ state'[s] = "live" /\ nSuspenders'[s] = 0
    BY <1>0, <1>2 DEF Waiting, WaitsOnce, stepVars
  <2>4. One(Waiting(s))' = 0 /\ One(Guarded(s))' = 0
    BY <1>5 DEF One
  <2> QED BY <2>1, <2>2, <2>3, <2>4, <1>5 DEF StepRight
<1>7. Typed'
  BY <1>0, <1>1 DEF Takes, QueuesInv, Typed, stepVars, Pcs
<1>8. Control'
  BY <1>0, <1>2 DEF QueuesInv, Control, stepVars, PutPcs, WorkPcs, MainPcs, FreePcs
<1>9. Successors'
  BY <1>0 DEF QueuesInv, Successors, stepVars
<1>10. InWait' <=> InWait
  BY <1>0 DEF InWait
<1>11. EnvInPlace'
  <2>1. ~Queued => queues'[k] = <<>> \/ k = 0
    BY <1>0 DEF QueuesInv, EnvInPlace
  <2> QED BY <1>0, <1>1, <1>10, <2>1 DEF QueuesInv, EnvInPlace, Queued
<1>12. InFlightCounts'
  <2>1. \A t \in Steps : Placed(t)' <=> Placed(t)
    BY <1>1, <1>4, <1>6 DEF Placed
  <2>2. \A u \in Threads : pc'[u] = "leave" <=> pc[u] = "leave"
    BY <1>0
  <2> QED BY <1>0, <1>10, <2>1, <2>2, CountsKept DEF QueuesInv
<1> QED BY <1>4, <1>6, <1>7, <1>8, <1>9, <1>11, <1>12 DEF QueuesInv

\* pop_next finds a step, or TBB runs a task.
LEMMA PopStep ==
    ASSUME QueuesInv, NEW th \in Threads, PopFound(th) \/ RunTask(th)
    PROVE  QueuesInv'
<1>0. /\ queues \in [Threads -> Seq(Steps)] /\ cfg.threads \in Nat \ {0} /\ scan \in [Threads -> Nat]
      /\ Main \in Threads /\ Main = 0
  BY ThreadFacts DEF QueuesInv, Typed, Main
<1>1. CASE PopFound(th)
  <2>1. ScanQueue(th) \in Threads
    BY <1>0 DEF ScanQueue, Threads
  <2>2. PICK k \in Threads : k = ScanQueue(th)
    BY <2>1
  <2>3. PICK i \in Poppable(queues[k]) :
            /\ job' = [job EXCEPT ![th] = queues[k][i]]
            /\ queues' = [queues EXCEPT ![k] = RemoveAt(@, i)]
            /\ pc' = [pc EXCEPT ![th] = "begin"] /\ scan' = [scan EXCEPT ![th] = 0]
    BY <1>1, <2>2 DEF PopFound, TryPop, Goto
  <2>4. i \in 1 .. Len(queues[k]) /\ Takes(th, k, i)
    <3>1. i \in 1 .. Len(queues[k])
      BY <1>0 DEF Poppable
    <3>2. scan' \in [Threads -> Nat]
      BY <1>0, <2>3
    <3> QED BY <1>1, <2>3, <3>1, <3>2 DEF PopFound, Takes
  <2>5. PICK s \in Steps : s = queues[k][i]
    BY <1>0, <2>4
  <2> QED BY <2>3, <2>4, <2>5, TakesStep
<1>2. CASE RunTask(th)
  <2>1. PICK i \in 1 .. Len(queues[0]) : Takes(th, 0, i)
    BY <1>0, <1>2 DEF RunTask, Takes, Goto
  <2>2. PICK s \in Steps : s = queues[0][i]
    BY <1>0
  <2> QED BY <1>0, <2>1, <2>2, TakesStep
<1> QED BY <1>1, <1>2

\* A thread that runs a live step is the only one to have it.
LEMMA RunnerFacts ==
    ASSUME QueuesInv, NEW th \in Threads, NEW s \in Steps, job[th] = s, pc[th] # "leave"
    PROVE  /\ Runs(th, s) /\ Placed(s) /\ ~InQueue(s)
           /\ \A u \in Threads : (Runs(u, s) => u = th) /\ ~Inherits(u, s)
           /\ Guarded(s) <=> pc[th] \in GuardPcs
           /\ \A u \in Threads : u # th /\ job[u] = s => pc[u] = "leave"
           /\ state[s] = IF pc[th] \in PutPcs THEN "done" ELSE "live"
<1>0. s # None /\ StepRight(s)
  BY ThreadFacts DEF QueuesInv
<1>1. Runs(th, s) /\ Placed(s)
  BY DEF Runs, Placed
<1>2. ~InQueue(s) /\ \A u \in Threads : (Runs(u, s) => u = th) /\ ~Inherits(u, s)
  BY <1>0, <1>1 DEF StepRight, Once
<1>3. \A u \in Threads : u # th /\ job[u] = s => pc[u] = "leave"
  BY <1>2 DEF Runs
<1>4. Guarded(s) <=> pc[th] \in GuardPcs
  BY <1>3 DEF Guarded, GuardPcs
<1> QED BY <1>0, <1>1, <1>2, <1>3, <1>4 DEF QueuesInv, Control

\* What do_execute does to the instance that th executes: only its counter and
\* the place of th in it change.
OwnStep(th, s) ==
    /\ cfg' = cfg /\ queues' = queues /\ gQueue' = gQueue /\ job' = job /\ scan' = scan
    /\ inFlight' = inFlight /\ envIp' = envIp /\ succ' = succ
    /\ job[th] = s /\ pc[th] \notin {"leave", "pop"}
    /\ \E l \in WorkPcs : pc' = [pc EXCEPT ![th] = l]
    /\ \A t \in Steps : t # s => state'[t] = state[t] /\ nSuspenders'[t] = nSuspenders[t]
    /\ \A u \in Threads : u # th => newS'[u] = newS[u]
    /\ pc'[th] \in {"unsuspend", "leave"} => newS'[th] = succ[s]
    /\ pc[th] = "unsuspend" => newS[th] = succ[s]

\* The other instances are untouched, if their groups are.
LEMMA OwnStepOthers ==
    ASSUME QueuesInv, NEW th \in Threads, NEW s \in Steps, OwnStep(th, s), NEW t \in Steps, t # s,
           \A u \in Steps : t \in waiters'[u] <=> t \in waiters[u],
           \A u \in Threads : t \in rest'[u] <=> t \in rest[u]
    PROVE  StepRight(t)' /\ (Placed(t)' <=> Placed(t))
<1>0. /\ Threads' = Threads /\ None \notin Steps /\ pc \in [Threads -> Pcs]
  BY ThreadFacts DEF OwnStep, Threads, QueuesInv, Typed
<1>1. (InQueue(t)' <=> InQueue(t)) /\ (QueuedOnce(t) => QueuedOnce(t)')
  BY <1>0 DEF InQueue, QueuedOnce, OwnStep
<1>2. \A u \in Threads : (Runs(u, t)' <=> Runs(u, t)) /\ (Inherits(u, t)' <=> Inherits(u, t))
  BY <1>0 DEF Runs, Inherits, OwnStep
<1>3. Guarded(t)' <=> Guarded(t)
  BY <1>0 DEF Guarded, OwnStep
<1>4. Untouched(t)
  BY <1>0, <1>1, <1>2, <1>3 DEF Untouched, OwnStep
<1> QED BY <1>4, UntouchedStep DEF QueuesInv, OwnStep

\* So is the rest of the state.
LEMMA OwnStepRest ==
    ASSUME QueuesInv, NEW th \in Threads, NEW s \in Steps, OwnStep(th, s)
    PROVE  /\ InWait' <=> InWait
           /\ EnvInPlace'
           /\ pc'[th] # "leave" => \A u \in Threads : pc'[u] = "leave" <=> pc[u] = "leave"
<1>0. /\ Threads' = Threads /\ None \notin Steps /\ Main \in Threads /\ pc \in [Threads -> Pcs]
  BY ThreadFacts DEF OwnStep, Threads, QueuesInv, Typed
<1>1. InWait' <=> InWait
  BY <1>0 DEF InWait, OwnStep, QueuesInv, Control, WorkPcs
<1>2. \A u \in Threads : u # th => pc'[u] = pc[u]
  BY <1>0 DEF OwnStep
<1>3. pc'[th] \in WorkPcs /\ pc[th] \in WorkPcs
  BY <1>0 DEF OwnStep, QueuesInv, Control
<1>4. EnvInPlace'
  BY <1>0, <1>1, <1>2, <1>3 DEF QueuesInv, EnvInPlace, Queued, OwnStep, WorkPcs
<1> QED BY <1>1, <1>2, <1>4 DEF OwnStep

\* What the instance is like afterwards, when th goes on with it.
LEMMA OwnStepOwn ==
    ASSUME QueuesInv, NEW th \in Threads, NEW s \in Steps, OwnStep(th, s), pc'[th] # "leave"
    PROVE  /\ Once(s)' /\ Placed(s)' /\ ~InQueue(s)'
           /\ \A u \in Threads : ~Inherits(u, s)'
           /\ Guarded(s)' <=> pc'[th] \in GuardPcs
           /\ \A u \in Threads : job'[u] = s /\ pc'[u] # "leave" => u = th
<1>0. /\ Threads' = Threads /\ None \notin Steps /\ pc \in [Threads -> Pcs] /\ job' = job /\ job[th] = s
  BY ThreadFacts DEF OwnStep, Threads, QueuesInv, Typed
<1>1. /\ ~InQueue(s) /\ \A u \in Threads : (Runs(u, s) => u = th) /\ ~Inherits(u, s)
      /\ \A u \in Threads : u # th /\ job[u] = s => pc[u] = "leave"
  BY RunnerFacts DEF OwnStep
<1>2. QueuedOnce(s)' /\ ~InQueue(s)'
  BY <1>0, <1>1 DEF InQueue, QueuedOnce, OwnStep
<1>3. \A u \in Threads : (Runs(u, s)' <=> u = th) /\ ~Inherits(u, s)'
  BY <1>0, <1>1 DEF Runs, Inherits, OwnStep
<1>4. Once(s)' /\ Placed(s)'
  BY <1>0, <1>2, <1>3 DEF Once, Placed
<1>5. \A u \in Threads : u # th => pc'[u] = pc[u]
  BY <1>0 DEF OwnStep
<1>6. Guarded(s)' <=> pc'[th] \in GuardPcs
  BY <1>0, <1>1, <1>5 DEF Guarded, GuardPcs
<1> QED BY <1>0, <1>1, <1>2, <1>3, <1>4, <1>5, <1>6

\* The guard of do_execute is the only suspend of a step that has just been taken.
LEMMA BeginStep ==
    ASSUME QueuesInv, NEW th \in Threads, NEW s \in Steps, s = job[th], Begin(th)
    PROVE  QueuesInv'
<1>0. /\ Threads' = Threads /\ None \notin Steps /\ Main \in Threads /\ pc \in [Threads -> Pcs]
      /\ pc[th] = "begin" /\ pc' = [pc EXCEPT ![th] = "run"] /\ nSuspenders \in [Steps -> Nat]
      /\ nSuspenders' = [nSuspenders EXCEPT ![s] = @ + 1] /\ ip' = [ip EXCEPT ![th] = 1]
      /\ rest' = rest /\ waiters' = waiters /\ state' = state /\ newS' = newS /\ succ' = succ
      /\ cfg' = cfg /\ job' = job
  BY ThreadFacts DEF Begin, Goto, Threads, QueuesInv, Typed
<1>1. OwnStep(th, s)
  BY <1>0 DEF OwnStep, Begin, WorkPcs
<1>2. /\ Placed(s) /\ ~Guarded(s) /\ state[s] = "live" /\ StepRight(s)
  BY <1>0, RunnerFacts DEF GuardPcs, PutPcs, QueuesInv
<1>3. ~Waiting(s) /\ nSuspenders[s] = 0
  BY <1>2 DEF StepRight, One
<1>4. StepRight(s)'
  <2>1. /\ Once(s)' /\ Placed(s)' /\ Guarded(s)' /\ \A u \in Threads : ~Inherits(u, s)'
    BY <1>0, <1>1, OwnStepOwn DEF GuardPcs, WorkPcs
  <2>2. ~Waiting(s)' /\ WaitsOnce(s)'
    BY <1>0, <1>3 DEF Waiting, WaitsOnce
  <2>3. nSuspenders'[s] = 1 /\ state'[s] = "live"
    BY <1>0, <1>2, <1>3
  <2>4. One(Waiting(s))' = 0 /\ One(Guarded(s))' = 1
    BY <2>1, <2>2 DEF One
  <2>5. nSuspenders'[s] = One(Waiting(s))' + One(Guarded(s))'
    BY <2>3, <2>4
  <2> QED BY <1>0, <2>1, <2>2, <2>3, <2>5 DEF StepRight
<1>5. \A t \in Steps : t # s => StepRight(t)' /\ (Placed(t)' <=> Placed(t))
  BY <1>0, <1>1, OwnStepOthers
<1>6. Typed'
  BY <1>0 DEF Begin, QueuesInv, Typed, Pcs
<1>7. Control'
  BY <1>0 DEF QueuesInv, Control, PutPcs, WorkPcs, MainPcs, FreePcs
<1>8. Successors'
  BY <1>0 DEF QueuesInv, Successors
<1>9. InFlightCounts'
  <2>1. \A t \in Steps : Placed(t)' <=> Placed(t)
    BY <1>0, <1>1, <1>2, <1>5, OwnStepOwn
  <2>2. InWait' <=> InWait
    BY <1>1, OwnStepRest
  <2>3. \A u \in Threads : pc'[u] = "leave" <=> pc[u] = "leave"
    BY <1>0
  <2> QED BY <1>1, <2>1, <2>2, <2>3, CountsKept DEF QueuesInv, OwnStep
<1> QED BY <1>1, <1>4, <1>5, <1>6, <1>7, <1>8, <1>9, OwnStepRest DEF QueuesInv

\* _newS keeps the successor while the step is let go.
LEMMA ReadSuccessorStep ==
    ASSUME QueuesInv, NEW th \in Threads, NEW s \in Steps, s = job[th], ReadSuccessor(th)
    PROVE  QueuesInv'
<1>0. /\ Threads' = Threads /\ None \notin Steps /\ Main \in Threads /\ pc \in [Threads -> Pcs]
      /\ pc[th] = "failed" /\ pc' = [pc EXCEPT ![th] = "unsuspend"]
      /\ newS \in [Threads -> Steps \cup {None}] /\ newS' = [newS EXCEPT ![th] = succ[s]]
      /\ succ \in [Steps -> Steps \cup {None}] /\ succ' = succ
      /\ rest' = rest /\ waiters' = waiters /\ state' = state /\ nSuspenders' = nSuspenders /\ ip' = ip
      /\ cfg' = cfg /\ job' = job
  BY ThreadFacts DEF ReadSuccessor, Goto, Threads, QueuesInv, Typed, stepVars
<1>1. OwnStep(th, s)
  BY <1>0 DEF OwnStep, ReadSuccessor, WorkPcs
<1>2. Placed(s) /\ Guarded(s) /\ state[s] = "live" /\ StepRight(s)
  BY <1>0, RunnerFacts DEF GuardPcs, WorkPcs, PutPcs, QueuesInv
<1>4. StepRight(s)'
  <2>1. /\ Once(s)' /\ Placed(s)' /\ Guarded(s)' /\ \A u \in Threads : ~Inherits(u, s)'
        /\ \A u \in Threads : job'[u] = s /\ pc'[u] # "leave" => u = th
    BY <1>0, <1>1, OwnStepOwn DEF GuardPcs, WorkPcs
  <2>2. (Waiting(s)' <=> Waiting(s)) /\ WaitsOnce(s)'
    BY <1>0, <1>2 DEF Waiting, WaitsOnce, StepRight
  <2>3. One(Waiting(s))' = One(Waiting(s)) /\ One(Guarded(s))' = One(Guarded(s))
    BY <1>2, <2>1, <2>2 DEF One
  <2> QED BY <1>0, <1>2, <2>1, <2>2, <2>3 DEF StepRight
<1>5. \A t \in Steps : t # s => StepRight(t)' /\ (Placed(t)' <=> Placed(t))
  BY <1>0, <1>1, OwnStepOthers
<1>6. Typed'
  BY <1>0 DEF ReadSuccessor, QueuesInv, Typed, Pcs
<1>7. Control'
  BY <1>0 DEF QueuesInv, Control, PutPcs, WorkPcs, MainPcs, FreePcs
<1>8. Successors'
  BY <1>0, ThreadFacts DEF QueuesInv, Successors
<1>9. InFlightCounts'
  <2>1. \A t \in Steps : Placed(t)' <=> Placed(t)
    BY <1>0, <1>1, <1>2, <1>5, OwnStepOwn
  <2>2. InWait' <=> InWait
    BY <1>1, OwnStepRest
  <2>3. \A u \in Threads : pc'[u] = "leave" <=> pc[u] = "leave"
    BY <1>0
  <2> QED BY <1>1, <2>1, <2>2, <2>3, CountsKept DEF QueuesInv, OwnStep
<1> QED BY <1>1, <1>4, <1>5, <1>6, <1>7, <1>8, <1>9, OwnStepRest DEF QueuesInv

\* A get that misses: the instance joins the suspend group and goes on to fail.
LEMMA GetMissingStep ==
    ASSUME QueuesInv, NEW th \in Threads, NEW s \in Steps, s = job[th], NEW w \in Steps, GetMissing(th, w)
    PROVE  QueuesInv'
<1>0. /\ Threads' = Threads /\ None \notin Steps /\ Main \in Threads /\ pc \in [Threads -> Pcs]
      /\ pc[th] = "run" /\ pc' = [pc EXCEPT ![th] = "failed"] /\ nSuspenders \in [Steps -> Nat]
      /\ nSuspenders' = [nSuspenders EXCEPT ![s] = @ + 1]
      /\ waiters \in [Steps -> SUBSET Steps] /\ waiters' = [waiters EXCEPT ![w] = @ \cup {s}]
      /\ rest' = rest /\ state' = state /\ newS' = newS /\ succ' = succ /\ ip' = ip
      /\ cfg' = cfg /\ job' = job
  BY ThreadFacts DEF GetMissing, AtOp, Goto, Threads, QueuesInv, Typed, execVars
<1>1. OwnStep(th, s)
  BY <1>0 DEF OwnStep, GetMissing, WorkPcs, execVars
<1>2. /\ Placed(s) /\ Guarded(s) /\ state[s] = "live" /\ StepRight(s)
      /\ \A u \in Threads : u # th /\ job[u] = s => pc[u] = "leave"
  BY <1>0, RunnerFacts DEF GuardPcs, WorkPcs, PutPcs, QueuesInv
<1>3. ~Waiting(s) /\ nSuspenders[s] = 1
  BY <1>0, <1>2 DEF StepRight, One
<1>4. StepRight(s)'
  <2>1. /\ Once(s)' /\ Placed(s)' /\ Guarded(s)' /\ \A u \in Threads : ~Inherits(u, s)'
        /\ \A u \in Threads : job'[u] = s /\ pc'[u] # "leave" => u = th
    BY <1>0, <1>1, OwnStepOwn DEF GuardPcs, WorkPcs
  <2>2. Waiting(s)'
    BY <1>0 DEF Waiting
  <2>3. WaitsOnce(s)'
    BY <1>0, <1>3 DEF Waiting, WaitsOnce
  <2>4. nSuspenders'[s] = 2 /\ state'[s] = "live"
    BY <1>0, <1>2, <1>3
  <2>5. One(Waiting(s))' = 1 /\ One(Guarded(s))' = 1
    BY <2>1, <2>2 DEF One
  <2>6. \A u \in Threads : job'[u] = s => pc'[u] \notin {"run", "wake_run"}
    BY <1>0, <1>2
  <2>7. nSuspenders'[s] = One(Waiting(s))' + One(Guarded(s))'
    BY <2>4, <2>5
  <2> QED BY <1>0, <2>1, <2>2, <2>3, <2>4, <2>6, <2>7 DEF StepRight
<1>5. \A t \in Steps : t # s => StepRight(t)' /\ (Placed(t)' <=> Placed(t))
  BY <1>0, <1>1, OwnStepOthers
<1>6. Typed'
  BY <1>0 DEF GetMissing, QueuesInv, Typed, Pcs
<1>7. Control'
  BY <1>0 DEF QueuesInv, Control, PutPcs, WorkPcs, MainPcs, FreePcs
<1>8. Successors'
  BY <1>0, ThreadFacts DEF QueuesInv, Successors
<1>9. InFlightCounts'
  <2>1. \A t \in Steps : Placed(t)' <=> Placed(t)
    BY <1>0, <1>1, <1>2, <1>5, OwnStepOwn
  <2>2. InWait' <=> InWait
    BY <1>1, OwnStepRest
  <2>3. \A u \in Threads : pc'[u] = "leave" <=> pc[u] = "leave"
    BY <1>0
  <2> QED BY <1>1, <2>1, <2>2, <2>3, CountsKept DEF QueuesInv, OwnStep
<1> QED BY <1>1, <1>4, <1>5, <1>6, <1>7, <1>8, <1>9, OwnStepRest DEF QueuesInv

\* The last put of an instance: its group moves into the hands of the thread.
LEMMA PutItemStep ==
    ASSUME QueuesInv, NEW th \in Threads, NEW s \in Steps, s = job[th], PutItem(th)
    PROVE  QueuesInv'
<1>0. /\ Threads' = Threads /\ None \notin Steps /\ Main \in Threads /\ pc \in [Threads -> Pcs]
      /\ pc[th] = "run" /\ pc' = [pc EXCEPT ![th] = "resume"]
      /\ waiters \in [Steps -> SUBSET Steps] /\ waiters' = [waiters EXCEPT ![s] = {}]
      /\ rest \in [Threads -> SUBSET Steps] /\ rest' = [rest EXCEPT ![th] = waiters[s]]
      /\ state \in [Steps -> {"none", "live", "done"}] /\ state' = [state EXCEPT ![s] = "done"]
      /\ nSuspenders' = nSuspenders /\ newS' = newS /\ succ' = succ /\ ip' = ip
      /\ cfg' = cfg /\ job' = job
  BY ThreadFacts DEF PutItem, Goto, Threads, QueuesInv, Typed
<1>1. OwnStep(th, s)
  BY <1>0 DEF OwnStep, PutItem, WorkPcs
<1>2. /\ Placed(s) /\ Guarded(s) /\ state[s] = "live" /\ StepRight(s) /\ ~Waiting(s)
      /\ \A u \in Threads : u # th /\ job[u] = s => pc[u] = "leave"
  BY <1>0, RunnerFacts DEF GuardPcs, WorkPcs, PutPcs, QueuesInv, StepRight
<1>3. rest[th] = {}
  BY <1>0 DEF QueuesInv, Control, PutPcs
<1>a. \A u \in Threads : u # th => rest'[u] = rest[u]
  BY <1>0
<1>b. rest'[th] = waiters[s] /\ waiters'[s] = {} /\ \A u \in Steps : u # s => waiters'[u] = waiters[u]
  BY <1>0
<1>4. \A t \in Steps : (Waiting(t)' <=> Waiting(t)) /\ (WaitsOnce(t) => WaitsOnce(t)')
  <2> SUFFICES ASSUME NEW t \in Steps PROVE (Waiting(t)' <=> Waiting(t)) /\ (WaitsOnce(t) => WaitsOnce(t)')
    OBVIOUS
  <2>1. Waiting(t)' => Waiting(t)
    BY <1>0, <1>a, <1>b DEF Waiting
  <2>2. Waiting(t) => Waiting(t)'
    <3>1. ASSUME NEW u \in Steps, t \in waiters[u] PROVE Waiting(t)'
      BY <1>0, <1>b, <3>1 DEF Waiting
    <3>2. ASSUME NEW u \in Threads, t \in rest[u] PROVE Waiting(t)'
      BY <1>0, <1>3, <1>a, <3>2 DEF Waiting
    <3> QED BY <3>1, <3>2 DEF Waiting
  <2>3. WaitsOnce(t) => WaitsOnce(t)'
    BY <1>0, <1>a, <1>b, <1>3 DEF WaitsOnce
  <2> QED BY <2>1, <2>2, <2>3
<1>5. StepRight(s)'
  <2>1. /\ Once(s)' /\ Placed(s)' /\ Guarded(s)' /\ ~InQueue(s)' /\ \A u \in Threads : ~Inherits(u, s)'
    BY <1>0, <1>1, OwnStepOwn DEF GuardPcs, WorkPcs
  <2>2. state'[s] = "done" /\ ~Waiting(s)' /\ WaitsOnce(s)'
    BY <1>0, <1>2, <1>4 DEF StepRight
  <2> QED BY <1>0, <2>1, <2>2 DEF StepRight
<1>6. ASSUME NEW t \in Steps, t # s PROVE StepRight(t)' /\ (Placed(t)' <=> Placed(t))
  <2>0. StepRight(t) /\ state'[t] = state[t] /\ nSuspenders'[t] = nSuspenders[t]
    BY <1>0, <1>6 DEF QueuesInv
  <2>1. (InQueue(t)' <=> InQueue(t)) /\ (QueuedOnce(t) => QueuedOnce(t)')
    BY <1>0 DEF InQueue, QueuedOnce, PutItem
  <2>2. \A u \in Threads : (Runs(u, t)' <=> Runs(u, t)) /\ (Inherits(u, t)' <=> Inherits(u, t))
    BY <1>0, <1>6 DEF Runs, Inherits
  <2>3. Guarded(t)' <=> Guarded(t)
    BY <1>0, <1>6 DEF Guarded
  <2>4. (Placed(t)' <=> Placed(t)) /\ Once(t)'
    BY <1>0, <2>0, <2>1, <2>2 DEF Placed, Once, StepRight
  <2>5. (Waiting(t)' <=> Waiting(t)) /\ WaitsOnce(t)'
    BY <1>4, <2>0 DEF StepRight
  <2>6. One(Waiting(t))' = One(Waiting(t)) /\ One(Guarded(t))' = One(Guarded(t))
    BY <2>3, <2>5 DEF One
  <2>7. \A u \in Threads : job'[u] = t => job[u] = t /\ pc'[u] = pc[u]
    BY <1>0, <1>6
  <2> QED BY <1>0, <2>0, <2>1, <2>2, <2>3, <2>4, <2>5, <2>6, <2>7 DEF StepRight
<1>7. Typed'
  BY <1>0 DEF PutItem, QueuesInv, Typed, Pcs
<1>8. Control'
  BY <1>0, <1>2 DEF QueuesInv, Control, PutPcs, WorkPcs, MainPcs, FreePcs
<1>9. Successors'
  BY <1>0, ThreadFacts DEF QueuesInv, Successors
<1>10. InFlightCounts'
  <2>1. \A t \in Steps : Placed(t)' <=> Placed(t)
    BY <1>0, <1>1, <1>2, <1>6, OwnStepOwn
  <2>2. InWait' <=> InWait
    BY <1>1, OwnStepRest
  <2>3. \A u \in Threads : pc'[u] = "leave" <=> pc[u] = "leave"
    BY <1>0
  <2> QED BY <1>1, <2>1, <2>2, <2>3, CountsKept DEF QueuesInv, OwnStep
<1> QED BY <1>1, <1>5, <1>6, <1>7, <1>8, <1>9, <1>10, OwnStepRest DEF QueuesInv

\* The failed execution is over: the instance begins again if all its items
\* have come meanwhile, and is let go otherwise.
LEMMA UnsuspendStep ==
    ASSUME QueuesInv, NEW th \in Threads, NEW s \in Steps, s = job[th], Unsuspend(th)
    PROVE  QueuesInv'
<1>0. /\ Threads' = Threads /\ None \notin Steps /\ Main \in Threads /\ pc \in [Threads -> Pcs]
      /\ pc[th] = "unsuspend" /\ nSuspenders \in [Steps -> Nat]
      /\ nSuspenders' = [nSuspenders EXCEPT ![s] = @ - 1]
      /\ rest' = rest /\ waiters' = waiters /\ state' = state /\ newS' = newS /\ succ' = succ
      /\ ip' = ip /\ cfg' = cfg /\ job' = job /\ queues' = queues /\ inFlight' = inFlight
      /\ pc' = [pc EXCEPT ![th] = IF nSuspenders[s] = 1 THEN "begin" ELSE "leave"]
  BY ThreadFacts DEF Unsuspend, Reexecutes, Goto, Threads, QueuesInv, Typed, execVars
<1>1. newS[th] = succ[s]
  BY <1>0, ThreadFacts DEF QueuesInv, Successors
<1>2. OwnStep(th, s)
  BY <1>0, <1>1 DEF OwnStep, Unsuspend, WorkPcs, execVars
<1>3. /\ Placed(s) /\ Guarded(s) /\ state[s] = "live" /\ StepRight(s) /\ ~InQueue(s)
      /\ \A u \in Threads : (Runs(u, s) => u = th) /\ ~Inherits(u, s)
      /\ \A u \in Threads : u # th /\ job[u] = s => pc[u] = "leave"
  BY <1>0, RunnerFacts DEF GuardPcs, WorkPcs, PutPcs, QueuesInv
<1>4. nSuspenders[s] = IF Waiting(s) THEN 2 ELSE 1
  <2>1. nSuspenders[s] = One(Waiting(s)) + One(Guarded(s))
    BY <1>3 DEF StepRight
  <2>2. One(Guarded(s)) = 1 /\ One(Waiting(s)) = IF Waiting(s) THEN 1 ELSE 0
    BY <1>3 DEF One
  <2> QED BY <2>1, <2>2
<1>5. (Waiting(s)' <=> Waiting(s)) /\ WaitsOnce(s)'
  BY <1>0, <1>3 DEF Waiting, WaitsOnce, StepRight
<1>6. \A t \in Steps : t # s => StepRight(t)' /\ (Placed(t)' <=> Placed(t))
  BY <1>0, <1>2, OwnStepOthers
<1>7. Typed'
  <2>1. nSuspenders' \in [Steps -> Nat]
    BY <1>0, <1>4
  <2> QED BY <1>0, <2>1 DEF Unsuspend, QueuesInv, Typed, Pcs
<1>8. Control'
  BY <1>0 DEF QueuesInv, Control, PutPcs, WorkPcs, MainPcs, FreePcs
<1>9. Successors'
  BY <1>0, <1>1, ThreadFacts DEF QueuesInv, Successors
<1>10. InWait' <=> InWait
  BY <1>2, OwnStepRest
<1>11. CASE ~Waiting(s)
  <2>1. pc' = [pc EXCEPT ![th] = "begin"] /\ nSuspenders'[s] = 0
    BY <1>0, <1>4, <1>11
  <2>2. /\ Once(s)' /\ Placed(s)' /\ ~Guarded(s)' /\ \A u \in Threads : ~Inherits(u, s)'
        /\ \A u \in Threads : job'[u] = s /\ pc'[u] # "leave" => u = th
    BY <1>0, <1>2, <2>1, OwnStepOwn DEF GuardPcs, WorkPcs
  <2>3. One(Waiting(s))' = 0 /\ One(Guarded(s))' = 0
    BY <1>5, <1>11, <2>2 DEF One
  <2>4. nSuspenders'[s] = One(Waiting(s))' + One(Guarded(s))'
    BY <2>1, <2>3
  <2>5. StepRight(s)'
    BY <1>0, <1>3, <1>5, <1>11, <2>2, <2>4 DEF StepRight
  <2>6. InFlightCounts'
    <3>1. \A t \in Steps : Placed(t)' <=> Placed(t)
      BY <1>3, <1>6, <2>2
    <3>2. \A u \in Threads : pc'[u] = "leave" <=> pc[u] = "leave"
      BY <1>0, <2>1
    <3> QED BY <1>0, <1>10, <3>1, <3>2, CountsKept DEF QueuesInv
  <2> QED BY <1>2, <1>6, <1>7, <1>8, <1>9, <2>5, <2>6, OwnStepRest DEF QueuesInv
<1>12. CASE Waiting(s)
  <2>1. pc' = [pc EXCEPT ![th] = "leave"] /\ nSuspenders'[s] = 1
    BY <1>0, <1>4, <1>12
  <2>2. QueuedOnce(s)' /\ ~InQueue(s)'
    BY <1>0, <1>3 DEF InQueue, QueuedOnce
  <2>3. \A u \in Threads : ~Runs(u, s)' /\ ~Inherits(u, s)'
    BY <1>0, <1>1, <1>3, <2>1 DEF Runs, Inherits
  <2>4. Once(s)' /\ ~Placed(s)'
    BY <1>0, <2>2, <2>3 DEF Once, Placed
  <2>5. ~Guarded(s)' /\ \A u \in Threads : job'[u] = s => pc'[u] = "leave"
    BY <1>0, <1>3, <2>1 DEF Guarded, GuardPcs
  <2>6. One(Waiting(s))' = 1 /\ One(Guarded(s))' = 0
    BY <1>5, <1>12, <2>5 DEF One
  <2>7. nSuspenders'[s] = One(Waiting(s))' + One(Guarded(s))'
    BY <2>1, <2>6
  <2>8. StepRight(s)'
    BY <1>0, <1>3, <1>5, <1>12, <2>4, <2>5, <2>7 DEF StepRight
  <2>9. InFlightCounts'
    <3>1. Ready' = Ready \ {s} /\ s \in Ready
      BY <1>3, <1>6, <2>4 DEF Ready
    <3>2. Leaving' = Leaving \cup {th} /\ th \notin Leaving
      BY <1>0, <2>1 DEF Leaving
    <3>3. /\ IsFiniteSet(Ready) /\ IsFiniteSet(Leaving)
          /\ Cardinality(Ready) \in Nat /\ Cardinality(Leaving) \in Nat
      BY CountsAreNat DEF QueuesInv, InFlightCounts
    <3>4. IsFiniteSet(Ready') /\ Cardinality(Ready') = Cardinality(Ready) - 1
      BY <3>1, <3>3, FS_RemoveElement
    <3>5. Cardinality(Leaving') = Cardinality(Leaving) + 1
      BY <3>2, <3>3, FS_AddElement
    <3>6. One(InWait)' = One(InWait) /\ One(InWait) \in Nat
      BY <1>10 DEF One
    <3> QED BY <1>0, <3>3, <3>4, <3>5, <3>6 DEF QueuesInv, InFlightCounts
  <2> QED BY <1>2, <1>6, <1>7, <1>8, <1>9, <2>8, <2>9, OwnStepRest DEF QueuesInv
<1> QED BY <1>11, <1>12

-----------------------------------------------------------------------------
(* The end of an execution: the successor, if there is one, is next *)

\* The step that th inherits is live, and in no other place.
LEMMA HeirFacts ==
    ASSUME QueuesInv, NEW th \in Threads, NEW t \in Steps, Inherits(th, t)
    PROVE  /\ state[t] = "live" /\ ~Waiting(t) /\ ~Guarded(t) /\ ~InQueue(t) /\ nSuspenders[t] = 0
           /\ \A u \in Threads : ~Runs(u, t) /\ (Inherits(u, t) => u = th)
<1>1. StepRight(t) /\ Placed(t) /\ state[t] \in {"none", "live", "done"}
  BY DEF QueuesInv, Typed, Placed
<1>2. /\ state[t] = "live" /\ ~InQueue(t)
      /\ \A u \in Threads : ~Runs(u, t) /\ (Inherits(u, t) => u = th)
  BY <1>1 DEF StepRight, Once
<1>3. ~Guarded(t)
  BY <1>2 DEF Guarded, Runs, GuardPcs, WorkPcs
<1>4. ~Waiting(t)
  BY <1>1, <1>3 DEF StepRight
<1>5. One(Waiting(t)) = 0 /\ One(Guarded(t)) = 0
  BY <1>3, <1>4 DEF One
<1>6. nSuspenders[t] = 0
  BY <1>1, <1>2, <1>5 DEF StepRight
<1> QED BY <1>2, <1>3, <1>4, <1>6

\* The loop of do_execute goes on with x, or ends.
GoesOnWith(th, x) ==
    /\ cfg' = cfg /\ queues' = queues /\ gQueue' = gQueue /\ scan' = scan /\ ip' = ip /\ envIp' = envIp
    /\ rest' = rest /\ waiters' = waiters /\ state' = state /\ nSuspenders' = nSuspenders
    /\ job' = [job EXCEPT ![th] = x]
    /\ pc' = [pc EXCEPT ![th] = IF x = None THEN AfterExecute(th) ELSE "begin"]
    /\ \A u \in Threads : u # th => newS'[u] = newS[u]
    /\ pc[th] \in {"resume", "leave"} /\ job[th] # None /\ rest[th] = {}
    /\ x = None \/ Inherits(th, x)
    /\ \A t \in Steps : Inherits(th, t) => t = x
    /\ ~cfg.bypass => succ' = succ
    /\ x # None => succ'[x] \in {None, x}

\* What it does not run, before or after, is untouched; x has moved up.
LEMMA GoesOnStep ==
    ASSUME QueuesInv, NEW th \in Threads, NEW x \in Steps \cup {None}, GoesOnWith(th, x)
    PROVE  /\ \A t \in Steps : t # x /\ ~Runs(th, t) => StepRight(t)' /\ (Placed(t)' <=> Placed(t))
           /\ x # None => StepRight(x)' /\ Placed(x)' /\ Placed(x)
           /\ Control' /\ EnvInPlace' /\ (InWait' <=> InWait)
<1>0. /\ Threads' = Threads /\ None \notin Steps /\ Main \in Threads /\ pc \in [Threads -> Pcs]
      /\ job \in [Threads -> Steps \cup {None}] /\ (cfg.bypass => Threads = {Main})
  BY ThreadFacts DEF GoesOnWith, Threads, QueuesInv, Typed
<1>1. \A u \in Threads : u # th =>
        pc'[u] = pc[u] /\ job'[u] = job[u] /\ newS'[u] = newS[u] /\ succ' = succ
  BY <1>0 DEF GoesOnWith
<1>2. /\ job'[th] = x /\ pc[th] \in {"resume", "leave"} /\ job[th] # None
      /\ pc'[th] = IF x = None THEN AfterExecute(th) ELSE "begin"
  BY <1>0 DEF GoesOnWith
<1>3. ASSUME NEW t \in Steps PROVE ~Inherits(th, t)'
  <2>1. CASE x = None
    BY <1>0, <1>2, <2>1 DEF Inherits, AfterExecute
  <2>2. CASE x # None
    BY <1>0, <1>2, <2>2 DEF Inherits, GoesOnWith
  <2> QED BY <2>1, <2>2
<1>4. \A t \in Steps, u \in Threads : u # th =>
        (Runs(u, t)' <=> Runs(u, t)) /\ (Inherits(u, t)' <=> Inherits(u, t))
  BY <1>1 DEF Runs, Inherits
<1>5. \A t \in Steps : Runs(th, t)' <=> t = x
  BY <1>0, <1>2 DEF Runs
<1>6. \A t \in Steps : InQueue(t)' <=> InQueue(t) /\ (QueuedOnce(t) => QueuedOnce(t)')
  BY <1>0 DEF InQueue, QueuedOnce, GoesOnWith
<1>7. ASSUME NEW t \in Steps, t # x, ~Runs(th, t) PROVE StepRight(t)' /\ (Placed(t)' <=> Placed(t))
  <2>1. ~Inherits(th, t)
    BY <1>7 DEF GoesOnWith
  <2>2. \A u \in Threads : (Runs(u, t)' <=> Runs(u, t)) /\ (Inherits(u, t)' <=> Inherits(u, t))
    BY <1>3, <1>4, <1>5, <1>7, <2>1
  <2>3. Guarded(t)' <=> Guarded(t)
    BY <1>0, <1>1, <1>2, <1>7 DEF Guarded, Runs, GuardPcs
  <2>4. \A u \in Threads : job'[u] = t => job[u] = t /\ pc'[u] = pc[u]
    BY <1>1, <1>2, <1>7
  <2>5. (InQueue(t)' <=> InQueue(t)) /\ (QueuedOnce(t) => QueuedOnce(t)')
    BY <1>0 DEF InQueue, QueuedOnce, GoesOnWith
  <2>6. Untouched(t)
    BY <2>2, <2>3, <2>4, <2>5 DEF Untouched, GoesOnWith
  <2> QED BY <2>6, UntouchedStep DEF QueuesInv, GoesOnWith
<1>8. ASSUME x \in Steps PROVE StepRight(x)' /\ Placed(x)' /\ Placed(x) /\ state[x] = "live"
  <2>0. Inherits(th, x)
    BY <1>0, <1>8 DEF GoesOnWith
  <2>1. /\ state[x] = "live" /\ ~Waiting(x) /\ ~Guarded(x) /\ ~InQueue(x) /\ nSuspenders[x] = 0
        /\ \A u \in Threads : ~Runs(u, x) /\ (Inherits(u, x) => u = th)
    BY <1>8, <2>0, HeirFacts
  <2>2. Placed(x)
    BY <2>0 DEF Placed
  <2>3. \A u \in Threads : (Runs(u, x)' <=> u = th) /\ ~Inherits(u, x)'
    BY <1>3, <1>4, <1>5, <1>8, <2>1
  <2>4. ~InQueue(x)' /\ QueuedOnce(x)'
    BY <1>0, <2>1 DEF InQueue, QueuedOnce, GoesOnWith
  <2>5. Once(x)' /\ Placed(x)'
    BY <1>0, <2>3, <2>4 DEF Once, Placed
  <2>6. ~Guarded(x)' /\ \A u \in Threads : job'[u] = x => pc'[u] \notin {"run", "wake_run"}
    <3>1. \A u \in Threads : job'[u] = x => pc'[u] \in {"begin", "leave"}
      BY <1>0, <1>1, <1>2, <1>8, <2>1 DEF Runs
    <3> QED BY <1>0, <3>1 DEF Guarded, GuardPcs
  <2>7. ~Waiting(x)' /\ WaitsOnce(x)' /\ nSuspenders'[x] = 0 /\ state'[x] = "live"
    BY <1>0, <2>1 DEF Waiting, WaitsOnce, GoesOnWith
  <2>8. One(Waiting(x))' = 0 /\ One(Guarded(x))' = 0
    BY <2>6, <2>7 DEF One
  <2>9. nSuspenders'[x] = One(Waiting(x))' + One(Guarded(x))'
    BY <2>7, <2>8
  <2> QED BY <1>0, <2>1, <2>2, <2>5, <2>6, <2>7, <2>9 DEF StepRight
<1>9. Control'
  <2>1. \A u \in Threads : u # th => rest'[u] = rest[u] /\ state' = state
    BY DEF GoesOnWith
  <2>2. rest'[th] = {} /\ (x # None => state'[x] = "live")
    BY <1>8 DEF GoesOnWith
  <2> QED BY <1>0, <1>1, <1>2, <2>1, <2>2
          DEF QueuesInv, Control, AfterExecute, WorkPcs, MainPcs, FreePcs, PutPcs
<1>10. InWait' <=> InWait
  BY <1>0, <1>1, <1>2 DEF InWait, AfterExecute
<1>11. EnvInPlace'
  <2>1. \A u \in Threads : pc'[u] = "dead" => pc[u] = "dead"
    BY <1>1, <1>2 DEF AfterExecute
  <2>2. pc'[Main] \in {"joining", "dead"} <=> pc[Main] \in {"joining", "dead"}
    BY <1>0, <1>1, <1>2 DEF AfterExecute
  <2> QED BY <1>0, <1>10, <2>1, <2>2 DEF QueuesInv, EnvInPlace, Queued, GoesOnWith
<1> QED BY <1>7, <1>8, <1>9, <1>10, <1>11

\* m_succStep of the step that runs: nobody's without bypass.
LEMMA SuccessorFacts ==
    ASSUME QueuesInv, NEW th \in Threads, NEW s \in Steps, job[th] = s
    PROVE  /\ succ[s] # None => cfg.bypass /\ th = Main
           /\ newS[th] # None => cfg.bypass /\ th = Main
           /\ \A t \in Steps : cfg.bypass /\ state[t] = "live" /\ t # s => succ[t] = None
BY ThreadFacts DEF QueuesInv, Successors

\* A step that is done leaves its successor, if it has one, to its thread.
LEMMA SucceedStep ==
    ASSUME QueuesInv, NEW th \in Threads, NEW s \in Steps, s = job[th],
           NEW x \in Steps \cup {None}, x = (IF succ[s] = s THEN None ELSE succ[s]), Succeed(th)
    PROVE  QueuesInv'
<1>0. /\ Threads' = Threads /\ None \notin Steps /\ Main \in Threads /\ pc \in [Threads -> Pcs]
      /\ pc[th] = "resume" /\ rest[th] = {} /\ inFlight' = inFlight - 1
      /\ job' = [job EXCEPT ![th] = x] /\ newS' = newS /\ stepVars' = stepVars /\ cfg' = cfg
      /\ pc' = [pc EXCEPT ![th] = IF x = None THEN AfterExecute(th) ELSE "begin"]
      /\ job \in [Threads -> Steps \cup {None}]
  BY ThreadFacts DEF Succeed, Continue, Goto, Threads, QueuesInv, Typed
<1>1. /\ Runs(th, s) /\ Placed(s) /\ ~InQueue(s)
      /\ \A u \in Threads : (Runs(u, s) => u = th) /\ ~Inherits(u, s)
      /\ \A u \in Threads : u # th /\ job[u] = s => pc[u] = "leave"
      /\ state[s] = "done" /\ StepRight(s)
  BY <1>0, RunnerFacts DEF PutPcs, QueuesInv
<1>2. GoesOnWith(th, x)
  <2>1. \A t \in Steps : Inherits(th, t) <=> succ[s] = t /\ s # t
    BY <1>0 DEF Inherits
  <2>2. x = None \/ Inherits(th, x)
    BY <2>1
  <2>3. x # None => succ[x] = None
    <3> SUFFICES ASSUME x # None PROVE succ[x] = None
      OBVIOUS
    <3>1. x \in Steps /\ x # s /\ succ[s] # None /\ state[x] = "live"
      BY <2>2, HeirFacts
    <3> QED BY <3>1, SuccessorFacts
  <2> QED BY <1>0, <2>1, <2>2, <2>3 DEF GoesOnWith, Succeed, stepVars
<1>3. StepRight(s)' /\ ~Placed(s)'
  <2>0. x # s
    BY <1>0
  <2>1. \A u \in Threads : ~Runs(u, s)' /\ ~Inherits(u, s)'
    <3>1. \A u \in Threads : u # th => ~Runs(u, s)' /\ ~Inherits(u, s)'
      BY <1>0, <1>1 DEF Runs, Inherits, stepVars
    <3>2. ~Runs(th, s)'
      BY <1>0, <2>0 DEF Runs
    <3>3. ~Inherits(th, s)'
      <4>1. CASE x = None
        BY <1>0, <4>1 DEF Inherits, AfterExecute
      <4>2. CASE x # None
        BY <1>0, <1>2, <2>0, <4>2 DEF Inherits, GoesOnWith
      <4> QED BY <4>1, <4>2
    <3> QED BY <3>1, <3>2, <3>3
  <2>2. ~InQueue(s)' /\ QueuedOnce(s)'
    BY <1>0, <1>1, <1>2 DEF InQueue, QueuedOnce, GoesOnWith
  <2>3. Once(s)' /\ ~Placed(s)'
    BY <1>0, <2>1, <2>2 DEF Once, Placed
  <2>4. ~Waiting(s)' /\ WaitsOnce(s)' /\ state'[s] = "done"
    BY <1>0, <1>1 DEF Waiting, WaitsOnce, StepRight, stepVars, Succeed
  <2> QED BY <1>0, <2>1, <2>2, <2>3, <2>4 DEF StepRight
<1>4. /\ \A t \in Steps : t # x /\ t # s => StepRight(t)' /\ (Placed(t)' <=> Placed(t))
      /\ x # None => StepRight(x)' /\ Placed(x)' /\ Placed(x)
      /\ Control' /\ EnvInPlace' /\ (InWait' <=> InWait)
  <2>1. \A t \in Steps : t # s => ~Runs(th, t)
    BY DEF Runs
  <2> QED BY <1>2, <2>1, GoesOnStep
<1>5. ASSUME NEW t \in Steps PROVE StepRight(t)' /\ (t # s => (Placed(t)' <=> Placed(t)))
  <2>1. CASE t = s
    BY <1>3, <2>1
  <2>2. CASE t # s /\ t # x
    BY <1>4, <2>2
  <2>3. CASE t # s /\ t = x
    BY <1>0, <1>4, <2>3
  <2> QED BY <2>1, <2>2, <2>3
<1>6. Typed'
  <2>1. pc' \in [Threads -> Pcs] /\ job' \in [Threads -> Steps \cup {None}]
    BY <1>0 DEF AfterExecute, Pcs
  <2> QED BY <1>0, <2>1 DEF Succeed, QueuesInv, Typed, stepVars
<1>7. Successors'
  <2>1. \A t \in Steps : cfg.bypass /\ state[t] # "done" => succ[t] = None
    BY <1>0, <1>1, ThreadFacts DEF QueuesInv, Successors
  <2>2. pc'[th] \notin {"unsuspend", "leave"}
    BY <1>0 DEF AfterExecute
  <2> QED BY <1>0, <2>1, <2>2, ThreadFacts DEF QueuesInv, Successors, stepVars
<1>8. InFlightCounts'
  <2>1. Ready' = Ready \ {s} /\ s \in Ready
    BY <1>1, <1>3, <1>5 DEF Ready
  <2>2. Leaving' = Leaving
    BY <1>0 DEF Leaving, AfterExecute
  <2>3. /\ IsFiniteSet(Ready)
        /\ Cardinality(Ready) \in Nat /\ Cardinality(Leaving) \in Nat
    BY CountsAreNat DEF QueuesInv, InFlightCounts
  <2>4. IsFiniteSet(Ready') /\ Cardinality(Ready') = Cardinality(Ready) - 1
    BY <2>1, <2>3, FS_RemoveElement
  <2>5. One(InWait)' = One(InWait) /\ One(InWait) \in Nat
    BY <1>4 DEF One
  <2> QED BY <1>0, <2>2, <2>3, <2>4, <2>5 DEF QueuesInv, InFlightCounts
<1> QED BY <1>4, <1>5, <1>6, <1>7, <1>8 DEF QueuesInv

\* So does one that was suspended.
LEMMA LeaveSuspendedStep ==
    ASSUME QueuesInv, NEW th \in Threads, NEW s \in Steps, s = job[th],
           NEW x \in Steps \cup {None}, x = (IF newS[th] = s THEN None ELSE newS[th]), LeaveSuspended(th)
    PROVE  QueuesInv'
<1>0. /\ Threads' = Threads /\ None \notin Steps /\ Main \in Threads /\ pc \in [Threads -> Pcs]
      /\ pc[th] = "leave" /\ inFlight' = inFlight - 1 /\ cfg' = cfg /\ state' = state
      /\ job' = [job EXCEPT ![th] = x] /\ newS' = [newS EXCEPT ![th] = None]
      /\ pc' = [pc EXCEPT ![th] = IF x = None THEN AfterExecute(th) ELSE "begin"]
      /\ job \in [Threads -> Steps \cup {None}] /\ newS \in [Threads -> Steps \cup {None}]
      /\ succ \in [Steps -> Steps \cup {None}]
      /\ succ' = IF ~cfg.bypass THEN succ
                 ELSE [t \in Steps |-> CASE t = s -> None
                                         [] t = newS[th] /\ t # s -> t
                                         [] OTHER -> succ[t]]
  BY ThreadFacts DEF LeaveSuspended, Continue, Goto, Threads, QueuesInv, Typed
<1>1. rest[th] = {}
  BY <1>0 DEF QueuesInv, Control, PutPcs
<1>2. GoesOnWith(th, x)
  <2>1. \A t \in Steps : Inherits(th, t) <=> newS[th] = t /\ s # t
    BY <1>0 DEF Inherits
  <2>2. x = None \/ Inherits(th, x)
    BY <2>1
  <2>3. x # None => succ'[x] \in {None, x}
    <3> SUFFICES ASSUME x # None PROVE succ'[x] \in {None, x}
      OBVIOUS
    <3>1. x \in Steps /\ x # s /\ newS[th] = x /\ cfg.bypass
      BY SuccessorFacts
    <3> QED BY <1>0, <3>1
  <2> QED BY <1>0, <1>1, <2>1, <2>2, <2>3 DEF GoesOnWith, LeaveSuspended
<1>3. /\ \A t \in Steps : t # x => StepRight(t)' /\ (Placed(t)' <=> Placed(t))
      /\ x # None => StepRight(x)' /\ Placed(x)' /\ Placed(x)
      /\ Control' /\ EnvInPlace' /\ (InWait' <=> InWait)
  <2>1. \A t \in Steps : ~Runs(th, t)
    BY <1>0 DEF Runs
  <2> QED BY <1>2, <2>1, GoesOnStep
<1>9. ASSUME NEW t \in Steps PROVE StepRight(t)' /\ (Placed(t)' <=> Placed(t))
  <2>1. CASE t # x
    BY <1>3, <2>1
  <2>2. CASE t = x
    BY <1>0, <1>3, <2>2
  <2> QED BY <2>1, <2>2
<1>4. Typed'
  <2>1. /\ pc' \in [Threads -> Pcs] /\ job' \in [Threads -> Steps \cup {None}]
        /\ newS' \in [Threads -> Steps \cup {None}]
    BY <1>0 DEF AfterExecute, Pcs
  <2>2. succ' \in [Steps -> Steps \cup {None}]
    BY <1>0
  <2> QED BY <1>0, <2>1, <2>2 DEF LeaveSuspended, QueuesInv, Typed
<1>5. Successors'
  <2>1. CASE ~cfg.bypass
    BY <1>0, <2>1 DEF QueuesInv, Successors
  <2>2. CASE cfg.bypass
    <3>1. th = Main /\ \A t \in Steps : state[t] # "done" /\ t # s => succ[t] = None
      BY <1>0, <2>2, ThreadFacts DEF QueuesInv, Successors
    <3>2. ASSUME NEW t \in Steps, state[t] # "done", t # x PROVE succ'[t] = None
      <4>1. CASE t = s
        BY <1>0, <2>2, <4>1
      <4>2. CASE t # s
        BY <1>0, <2>2, <3>1, <3>2, <4>2
      <4> QED BY <4>1, <4>2
    <3>3. pc'[Main] \notin {"unsuspend", "leave"} /\ job'[Main] = x
      BY <1>0, <3>1 DEF AfterExecute
    <3> QED BY <1>0, <2>2, <3>2, <3>3 DEF Successors
  <2> QED BY <2>1, <2>2
<1>6. InFlightCounts'
  <2>1. Ready' = Ready
    BY <1>9 DEF Ready
  <2>2. Leaving' = Leaving \ {th} /\ th \in Leaving
    BY <1>0 DEF Leaving, AfterExecute
  <2>3. /\ IsFiniteSet(Leaving)
        /\ Cardinality(Ready) \in Nat /\ Cardinality(Leaving) \in Nat
    BY CountsAreNat DEF QueuesInv
  <2>4. Cardinality(Leaving') = Cardinality(Leaving) - 1
    BY <2>2, <2>3, FS_RemoveElement
  <2>5. One(InWait)' = One(InWait) /\ One(InWait) \in Nat
    BY <1>3 DEF One
  <2> QED BY <1>0, <2>1, <2>3, <2>4, <2>5 DEF QueuesInv, InFlightCounts
<1> QED BY <1>3, <1>4, <1>5, <1>6, <1>9 DEF QueuesInv

-----------------------------------------------------------------------------
(* schedule *)

\* do_schedule pushes to a queue there is; the task scheduler has one.
LEMMA TargetIsQueue ==
    ASSUME Typed, NEW th \in Threads, NEW s \in Steps
    PROVE  TargetQueue(th, s) \in Threads /\ (~Queued => TargetQueue(th, s) = 0)
<1>1. Main \in Threads
  BY ThreadFacts
<1> QED BY <1>1 DEF TargetQueue, LocalQueue, Queued, Main, Threads

\* s is scheduled in place l of the thread; the groups and counters of the
\* other instances stay as they are.
Scheduled(th, s, l) ==
    /\ cfg' = cfg /\ gQueue' = gQueue /\ scan' = scan /\ job' = job /\ newS' = newS
    /\ l \in {"run", "resume"} /\ pc[th] = l /\ job[th] # s /\ Schedule(th, s, l)
    /\ ~Placed(s) /\ state[s] # "done"
    /\ state'[s] = "live" /\ nSuspenders'[s] = 0 /\ ~Waiting(s)'
    /\ \A t \in Steps : t # s =>
          /\ state'[t] = state[t] /\ nSuspenders'[t] = nSuspenders[t]
          /\ \A u \in Steps : t \in waiters'[u] <=> t \in waiters[u]
          /\ \A u \in Threads : t \in rest'[u] <=> t \in rest[u]
    /\ \A u \in Threads : rest'[u] \subseteq rest[u]
    /\ InWait \/ pc[Main] \in {"joining", "dead"} => envIp' = envIp

\* Where the thread is afterwards.
LEMMA SchedulePlace ==
    ASSUME QueuesInv, NEW th \in Threads, NEW s \in Steps, NEW l, Scheduled(th, s, l)
    PROVE  /\ pc' \in [Threads -> Pcs]
           /\ \A u \in Threads : u # th => pc'[u] = pc[u]
           /\ pc[th] = "run" => pc'[th] \in {"run", "wake_run"}
           /\ pc[th] = "resume" => pc'[th] \in {"resume", "wake_resume"}
           /\ pc[th] \in {"run", "resume"}
<1>1. pc \in [Threads -> Pcs]
  BY DEF QueuesInv, Typed
<1>2. pc' = [pc EXCEPT ![th] = l] \/ pc' = [pc EXCEPT ![th] = WakeBefore[l]]
  BY DEF Scheduled, Schedule, Goto
<1>3. CASE l = "run"
  BY <1>1, <1>2, <1>3, WakeBeforeIs DEF Scheduled, Pcs
<1>4. CASE l = "resume"
  BY <1>1, <1>2, <1>4, WakeBeforeIs DEF Scheduled, Pcs
<1> QED BY <1>3, <1>4 DEF Scheduled

\* The step is made the successor, or pushed; no other is moved.
LEMMA ScheduleMoves ==
    ASSUME QueuesInv, NEW th \in Threads, NEW s \in Steps, NEW l, Scheduled(th, s, l)
    PROVE  /\ \A t \in Steps : t # s =>
                /\ InQueue(t)' <=> InQueue(t)
                /\ QueuedOnce(t) => QueuedOnce(t)'
                /\ \A u \in Threads : Inherits(u, t)' <=> Inherits(u, t)
           /\ QueuedOnce(s)'
           /\ \/ InQueue(s)' /\ \A u \in Threads : ~Inherits(u, s)'
              \/ ~InQueue(s)' /\ \A u \in Threads : Inherits(u, s)' <=> u = th
           /\ queues' \in [Threads -> Seq(Steps)] /\ succ' \in [Steps -> Steps \cup {None}]
           /\ ~Queued => \A k \in Threads : k # 0 => queues'[k] = queues[k]
           /\ Successors'
<1>0. /\ Threads' = Threads /\ None \notin Steps /\ Main \in Threads /\ cfg' = cfg
      /\ job' = job /\ newS' = newS /\ queues \in [Threads -> Seq(Steps)]
      /\ succ \in [Steps -> Steps \cup {None}] /\ job \in [Threads -> Steps \cup {None}]
      /\ (cfg.bypass => Threads = {Main}) /\ ~InQueue(s) /\ \A u \in Threads : ~Inherits(u, s)
  BY ThreadFacts DEF Scheduled, Threads, QueuesInv, Typed, Placed
<1>1. /\ \A u \in Threads : u # th => pc'[u] = pc[u]
      /\ pc[th] \notin {"unsuspend", "leave"} /\ pc'[th] \notin {"unsuspend", "leave"}
  BY SchedulePlace
<1>2. CASE cfg.bypass /\ job[th] # None /\ succ[job[th]] = None
  <2>1. PICK j \in Steps : j = job[th] /\ j # s /\ succ[j] = None
    BY <1>0, <1>2 DEF Scheduled
  <2>2. queues' = queues /\ succ' = [succ EXCEPT ![j] = s] /\ th = Main
    BY <1>0, <1>2, <2>1 DEF Scheduled, Schedule
  <2>3. \A u \in Threads : u = th
    BY <1>0, <1>2
  <2>4. \A t \in Steps : Inherits(th, t)' <=> t = s
    BY <1>0, <1>1, <2>1, <2>2 DEF Inherits
  <2>5. \A t \in Steps : ~Inherits(th, t)
    BY <1>0, <1>1, <2>1 DEF Inherits
  <2>6. \A t \in Steps : (InQueue(t)' <=> InQueue(t)) /\ (QueuedOnce(t) => QueuedOnce(t)')
    BY <1>0, <2>2 DEF InQueue, QueuedOnce
  <2>7. QueuedOnce(s)' /\ ~InQueue(s)'
    BY <1>0, <2>2 DEF InQueue, QueuedOnce
  <2>8. Successors'
    <3>1. ASSUME NEW t \in Steps, state'[t] # "done", t # j PROVE succ'[t] = None
      <4>1. state[t] # "done"
        BY <3>1 DEF Scheduled
      <4> QED BY <1>0, <1>2, <2>1, <2>2, <3>1, <4>1 DEF QueuesInv, Successors
    <3> QED BY <1>0, <1>1, <1>2, <2>1, <2>2, <3>1 DEF Successors
  <2> QED BY <1>0, <2>2, <2>3, <2>4, <2>5, <2>6, <2>7, <2>8
<1>3. CASE ~(cfg.bypass /\ job[th] # None /\ succ[job[th]] = None)
  <2>1. PICK k \in Threads : /\ queues' = [queues EXCEPT ![k] = Append(@, s)] /\ succ' = succ
                             /\ ~Queued => k = 0
    BY <1>3, TargetIsQueue DEF Scheduled, Schedule, QueuesInv
  <2>2. /\ queues' \in [Threads -> Seq(Steps)]
        /\ \A t \in Steps : t # s => (InQueue(t)' <=> InQueue(t)) /\ (QueuedOnce(t) => QueuedOnce(t)')
        /\ InQueue(s)' /\ (~InQueue(s) => QueuedOnce(s)')
        /\ \A m \in Threads : m # k => queues'[m] = queues[m]
    BY <1>0, <2>1, AppendQueue DEF QueuesInv
  <2>3. ASSUME NEW t \in Steps, NEW u \in Threads PROVE Inherits(u, t)' <=> Inherits(u, t)
    BY <1>0, <1>1, <2>1 DEF Inherits
  <2>4. Successors'
    <3>1. \A t \in Steps : state'[t] # "done" => state[t] # "done"
      BY DEF Scheduled
    <3>2. pc'[Main] \in {"unsuspend", "leave"} => pc[Main] \in {"unsuspend", "leave"}
      BY <1>0, <1>1
    <3> QED BY <1>0, <2>1, <3>1, <3>2 DEF QueuesInv, Successors
  <2> QED BY <1>0, <2>1, <2>2, <2>3, <2>4
<1> QED BY <1>2, <1>3

\* The step becomes ready and is counted.
LEMMA ScheduleStep ==
    ASSUME QueuesInv, NEW th \in Threads, NEW s \in Steps, NEW l, Scheduled(th, s, l)
    PROVE  /\ \A t \in Steps : StepRight(t)'
           /\ Control' /\ Successors' /\ InFlightCounts' /\ EnvInPlace'
           /\ queues' \in [Threads -> Seq(Steps)] /\ succ' \in [Steps -> Steps \cup {None}]
           /\ pc' \in [Threads -> Pcs]
<1>0. /\ Threads' = Threads /\ None \notin Steps /\ Main \in Threads /\ cfg' = cfg /\ job' = job
      /\ pc' \in [Threads -> Pcs] /\ gQueue' = gQueue
  BY ThreadFacts, SchedulePlace DEF Scheduled, Threads, QueuesInv
<1>1. /\ \A u \in Threads : u # th => pc'[u] = pc[u]
      /\ pc[th] = "run" => pc'[th] \in {"run", "wake_run"}
      /\ pc[th] = "resume" => pc'[th] \in {"resume", "wake_resume"}
      /\ pc[th] \in {"run", "resume"}
  BY SchedulePlace
<1>2. ASSUME NEW t \in Steps, t # s PROVE StepRight(t)' /\ (Placed(t)' <=> Placed(t))
  <2>1. \A u \in Threads : Runs(u, t)' <=> Runs(u, t)
    BY <1>0, <1>1 DEF Runs
  <2>2. /\ (InQueue(t)' <=> InQueue(t)) /\ (QueuedOnce(t) => QueuedOnce(t)')
        /\ \A u \in Threads : Inherits(u, t)' <=> Inherits(u, t)
    BY <1>2, ScheduleMoves
  <2>3. Guarded(t)' <=> Guarded(t)
    BY <1>0, <1>1 DEF Guarded, GuardPcs, WorkPcs
  <2>4. \A u \in Threads : job'[u] = t /\ pc'[u] \in {"run", "wake_run"} =>
            job[u] = t /\ pc[u] \in {"run", "wake_run"}
    BY <1>0, <1>1
  <2>5. Untouched(t)
    BY <1>2, <2>1, <2>2, <2>3, <2>4 DEF Untouched, Scheduled
  <2> QED BY <1>0, <2>5, UntouchedStep DEF QueuesInv
<1>3. StepRight(s)' /\ Placed(s)' /\ ~Placed(s)
  <2>1. ~Placed(s) /\ ~Waiting(s)' /\ state'[s] = "live" /\ nSuspenders'[s] = 0 /\ job[th] # s
    BY DEF Scheduled
  <2>2. \A u \in Threads : job[u] = s => pc[u] = "leave" /\ pc'[u] = "leave"
    BY <1>1, <2>1 DEF Placed, Runs
  <2>3. \A u \in Threads : ~Runs(u, s)'
    BY <1>0, <2>2 DEF Runs
  <2>4. ~Guarded(s)' /\ \A u \in Threads : job'[u] = s => pc'[u] \notin {"run", "wake_run"}
    BY <1>0, <2>2 DEF Guarded, GuardPcs
  <2>5. Once(s)' /\ Placed(s)'
    BY <1>0, <2>3, ScheduleMoves DEF Once, Placed
  <2>6. WaitsOnce(s)'
    BY <2>1 DEF Waiting, WaitsOnce
  <2>7. One(Waiting(s))' = 0 /\ One(Guarded(s))' = 0
    BY <2>1, <2>4 DEF One
  <2>8. nSuspenders'[s] = One(Waiting(s))' + One(Guarded(s))'
    BY <2>1, <2>7
  <2> QED BY <1>0, <2>1, <2>4, <2>5, <2>6, <2>8 DEF StepRight
<1>4. Control'
  <2>1. \A u \in Threads : rest'[u] # {} => rest[u] # {}
    BY DEF Scheduled
  <2>2. \A u \in Threads : job[u] # None /\ pc[u] # "leave" =>
          state[job[u]] = IF pc[u] \in PutPcs THEN "done" ELSE "live"
    BY DEF QueuesInv, Control
  <2>3. \A u \in Threads : job[u] # None /\ pc[u] # "leave" => job[u] \in Steps /\ job[u] # s
    BY <1>3 DEF Placed, Runs, QueuesInv, Typed
  <2>4. \A u \in Threads : job[u] # None /\ pc[u] # "leave" => state'[job[u]] = state[job[u]]
    BY <2>3 DEF Scheduled
  <2>5. \A u \in Threads : job'[u] # None /\ pc'[u] # "leave" =>
          state'[job'[u]] = IF pc'[u] \in PutPcs THEN "done" ELSE "live"
    BY <1>0, <1>1, <2>2, <2>4 DEF PutPcs
  <2>6. \A u \in Threads :
          /\ job[u] # None => pc[u] \in WorkPcs
          /\ job[u] = None => pc[u] \in IF u = Main THEN MainPcs ELSE FreePcs
          /\ rest[u] # {} => pc[u] \in PutPcs /\ job[u] # None
    BY DEF QueuesInv, Control
  <2>7. ASSUME NEW u \in Threads
        PROVE  /\ job[u] # None => pc'[u] \in WorkPcs
               /\ job[u] = None => pc'[u] \in IF u = Main THEN MainPcs ELSE FreePcs
               /\ rest[u] # {} => pc'[u] \in PutPcs /\ job[u] # None
    <3>1. CASE u # th
      BY <1>1, <2>6, <3>1
    <3>2. CASE u = th /\ pc[th] = "run"
      BY <1>1, <2>6, <3>2 DEF PutPcs, WorkPcs, MainPcs, FreePcs
    <3>3. CASE u = th /\ pc[th] = "resume"
      BY <1>1, <2>6, <3>3 DEF PutPcs, WorkPcs, MainPcs, FreePcs
    <3> QED BY <1>1, <3>1, <3>2, <3>3
  <2> QED BY <1>0, <2>1, <2>5, <2>7 DEF Control
<1>5. InWait' <=> InWait
  BY <1>0, <1>1 DEF InWait
<1>6. InFlightCounts'
  <2>1. Ready' = Ready \cup {s} /\ s \notin Ready
    BY <1>2, <1>3 DEF Ready
  <2>2. Leaving' = Leaving
    BY <1>0, <1>1 DEF Leaving
  <2>3. /\ IsFiniteSet(Ready)
        /\ Cardinality(Ready) \in Nat /\ Cardinality(Leaving) \in Nat
    BY CountsAreNat DEF QueuesInv, InFlightCounts
  <2>4. IsFiniteSet(Ready') /\ Cardinality(Ready') = Cardinality(Ready) + 1
    BY <2>1, <2>3, FS_AddElement
  <2>5. One(InWait)' = One(InWait) /\ One(InWait) \in Nat
    BY <1>5 DEF One
  <2>6. inFlight' = inFlight + 1
    BY DEF Scheduled, Schedule, Counted
  <2> QED BY <2>2, <2>3, <2>4, <2>5, <2>6 DEF QueuesInv, InFlightCounts
<1>7. EnvInPlace'
  <2>1. /\ InWait => envIp' = envIp
        /\ pc[Main] \in {"joining", "dead"} => envIp' = envIp
    BY DEF Scheduled
  <2>2. pc'[Main] \in {"joining", "dead"} <=> pc[Main] \in {"joining", "dead"}
    BY <1>0, <1>1
  <2>3. \A u \in Threads : pc'[u] = "dead" => pc[u] = "dead"
    BY <1>1
  <2>4. ~Queued => \A k \in Threads : k # 0 => queues'[k] = queues[k]
    BY ScheduleMoves
  <2> QED BY <1>0, <1>5, <2>1, <2>2, <2>3, <2>4 DEF QueuesInv, EnvInPlace, Queued
<1> QED BY <1>0, <1>2, <1>3, <1>4, <1>6, <1>7, ScheduleMoves

\* A put of a tag schedules the new step.
LEMMA PutTagStep ==
    ASSUME QueuesInv, NEW th \in Threads, NEW s \in Steps, PutTag(th, s)
    PROVE  QueuesInv'
<1>0. /\ pc[th] = "run" /\ state[s] = "none" /\ state \in [Steps -> {"none", "live", "done"}]
      /\ state' = [state EXCEPT ![s] = "live"] /\ Advance(th) /\ StepRight(s) /\ s # None
      /\ rest' = rest /\ waiters' = waiters /\ nSuspenders' = nSuspenders /\ cfg' = cfg
      /\ Threads' = Threads
  BY ThreadFacts DEF PutTag, AtOp, QueuesInv, Typed, Threads
<1>1. /\ ip' \in [Threads -> Nat] /\ envIp' \in Nat \ {0}
      /\ job[th] # None => envIp' = envIp
      /\ job[th] = None => th = Main /\ ~InWait
  BY <1>0, AdvanceEnv
<1>2. ~Placed(s) /\ ~Waiting(s) /\ nSuspenders[s] = 0
  BY <1>0 DEF StepRight
<1>3. ~Waiting(s)'
  BY <1>0, <1>2 DEF Waiting
<1>4. job[th] # s
  BY <1>0, <1>2 DEF Placed, Runs
<1>5. Scheduled(th, s, "run")
  BY <1>0, <1>1, <1>2, <1>3, <1>4 DEF Scheduled, PutTag
<1>6. Typed'
  <2>1. /\ queues' \in [Threads -> Seq(Steps)] /\ succ' \in [Steps -> Steps \cup {None}]
        /\ pc' \in [Threads -> Pcs]
    BY <1>5, ScheduleStep
  <2> QED BY <1>0, <1>1, <2>1 DEF PutTag, QueuesInv, Typed
<1> QED BY <1>5, <1>6, ScheduleStep DEF QueuesInv

\* A member of the group is scheduled when nobody else keeps it from that.
LEMMA ResumeStep ==
    ASSUME QueuesInv, NEW th \in Threads, NEW s \in Steps, Resume(th, s)
    PROVE  QueuesInv'
<1>0. /\ pc[th] = "resume" /\ s \in rest[th] /\ rest' = [rest EXCEPT ![th] = @ \ {s}]
      /\ nSuspenders' = [nSuspenders EXCEPT ![s] = @ - 1] /\ nSuspenders \in [Steps -> Nat]
      /\ rest \in [Threads -> SUBSET Steps] /\ state \in [Steps -> {"none", "live", "done"}]
      /\ waiters' = waiters /\ state' = state /\ cfg' = cfg /\ job' = job /\ newS' = newS
      /\ gQueue' = gQueue /\ scan' = scan /\ ip' = ip /\ envIp' = envIp
      /\ Threads' = Threads /\ StepRight(s) /\ None \notin Steps
  BY ThreadFacts DEF Resume, QueuesInv, Typed, Threads
<1>1. Waiting(s) /\ state[s] = "live" /\ nSuspenders[s] = 1 + One(Guarded(s))
  <2>1. Waiting(s)
    BY <1>0 DEF Waiting
  <2>2. state[s] = "live"
    BY <1>0, <2>1 DEF StepRight
  <2>3. One(Waiting(s)) = 1
    BY <2>1 DEF One
  <2> QED BY <1>0, <2>1, <2>2, <2>3 DEF StepRight
<1>2. /\ \A u \in Threads : s \notin rest'[u]
      /\ \A u \in Steps : s \notin waiters'[u]
      /\ ~Waiting(s)'
  <2>1. /\ \A u \in Threads : s \in rest[u] => u = th
        /\ \A u \in Steps : s \notin waiters[u]
    BY <1>0 DEF StepRight, WaitsOnce
  <2>2. /\ \A u \in Threads : s \notin rest'[u]
        /\ \A u \in Steps : s \notin waiters'[u]
    BY <1>0, <2>1
  <2> QED BY <1>0, <2>2 DEF Waiting
<1>3. \A t \in Steps : t # s =>
        /\ nSuspenders'[t] = nSuspenders[t]
        /\ \A u \in Threads : t \in rest'[u] <=> t \in rest[u]
  BY <1>0
<1>4. job[th] # s
  BY <1>0, <1>1, RunnerFacts DEF PutPcs
<1>5. /\ nSuspenders' \in [Steps -> Nat] /\ rest' \in [Threads -> SUBSET Steps]
      /\ \A u \in Threads : rest'[u] \subseteq rest[u]
  <2>1. nSuspenders[s] - 1 \in Nat
    BY <1>0, <1>1 DEF One
  <2> QED BY <1>0, <2>1
<1>6. CASE nSuspenders[s] = 1
  <2>1. ~Guarded(s)
    BY <1>1, <1>6 DEF One
  <2>2. ~Placed(s) /\ nSuspenders'[s] = 0
    BY <1>0, <1>1, <1>6, <2>1 DEF StepRight
  <2>3. Schedule(th, s, "resume")
    BY <1>6 DEF Resume
  <2>4. Scheduled(th, s, "resume")
    BY <1>0, <1>1, <1>2, <1>3, <1>4, <1>5, <2>2, <2>3 DEF Scheduled
  <2>5. Typed'
    <3>1. /\ queues' \in [Threads -> Seq(Steps)] /\ succ' \in [Steps -> Steps \cup {None}]
          /\ pc' \in [Threads -> Pcs]
      BY <2>4, ScheduleStep
    <3> QED BY <1>0, <1>5, <3>1 DEF QueuesInv, Typed
  <2> QED BY <2>4, <2>5, ScheduleStep DEF QueuesInv
<1>7. CASE nSuspenders[s] # 1
  <2>0. pc' = pc /\ queues' = queues /\ succ' = succ /\ inFlight' = inFlight
    BY <1>7 DEF Resume
  <2>1. Guarded(s) /\ nSuspenders'[s] = 1
    BY <1>0, <1>1, <1>7 DEF One
  <2>2. \A t \in Steps : \A u \in Threads :
          (Runs(u, t)' <=> Runs(u, t)) /\ (Inherits(u, t)' <=> Inherits(u, t))
    BY <1>0, <2>0 DEF Runs, Inherits
  <2>3. ASSUME NEW t \in Steps PROVE (InQueue(t)' <=> InQueue(t)) /\ (QueuedOnce(t) => QueuedOnce(t)')
    <3>1. Threads' = Threads
      BY <1>0
    <3> QED BY <2>0, <3>1 DEF InQueue, QueuedOnce
  <2>4. \A t \in Steps : Guarded(t)' <=> Guarded(t)
    BY <1>0, <2>0 DEF Guarded
  <2>5. ASSUME NEW t \in Steps PROVE StepRight(t)' /\ (Placed(t)' <=> Placed(t))
    <3>1. CASE t # s
      <4>1. Untouched(t)
        BY <1>0, <1>3, <2>0, <2>2, <2>3, <2>4, <3>1 DEF Untouched
      <4> QED BY <1>0, <4>1, UntouchedStep DEF QueuesInv
    <3>2. CASE t = s
      <4>1. Placed(s)' <=> Placed(s)
        BY <1>0, <2>2, <2>3 DEF Placed
      <4>2. Placed(s)
        BY <2>1 DEF Guarded, GuardPcs, Placed, Runs
      <4>3. Once(s)'
        BY <1>0, <2>2, <2>3 DEF Once, StepRight
      <4>4. WaitsOnce(s)'
        BY <1>2 DEF WaitsOnce, Waiting
      <4>5. One(Waiting(s))' = 0 /\ One(Guarded(s))' = 1
        BY <1>2, <2>1, <2>4 DEF One
      <4>6. nSuspenders'[s] = One(Waiting(s))' + One(Guarded(s))'
        BY <2>1, <4>5
      <4>7. state'[s] = "live"
        BY <1>0, <1>1
      <4> QED BY <1>0, <1>2, <3>2, <4>1, <4>2, <4>3, <4>4, <4>6, <4>7 DEF StepRight
    <3> QED BY <3>1, <3>2
  <2>6. Typed'
    BY <1>0, <1>5, <2>0 DEF QueuesInv, Typed
  <2>7. Control'
    <3>1. \A u \in Threads : rest'[u] # {} => rest[u] # {}
      BY <1>5
    <3> QED BY <1>0, <2>0, <3>1 DEF QueuesInv, Control
  <2>8. Successors' /\ EnvInPlace' /\ (InWait' <=> InWait)
    BY <1>0, <2>0 DEF QueuesInv, Successors, EnvInPlace, InWait, Queued
  <2>9. InFlightCounts'
    BY <1>0, <2>0, <2>5, <2>8, CountsKept DEF QueuesInv
  <2> QED BY <2>5, <2>6, <2>7, <2>8, <2>9 DEF QueuesInv
<1> QED BY <1>6, <1>7

-----------------------------------------------------------------------------
(* The invariant holds *)

\* After the constructor nothing is scheduled and nobody waits.
LEMMA InitInv ==
    ASSUME BypassAlone, Init
    PROVE  QueuesInv
<1>0. cfg \in Configs /\ (cfg.bypass => cfg.threads = 1) /\ cfg.threads \in Nat \ {0}
  BY QueuesOK DEF BypassAlone, Init
<1>1. /\ Main \in Threads /\ None \notin Steps
      /\ \A th \in Threads : /\ queues[th] = <<>> /\ job[th] = None /\ newS[th] = None /\ rest[th] = {}
                             /\ pc[th] = IF th = Main THEN "run" ELSE "pop"
      /\ \A s \in Steps : /\ state[s] = "none" /\ nSuspenders[s] = 0 /\ waiters[s] = {}
                          /\ succ[s] = None
      /\ gQueue = <<>> /\ inFlight = 0 /\ envIp = 1
  BY <1>0, QueuesOK DEF Init, Main, Threads
<1>2. Typed
  BY <1>0, QueuesOK DEF Init, Typed, Pcs
<1>3. Control /\ Successors
  BY <1>1 DEF Control, Successors, MainPcs, FreePcs
<1>4. ASSUME NEW s \in Steps PROVE StepRight(s) /\ ~Placed(s)
  <2>1. ~InQueue(s) /\ QueuedOnce(s)
    BY <1>1 DEF InQueue, QueuedOnce
  <2>2. \A th \in Threads : ~Runs(th, s) /\ ~Inherits(th, s)
    BY <1>1 DEF Runs, Inherits
  <2>3. ~Waiting(s) /\ WaitsOnce(s)
    BY <1>1 DEF Waiting, WaitsOnce
  <2>4. Once(s) /\ ~Placed(s)
    BY <2>1, <2>2 DEF Once, Placed
  <2> QED BY <1>1, <2>3, <2>4 DEF StepRight
<1>5. InFlightCounts
  <2>1. Ready = {} /\ Leaving = {} /\ ~InWait
    BY <1>1, <1>4 DEF Ready, Leaving, InWait
  <2> QED BY <1>1, <2>1, FS_EmptySet DEF InFlightCounts, One
<1>6. EnvInPlace
  BY <1>1 DEF EnvInPlace, InWait
<1> QED BY <1>2, <1>3, <1>4, <1>5, <1>6 DEF QueuesInv

\* A stuttering step changes nothing.
LEMMA StutterInv ==
    ASSUME QueuesInv, UNCHANGED vars
    PROVE  QueuesInv'
<1>0. Threads' = Threads /\ Main \in Threads
  BY ThreadFacts DEF vars, Threads, QueuesInv
<1>2. ASSUME NEW s \in Steps PROVE StepRight(s)' /\ (Placed(s)' <=> Placed(s))
  <2>1. Untouched(s)
    BY <1>0 DEF Untouched, InQueue, QueuedOnce, Runs, Inherits, Guarded, vars, execVars, stepVars
  <2> QED BY <2>1, UntouchedStep DEF QueuesInv, vars
<1>3. Typed' /\ Control' /\ Successors' /\ EnvInPlace' /\ (InWait' <=> InWait)
  BY <1>0 DEF QueuesInv, Typed, Control, Successors, EnvInPlace, InWait, Queued, vars, execVars, stepVars
<1>4. InFlightCounts'
  BY <1>2, <1>3, CountsKept DEF QueuesInv, vars
<1> QED BY <1>2, <1>3, <1>4 DEF QueuesInv

\* A thread inside do_execute has a step.
LEMMA HasJob ==
    ASSUME QueuesInv, NEW th \in Threads,
           pc[th] \in {"begin", "resume", "failed", "unsuspend", "leave"} \/ job[th] # None
    PROVE  job[th] \in Steps
<1>1. job[th] \in Steps \cup {None}
  BY DEF QueuesInv, Typed
<1>2. job[th] = None => pc[th] \in MainPcs \cup FreePcs
  BY DEF QueuesInv, Control
<1> QED BY <1>1, <1>2 DEF MainPcs, FreePcs

\* Every action keeps the invariant.
LEMMA ThreadInv ==
    ASSUME QueuesInv, NEW th \in Threads, ThreadStep(th)
    PROVE  QueuesInv'
<1>1. CASE WakeAnother(th)
  BY <1>1, WakeAnotherStep
<1>2. CASE PopFound(th) \/ RunTask(th)
  BY <1>2, PopStep
<1>3. CASE PopEmpty(th)
  BY <1>3, PopEmptyStep
<1>4. CASE Awake(th)
  BY <1>4, AwakeStep
<1>5. CASE Begin(th)
  <2>1. PICK s \in Steps : s = job[th]
    BY <1>5, HasJob DEF Begin
  <2> QED BY <1>5, <2>1, BeginStep
<1>6. CASE PutItem(th)
  <2>1. PICK s \in Steps : s = job[th]
    BY <1>6, HasJob DEF PutItem
  <2> QED BY <1>6, <2>1, PutItemStep
<1>7. CASE Succeed(th)
  <2>1. PICK s \in Steps : s = job[th]
    BY <1>7, HasJob DEF Succeed
  <2>2. PICK x \in Steps \cup {None} : x = (IF succ[s] = s THEN None ELSE succ[s])
    BY DEF QueuesInv, Typed
  <2> QED BY <1>7, <2>1, <2>2, SucceedStep
<1>8. CASE ReadSuccessor(th)
  <2>1. PICK s \in Steps : s = job[th]
    BY <1>8, HasJob DEF ReadSuccessor
  <2> QED BY <1>8, <2>1, ReadSuccessorStep
<1>9. CASE Unsuspend(th)
  <2>1. PICK s \in Steps : s = job[th]
    BY <1>9, HasJob DEF Unsuspend
  <2> QED BY <1>9, <2>1, UnsuspendStep
<1>10. CASE LeaveSuspended(th)
  <2>1. PICK s \in Steps : s = job[th]
    BY <1>10, HasJob DEF LeaveSuspended
  <2>2. PICK x \in Steps \cup {None} : x = (IF newS[th] = s THEN None ELSE newS[th])
    BY DEF QueuesInv, Typed
  <2> QED BY <1>10, <2>1, <2>2, LeaveSuspendedStep
<1>11. ASSUME NEW s \in Steps, PutTag(th, s) PROVE QueuesInv'
  BY <1>11, PutTagStep
<1>12. ASSUME NEW s \in Steps, Skip(th, s) PROVE QueuesInv'
  BY <1>12, SkipStep
<1>13. ASSUME NEW w \in Steps, GetMissing(th, w) PROVE QueuesInv'
  <2>1. PICK s \in Steps : s = job[th]
    BY <1>13, HasJob DEF GetMissing
  <2> QED BY <1>13, <2>1, GetMissingStep
<1>14. ASSUME NEW s \in Steps, Resume(th, s) PROVE QueuesInv'
  BY <1>14, ResumeStep
<1>15. CASE EnvWait
  BY <1>15, EnvWaitStep
<1>16. CASE Poll
  BY <1>16, PollStep
<1>17. CASE WaitForGroup \/ Exit \/ Join
  BY <1>17, MainGoesOn
<1> QED BY <1>1, <1>2, <1>3, <1>4, <1>5, <1>6, <1>7, <1>8, <1>9, <1>10, <1>11, <1>12, <1>13, <1>14,
           <1>15, <1>16, <1>17 DEF ThreadStep

\* So the invariant is inductive.
LEMMA NextInv ==
    ASSUME QueuesInv, [Next]_vars
    PROVE  QueuesInv'
BY ThreadInv, StutterInv DEF Next, Terminated

-----------------------------------------------------------------------------
(* When main is through *)

\* m_userStepsInFlight <= 1, or an empty group: no step is left in any queue or thread.
LEMMA NothingRuns ==
    ASSUME QueuesInv, pc[Main] = "poll", ~StillRunning
    PROVE  \A th \in Threads : queues[th] = <<>> /\ job[th] = None
<1>1. CASE Queued
  <2>1. Cardinality(Ready) = 0 /\ Cardinality(Leaving) = 0 /\ IsFiniteSet(Ready) /\ IsFiniteSet(Leaving)
    <3>1. One(InWait) = 1
      BY DEF One, InWait
    <3>2. Cardinality(Ready) \in Nat /\ Cardinality(Leaving) \in Nat /\ IsFiniteSet(Leaving)
      BY CountsAreNat DEF QueuesInv
    <3> QED BY <1>1, <3>1, <3>2 DEF QueuesInv, InFlightCounts, StillRunning
  <2>2. Ready = {} /\ Leaving = {}
    BY <2>1, FS_EmptySet
  <2>3. \A s \in Steps : ~InQueue(s) /\ \A th \in Threads : ~Runs(th, s)
    BY <2>2 DEF Ready, Placed
  <2>4. ASSUME NEW th \in Threads PROVE queues[th] = <<>>
    <3>1. queues[th] \in Seq(Steps)
      BY DEF QueuesInv, Typed
    <3>2. ASSUME queues[th] # <<>> PROVE FALSE
      <4>1. 1 \in 1 .. Len(queues[th]) /\ queues[th][1] \in Steps
        BY <3>1, <3>2
      <4>2. PICK s \in Steps : s = queues[th][1]
        BY <4>1
      <4>3. InQueue(s)
        BY <4>1, <4>2 DEF InQueue
      <4> QED BY <2>3, <4>3
    <3> QED BY <3>2
  <2>5. ASSUME NEW th \in Threads PROVE job[th] = None
    <3>1. job[th] \in Steps \cup {None} /\ pc[th] # "leave"
      BY <2>2 DEF QueuesInv, Typed, Leaving
    <3> QED BY <2>3, <3>1 DEF Runs
  <2> QED BY <2>4, <2>5
<1>2. CASE ~Queued
  BY <1>2 DEF StillRunning, GroupEmpty, QueuesInv, EnvInPlace
<1> QED BY <1>1, <1>2

\* Once nothing is left, nothing comes.
LEMMA NothingComes ==
    ASSUME QueuesInv, ~InWait, envIp > Len(EnvBody), [Next]_vars,
           \A th \in Threads : queues[th] = <<>> /\ job[th] = None
    PROVE  queues' = queues /\ job' = job /\ cfg' = cfg
<1>1. CASE UNCHANGED vars
  BY <1>1 DEF vars, execVars
<1>2. ASSUME NEW th \in Threads, ThreadStep(th) PROVE queues' = queues /\ job' = job /\ cfg' = cfg
  <2>0. /\ job[th] = None /\ pc[th] \in IF th = Main THEN MainPcs ELSE FreePcs
        /\ th = Main => pc[th] \notin {"poll", "pop"}
    BY DEF QueuesInv, Control, InWait
  <2>1. ASSUME NEW op PROVE ~AtOp(th, op)
    <3>1. envIp \in Nat /\ Len(EnvBody) \in Nat
      BY QueuesOK DEF QueuesInv, Typed
    <3>2. pc[th] = "run" => th = Main
      BY <2>0 DEF FreePcs
    <3> QED BY <2>0, <3>1, <3>2 DEF AtOp, Place, Ops
  <2>2. ~PopFound(th)
    <3>1. pc[th] = "pop" /\ Queued => ScanQueue(th) \in Threads
      <4>1. cfg.threads \in Nat \ {0} /\ scan \in [Threads -> Nat] /\ th \in Nat /\ 0 \in Threads
        BY ThreadFacts DEF QueuesInv, Typed, Threads, Main
      <4> QED BY <4>1 DEF ScanQueue, Threads
    <3>2. \A k \in Threads : Poppable(queues[k]) = {}
      BY DEF Poppable
    <3> QED BY <3>1, <3>2 DEF PopFound, TryPop
  <2>3. ~RunTask(th)
    BY ThreadFacts DEF RunTask, QueuesInv, Main
  <2>4. /\ ~Begin(th) /\ ~PutItem(th) /\ ~Succeed(th) /\ ~ReadSuccessor(th) /\ ~Unsuspend(th)
        /\ ~LeaveSuspended(th)
    BY <2>0 DEF Begin, PutItem, Succeed, ReadSuccessor, Unsuspend, LeaveSuspended, MainPcs, FreePcs
  <2>5. \A s \in Steps : ~PutTag(th, s) /\ ~Skip(th, s) /\ ~GetMissing(th, s)
    BY <2>1 DEF PutTag, Skip, GetMissing
  <2>6. \A s \in Steps : ~Resume(th, s)
    BY <2>0 DEF Resume, MainPcs, FreePcs
  <2>7. \/ WakeAnother(th) \/ PopEmpty(th) \/ Awake(th) \/ EnvWait \/ Poll \/ WaitForGroup \/ Exit \/ Join
    BY <1>2, <2>2, <2>3, <2>4, <2>5, <2>6 DEF ThreadStep
  <2> QED BY <2>7 DEF WakeAnother, PopEmpty, Awake, EnvWait, Poll, WaitForGroup, Exit, Join, execVars
<1> QED BY <1>1, <1>2 DEF Next, Terminated

\* main's place moves on with its operations only; the last of them is wait.
LEMMA EnvMoves ==
    ASSUME QueuesInv, WaitsLast, [Next]_vars
    PROVE  \/ envIp' = envIp
           \/ envIp' = envIp + 1 /\ envIp # Len(EnvBody)
           \/ Poll /\ ~StillRunning
<1>1. ASSUME NEW th \in Threads, NEW s \in Steps, NEW o, AtOp(th, <<o, s>>), Advance(th)
      PROVE  envIp' = envIp \/ (envIp' = envIp + 1 /\ envIp # Len(EnvBody))
  <2>1. CASE job[th] # None
    BY <1>1, <2>1 DEF Advance
  <2>2. CASE job[th] = None
    <3>1. EnvBody[envIp] = <<o, s>> /\ envIp' = envIp + 1
      BY <1>1, <2>2 DEF AtOp, Place, Ops, Advance
    <3>2. <<o, s>> # <<"wait">>
      <4>1. Len(<<o, s>>) = 2 /\ Len(<<"wait">>) = 1
        OBVIOUS
      <4> QED BY <4>1
    <3> QED BY <3>1, <3>2 DEF WaitsLast
  <2> QED BY <2>1, <2>2
<1>2. CASE UNCHANGED vars
  BY <1>2 DEF vars
<1>3. ASSUME NEW th \in Threads, ThreadStep(th)
      PROVE  \/ envIp' = envIp
             \/ envIp' = envIp + 1 /\ envIp # Len(EnvBody)
             \/ Poll /\ ~StillRunning
  <2>1. CASE \E s \in Steps : PutTag(th, s)
    BY <1>1, <2>1 DEF PutTag
  <2>2. CASE \E s \in Steps : Skip(th, s)
    BY <1>1, <2>2 DEF Skip
  <2>3. CASE Poll
    BY <2>3 DEF Poll
  <2>4. CASE \/ WakeAnother(th) \/ PopFound(th) \/ PopEmpty(th) \/ Awake(th) \/ RunTask(th)
             \/ Begin(th) \/ PutItem(th) \/ Succeed(th) \/ ReadSuccessor(th) \/ Unsuspend(th)
             \/ LeaveSuspended(th) \/ EnvWait \/ WaitForGroup \/ Exit \/ Join
    BY <2>4 DEF WakeAnother, PopFound, PopEmpty, Awake, RunTask, Begin, PutItem, Succeed,
                ReadSuccessor, Unsuspend, LeaveSuspended, EnvWait, WaitForGroup, Exit, Join
  <2>5. CASE \E s \in Steps : GetMissing(th, s) \/ Resume(th, s)
    BY <2>5 DEF GetMissing, Resume
  <2> QED BY <1>3, <2>1, <2>2, <2>3, <2>4, <2>5 DEF ThreadStep
<1> QED BY <1>2, <1>3 DEF Next, Terminated

\* EmptyAtEnd is established when the last wait returns, and stays true.
LEMMA EndStep ==
    ASSUME QueuesInv, WaitsLast, EmptyAtEnd, [Next]_vars
    PROVE  EmptyAtEnd'
<1> SUFFICES ASSUME ~InWait', envIp' > Len(EnvBody)
             PROVE  \A th \in Threads' : queues'[th] = <<>> /\ job'[th] = None
  BY DEF EmptyAtEnd
<1>0. envIp \in Nat /\ Len(EnvBody) \in Nat
  BY QueuesOK DEF QueuesInv, Typed
<1>1. CASE Poll /\ ~StillRunning
  <2>1. \A th \in Threads : queues[th] = <<>> /\ job[th] = None
    BY <1>1, NothingRuns DEF Poll
  <2>2. queues' = queues /\ job' = job /\ Threads' = Threads
    BY <1>1 DEF Poll, execVars, Threads
  <2> QED BY <2>1, <2>2
<1>2. CASE envIp' = envIp \/ (envIp' = envIp + 1 /\ envIp # Len(EnvBody))
  <2>1. envIp > Len(EnvBody)
    BY <1>0, <1>2
  <2>2. ~InWait
    BY <1>0, <2>1 DEF QueuesInv, EnvInPlace
  <2>3. \A th \in Threads : queues[th] = <<>> /\ job[th] = None
    BY <2>1, <2>2 DEF EmptyAtEnd
  <2>4. queues' = queues /\ job' = job /\ Threads' = Threads
    BY <2>1, <2>2, <2>3, NothingComes DEF Threads
  <2> QED BY <2>3, <2>4
<1> QED BY <1>1, <1>2, EnvMoves

-----------------------------------------------------------------------------
(* What the invariant says *)

\* A place of s is one of three kinds.
LEMMA PlaceKinds ==
    ASSUME NEW s \in Steps, NEW p \in Places(s)
    PROVE  \/ \E k \in Threads : \E i \in 1 .. Len(queues[k]) : p = <<"queue", k, i>> /\ queues[k][i] = s
           \/ \E th \in Threads : p = <<"runs", th, 0>> /\ Runs(th, s)
           \/ \E th \in Threads : p = <<"next", th, 0>> /\ Inherits(th, s)
BY DEF Places, QueuePlaces

\* The invariant implies InOnePlace.
LEMMA OnePlace ==
    ASSUME QueuesInv
    PROVE  InOnePlace
<1> SUFFICES ASSUME NEW s \in Steps
             PROVE  /\ \A p1, p2 \in Places(s) : p1 = p2
                    /\ state[s] = "live" /\ (\A u \in Steps : s \notin waiters[u])
                         /\ (\A th \in Threads : s \notin rest[th]) => Places(s) # {}
  BY DEF InOnePlace
<1>0. StepRight(s) /\ Once(s)
  BY DEF QueuesInv, StepRight
<1>1. ASSUME NEW p1 \in Places(s), NEW p2 \in Places(s) PROVE p1 = p2
  <2>1. CASE \E k \in Threads : \E i \in 1 .. Len(queues[k]) : p1 = <<"queue", k, i>> /\ queues[k][i] = s
    <3>1. InQueue(s)
      BY <2>1 DEF InQueue
    <3>2. \E k \in Threads : \E i \in 1 .. Len(queues[k]) : p2 = <<"queue", k, i>> /\ queues[k][i] = s
      BY <1>0, <3>1, PlaceKinds DEF Once
    <3> QED BY <1>0, <2>1, <3>2 DEF Once, QueuedOnce
  <2>2. CASE \E th \in Threads : p1 = <<"runs", th, 0>> /\ Runs(th, s)
    <3>1. ~InQueue(s) /\ \A th \in Threads : ~Inherits(th, s)
      BY <1>0, <2>2 DEF Once
    <3>2. \E th \in Threads : p2 = <<"runs", th, 0>> /\ Runs(th, s)
      BY <3>1, PlaceKinds DEF InQueue
    <3> QED BY <1>0, <2>2, <3>2 DEF Once
  <2>3. CASE \E th \in Threads : p1 = <<"next", th, 0>> /\ Inherits(th, s)
    <3>1. ~InQueue(s) /\ \A th \in Threads : ~Runs(th, s)
      BY <1>0, <2>3 DEF Once
    <3>2. \E th \in Threads : p2 = <<"next", th, 0>> /\ Inherits(th, s)
      BY <3>1, PlaceKinds DEF InQueue
    <3> QED BY <1>0, <2>3, <3>2 DEF Once
  <2> QED BY <2>1, <2>2, <2>3, PlaceKinds
<1>2. ASSUME state[s] = "live", \A u \in Steps : s \notin waiters[u], \A th \in Threads : s \notin rest[th]
      PROVE  Places(s) # {}
  <2>1. Placed(s)
    BY <1>0, <1>2 DEF StepRight, Waiting
  <2>2. CASE InQueue(s)
    <3>0. PICK k \in Threads : \E i \in 1 .. Len(queues[k]) : queues[k][i] = s
      BY <2>2 DEF InQueue
    <3>1. PICK i \in 1 .. Len(queues[k]) : queues[k][i] = s
      BY <3>0
    <3>2. <<"queue", k, i>> \in QueuePlaces(s)
      BY <3>1 DEF QueuePlaces
    <3> QED BY <3>2 DEF Places
  <2>3. CASE \E th \in Threads : Runs(th, s)
    BY <2>3 DEF Places
  <2>4. CASE \E th \in Threads : Inherits(th, s)
    BY <2>4 DEF Places
  <2> QED BY <2>1, <2>2, <2>3, <2>4 DEF Placed
<1> QED BY <1>1, <1>2

\* A thread ends only when main is through.
LEMMA StopIsLast ==
    ASSUME QueuesInv, EmptyAtEnd
    PROVE  StopLeavesNothing
<1> SUFFICES ASSUME \E th \in Threads : pc[th] = "dead"
             PROVE  \A k \in Threads : queues[k] = <<>> /\ job[k] = None
  BY DEF StopLeavesNothing
<1>1. pc[Main] \in {"joining", "dead"} /\ envIp > Len(EnvBody)
  BY DEF QueuesInv, EnvInPlace
<1>2. ~InWait
  BY <1>1, ThreadFacts DEF QueuesInv, Control, InWait, WorkPcs
<1> QED BY <1>1, <1>2 DEF EmptyAtEnd

-----------------------------------------------------------------------------
(* Theorems *)

\* For any number of threads and any policy, with and without priorities: the places, the
\* suspend counters and the groups of the step instances agree, and m_userStepsInFlight counts
\* exactly what is ready, what is just being let go, and main in wait. (With bypass: for one
\* thread.)
THEOREM QueuesKept ==
    ASSUME BypassAlone
    PROVE  Spec => []QueuesInv
<1>1. Init => QueuesInv
  BY InitInv
<1>2. QueuesInv /\ [Next]_vars => QueuesInv'
  BY NextInv
<1> QED BY <1>1, <1>2, PTL DEF Spec

\* NothingMislaid: a step instance that waits for no item is in one queue or in the hands of one
\* thread, and when main's last operation is wait a thread ends only after every queue is empty.
THEOREM NothingIsMislaid ==
    ASSUME BypassAlone, WaitsLast
    PROVE  Spec => []NothingMislaid
<1>1. Init => EmptyAtEnd
  <2> SUFFICES ASSUME Init PROVE EmptyAtEnd
    OBVIOUS
  <2>1. \A th \in Threads : queues[th] = <<>> /\ job[th] = None
    BY DEF Init
  <2> QED BY <2>1 DEF EmptyAtEnd
<1>2. QueuesInv /\ EmptyAtEnd /\ [Next]_vars => EmptyAtEnd'
  BY EndStep
<1>3. QueuesInv /\ EmptyAtEnd => NothingMislaid
  <2> SUFFICES ASSUME QueuesInv, EmptyAtEnd PROVE NothingMislaid
    OBVIOUS
  <2>1. TypeOK
    BY CountsAreNat DEF TypeOK, QueuesInv, Typed
  <2> QED BY <2>1, OnePlace, StopIsLast DEF NothingMislaid
<1> QED BY <1>1, <1>2, <1>3, QueuesKept, PTL DEF Spec
=============================================================================
