------------------------ MODULE StepRuntimeDataflow ------------------------
(***************************************************************************)
(* For every program that keeps the rules of CnC (Disciplined) and does    *)
(* not sequentialize steps: an execution takes effect only when it has all *)
(* its inputs, a counted item lives until its last get, and the runtime    *)
(* implements the dataflow graph that the program is.                      *)
(***************************************************************************)
EXTENDS StepRuntimeProofs

\* What the model's types say about a thread and its step.
LEMMA ThreadFacts ==
    ASSUME Inv, NEW th \in Threads
    PROVE  /\ job[th] \in Steps \cup {Null} /\ ip[th] \in Nat /\ Null \notin Steps
           /\ job[th] # Null => /\ job[th] \in Steps /\ Body[job[th]] \in Seq(Ops)
                                /\ Len(Body[job[th]]) \in Nat
           /\ envIp \in Nat /\ EnvBody \in Seq(EnvOps) /\ Len(EnvBody) \in Nat
BY ConstantsOK DEF Inv, Shape, Typed, ThreadsTyped

\* No two threads execute one instance.
LEMMA JobsApart ==
    ASSUME Inv, NEW th \in Threads, NEW u \in Threads \ {th}, job[u] # Null
    PROVE  job[u] # job[th]
BY ThreadFacts DEF Inv, Ownership, SingleOwner, Holds

\* Only the thread that executes an instance commits its gets.
LEMMA CommitsOf ==
    ASSUME Inv, NEW th \in Threads, job[th] # Null
    PROVE  Commits(job[th]) <=> AtBodyEnd(th)
BY JobsApart DEF Commits, AtBodyEnd

\* At a place where its inputs come first a step has them, and waits for none.
LEMMA InputsHere ==
    ASSUME Inv, NEW th \in Threads, Running(th), Behind(th), InputsBefore(job[th], ip[th])
    PROVE  /\ ~wasSuspended[job[th]] /\ WaitsFor(job[th]) = {}
           /\ \A i \in ReadSet(job[th]) : Available(i)
           /\ status[job[th]] # "Done" /\ ~AtBodyEnd(th) =>
                \A i \in ReadSet(job[th]) : Counted(i) => Held(job[th], i)
<1> DEFINE s == job[th]
<1>0. s \in Steps
  BY ThreadFacts DEF Running
<1>1. ~wasSuspended[s]
  BY DEF Behind, SuspendedSince, Missed, InputsBefore, ReadsAt
<1>2. WaitsFor(s) = {}
  BY <1>1 DEF Behind, SuspendedSince
<1>3. ASSUME NEW i \in ReadSet(s)
      PROVE  \E n \in 1..Len(Body[s]) : ReadsAt(s, n, i) /\ n < ip[th] /\ i \in Items
  BY <1>0 DEF ReadSet, ReadSets, ReadsAt, InputsBefore
<1>4. ASSUME NEW i \in ReadSet(s) PROVE Available(i)
  BY <1>1, <1>3 DEF Behind, ReadsBehind, Missed
<1>5. ASSUME status[s] # "Done", ~AtBodyEnd(th), NEW i \in ReadSet(s), Counted(i) PROVE Held(s, i)
  BY <1>1, <1>3, <1>5 DEF Behind, HeldBehind, Missed
<1> QED BY <1>1, <1>2, <1>4, <1>5

-----------------------------------------------------------------------------
(* One step of a thread, seen from the other threads and from the items *)

\* What a step of th leaves alone: the other threads, the steps they execute and
\* what they have got. An instance waits only for what it reads, and becomes done
\* only in the hands of a thread that has committed all its gets.
Frame(th) ==
    /\ \A u \in Threads \ {th} : pc'[u] = pc[u] /\ job'[u] = job[u] /\ ip'[u] = ip[u]
    /\ \A u \in Threads \ {th} : job[u] # Null => wasSuspended'[job[u]] = wasSuspended[job[u]]
    /\ \A s \in Steps, i \in Items : group'[i][s] > 0 =>
          \/ group[i][s] > 0
          \/ /\ i \in ReadSet(s) /\ status'[s] # "Done"
             /\ \A u \in Threads \ {th} : job[u] # s
    /\ \A s \in Steps : s # job[th] => getList'[s] = getList[s]
    /\ \A s \in Steps : /\ status[s] # "None" => status'[s] # "None"
                        /\ status[s] = "Done" => status'[s] = "Done"
    /\ \A s \in Steps : status[s] = "None" /\ status'[s] # "None" =>
          AtOp(th, "tag", s) /\ pc'[th] = "depends"
    /\ \A s \in Steps : status'[s] = "Done" =>
          \/ status[s] = "Done"
          \/ s = job[th] /\ AtBodyEnd(th) /\ getList[s] = <<>> /\ pc'[th] = "succeeded"
    /\ envIp' \in {envIp, envIp + 1}
    /\ \A u \in Threads : /\ pc'[u] # "abort"
                          /\ pc'[u] = "depends" => deps'[u] \subseteq ReadSet(tgt'[u])

\* Who commits goes on with it until it is done, and has got what it commits.
CommitsInOrder(th) ==
    /\ AtBodyEnd(th) => /\ getList'[job[th]] = getList[job[th]]
                        /\ \/ job'[th] = job[th] /\ AtBodyEnd(th)'
                           \/ status'[job[th]] = "Done" /\ ~AtBodyEnd(th)'
    /\ AtBodyEnd(th)' /\ ~AtBodyEnd(th) =>
          /\ job'[th] = job[th]
          /\ \A i \in ReadSet(job[th]) : Available(i) /\ (Counted(i) => Held(job[th], i)')

\* The step neither stores i nor takes it away.
Steady(i) ==
    /\ getCount'[i] = getCount[i]
    /\ item'[i] = "stored" <=> item[i] = "stored"
    /\ item[i] = "none" /\ item'[i] # "none" /\ Counted(i) => Owed(i) # {}

\* A commit under way keeps its list or ends in Done; a new one is that of th.
LEMMA CommitsStep ==
    ASSUME Inv, NEW th \in Threads, Frame(th), CommitsInOrder(th), NEW s \in Steps
    PROVE  /\ Commits(s) => /\ getList'[s] = getList[s]
                            /\ Commits(s)' \/ status'[s] = "Done"
           /\ Commits(s)' /\ ~Commits(s) => s = job[th] /\ AtBodyEnd(th)' /\ ~AtBodyEnd(th)
<1>1. ASSUME NEW u \in Threads \ {th} PROVE (job[u] = s /\ AtBodyEnd(u)) <=> (job[u] = s /\ AtBodyEnd(u))'
  BY DEF Frame, AtBodyEnd
<1>2. ASSUME Commits(s) PROVE getList'[s] = getList[s] /\ (Commits(s)' \/ status'[s] = "Done")
  <2>1. PICK u \in Threads : job[u] = s /\ AtBodyEnd(u)
    BY <1>2 DEF Commits
  <2>2. CASE u = th
    BY <2>1, <2>2 DEF CommitsInOrder, Commits
  <2>3. CASE u # th
    <3>1. s # job[th]
      BY <2>1, <2>3, JobsApart DEF AtBodyEnd
    <3> QED BY <1>1, <2>1, <2>3, <3>1 DEF Frame, Commits
  <2> QED BY <2>2, <2>3
<1>3. ASSUME Commits(s)', ~Commits(s) PROVE s = job[th] /\ AtBodyEnd(th)' /\ ~AtBodyEnd(th)
  <2>1. PICK u \in Threads : job'[u] = s /\ AtBodyEnd(u)'
    BY <1>3 DEF Commits
  <2>2. u = th
    BY <1>1, <1>3, <2>1 DEF Commits
  <2>3. ~AtBodyEnd(th)
    BY <1>3, <2>1, <2>2 DEF CommitsInOrder, Commits
  <2> QED BY <2>1, <2>2, <2>3 DEF CommitsInOrder
<1> QED BY <1>2, <1>3

\* What an item still owes to its readers changes only by a decrement.
LEMMA OwedSteady ==
    ASSUME Inv, NEW th \in Threads, Frame(th), CommitsInOrder(th), NEW i \in Items
    PROVE  /\ Counted(i) => Owed(i)' = Owed(i)
           /\ HasBeenRead(i) => HasBeenRead(i)'
           /\ HasBeenRead(i)' => HasBeenRead(i) \/ Available(i)
<1>1. ASSUME NEW s \in Readers(i) PROVE s \in Steps /\ i \in ReadSet(s)
  BY <1>1 DEF Readers, ReadersOf
<1>2. ASSUME Counted(i), NEW s \in Readers(i)
      PROVE  (status'[s] # "Done" /\ (Commits(s)' => Held(s, i)'))
                <=> (status[s] # "Done" /\ (Commits(s) => Held(s, i)))
  <2>1. s \in Steps /\ i \in ReadSet(s)
    BY <1>1, <1>2
  <2>2. CASE status'[s] = "Done"
    BY <2>1, <2>2 DEF Frame, Held, InSeq, Commits
  <2>3. CASE status'[s] # "Done"
    <3>1. CASE Commits(s)
      BY <2>1, <2>3, <3>1, CommitsStep DEF Frame, Held
    <3>2. CASE ~Commits(s)
      <4>1. Commits(s)' => Held(s, i)'
        BY <1>2, <2>1, <3>2, CommitsStep DEF CommitsInOrder
      <4> QED BY <2>1, <2>3, <3>2, <4>1 DEF Frame
    <3> QED BY <3>1, <3>2
  <2> QED BY <2>2, <2>3
<1>3. Counted(i) => Owed(i)' = Owed(i)
  BY <1>2 DEF Owed, Readers, ReadersOf, ReadSet, ReadSets
<1>4. HasBeenRead(i) => HasBeenRead(i)'
  BY <1>1, CommitsStep DEF HasBeenRead, Frame, Readers, ReadersOf, ReadSet, ReadSets
<1>5. HasBeenRead(i)' => HasBeenRead(i) \/ Available(i)
  <2> SUFFICES ASSUME NEW s \in Readers(i), status'[s] = "Done" \/ Commits(s)'
               PROVE  HasBeenRead(i) \/ Available(i)
    BY DEF HasBeenRead, Readers, ReadersOf, ReadSet, ReadSets
  <2>1. s \in Steps /\ i \in ReadSet(s)
    BY <1>1
  <2>2. CASE status'[s] = "Done"
    BY <2>1, <2>2 DEF Frame, HasBeenRead, Commits
  <2>3. CASE Commits(s)' /\ ~Commits(s)
    BY <2>1, <2>3, CommitsStep DEF CommitsInOrder
  <2>4. CASE Commits(s)
    BY <2>4 DEF HasBeenRead
  <2> QED BY <2>2, <2>3, <2>4
<1> QED BY <1>3, <1>4, <1>5

\* An item that is neither stored nor erased stays as available, and its count right.
LEMMA ItemSteady ==
    ASSUME Inv, NEW th \in Threads, Frame(th), CommitsInOrder(th),
           NEW i \in Items, Steady(i), CountRight(i)
    PROVE  (Available(i) <=> Available(i)') /\ CountRight(i)'
<1>1. Available(i) <=> Available(i)'
  BY OwedSteady DEF Available, Steady, Counted
<1>2. Readers(i)' = Readers(i) /\ (Counted(i)' <=> Counted(i))
  BY DEF Readers, ReadersOf, ReadSet, ReadSets, Counted
<1>3. Counted(i) => Owed(i)' = Owed(i)
  BY OwedSteady
<1>4. CountRight(i)'
  <2>1. CASE item[i] = "stored"
    BY <1>2, <1>3, <2>1 DEF CountRight, Steady
  <2>2. CASE item[i] # "stored"
    BY <1>2, <1>3, <2>2 DEF CountRight, Steady
  <2> QED BY <2>1, <2>2
<1> QED BY <1>1, <1>4

-----------------------------------------------------------------------------
(* Every step of a thread keeps to its frame *)

\* All 39 actions of a thread, by one case each.
LEMMA FrameStep ==
    ASSUME Sequentialize = {}, Disciplined, Inv, ReplayInv, NEW th \in Threads, ThreadStep(th)
    PROVE  Frame(th)
<1>a. Env \in Threads /\ Null \notin Steps /\ envIp \in Nat
  BY ConstantsOK DEF Threads, Inv, Shape, Typed, ThreadsTyped
<1>b. /\ pc \in [Threads -> Pcs] /\ job \in [Threads -> Steps \cup {Null}] /\ ip \in [Threads -> Nat]
      /\ tgt \in [Threads -> Steps \cup {Null}] /\ deps \in [Threads -> SUBSET Items]
      /\ status \in [Steps -> Statuses] /\ wasSuspended \in [Steps -> BOOLEAN]
      /\ getList \in [Steps -> Seq(Items)] /\ group \in [Items -> [Steps \cup {Null} -> Nat]]
  BY DEF Inv, Shape, Typed, ThreadsTyped, StepsTyped, ItemsTyped
<1>c. \A u \in Threads : pc[u] # "abort" /\ (pc[u] = "depends" => deps[u] \subseteq ReadSet(tgt[u]))
  BY DEF ReplayInv, NoAbort, WaitsForReads
<1>d. ASSUME NEW t \in Steps, status[t] = "None", NEW u \in Threads PROVE job[u] # t
  BY <1>d DEF Inv, Ownership, Life, UnbornUnseen, Unborn
<1>e. \A t \in Steps : Depends[t] \subseteq ReadSet(t)
  BY DEF Disciplined, DependsOnReads
<1>f. ASSUME pc[th] = "depends"
      PROVE  /\ tgt[th] \in Steps /\ status[tgt[th]] = "Unprepared"
             /\ \A u \in Threads : job[u] # tgt[th]
  BY <1>f, <1>b DEF Inv, Shape, Control, Ownership, Life, TargetAlive, JobAlive
<1>g. /\ ret[th] \notin {"abort", "depends"}
      /\ \A s \in Steps : ~sequentialized[s]
  BY DEF Inv, Shape, Typed, ThreadsTyped, NoneSequential
<1>h. ASSUME job[th] # Null, pc[th] \in {"begin", "run"}
      PROVE  job[th] \in Steps /\ status[job[th]] = "Prepared"
  BY <1>h, <1>b DEF Inv, Ownership, Life, JobAlive
<1>i. ASSUME job[th] # Null, getList[job[th]] # <<>> PROVE item[Head(getList[job[th]])] = "stored"
  <2> DEFINE q == getList[job[th]]
  <2>1. job[th] \in Steps /\ q \in Seq(Items) /\ q # <<>>
    BY <1>i, <1>b
  <2>2. Head(q) = q[1] /\ 1 \in 1..Len(q) /\ Head(q) \in Items
    BY <2>1
  <2>3. Held(job[th], Head(q))
    BY <2>1, <2>2 DEF Held, InSeq
  <2> QED BY <2>1, <2>2, <2>3 DEF ReplayInv, ListRight
<1>j. ASSUME job[th] # Null, NEW i \in Items, AtOp(th, "get", i) \/ AtOp(th, "uget", i)
      PROVE  /\ job[th] \in Steps /\ status[job[th]] = "Prepared" /\ i \in ReadSet(job[th])
             /\ pc[th] = "run"
  <2>1. job[th] \in Steps /\ status[job[th]] = "Prepared" /\ pc[th] = "run"
    BY <1>j, <1>h DEF AtOp
  <2>2. ip[th] \in 1..Len(Body[job[th]]) /\ Body[job[th]][ip[th]] \in {<<"get", i>>, <<"uget", i>>}
    <3>1. ip[th] \in 1..(Len(Body[job[th]]) + 1)
      BY <2>1, <1>j DEF ReplayInv, Behind, Running, InBody
    <3>2. ip[th] <= Len(Body[job[th]]) /\ Body[job[th]][ip[th]] \in {<<"get", i>>, <<"uget", i>>}
      BY <1>j DEF AtOp
    <3> QED BY <3>1, <3>2, <2>1, ThreadFacts
  <2> QED BY <2>1, <2>2 DEF ReadSet, ReadSets
<1>k. pendingSteps = <<>> /\ seqSteps = <<>>
  BY DEF Inv, Shape, NoneSequential
<1>1. ASSUME NEW t \in Steps, PutTag(th, t) PROVE Frame(th)
  <2>1. /\ pc' = [pc EXCEPT ![th] = "depends"] /\ job' = job /\ status[t] = "None"
        /\ AtOp(th, "tag", t)
        /\ status' = [status EXCEPT ![t] = "Unprepared"]
        /\ wasSuspended' = [wasSuspended EXCEPT ![t] = FALSE]
        /\ getList' = getList /\ group' = group
        /\ tgt' = [tgt EXCEPT ![th] = t] /\ deps' = [deps EXCEPT ![th] = Depends[t]]
    BY <1>1 DEF PutTag, Goto, itemVars
  <2>2. /\ \A u \in Threads \ {th} : ip'[u] = ip[u]
        /\ envIp' \in {envIp, envIp + 1}
    BY <1>1, <1>a, <1>b DEF PutTag, Advance
  <2>3. \A u \in Threads : /\ pc'[u] # "abort"
                           /\ pc'[u] = "depends" => deps'[u] \subseteq ReadSet(tgt'[u])
    BY <2>1, <1>b, <1>c, <1>e
  <2>4. \A u \in Threads : job[u] # Null => wasSuspended'[job[u]] = wasSuspended[job[u]]
    BY <2>1, <1>b, <1>d
  <2> QED BY <2>1, <2>2, <2>3, <2>4, <1>b DEF Frame
<1>2. ASSUME NEW i \in Items, DependOn(th, i) PROVE Frame(th)
  <2> DEFINE t == tgt[th]
  <2>1. /\ pc' = pc /\ job' = job /\ ip' = ip /\ status' = status /\ getList' = getList
        /\ envIp' = envIp /\ tgt' = tgt /\ deps' = [deps EXCEPT ![th] = @ \ {i}]
        /\ i \in deps[th] /\ pc[th] = "depends"
    BY <1>2 DEF DependOn, envVars
  <2>2. /\ t \in Steps /\ status[t] = "Unprepared" /\ \A u \in Threads : job[u] # t
        /\ i \in ReadSet(t)
    BY <2>1, <1>c, <1>f
  <2>3. /\ wasSuspended' = wasSuspended \/ wasSuspended' = [wasSuspended EXCEPT ![t] = TRUE]
        /\ group' = group \/ group' = [group EXCEPT ![i][t] = @ + 1]
    BY <1>2, <2>2, <1>a DEF DependOn, SuspendOn, Suspend, Join
  <2>4. \A u \in Threads : job[u] # Null => wasSuspended'[job[u]] = wasSuspended[job[u]]
    BY <2>2, <2>3, <1>b
  <2>5. \A s \in Steps, j \in Items : group'[j][s] > 0 => group[j][s] > 0 \/ (s = t /\ j = i)
    BY <2>2, <2>3, <1>b
  <2>6. \A u \in Threads : /\ pc'[u] # "abort"
                           /\ pc'[u] = "depends" => deps'[u] \subseteq ReadSet(tgt'[u])
    BY <2>1, <1>b, <1>c
  <2>7. /\ \A s \in Steps, j \in Items : group'[j][s] > 0 =>
              \/ group[j][s] > 0
              \/ /\ j \in ReadSet(s) /\ status'[s] # "Done"
                 /\ \A u \in Threads \ {th} : job[u] # s
    BY <2>1, <2>2, <2>5
  <2> QED BY <2>1, <2>4, <2>6, <2>7, <1>a DEF Frame
<1>3. ASSUME EndPrepare(th) PROVE Frame(th)
  <2>1. /\ job' = job /\ ip' = ip /\ wasSuspended' = wasSuspended /\ getList' = getList
        /\ group' = group /\ envIp' = envIp /\ tgt' = tgt /\ deps' = deps
        /\ status' = [status EXCEPT ![tgt[th]] = "Prepared"] /\ pc[th] = "depends"
    BY <1>3 DEF EndPrepare, itemVars, envVars
  <2>2. /\ \A u \in Threads \ {th} : pc'[u] = pc[u]
        /\ pc'[th] \in {"schedule", "prepared", "sequentialize"}
    BY <1>3, <1>b DEF EndPrepare, Goto
  <2>3. tgt[th] \in Steps /\ status[tgt[th]] = "Unprepared"
    BY <2>1, <1>f
  <2>4. \A s \in Steps : /\ status[s] # "None" => status'[s] # "None"
                         /\ status[s] = "None" => status'[s] = "None"
                         /\ status[s] = "Done" <=> status'[s] = "Done"
    BY <2>1, <2>3, <1>b
  <2>5. \A u \in Threads : /\ pc'[u] # "abort"
                           /\ pc'[u] = "depends" => deps'[u] \subseteq ReadSet(tgt'[u])
    BY <2>1, <2>2, <1>c
  <2> QED BY <2>1, <2>2, <2>4, <2>5, <1>a DEF Frame
<1>4. ASSUME SequentializePrepared(th) PROVE FALSE
  BY <1>4, <1>a, <1>b DEF SequentializePrepared, Inv, Shape, NoneSequential
<1>5. ASSUME CheckDone(th) PROVE Frame(th)
  BY <1>5, <1>a, <1>b, <1>c DEF CheckDone, Goto, itemVars, envVars, Frame
<1>6. ASSUME ScheduleDefer(th) PROVE Frame(th)
  BY <1>6, <1>a, <1>b, <1>c, <1>g
     DEF ScheduleDefer, Return, Goto, CurrentIsSequentialized, itemVars, envVars, Frame
<1>7. ASSUME ScheduleCount(th) PROVE Frame(th)
  BY <1>7, <1>a, <1>b, <1>c DEF ScheduleCount, Goto, stepVars, itemVars, envVars, Frame
<1>8. ASSUME ScheduleEnqueue(th) PROVE Frame(th)
  BY <1>8, <1>a, <1>b, <1>c, <1>g
     DEF ScheduleEnqueue, Return, Goto, stepVars, itemVars, envVars, Frame
<1>9. ASSUME NEW s \in Steps, TakeStep(th, s) PROVE Frame(th)
  BY <1>9, <1>a, <1>b, <1>c DEF TakeStep, Goto, stepVars, itemVars, envVars, Frame
<1>10. ASSUME BeginExecute(th) PROVE Frame(th)
  <2>1. /\ job' = job /\ getList' = getList /\ group' = group /\ envIp' = envIp
        /\ tgt' = tgt /\ deps' = deps /\ pc' = [pc EXCEPT ![th] = "run"]
        /\ ip' = [ip EXCEPT ![th] = 1] /\ pc[th] = "begin"
        /\ wasSuspended' = [wasSuspended EXCEPT ![job[th]] = FALSE]
    BY <1>10 DEF BeginExecute, Goto, itemVars, envVars
  <2>2. job[th] \in Steps /\ status[job[th]] = "Prepared"
    BY <2>1, <1>h DEF Inv, Shape, Control
  <2>3. status' = status
    BY <1>10, <2>2 DEF BeginExecute, Protect
  <2>4. \A u \in Threads \ {th} : job[u] # Null => wasSuspended'[job[u]] = wasSuspended[job[u]]
    BY <2>1, <2>2, <1>b, JobsApart
  <2>5. \A u \in Threads : /\ pc'[u] # "abort"
                           /\ pc'[u] = "depends" => deps'[u] \subseteq ReadSet(tgt'[u])
    BY <2>1, <1>b, <1>c
  <2>6. \A u \in Threads \ {th} : pc'[u] = pc[u] /\ ip'[u] = ip[u]
    BY <2>1, <1>b
  <2> QED BY <2>1, <2>3, <2>4, <2>5, <2>6 DEF Frame
<1>11. ASSUME DecrementRefCount(th) PROVE Frame(th)
  BY <1>11, <1>a, <1>b, <1>c, <1>i DEF DecrementRefCount, AtBodyEnd, Goto, envVars, Frame
<1>12. ASSUME Succeed(th) PROVE Frame(th)
  <2>1. /\ pc' = [pc EXCEPT ![th] = "succeeded"] /\ job' = job /\ ip' = ip /\ tgt' = tgt /\ deps' = deps
        /\ wasSuspended' = wasSuspended /\ getList' = getList /\ group' = group /\ envIp' = envIp
        /\ status' = [status EXCEPT ![job[th]] = "Done"] /\ AtBodyEnd(th) /\ getList[job[th]] = <<>>
    BY <1>12 DEF Succeed, Goto, itemVars, envVars
  <2>2. job[th] \in Steps /\ status[job[th]] = "Prepared"
    BY <2>1, <1>h DEF AtBodyEnd
  <2>3. \A s \in Steps : s # job[th] => status'[s] = status[s]
    BY <2>1, <1>b
  <2>4. \A u \in Threads \ {th} : pc'[u] = pc[u]
    BY <2>1, <1>b
  <2>5. pc'[th] = "succeeded" /\ status'[job[th]] = "Done"
    BY <2>1, <2>2, <1>b
  <2>6. \A u \in Threads : /\ pc'[u] # "abort"
                           /\ pc'[u] = "depends" => deps'[u] \subseteq ReadSet(tgt'[u])
    BY <2>1, <2>4, <2>5, <1>c
  <2> QED BY <2>1, <2>2, <2>3, <2>4, <2>5, <2>6 DEF Frame
<1>13. ASSUME LeaveSucceeded(th) PROVE Frame(th)
  BY <1>13, <1>a, <1>b, <1>c DEF LeaveSucceeded, Goto, stepVars, itemVars, envVars, Frame
<1>14. ASSUME DeleteStep(th) PROVE Frame(th)
  BY <1>14, <1>a, <1>b, <1>c DEF DeleteStep, Goto, itemVars, envVars, Frame
<1>15. ASSUME CatchNotReady(th) PROVE Frame(th)
  BY <1>15, <1>a, <1>b, <1>c DEF CatchNotReady, ClearGetList, Goto, itemVars, envVars, Frame
<1>16. ASSUME Unprotect(th) PROVE Frame(th)
  BY <1>16, <1>a, <1>b, <1>c DEF Unprotect, Goto, itemVars, envVars, Frame
<1>17. ASSUME LeaveSuspended(th) PROVE Frame(th)
  BY <1>17, <1>a, <1>b, <1>c DEF LeaveSuspended, Goto, stepVars, itemVars, envVars, Frame
<1>18. ASSUME NEW i \in Items, NEW k \in {"get", "uget"}, GetStored(th, k, i) PROVE Frame(th)
  BY <1>18, <1>a, <1>b, <1>c DEF GetStored, RecordGet, Advance, itemVars, waitVars, Frame
<1>19. ASSUME NEW i \in Items, GetMissing(th, i) PROVE Frame(th)
  BY <1>19, <1>a, <1>b, <1>c, <1>j, JobsApart
     DEF GetMissing, SuspendOn, Suspend, Join, Goto, envVars, Frame
<1>20. ASSUME NEW i \in Items, UnsafeGetMissing(th, i) PROVE Frame(th)
  BY <1>20, <1>a, <1>b, <1>c, <1>j, JobsApart
     DEF UnsafeGetMissing, SuspendOn, Suspend, Join, Advance, waitVars, Frame
<1>21. ASSUME FlushGets(th) PROVE Frame(th)
  BY <1>21, <1>a, <1>b, <1>c DEF FlushGets, Goto, stepVars, itemVars, envVars, Frame
<1>22. ASSUME NEW i \in Items, PutDiscarded(th, i) PROVE Frame(th)
  BY <1>22, <1>a, <1>b, <1>c DEF PutDiscarded, Advance, stepVars, itemVars, waitVars, Frame
<1>23. ASSUME NEW i \in Items, PutStore(th, i) PROVE Frame(th)
  BY <1>23, <1>a, <1>b, <1>c DEF PutStore, Advance, Goto, stepVars, waitVars, Frame
<1>24. ASSUME NEW i \in Items, NEW s \in Steps, ResumeStep(th, i, s) PROVE Frame(th)
  <2>1. /\ job' = job /\ ip' = ip /\ wasSuspended' = wasSuspended /\ getList' = getList
        /\ status' = status /\ envIp' = envIp /\ deps' = deps
        /\ group' = [group EXCEPT ![i][s] = @ - 1]
    BY <1>24 DEF ResumeStep, Leave, envVars
  <2>2. /\ \A u \in Threads \ {th} : pc'[u] = pc[u] /\ tgt'[u] = tgt[u]
        /\ pc'[th] \in {"resume", "schedule"}
    BY <1>24, <1>b DEF ResumeStep, Goto
  <2>3. \A t \in Steps, j \in Items : group'[j][t] > 0 => group[j][t] > 0
    BY <2>1, <1>a, <1>b
  <2> QED BY <2>1, <2>2, <2>3, <1>a, <1>b, <1>c DEF Frame
<1>25. ASSUME NEW i \in Items, ResumeEnv(th, i) PROVE Frame(th)
  BY <1>25, <1>a, <1>b, <1>c
     DEF ResumeEnv, Leave, UnblockForPut, stepVars, threadVars, envVars, Frame
<1>26. ASSUME NEW i \in Items, EndPut(th, i) PROVE Frame(th)
  BY <1>26, <1>a, <1>b, <1>c DEF EndPut, Goto, stepVars, envVars, Frame
<1>27. ASSUME NEW i \in Items, th = Env, EnvGetStored(i) PROVE Frame(th)
  BY <1>27, <1>a, <1>b, <1>c DEF EnvGetStored, Goto, stepVars, itemVars, waitVars, Frame
<1>28. ASSUME NEW i \in Items, th = Env, EnvGetActive(i) PROVE Frame(th)
  BY <1>28, <1>a, <1>b, <1>c DEF EnvGetActive, Goto, stepVars, envVars, Frame
<1>29. ASSUME NEW i \in Items, th = Env, EnvBlockForPut(i) PROVE Frame(th)
  BY <1>29, <1>a, <1>b, <1>c DEF EnvBlockForPut, SuspendOn, Join, Goto, envVars, Frame
<1>30. ASSUME th = Env, EnvUnblock PROVE Frame(th)
  BY <1>30, <1>a, <1>b, <1>c DEF EnvUnblock, Goto, stepVars, itemVars, Frame
<1>31. ASSUME NEW i \in Items, th = Env, EnvGetInactive(i) PROVE Frame(th)
  BY <1>31, <1>a, <1>b, <1>c DEF EnvGetInactive, Goto, stepVars, envVars, Frame
<1>32. ASSUME NEW i \in Items, th = Env, EnvGetGivesUp(i) PROVE Frame(th)
  BY <1>32, <1>a, <1>b, <1>c DEF EnvGetGivesUp, Goto, stepVars, itemVars, waitVars, Frame
<1>33. ASSUME th = Env, EnvWait PROVE Frame(th)
  BY <1>33, <1>a, <1>b, <1>c DEF EnvWait, Goto, stepVars, itemVars, Frame
<1>34. ASSUME th = Env, WaitLockSteps PROVE Frame(th)
  <2>1. /\ threadVars' = threadVars /\ itemVars' = itemVars
        /\ status' = status /\ getList' = getList /\ envIp' = envIp
    BY <1>34 DEF WaitLockSteps
  <2>2. \A s \in Steps : ~InSeq(s, pendingSteps) /\ ~InSeq(s, seqSteps)
    BY <1>k DEF InSeq
  <2>3. wasSuspended' = wasSuspended
    BY <1>34, <1>b, <2>2 DEF WaitLockSteps
  <2> QED BY <2>1, <2>3, <1>a, <1>b, <1>c DEF Frame, threadVars, itemVars
<1>35. ASSUME th = Env, WaitRunSequential PROVE FALSE
  BY <1>35, <1>a, <1>b DEF WaitRunSequential, Inv, Shape, NoneSequential
<1>36. ASSUME th = Env, WaitEndSequential PROVE Frame(th)
  BY <1>36, <1>a, <1>b, <1>c DEF WaitEndSequential, stepVars, itemVars, threadVars, Frame
<1>37. ASSUME th = Env, WaitRepost PROVE FALSE
  BY <1>37, <1>a, <1>b DEF WaitRepost, Inv, Shape, NoneSequential
<1>38. ASSUME th = Env, WaitAgain PROVE Frame(th)
  BY <1>38, <1>a, <1>b, <1>c DEF WaitAgain, stepVars, itemVars, threadVars, Frame
<1>39. ASSUME th = Env, WaitReturn PROVE Frame(th)
  BY <1>39, <1>a, <1>b, <1>c DEF WaitReturn, Goto, stepVars, itemVars, Frame
<1> QED
  BY <1>1, <1>2, <1>3, <1>4, <1>5, <1>6, <1>7, <1>8, <1>9, <1>10, <1>11, <1>12, <1>13, <1>14,
     <1>15, <1>16, <1>17, <1>18, <1>19, <1>20, <1>21, <1>22, <1>23, <1>24, <1>25, <1>26, <1>27,
     <1>28, <1>29, <1>30, <1>31, <1>32, <1>33, <1>34, <1>35, <1>36, <1>37, <1>38, <1>39
     DEF ThreadStep, Prepare, Schedule, Execute, Access, Environment

-----------------------------------------------------------------------------
(* What is behind the other threads, and what the acting thread must show *)

\* The execution stays where it is, and what was there before is still there.
LEMMA BehindKept ==
    ASSUME Inv, NEW u \in Threads, Behind(u), \A i \in Items : Available(i) => Available(i)',
           \A t \in Steps : status[t] # "None" => status'[t] # "None",
           Running(u)' => /\ Running(u) /\ job'[u] = job[u] /\ ip'[u] = ip[u]
                          /\ wasSuspended'[job[u]] = wasSuspended[job[u]]
                          /\ getList'[job[u]] = getList[job[u]]
                          /\ status[job[u]] = "Done" => status'[job[u]] = "Done"
                          /\ AtBodyEnd(u) => AtBodyEnd(u)' \/ status'[job[u]] = "Done"
                          /\ \A i \in Items : group'[i][job[u]] > 0 => group[i][job[u]] > 0
    PROVE  Behind(u)'
<1> SUFFICES ASSUME Running(u)'
             PROVE  (/\ InBody(u) /\ ReadsBehind(u) /\ HeldBehind(u)
                     /\ PutsBehind(u) /\ TagsBehind(u) /\ SuspendedSince(u))'
  BY DEF Behind
<1> DEFINE s == job[u]
<1>0. s \in Steps /\ job'[u] = s /\ ip'[u] = ip[u] /\ wasSuspended'[s] = wasSuspended[s]
  BY ThreadFacts DEF Running
<1>1. InBody(u) /\ ReadsBehind(u) /\ HeldBehind(u) /\ PutsBehind(u) /\ TagsBehind(u) /\ SuspendedSince(u)
  BY DEF Behind
<1>2. \A n \in 1..Len(Body[s]), i \in Items : Missed(u, n, i)' <=> Missed(u, n, i)
  BY <1>0 DEF Missed, FlushedBy
<1>3. InBody(u)' /\ ReadsBehind(u)'
  BY <1>0, <1>1, <1>2 DEF InBody, ReadsBehind, ReadsAt
<1>4. HeldBehind(u)'
  BY <1>0, <1>1, <1>2 DEF HeldBehind, ReadsAt, Held, InSeq, Counted
<1>5. PutsBehind(u)' /\ TagsBehind(u)'
  BY <1>0, <1>1 DEF PutsBehind, TagsBehind
<1>6. SuspendedSince(u)'
  BY <1>0, <1>1, <1>2 DEF SuspendedSince, WaitsFor
<1> QED BY <1>3, <1>4, <1>5, <1>6

\* What a step of th makes available stays so, and the thread that has put an
\* item is not replayed.
GoesOn(th) ==
    Running(th) =>
        \/ Running(th)' /\ job'[th] = job[th] /\ ip'[th] \in {ip[th], ip[th] + 1}
        \/ status'[job[th]] = "Done"
        \/ \A n \in 1..Len(Body[job[th]]), i \in Items : n < ip[th] => ~PutsAt(job[th], n, i)

\* What has been put stays put, since only an execution without puts is replayed.
LEMMA AssignedKept ==
    ASSUME Inv, NEW th \in Threads, Frame(th), GoesOn(th), NEW i \in Items, Assigned(i)
    PROVE  Assigned(i)'
<1>1. CASE \E n \in 1..Len(EnvBody) : n < envIp /\ EnvPutsAt(n, i)
  <2>1. envIp' \in {envIp, envIp + 1} /\ envIp \in Nat
    BY ThreadFacts DEF Frame
  <2> QED BY <1>1, <2>1 DEF Assigned, EnvPutsAt
<1>2. ASSUME NEW s \in Steps, NEW n \in 1..Len(Body[s]), PutsAt(s, n, i), status[s] = "Done"
      PROVE  Assigned(i)'
  BY <1>2 DEF Frame, Assigned, PutsAt
<1>3. ASSUME NEW s \in Steps, NEW n \in 1..Len(Body[s]), PutsAt(s, n, i),
             NEW u \in Threads, job[u] = s, Running(u), n < ip[u]
      PROVE  Assigned(i)'
  <2>1. CASE u # th
    BY <1>3, <2>1 DEF Frame, Assigned, PutsAt, Running
  <2>2. CASE u = th
    <3>1. CASE Running(th)' /\ job'[th] = s /\ ip'[th] \in {ip[th], ip[th] + 1}
      <4>1. n < ip'[th]
        BY <1>3, <2>2, <3>1, ThreadFacts
      <4> QED BY <1>3, <3>1, <4>1 DEF Assigned, PutsAt
    <3>2. CASE status'[s] = "Done"
      BY <1>3, <3>2 DEF Assigned, PutsAt
    <3> QED BY <1>3, <2>2, <3>1, <3>2 DEF GoesOn
  <2> QED BY <2>1, <2>2
<1> QED BY <1>1, <1>2, <1>3 DEF Assigned

\* An item becomes available by its put only, and remains so.
NewItems(th) ==
    \A i \in Items :
        /\ Available(i) => Available(i)'
        /\ Available(i)' /\ ~Available(i) =>
              AtOp(th, "put", i) /\ pc'[th] = "resume" /\ GetCount[i] # 0

\* What is to be shown of a step of th.
Kept(th) == ReplayInv' /\ NewItems(th)

\* The lists of the steps that th does not execute.
LEMMA OtherLists ==
    ASSUME Inv, NEW th \in Threads, Frame(th), NEW s \in Steps, s # job[th], ListRight(s),
           \A i \in Items : Held(s, i) => item'[i] = "stored"
    PROVE  ListRight(s)'
<1>1. getList'[s] = getList[s] /\ \A i \in Items : Held(s, i)' <=> Held(s, i)
  BY DEF Frame, Held, InSeq
<1>2. ASSUME NEW i \in Items, Held(s, i)
      PROVE  /\ Counted(i) /\ i \in ReadSet(s) /\ status'[s] # "Done"
             /\ \E u \in Threads : job'[u] = s /\ GotBy(u, i)'
  <2>1. Counted(i) /\ i \in ReadSet(s) /\ status'[s] # "Done"
    BY <1>2 DEF Frame, ListRight
  <2>2. PICK u \in Threads : job[u] = s /\ GotBy(u, i)
    BY <1>2 DEF ListRight
  <2>3. u # th
    BY <2>2
  <2> QED BY <2>1, <2>2, <2>3 DEF Frame, GotBy, Running
<1> QED BY <1>1, <1>2 DEF ListRight, ReadSet, ReadSets, Counted

\* The invariant after a step of th: beyond the frame, what is behind th itself
\* and what it has got have to be shown.
LEMMA Combine ==
    ASSUME Disciplined, Inv, ReplayInv, NEW th \in Threads, Frame(th), GoesOn(th),
           \A i \in Items : (Available(i) => Available(i)') /\ CountRight(i)',
           \A i \in Items : Counted(i) /\ Available(i)' => Available(i) \/ Assigned(i)',
           \A i \in Items, s \in Steps : s # job[th] /\ Held(s, i) => item'[i] = "stored",
           Behind(th)', \A s \in Steps : s = job[th] => ListRight(s)'
    PROVE  ReplayInv'
<1>1. ASSUME NEW u \in Threads PROVE Behind(u)'
  <2>1. CASE u # th
    <3>1. Behind(u)
      BY DEF ReplayInv
    <3>2. pc'[u] = pc[u] /\ job'[u] = job[u] /\ ip'[u] = ip[u]
      BY <2>1 DEF Frame
    <3>3. ASSUME Running(u)
          PROVE  /\ wasSuspended'[job[u]] = wasSuspended[job[u]]
                 /\ getList'[job[u]] = getList[job[u]]
                 /\ status[job[u]] = "Done" => status'[job[u]] = "Done"
                 /\ \A i \in Items : group'[i][job[u]] > 0 => group[i][job[u]] > 0
      <4>1. job[u] \in Steps /\ job[u] # Null /\ job[u] # job[th]
        BY <2>1, <3>3, ThreadFacts, JobsApart DEF Running
      <4> QED BY <2>1, <4>1 DEF Frame
    <3>4. (Running(u)' <=> Running(u)) /\ (AtBodyEnd(u)' <=> AtBodyEnd(u))
      BY <3>2 DEF Running, AtBodyEnd
    <3> QED BY <3>1, <3>2, <3>3, <3>4, BehindKept DEF Frame
  <2> QED BY <2>1
<1>2. ASSUME NEW s \in Steps PROVE ListRight(s)'
  <2>1. CASE s # job[th]
    BY <2>1, OtherLists DEF ReplayInv
  <2>2. CASE s = job[th]
    BY <2>2
  <2> QED BY <2>1, <2>2
<1>3. ASSUME NEW s \in Steps PROVE DoneRight(s)'
  <2> SUFFICES ASSUME status'[s] = "Done"
               PROVE  ReadSet(s) \subseteq {i \in Items : Available(i)'} /\ WaitsFor(s)' = {}
    BY DEF DoneRight, ReadSet, ReadSets
  <2>1. ReadSet(s) \subseteq {i \in Items : Available(i)} /\ WaitsFor(s) = {}
    <3>1. CASE status[s] = "Done"
      BY <3>1 DEF ReplayInv, DoneRight
    <3>2. CASE status[s] # "Done"
      <4>1. s = job[th] /\ AtBodyEnd(th) /\ Behind(th)
        BY <3>2 DEF Frame, ReplayInv
      <4>2. Running(th) /\ InputsBefore(s, ip[th])
        <5>1. Running(th)
          BY <4>1 DEF AtBodyEnd, Running
        <5>2. ip[th] = Len(Body[s]) + 1
          BY <4>1, <5>1, ThreadFacts DEF AtBodyEnd, Behind, InBody
        <5> QED BY <5>1, <5>2 DEF Disciplined, GetsFirst
      <4>3. ReadSet(s) \subseteq Items
        BY DEF ReadSet, ReadSets
      <4> QED BY <4>1, <4>2, <4>3, InputsHere
    <3> QED BY <3>1, <3>2
  <2>2. WaitsFor(s)' = {}
    BY <2>1 DEF Frame, WaitsFor
  <2> QED BY <2>1, <2>2
<1>4. AssignedOnce'
  <2> SUFFICES ASSUME NEW i \in Items, Counted(i), Available(i)' PROVE Assigned(i)'
    BY DEF AssignedOnce, Counted
  <2> QED BY AssignedKept DEF ReplayInv, AssignedOnce
<1>5. WaitsForReads' /\ NoAbort'
  <2>1. ASSUME NEW s \in Steps PROVE WaitsFor(s)' \subseteq ReadSet(s)
    BY DEF Frame, WaitsFor, ReplayInv, WaitsForReads
  <2> QED BY <2>1 DEF Frame, WaitsForReads, NoAbort, ReadSet, ReadSets
<1> QED BY <1>1, <1>2, <1>3, <1>4, <1>5 DEF ReplayInv

-----------------------------------------------------------------------------
(* A step of th that neither stores nor erases an item *)

\* Where no item is stored or erased, all of them stay right.
LEMMA SteadyItems ==
    ASSUME Inv, ReplayInv, NEW th \in Threads, Frame(th), CommitsInOrder(th),
           \A i \in Items : Steady(i)
    PROVE  /\ \A i \in Items : (Available(i) <=> Available(i)') /\ CountRight(i)'
           /\ \A i \in Items, s \in Steps : Held(s, i) => item'[i] = "stored"
<1>1. \A i \in Items : (Available(i) <=> Available(i)') /\ CountRight(i)'
  BY ItemSteady DEF ReplayInv
<1>2. \A i \in Items, s \in Steps : Held(s, i) => item'[i] = "stored"
  BY DEF ReplayInv, ListRight, Steady
<1> QED BY <1>1, <1>2

\* What remains to be shown of such a step: the thread's own execution and list.
LEMMA SteadyCombine ==
    ASSUME Disciplined, Inv, ReplayInv, NEW th \in Threads, Frame(th), CommitsInOrder(th),
           \A i \in Items : Steady(i), GoesOn(th), Behind(th)',
           \A s \in Steps : s = job[th] => ListRight(s)'
    PROVE  Kept(th)
<1>1. ReplayInv'
  BY SteadyItems, Combine
<1>2. NewItems(th)
  BY SteadyItems DEF NewItems
<1> QED BY <1>1, <1>2 DEF Kept

\* A place behind the last operation: a commit is about to begin, or under way.
LEMMA AtTheEnd ==
    ASSUME Disciplined, Inv, ReplayInv, NEW th \in Threads, Running(th), ip[th] > Len(Body[job[th]])
    PROVE  Behind(th) /\ InputsBefore(job[th], ip[th])
<1>1. job[th] \in Steps /\ Behind(th)
  BY ThreadFacts DEF Running, ReplayInv
<1>2. ip[th] = Len(Body[job[th]]) + 1
  BY <1>1, ThreadFacts DEF Behind, InBody, Running
<1> QED BY <1>1, <1>2 DEF Disciplined, GetsFirst

\* The thread stays at its place in the body, if it is in one.
Quiet(th) ==
    /\ \A i \in Items : Steady(i)
    /\ \A s \in Steps : s = job[th] => getList'[s] = getList[s]
    /\ Running(th)' => Running(th)
    /\ Running(th) =>
          \/ /\ Running(th)' /\ job'[th] = job[th] /\ ip'[th] = ip[th]
             /\ wasSuspended'[job[th]] = wasSuspended[job[th]]
             /\ \A i \in Items : group'[i][job[th]] > 0 => group[i][job[th]] > 0
          \/ ~Running(th)' /\ status[job[th]] = "Done"
    /\ pc[th] # "failed"
    /\ AtBodyEnd(th) => status'[job[th]] = "Done" /\ ~AtBodyEnd(th)'

\* Such a step keeps the invariant.
LEMMA QuietStep ==
    ASSUME Disciplined, Inv, Inv', ReplayInv, NEW th \in Threads, Frame(th), Quiet(th)
    PROVE  Kept(th)
<1>a. Running(th) => job[th] \in Steps
  BY ThreadFacts DEF Running
<1>1. CommitsInOrder(th)
  <2>1. ASSUME AtBodyEnd(th)', ~AtBodyEnd(th)
        PROVE  /\ job'[th] = job[th]
               /\ \A i \in ReadSet(job[th]) : Available(i) /\ (Counted(i) => Held(job[th], i)')
    <3>1. Running(th)'
      BY <2>1 DEF AtBodyEnd, Running
    <3>2. /\ Running(th) /\ job'[th] = job[th] /\ ip'[th] = ip[th] /\ job[th] \in Steps
          /\ getList'[job[th]] = getList[job[th]]
      BY <3>1, <1>a DEF Quiet
    <3>3. ip[th] > Len(Body[job[th]])
      BY <2>1, <3>2 DEF AtBodyEnd
    <3>4. status[job[th]] # "Done"
      <4>1. status'[job[th]] = "Prepared"
        BY <2>1, <3>2 DEF AtBodyEnd, Inv, Ownership, Life, JobAlive
      <4> QED BY <3>2, <4>1 DEF Frame
    <3>5. \A i \in ReadSet(job[th]) : Available(i) /\ (Counted(i) => Held(job[th], i))
      BY <2>1, <3>2, <3>3, <3>4, AtTheEnd, InputsHere
    <3>6. \A i \in Items : Held(job[th], i)' <=> Held(job[th], i)
      BY <3>2 DEF Held, InSeq
    <3>7. ReadSet(job[th]) \subseteq Items
      BY <3>2 DEF ReadSet, ReadSets
    <3> QED BY <3>2, <3>5, <3>6, <3>7
  <2>2. ASSUME AtBodyEnd(th) PROVE getList'[job[th]] = getList[job[th]]
    BY <2>2, <1>a DEF AtBodyEnd, Running, Quiet
  <2> QED BY <2>1, <2>2 DEF CommitsInOrder, Quiet
<1>2. GoesOn(th)
  BY <1>a DEF Quiet, GoesOn, Frame
<1>3. Behind(th)'
  <2>1. Behind(th) /\ \A i \in Items : Available(i) => Available(i)'
    BY <1>1, SteadyItems DEF Quiet, ReplayInv
  <2> QED BY <2>1, <1>a, BehindKept DEF Quiet, Frame
<1>4. ASSUME NEW s \in Steps, s = job[th] PROVE ListRight(s)'
  <2>1. ListRight(s) /\ getList'[s] = getList[s]
    BY <1>4 DEF ReplayInv, Quiet
  <2>2. ASSUME NEW i \in Items, Held(s, i)
        PROVE  /\ item'[i] = "stored" /\ Counted(i) /\ i \in ReadSet(s) /\ status'[s] # "Done"
               /\ \E u \in Threads : job'[u] = s /\ GotBy(u, i)'
    <3>1. /\ item[i] = "stored" /\ Counted(i) /\ i \in ReadSet(s) /\ status[s] # "Done"
          /\ \E u \in Threads : job[u] = s /\ GotBy(u, i)
      BY <2>1, <2>2 DEF ListRight
    <3>2. getList[s] # <<>>
      BY <2>2 DEF Held, InSeq
    <3>3. item'[i] = "stored" /\ status'[s] # "Done"
      BY <3>1, <3>2 DEF Quiet, Steady, Frame
    <3>4. Running(th) /\ \E n \in 1..Len(Body[s]) : ReadsAt(s, n, i) /\ n < ip[th]
      BY <1>4, <3>1, JobsApart, ThreadFacts DEF GotBy, Quiet
    <3>5. job'[th] = s /\ GotBy(th, i)'
      BY <1>4, <3>1, <3>4 DEF Quiet, GotBy, ReadsAt
    <3> QED BY <3>1, <3>3, <3>5
  <2>3. \A i \in Items : Held(s, i)' <=> Held(s, i)
    BY <2>1 DEF Held, InSeq
  <2> QED BY <2>1, <2>2, <2>3 DEF ListRight, ReadSet, ReadSets, Counted
<1> QED BY <1>1, <1>2, <1>3, <1>4, SteadyCombine DEF Quiet

-----------------------------------------------------------------------------
(* A thread goes on to the next operation of the body *)

\* The operation has done what it is there for: it has got the item, or it is an
\* unsafe_get that missed it; what it puts or prescribes is there; and no
\* flush_gets lets an execution pass that has missed an item.
OpDone(s, n) ==
    /\ \A i \in Items : ReadsAt(s, n, i) =>
          \/ item[i] = "stored" /\ (Counted(i) => InSeq(i, getList'[s]))
          \/ Body[s][n] = <<"uget", i>> /\ wasSuspended'[s]
    /\ \A i \in Items : Body[s][n] = <<"put", i>> /\ GetCount[i] # 0 => item'[i] = "stored"
    /\ \A t \in Steps : Body[s][n] = <<"tag", t>> => status'[t] # "None"
    /\ Body[s][n] = <<"flush">> => ~wasSuspended[s]
    /\ wasSuspended[s] => wasSuspended'[s]
    /\ wasSuspended'[s] => wasSuspended[s] \/ \E i \in Items : Body[s][n] = <<"uget", i>>
    /\ ~wasSuspended'[s] => \A i \in Items : group'[i][s] > 0 => group[i][s] > 0
    /\ \A i \in Items : InSeq(i, getList[s]) => InSeq(i, getList'[s])

\* The execution does the operation it is at, and is behind it afterwards.
Advances(th) ==
    /\ pc[th] = "run" /\ job[th] # Null /\ ip[th] <= Len(Body[job[th]])
    /\ job'[th] = job[th] /\ ip'[th] = ip[th] + 1 /\ pc'[th] \in {"run", "depends", "resume"}
    /\ OpDone(job[th], ip[th])

\* What is known of an execution in the middle of its body.
LEMMA AdvanceFacts ==
    ASSUME Inv, ReplayInv, NEW th \in Threads, Advances(th)
    PROVE  /\ job[th] \in Steps /\ Running(th) /\ Running(th)' /\ Behind(th) /\ ~AtBodyEnd(th)
           /\ status[job[th]] # "Done" /\ ip[th] \in 1..Len(Body[job[th]]) /\ ip[th] \in Nat
           /\ Len(Body[job[th]]) \in Nat
           /\ InBody(th) /\ ReadsBehind(th) /\ HeldBehind(th)
           /\ PutsBehind(th) /\ TagsBehind(th) /\ SuspendedSince(th)
<1>1. /\ job[th] \in Steps /\ Running(th) /\ Running(th)' /\ ~AtBodyEnd(th) /\ ip[th] \in Nat
      /\ Len(Body[job[th]]) \in Nat
  BY ThreadFacts DEF Advances, Running, AtBodyEnd
<1>2. Behind(th)
  BY DEF ReplayInv
<1>3. status[job[th]] # "Done"
  BY DEF Advances, Inv, Ownership, Life, JobAlive
<1> QED BY <1>1, <1>2, <1>3 DEF Behind, InBody, Advances

\* The missed unsafe_gets remain missed.
LEMMA StillMissed ==
    ASSUME Inv, ReplayInv, NEW th \in Threads, Advances(th),
           NEW n \in 1..Len(Body[job[th]]), NEW i \in Items
    PROVE  /\ n < ip[th] /\ Missed(th, n, i) => Missed(th, n, i)'
           /\ n = ip[th] /\ Body[job[th]][n] = <<"uget", i>> /\ wasSuspended'[job[th]] => Missed(th, n, i)'
<1>1. /\ ip[th] \in Nat /\ Len(Body[job[th]]) \in Nat /\ job'[th] = job[th] /\ ip'[th] = ip[th] + 1
      /\ OpDone(job[th], ip[th])
  BY AdvanceFacts DEF Advances
<1>2. ASSUME n < ip[th], Missed(th, n, i) PROVE Missed(th, n, i)'
  <2>1. wasSuspended[job[th]] /\ wasSuspended'[job[th]] /\ Body[job[th]][ip[th]] # <<"flush">>
    BY <1>1, <1>2 DEF OpDone, Missed
  <2>2. ~FlushedBy(job[th], n, ip[th] + 1)
    BY <1>1, <1>2, <2>1 DEF FlushedBy, Missed
  <2> QED BY <1>1, <1>2, <2>1, <2>2 DEF Missed, FlushedBy
<1>3. ASSUME n = ip[th], Body[job[th]][n] = <<"uget", i>>, wasSuspended'[job[th]] PROVE Missed(th, n, i)'
  <2>1. ~FlushedBy(job[th], n, ip[th] + 1)
    BY <1>1, <1>3 DEF FlushedBy
  <2> QED BY <1>1, <1>3, <2>1 DEF Missed, FlushedBy
<1> QED BY <1>2, <1>3

\* Whoever comes to the end has got all that it commits.
LEMMA AdvanceCommits ==
    ASSUME Disciplined, Inv, ReplayInv, NEW th \in Threads, Advances(th)
    PROVE  CommitsInOrder(th)
<1> DEFINE s == job[th]
<1>0. /\ s \in Steps /\ ip[th] \in 1..Len(Body[s]) /\ ip[th] \in Nat /\ Len(Body[s]) \in Nat
      /\ job'[th] = s /\ ip'[th] = ip[th] + 1 /\ OpDone(s, ip[th]) /\ ~AtBodyEnd(th)
      /\ ReadsBehind(th) /\ HeldBehind(th) /\ status[s] # "Done"
  BY AdvanceFacts DEF Advances
<1>1. ASSUME AtBodyEnd(th)', NEW i \in ReadSet(s)
      PROVE  Available(i) /\ (Counted(i) => Held(s, i)')
  <2>1. ip[th] = Len(Body[s])
    BY <1>0, <1>1 DEF AtBodyEnd
  <2>2. InputsBefore(s, ip[th] + 1)
    BY <1>0, <2>1 DEF Disciplined, GetsFirst
  <2>3. PICK n \in 1..Len(Body[s]) : ReadsAt(s, n, i) /\ i \in Items
    BY <1>0, <1>1 DEF ReadSet, ReadSets, ReadsAt
  <2>4. n < ip[th] + 1 /\ (Body[s][n] = <<"uget", i>> => FlushedBy(s, n, ip[th] + 1))
    BY <2>2, <2>3 DEF InputsBefore
  <2>5. Body[s][n] = <<"uget", i>> => n # ip[th]
    BY <1>0, <2>4 DEF FlushedBy
  <2>6. CASE n = ip[th]
    <3>1. item[i] = "stored" /\ (Counted(i) => InSeq(i, getList'[s]))
      BY <1>0, <2>3, <2>5, <2>6 DEF OpDone
    <3> QED BY <1>0, <3>1 DEF Available, Held
  <2>7. CASE n < ip[th]
    <3>1. ~Missed(th, n, i)
      <4> SUFFICES ASSUME Missed(th, n, i) PROVE FALSE
        OBVIOUS
      <4>1. wasSuspended[s] /\ FlushedBy(s, n, ip[th] + 1) /\ ~FlushedBy(s, n, ip[th])
        BY <2>4 DEF Missed
      <4>2. Body[s][ip[th]] = <<"flush">>
        BY <1>0, <4>1 DEF FlushedBy
      <4> QED BY <1>0, <4>1, <4>2 DEF OpDone
    <3>2. Available(i) /\ (Counted(i) => Held(s, i))
      BY <1>0, <2>3, <2>7, <3>1 DEF ReadsBehind, HeldBehind
    <3> QED BY <1>0, <2>3, <3>2 DEF OpDone, Held
  <2> QED BY <1>0, <2>4, <2>6, <2>7
<1> QED BY <1>0, <1>1 DEF CommitsInOrder

\* What is behind the thread now includes the operation it has done.
LEMMA AdvanceBehind ==
    ASSUME Disciplined, Inv, ReplayInv, NEW th \in Threads, Frame(th), Advances(th),
           \A i \in Items : Available(i) => Available(i)'
    PROVE  Behind(th)'
<1> DEFINE s == job[th]
           k == ip[th]
<1>0. /\ s \in Steps /\ k \in 1..Len(Body[s]) /\ k \in Nat /\ Len(Body[s]) \in Nat
      /\ job'[th] = s /\ ip'[th] = k + 1 /\ OpDone(s, k) /\ ~AtBodyEnd(th) /\ status[s] # "Done"
      /\ ReadsBehind(th) /\ HeldBehind(th) /\ PutsBehind(th) /\ TagsBehind(th) /\ SuspendedSince(th)
  BY AdvanceFacts DEF Advances
<1>a. \A n \in 1..Len(Body[s]) : n < k + 1 <=> n < k \/ n = k
  BY <1>0
<1>b. \A n \in 1..Len(Body[s]), i \in Items :
         /\ n < k /\ Missed(th, n, i) => Missed(th, n, i)'
         /\ n = k /\ Body[s][n] = <<"uget", i>> /\ wasSuspended'[s] => Missed(th, n, i)'
  BY StillMissed
<1> HIDE DEF s, k
<1>1. InBody(th)'
  BY <1>0 DEF InBody
<1>2. ReadsBehind(th)'
  <2> SUFFICES ASSUME NEW n \in 1..Len(Body[s]), NEW i \in Items, ReadsAt(s, n, i), n < k + 1
               PROVE  Available(i)' \/ Missed(th, n, i)'
    BY <1>0 DEF ReadsBehind, ReadsAt
  <2>1. CASE n < k
    BY <2>1, <1>0, <1>b DEF ReadsBehind, s, k
  <2>2. CASE n = k
    BY <2>2, <1>0, <1>b DEF OpDone, Available
  <2> QED BY <2>1, <2>2, <1>a
<1>3. HeldBehind(th)'
  <2> SUFFICES ASSUME NEW n \in 1..Len(Body[s]), NEW i \in Items, ReadsAt(s, n, i), n < k + 1, Counted(i)
               PROVE  InSeq(i, getList'[s]) \/ Missed(th, n, i)'
    BY <1>0 DEF HeldBehind, ReadsAt, Held, Counted
  <2>1. CASE n < k
    BY <2>1, <1>0, <1>b DEF HeldBehind, Held, OpDone, s, k
  <2>2. CASE n = k
    BY <2>2, <1>0, <1>b DEF OpDone
  <2> QED BY <2>1, <2>2, <1>a
<1>4. PutsBehind(th)'
  <2> SUFFICES ASSUME NEW n \in 1..Len(Body[s]), NEW i \in Items, n < k + 1,
                      Body[s][n] = <<"put", i>>, GetCount[i] # 0
               PROVE  Available(i)'
    BY <1>0 DEF PutsBehind
  <2>1. CASE n < k
    BY <2>1, <1>0 DEF PutsBehind, s, k
  <2>2. CASE n = k
    BY <2>2, <1>0 DEF OpDone, Available
  <2> QED BY <2>1, <2>2, <1>a
<1>5. TagsBehind(th)'
  <2> SUFFICES ASSUME NEW n \in 1..Len(Body[s]), NEW t \in Steps, n < k + 1, Body[s][n] = <<"tag", t>>
               PROVE  status'[t] # "None"
    BY <1>0 DEF TagsBehind
  <2>1. CASE n < k
    BY <2>1, <1>0 DEF TagsBehind, Frame, s, k
  <2>2. CASE n = k
    BY <2>2, <1>0 DEF OpDone
  <2> QED BY <2>1, <2>2, <1>a
<1>6. SuspendedSince(th)'
  <2>1. ASSUME wasSuspended'[s]
        PROVE  \E n \in 1..Len(Body[s]), i \in Items : n < k + 1 /\ Missed(th, n, i)'
    <3>1. CASE wasSuspended[s]
      <4>1. PICK n \in 1..Len(Body[s]), i \in Items : n < k /\ Missed(th, n, i)
        BY <3>1, <1>0 DEF SuspendedSince, s, k
      <4> QED BY <4>1, <1>a, <1>b
    <3>2. CASE ~wasSuspended[s]
      <4>1. PICK i \in Items : Body[s][k] = <<"uget", i>>
        BY <2>1, <3>2, <1>0 DEF OpDone
      <4> QED BY <2>1, <4>1, <1>0, <1>a, <1>b
    <3> QED BY <3>1, <3>2
  <2>2. ~wasSuspended'[s] => \A i \in Items : ~(group'[i][s] > 0)
    BY <1>0 DEF OpDone, SuspendedSince, WaitsFor, s
  <2> QED BY <1>0, <2>1, <2>2 DEF SuspendedSince, WaitsFor
<1> QED BY <1>1, <1>2, <1>3, <1>4, <1>5, <1>6 DEF Behind

\* An execution that advances is not one to be replayed.
LEMMA AdvanceGoesOn ==
    ASSUME NEW th \in Threads, Advances(th)
    PROVE  GoesOn(th)
BY DEF Advances, GoesOn, Running

\* A list to which the operation adds nothing.
LEMMA AdvanceList ==
    ASSUME Inv, ReplayInv, NEW th \in Threads, Frame(th), Advances(th), NEW s \in Steps, s = job[th],
           getList'[s] = getList[s], \A i \in Items : item[i] = "stored" => item'[i] = "stored"
    PROVE  ListRight(s)'
<1>0. /\ ip[th] \in Nat /\ Running(th)' /\ job'[th] = s /\ ip'[th] = ip[th] + 1 /\ pc[th] = "run"
      /\ ListRight(s) /\ ~AtBodyEnd(th) /\ Len(Body[s]) \in Nat
  BY AdvanceFacts DEF Advances, ReplayInv
<1>1. \A i \in Items : Held(s, i)' <=> Held(s, i)
  BY DEF Held, InSeq
<1>2. ASSUME NEW i \in Items, Held(s, i)
      PROVE  /\ item'[i] = "stored" /\ Counted(i) /\ i \in ReadSet(s) /\ status'[s] # "Done"
             /\ GotBy(th, i)'
  <2>1. /\ item[i] = "stored" /\ Counted(i) /\ i \in ReadSet(s) /\ status[s] # "Done"
        /\ \E u \in Threads : job[u] = s /\ GotBy(u, i)
    BY <1>0, <1>2 DEF ListRight
  <2>2. status'[s] # "Done"
    BY <1>0, <2>1 DEF Frame
  <2>3. \E n \in 1..Len(Body[s]) : ReadsAt(s, n, i) /\ n < ip[th]
    BY <1>0, <2>1, JobsApart, ThreadFacts DEF GotBy
  <2>4. GotBy(th, i)'
    BY <1>0, <2>3 DEF GotBy, ReadsAt
  <2> QED BY <2>1, <2>2, <2>4
<1> QED BY <1>0, <1>1, <1>2 DEF ListRight, ReadSet, ReadSets, Counted

\* A step that goes on and leaves the items and its list as they are.
LEMMA AdvanceStep ==
    ASSUME Disciplined, Inv, ReplayInv, NEW th \in Threads, Frame(th), Advances(th),
           \A i \in Items : Steady(i), \A s \in Steps : getList'[s] = getList[s]
    PROVE  Kept(th)
<1>1. CommitsInOrder(th) /\ GoesOn(th)
  BY AdvanceCommits, AdvanceGoesOn
<1>2. Behind(th)'
  BY <1>1, SteadyItems, AdvanceBehind
<1>3. \A s \in Steps : s = job[th] => ListRight(s)'
  BY AdvanceList DEF Steady
<1> QED BY <1>1, <1>2, <1>3, SteadyCombine

\* What a list holds after push_back.
LEMMA AppendHolds ==
    ASSUME NEW q \in Seq(Items), NEW x \in Items, NEW y \in Items
    PROVE  InSeq(y, Append(q, x)) <=> InSeq(y, q) \/ y = x
<1> DEFINE r == Append(q, x)
<1>1. Len(r) = Len(q) + 1 /\ r[Len(q) + 1] = x /\ Len(q) \in Nat /\ \A n \in 1..Len(q) : r[n] = q[n]
  OBVIOUS
<1>2. 1..(Len(q) + 1) = (1..Len(q)) \cup {Len(q) + 1}
  BY <1>1
<1> HIDE DEF r
<1>3. InSeq(y, r) <=> \E n \in (1..Len(q)) \cup {Len(q) + 1} : r[n] = y
  BY <1>1, <1>2 DEF InSeq
<1>4. InSeq(y, r) <=> InSeq(y, q) \/ y = x
  BY <1>1, <1>3 DEF InSeq
<1> QED BY <1>4 DEF r

\* get and unsafe_get of an item that is there: a counted item enters the list.
LEMMA GetStoredStep ==
    ASSUME Disciplined, Inv, ReplayInv, NEW th \in Threads, Frame(th),
           NEW k \in {"get", "uget"}, NEW i \in Items, GetStored(th, k, i)
    PROVE  Kept(th)
<1> DEFINE s == job[th]
           n == ip[th]
<1>a. /\ s \in Steps /\ s # Null /\ pc[th] = "run" /\ n <= Len(Body[s]) /\ Body[s][n] = <<k, i>>
      /\ item[i] = "stored" /\ n \in Nat /\ Len(Body[s]) \in Nat
      /\ ip \in [Threads -> Nat] /\ getList \in [Steps -> Seq(Items)] /\ wasSuspended \in [Steps -> BOOLEAN]
  BY ThreadFacts DEF GetStored, AtOp, Inv, Shape, Typed, ThreadsTyped, StepsTyped
<1>b. /\ job' = job /\ ip' = [ip EXCEPT ![th] = n + 1] /\ pc' = pc /\ wasSuspended' = wasSuspended
      /\ group' = group /\ status' = status /\ item' = item /\ getCount' = getCount
      /\ getList' = IF getCount[i] = NO_GET_COUNT THEN getList
                    ELSE [getList EXCEPT ![s] = Append(@, i)]
  BY <1>a DEF GetStored, Advance, RecordGet, itemVars
<1>c. n \in 1..Len(Body[s]) /\ ReadsAt(s, n, i)
  <2>1. Behind(th) /\ Running(th)
    BY <1>a DEF ReplayInv, Running
  <2>2. n \in 1..Len(Body[s])
    BY <1>a, <2>1 DEF Behind, InBody
  <2> QED BY <1>a, <2>2 DEF ReadsAt
<1>d. Counted(i) <=> getCount[i] # NO_GET_COUNT
  <2>1. CountRight(i)
    BY DEF ReplayInv
  <2>2. Counted(i) => IsFiniteSet(Owed(i))
    BY FS_Subset DEF Disciplined, CountsGiven, Owed
  <2>3. Counted(i) => Cardinality(Owed(i)) \in Nat
    BY <2>2, FS_CardinalityType
  <2> QED BY <1>a, <2>1, <2>3 DEF CountRight, NO_GET_COUNT
<1>e. getList'[s] = IF Counted(i) THEN Append(getList[s], i) ELSE getList[s]
  BY <1>a, <1>b, <1>d
<1>f. getList[s] \in Seq(Items) /\ ListRight(s)
  BY <1>a DEF ReplayInv
<1>g. \A j \in Items : InSeq(j, getList'[s]) <=> InSeq(j, getList[s]) \/ (j = i /\ Counted(i))
  BY <1>e, <1>f, AppendHolds
<1>1. Advances(th)
  <2>1. OpDone(s, n)
    <3>1. \A j \in Items : ReadsAt(s, n, j) => j = i
      BY <1>a DEF ReadsAt
    <3> QED BY <1>a, <1>b, <1>g, <3>1 DEF OpDone
  <2> QED BY <1>a, <1>b, <2>1 DEF Advances
<1>2. CommitsInOrder(th) /\ GoesOn(th)
  BY <1>1, AdvanceCommits, AdvanceGoesOn
<1>3. \A j \in Items : Steady(j)
  BY <1>b DEF Steady
<1>4. Behind(th)'
  BY <1>1, <1>2, <1>3, SteadyItems, AdvanceBehind
<1>5. status[s] = "Prepared"
  BY <1>a DEF Inv, Ownership, Life, JobAlive
<1>6. ListRight(s)'
  <2>1. CASE ~Counted(i)
    BY <1>1, <1>a, <1>b, <1>e, <2>1, AdvanceList
  <2>2. CASE Counted(i)
    <3>1. ~Held(s, i)
      <4> SUFFICES ASSUME Held(s, i) PROVE FALSE
        OBVIOUS
      <4>1. PICK u \in Threads : job[u] = s /\ GotBy(u, i)
        BY <1>f DEF ListRight
      <4>2. u = th
        BY <1>a, <4>1, JobsApart
      <4>3. PICK m \in 1..Len(Body[s]) : ReadsAt(s, m, i) /\ m < n
        BY <1>a, <4>1, <4>2 DEF GotBy
      <4> QED BY <1>a, <1>c, <2>2, <4>3 DEF Disciplined, CountsGiven
    <3>2. \A a, b \in 1..Len(getList'[s]) : getList'[s][a] = getList'[s][b] => a = b
      BY <1>e, <1>f, <2>2, <3>1 DEF ListRight, Held, InSeq
    <3>3. ASSUME NEW j \in Items, Held(s, j) \/ j = i
          PROVE  /\ item'[j] = "stored" /\ Counted(j) /\ j \in ReadSet(s) /\ status'[s] # "Done"
                 /\ job'[th] = s /\ GotBy(th, j)'
      <4>1. item[j] = "stored" /\ Counted(j) /\ j \in ReadSet(s)
        BY <1>a, <1>c, <1>f, <2>2, <3>3 DEF ListRight, ReadSet, ReadSets, ReadsAt
      <4>2. \E m \in 1..Len(Body[s]) : ReadsAt(s, m, j) /\ m < n + 1
        <5>1. CASE j = i
          BY <1>a, <1>c, <5>1
        <5>2. CASE Held(s, j)
          <6>1. PICK u \in Threads : job[u] = s /\ GotBy(u, j)
            BY <1>f, <5>2 DEF ListRight
          <6>2. u = th
            BY <1>a, <6>1, JobsApart
          <6>3. PICK m \in 1..Len(Body[s]) : ReadsAt(s, m, j) /\ m < n
            BY <1>a, <6>1, <6>2 DEF GotBy
          <6> QED BY <1>a, <6>3
        <5> QED BY <3>3, <5>1, <5>2
      <4>3. ip'[th] = n + 1 /\ Running(th)'
        BY <1>a, <1>b DEF Running
      <4> QED BY <1>b, <1>5, <4>1, <4>2, <4>3 DEF GotBy, ReadsAt
    <3> QED BY <1>a, <1>b, <1>g, <3>2, <3>3 DEF ListRight, Held, ReadSet, ReadSets, Counted
  <2> QED BY <2>1, <2>2
<1>7. \A t \in Steps : t = job[th] => ListRight(t)'
  BY <1>6, <1>b DEF ListRight, Held, InSeq, ReadSet, ReadSets, Counted
<1> QED BY <1>2, <1>3, <1>4, <1>7, SteadyCombine

-----------------------------------------------------------------------------
(* An execution fails, is cleaned up and begins again *)

\* data_not_ready is thrown before the step has put anything.
Throws(th) ==
    /\ pc[th] = "run" /\ job[th] # Null /\ ip[th] <= Len(Body[job[th]])
    /\ job'[th] = job[th] /\ pc'[th] = "failed"
    /\ \A s \in Steps : getList'[s] = getList[s]
    /\ \A i \in Items : Steady(i)
    /\ \/ \E i \in Items : Body[job[th]][ip[th]] = <<"get", i>>
       \/ wasSuspended[job[th]]

\* A failed execution keeps its list for get_list::clear, and has left no effect.
LEMMA ThrowStep ==
    ASSUME Disciplined, Inv, ReplayInv, NEW th \in Threads, Frame(th), Throws(th)
    PROVE  Kept(th)
<1> DEFINE s == job[th]
<1>0. /\ s \in Steps /\ Running(th) /\ Behind(th) /\ ip[th] \in Nat /\ Len(Body[s]) \in Nat
      /\ ip[th] \in 1..Len(Body[s]) /\ ~AtBodyEnd(th) /\ ~AtBodyEnd(th)' /\ ~Running(th)'
      /\ Body[s] \in Seq(Ops)
  BY ThreadFacts DEF Throws, Running, ReplayInv, Behind, InBody, AtBodyEnd
<1>1. CommitsInOrder(th)
  BY <1>0 DEF CommitsInOrder
<1>2. GoesOn(th)
  <2> SUFFICES ASSUME NEW n \in 1..Len(Body[s]), NEW i \in Items, n < ip[th], PutsAt(s, n, i) PROVE FALSE
    BY <1>0 DEF GoesOn
  <2>1. InputsBefore(s, n)
    BY <1>0 DEF Disciplined, GetsFirst, PutsAt
  <2>2. CASE \E j \in Items : Body[s][ip[th]] = <<"get", j>>
    <3>1. PICK j \in Items : ReadsAt(s, ip[th], j)
      BY <1>0, <2>2 DEF ReadsAt
    <3>2. ip[th] < n
      BY <1>0, <2>1, <3>1 DEF InputsBefore
    <3> QED BY <1>0, <3>2
  <2>3. CASE wasSuspended[s]
    <3>1. PICK m \in 1..Len(Body[s]), j \in Items : m < ip[th] /\ Missed(th, m, j)
      BY <1>0, <2>3 DEF Behind, SuspendedSince
    <3>2. FlushedBy(s, m, n)
      BY <2>1, <3>1 DEF InputsBefore, Missed, ReadsAt
    <3>3. FlushedBy(s, m, ip[th])
      BY <1>0, <3>2 DEF FlushedBy
    <3> QED BY <3>1, <3>3 DEF Missed
  <2> QED BY <2>2, <2>3 DEF Throws
<1>3. Behind(th)'
  BY <1>0 DEF Behind
<1>4. ASSUME NEW t \in Steps, t = job[th] PROVE ListRight(t)'
  <2>1. ListRight(t) /\ getList'[t] = getList[t] /\ job'[th] = t
    BY <1>4 DEF ReplayInv, Throws
  <2>2. \A i \in Items : GotBy(th, i)'
    BY DEF GotBy, Throws
  <2>3. status[t] # "Done" => status'[t] # "Done"
    BY <1>0 DEF Frame
  <2>4. \A i \in Items : Held(t, i)' <=> Held(t, i)
    BY <2>1 DEF Held, InSeq
  <2>5. \A i \in Items : item[i] = "stored" => item'[i] = "stored"
    BY DEF Throws, Steady
  <2> QED BY <2>1, <2>2, <2>3, <2>4, <2>5 DEF ListRight, ReadSet, ReadSets, Counted
<1> QED BY <1>1, <1>2, <1>3, <1>4, SteadyCombine DEF Throws

\* get_list::clear
LEMMA CatchStep ==
    ASSUME Disciplined, Inv, ReplayInv, NEW th \in Threads, Frame(th), CatchNotReady(th)
    PROVE  Kept(th)
<1>0. /\ job[th] \in Steps /\ pc[th] = "failed" /\ pc'[th] = "unsuspend"
      /\ getList' = [getList EXCEPT ![job[th]] = <<>>] /\ getList \in [Steps -> Seq(Items)]
      /\ item' = item /\ getCount' = getCount
  BY ThreadFacts
     DEF CatchNotReady, ClearGetList, Goto, itemVars, Inv, Shape, Control, Typed, StepsTyped,
     ThreadsTyped
<1>1. CommitsInOrder(th)
  BY <1>0 DEF CommitsInOrder, AtBodyEnd
<1>2. GoesOn(th)
  BY <1>0 DEF GoesOn, Running
<1>3. Behind(th)'
  BY <1>0 DEF Behind, Running
<1>4. ASSUME NEW t \in Steps, t = job[th] PROVE ListRight(t)'
  BY <1>0, <1>4 DEF ListRight, Held, InSeq
<1>5. \A i \in Items : Steady(i)
  BY <1>0 DEF Steady
<1> QED BY <1>1, <1>2, <1>3, <1>4, <1>5, SteadyCombine

\* A step that begins to execute waits for nothing and has got nothing.
LEMMA BeginStep ==
    ASSUME Disciplined, Inv, ReplayInv, NEW th \in Threads, Frame(th), BeginExecute(th)
    PROVE  Kept(th)
<1> DEFINE s == job[th]
<1>0. /\ s \in Steps /\ pc[th] = "begin" /\ pc'[th] = "run" /\ job' = job /\ ip'[th] = 1
      /\ ~wasSuspended'[s] /\ getList' = getList /\ item' = item /\ getCount' = getCount
      /\ group' = group /\ Len(Body[s]) \in Nat
  BY ThreadFacts
     DEF BeginExecute, Goto, itemVars, Inv, Shape, Control, Typed, ThreadsTyped, StepsTyped
<1>1. WaitsFor(s) = {}
  <2>1. nSuspenders[s] = 0
    BY <1>0 DEF Inv, Ownership, ReadyUnsuspended, IsReady
  <2>2. IsFiniteSet(Registrations(group, s)) /\ Cardinality(Registrations(group, s)) \in Nat
    BY <1>0, FS_CardinalityType DEF Inv, Counting, Countable
  <2>3. Cardinality(Registrations(group, s)) = 0
    BY <1>0, <2>1, <2>2 DEF Inv, Counting, SuspendersMatch
  <2>4. group \in Groups
    BY DEF Groups, Inv, Shape, Typed, ItemsTyped
  <2>5. \A i \in Items : group[i][s] = 0
    BY <1>0, <2>2, <2>3, <2>4, RegistrationsEmpty
  <2> QED BY <2>5 DEF WaitsFor
<1>2. \A i \in Items : ~Held(s, i)
  <2> SUFFICES ASSUME NEW i \in Items, Held(s, i) PROVE FALSE
    OBVIOUS
  <2>1. PICK u \in Threads : job[u] = s /\ GotBy(u, i)
    BY <1>0 DEF ReplayInv, ListRight
  <2>2. u = th
    BY <1>0, <2>1, JobsApart, ThreadFacts
  <2> QED BY <1>0, <2>1, <2>2 DEF GotBy, Running
<1>3. \A i \in Items : Steady(i)
  BY <1>0 DEF Steady
<1>4. CommitsInOrder(th)
  <2>1. ASSUME AtBodyEnd(th)' PROVE ReadSet(s) = {}
    <3>1. Len(Body[s]) = 0
      BY <1>0, <2>1 DEF AtBodyEnd
    <3> QED BY <1>0, <3>1 DEF ReadSet, ReadSets
  <2> QED BY <1>0, <2>1 DEF CommitsInOrder, AtBodyEnd
<1>5. GoesOn(th)
  BY <1>0 DEF GoesOn, Running
<1>6. Behind(th)'
  <2>1. InBody(th)' /\ ReadsBehind(th)' /\ HeldBehind(th)' /\ PutsBehind(th)' /\ TagsBehind(th)'
    BY <1>0 DEF InBody, ReadsBehind, HeldBehind, PutsBehind, TagsBehind
  <2>2. SuspendedSince(th)'
    BY <1>0, <1>1 DEF SuspendedSince, WaitsFor
  <2> QED BY <2>1, <2>2 DEF Behind
<1>7. ASSUME NEW t \in Steps, t = job[th] PROVE ListRight(t)'
  BY <1>0, <1>2, <1>7 DEF ListRight, ReplayInv, Held, InSeq
<1> QED BY <1>3, <1>4, <1>5, <1>6, <1>7, SteadyCombine

-----------------------------------------------------------------------------
(* An item is stored, an item is erased *)

\* The operation that is about to put a counted item is the only one that puts it.
LEMMA NotYetAssigned ==
    ASSUME Disciplined, Inv, ReplayInv, NEW th \in Threads, NEW i \in Items, AtOp(th, "put", i),
           Counted(i), WaitInv
    PROVE  ~Assigned(i)
<1> SUFFICES ASSUME Assigned(i) PROVE FALSE
  OBVIOUS
<1>0. SingleAssignment(i)
  BY DEF Disciplined, CountsGiven
<1>a. envIp \in Nat /\ envIp >= 1 /\ Len(EnvBody) \in Nat /\ Null \notin Steps
  BY ThreadFacts DEF WaitInv, EnvInPlace
<1>1. CASE job[th] = Null
  <2>1. envIp \in 1..Len(EnvBody) /\ EnvPutsAt(envIp, i)
    BY <1>1, <1>a DEF AtOp, EnvPutsAt
  <2>2. /\ \A n \in 1..Len(EnvBody) : EnvPutsAt(n, i) => n = envIp
        /\ \A s \in Steps : \A n \in 1..Len(Body[s]) : ~PutsAt(s, n, i)
    BY <1>0, <2>1 DEF SingleAssignment
  <2> QED BY <1>a, <2>2 DEF Assigned
<1>2. CASE job[th] # Null
  <2> DEFINE s == job[th]
             k == ip[th]
  <2>1. s \in Steps /\ k \in Nat /\ Len(Body[s]) \in Nat /\ status[s] # "Done" /\ pc[th] = "run"
    BY <1>2, ThreadFacts DEF AtOp, Inv, Ownership, Life, JobAlive
  <2>2. k \in 1..Len(Body[s]) /\ PutsAt(s, k, i)
    <3>1. Running(th) /\ InBody(th)
      BY <1>2, <2>1 DEF ReplayInv, Behind, Running
    <3> QED BY <1>2, <2>1, <3>1 DEF InBody, AtOp, PutsAt
  <2>3. \A n \in 1..Len(EnvBody) : ~EnvPutsAt(n, i)
    BY <1>0, <2>1, <2>2 DEF SingleAssignment
  <2>4a. PICK t \in Steps :
           \E n \in 1..Len(Body[t]) :
              /\ PutsAt(t, n, i)
              /\ status[t] = "Done" \/ \E u \in Threads : job[u] = t /\ Running(u) /\ n < ip[u]
    BY <2>3 DEF Assigned
  <2>4. PICK n \in 1..Len(Body[t]) :
           /\ PutsAt(t, n, i)
           /\ status[t] = "Done" \/ \E u \in Threads : job[u] = t /\ Running(u) /\ n < ip[u]
    BY <2>4a
  <2>5. t = s /\ n = k
    BY <1>0, <2>1, <2>2, <2>4 DEF SingleAssignment
  <2>6. PICK u \in Threads : job[u] = s /\ Running(u) /\ k < ip[u]
    BY <2>1, <2>4, <2>5
  <2>7. u = th
    BY <1>2, <2>6, JobsApart
  <2> QED BY <2>1, <2>6, <2>7
<1> QED BY <1>1, <1>2

\* So it is not there yet, and all its readers will get it.
LEMMA NotYetThere ==
    ASSUME Disciplined, Inv, ReplayInv, WaitInv, NEW th \in Threads, NEW i \in Items,
           AtOp(th, "put", i), item[i] # "stored"
    PROVE  ~Available(i) /\ (Counted(i) => Owed(i) = Readers(i))
<1>1. CASE ~Counted(i)
  BY <1>1 DEF Available
<1>2. CASE Counted(i)
  <2>1. ~Available(i)
    BY <1>2, NotYetAssigned DEF ReplayInv, AssignedOnce
  <2>2. Owed(i) = Readers(i)
    BY <1>2, <2>1 DEF Available, HasBeenRead, Owed
  <2> QED BY <2>1, <2>2
<1> QED BY <1>1, <1>2

\* put: the item and its count appear together (item_collection_base.h put_or_delete).
LEMMA PutStoreStep ==
    ASSUME Disciplined, Inv, ReplayInv, WaitInv, NEW th \in Threads, Frame(th), NEW i \in Items,
           PutStore(th, i)
    PROVE  Kept(th)
<1>a. /\ AtOp(th, "put", i) /\ item[i] # "stored" /\ GetCount[i] # 0 /\ pc[th] = "run"
      /\ item' = [item EXCEPT ![i] = "stored"] /\ pc'[th] = "resume" /\ job' = job
      /\ getCount' = [getCount EXCEPT ![i] =
                        IF GetCount[i] = NO_GET_COUNT \/ @ = UNSET_GET_COUNT THEN GetCount[i]
                        ELSE @ + GetCount[i]]
      /\ getList' = getList /\ wasSuspended' = wasSuspended /\ group' = group /\ status' = status
  BY DEF PutStore, AtOp, Goto, stepVars, Inv, Shape, Typed, ThreadsTyped
<1>b. item \in [Items -> {"none", "entry", "stored"}] /\ getCount \in [Items -> Int]
  BY DEF Inv, Shape, Typed, ItemsTyped
<1>c. ~Available(i) /\ (Counted(i) => Owed(i) = Readers(i))
  BY <1>a, NotYetThere
<1>d. getCount'[i] = GetCount[i] /\ item'[i] = "stored"
  BY <1>a, <1>b DEF ReplayInv, CountRight
<1>1. CommitsInOrder(th) /\ GoesOn(th)
  <2>1. ~AtBodyEnd(th)'
    BY <1>a DEF AtBodyEnd
  <2>2. AtBodyEnd(th) => FALSE
    BY <1>a, ThreadFacts DEF AtBodyEnd, AtOp
  <2>3. GoesOn(th)
    BY <1>a, ThreadFacts DEF GoesOn, Running, PutStore, Advance, Inv, Shape, Typed, ThreadsTyped
  <2> QED BY <2>1, <2>2, <2>3 DEF CommitsInOrder
<1>2. ASSUME NEW j \in Items, j # i PROVE Steady(j)
  BY <1>2, <1>a, <1>b DEF Steady
<1>3. ASSUME NEW j \in Items, j # i PROVE (Available(j) <=> Available(j)') /\ CountRight(j)'
  BY <1>1, <1>2, <1>3, ItemSteady DEF ReplayInv
<1>4. CountRight(i)'
  <2>1. CASE Counted(i)
    <3>1. Owed(i)' = Owed(i)
      BY <1>1, <2>1, OwedSteady
    <3>2. GetCount[i] = Cardinality(Readers(i)) /\ Readers(i) # {}
      <4>1. GetCount[i] = Cardinality(Readers(i)) /\ GetCount[i] > 0
        BY <2>1 DEF Disciplined, CountsGiven, Counted
      <4> QED BY <4>1, FS_EmptySet
    <3> QED BY <1>a, <1>c, <1>d, <2>1, <3>1, <3>2 DEF CountRight, Counted
  <2>2. CASE ~Counted(i)
    <3>1. GetCount[i] = NO_GET_COUNT
      BY <1>a, <2>2, ConstantsOK DEF Counted
    <3> QED BY <1>a, <1>d, <2>2, <3>1 DEF CountRight, Counted
  <2> QED BY <2>1, <2>2
<1>5. \A j \in Items : (Available(j) => Available(j)') /\ CountRight(j)'
  BY <1>3, <1>4, <1>d DEF Available
<1>6. Behind(th)' /\ \A s \in Steps : s = job[th] => ListRight(s)'
  <2>1. CASE job[th] = Null
    BY <1>a, <2>1, ThreadFacts DEF Behind, Running
  <2>2. CASE job[th] # Null
    <3>1. Advances(th)
      <4> DEFINE s == job[th]
                 n == ip[th]
      <4>1. n <= Len(Body[s]) /\ Body[s][n] = <<"put", i>> /\ ip'[th] = n + 1
        BY <1>a, <2>2, ThreadFacts DEF PutStore, AtOp, Advance, Inv, Shape, Typed, ThreadsTyped
      <4>2. OpDone(s, n)
        BY <1>a, <1>d, <4>1 DEF OpDone, ReadsAt
      <4> QED BY <1>a, <2>2, <4>1, <4>2 DEF Advances
    <3>2. \A j \in Items : item[j] = "stored" => item'[j] = "stored"
      BY <1>a, <1>b
    <3> QED BY <1>5, <1>a, <3>1, <3>2, AdvanceBehind, AdvanceList
  <2> QED BY <2>1, <2>2
<1>7. Counted(i) => Assigned(i)'
  <2>1. CASE job[th] = Null
    <3>1. envIp \in 1..Len(EnvBody) /\ EnvPutsAt(envIp, i) /\ envIp' = envIp + 1 /\ envIp < envIp + 1
      BY <1>a, <2>1, ThreadFacts DEF AtOp, EnvPutsAt, PutStore, Advance, WaitInv, EnvInPlace
    <3> QED BY <3>1 DEF Assigned, EnvPutsAt
  <2>2. CASE job[th] # Null
    <3>1. ip'[th] = ip[th] + 1 /\ ip[th] < ip[th] + 1 /\ Running(th)' /\ job[th] \in Steps
      BY <1>a, <2>2, ThreadFacts DEF PutStore, Advance, Running, Inv, Shape, Typed, ThreadsTyped
    <3>2. ip[th] \in 1..Len(Body[job[th]]) /\ PutsAt(job[th], ip[th], i)
      <4>1. Running(th) /\ InBody(th)
        BY <1>a, <2>2 DEF ReplayInv, Behind, Running
      <4> QED BY <1>a, <2>2, <4>1, ThreadFacts DEF InBody, AtOp, PutsAt
    <3> QED BY <1>a, <3>1, <3>2 DEF Assigned, PutsAt
  <2> QED BY <2>1, <2>2
<1>8. \A j \in Items : Counted(j) /\ Available(j)' => Available(j) \/ Assigned(j)'
  BY <1>3, <1>7
<1>9. \A j \in Items, s \in Steps : s # job[th] /\ Held(s, j) => item'[j] = "stored"
  BY <1>a, <1>b DEF ReplayInv, ListRight
<1>10. ReplayInv'
  BY <1>1, <1>5, <1>6, <1>8, <1>9, Combine
<1>11. NewItems(th)
  BY <1>3, <1>5, <1>a DEF NewItems
<1> QED BY <1>10, <1>11 DEF Kept

\* get_list::decrement: what the list holds once is given back once.
LEMMA TailHolds ==
    ASSUME NEW q \in Seq(Items), q # <<>>,
           \A m, n \in 1..Len(q) : q[m] = q[n] => m = n
    PROVE  /\ Head(q) \in Items /\ InSeq(Head(q), q)
           /\ \A y \in Items : InSeq(y, Tail(q)) <=> InSeq(y, q) /\ y # Head(q)
           /\ \A m, n \in 1..Len(Tail(q)) : Tail(q)[m] = Tail(q)[n] => m = n
<1> DEFINE r == Tail(q)
<1>1. /\ Len(q) \in Nat /\ Len(q) >= 1 /\ Len(r) = Len(q) - 1 /\ Head(q) = q[1]
      /\ \A n \in 1..Len(q) : q[n] \in Items
  OBVIOUS
<1>2. \A n \in 1..Len(r) : r[n] = q[n + 1] /\ n + 1 \in 1..Len(q) /\ n + 1 # 1
  BY <1>1
<1>3. \A n \in 1..Len(q) : n # 1 => n - 1 \in 1..Len(r) /\ r[n - 1] = q[n]
  <2> SUFFICES ASSUME NEW n \in 1..Len(q), n # 1 PROVE n - 1 \in 1..Len(r) /\ r[n - 1] = q[n]
    OBVIOUS
  <2>1. n - 1 \in 1..Len(r) /\ (n - 1) + 1 = n
    BY <1>1
  <2> QED BY <1>2, <2>1
<1> HIDE DEF r
<1>4. 1 \in 1..Len(q)
  BY <1>1
<1>5. Head(q) \in Items /\ InSeq(Head(q), q)
  BY <1>1, <1>4 DEF InSeq
<1>6. ASSUME NEW y \in Items PROVE InSeq(y, r) <=> InSeq(y, q) /\ y # Head(q)
  <2>1. ASSUME InSeq(y, r) PROVE InSeq(y, q) /\ y # Head(q)
    BY <2>1, <1>1, <1>2, <1>4 DEF InSeq
  <2>2. ASSUME InSeq(y, q), y # Head(q) PROVE InSeq(y, r)
    BY <2>2, <1>1, <1>3 DEF InSeq
  <2> QED BY <2>1, <2>2
<1>7. ASSUME NEW m \in 1..Len(r), NEW n \in 1..Len(r), r[m] = r[n] PROVE m = n
  <2>1. m + 1 = n + 1
    BY <1>2, <1>7
  <2> QED BY <2>1, <1>1
<1> QED BY <1>5, <1>6, <1>7 DEF r

\* decrement of one entry: the step does not owe it any longer, and the last one erases it.
LEMMA DecrementOf ==
    ASSUME Disciplined, Inv, ReplayInv, NEW th \in Threads, Frame(th), DecrementRefCount(th),
           NEW s \in Steps, s = job[th], NEW i \in Items, i = Head(getList[s])
    PROVE  Kept(th)
<1> DEFINE q == getList[s]
<1>a. /\ AtBodyEnd(th) /\ s \in Steps /\ s # Null /\ q \in Seq(Items) /\ q # <<>> /\ status[s] # "Done"
      /\ getList \in [Steps -> Seq(Items)] /\ item \in [Items -> {"none", "entry", "stored"}]
      /\ getCount \in [Items -> Int] /\ Running(th) /\ Behind(th)
  BY ThreadFacts DEF DecrementRefCount, AtBodyEnd, Inv, Shape, Typed, StepsTyped, ItemsTyped,
     Ownership, Life, JobAlive, Running, ReplayInv
<1>b. ListRight(s)
  BY <1>a DEF ReplayInv
<1>c. /\ i \in Items /\ Held(s, i)
      /\ \A y \in Items : InSeq(y, Tail(q)) <=> InSeq(y, q) /\ y # i
      /\ \A m, n \in 1..Len(Tail(q)) : Tail(q)[m] = Tail(q)[n] => m = n
  BY <1>a, <1>b, TailHolds DEF ListRight, Held
<1>d. item[i] = "stored" /\ Counted(i) /\ i \in ReadSet(s)
  BY <1>b, <1>c DEF ListRight
<1>e. /\ IsFiniteSet(Owed(i)) /\ s \in Owed(i) /\ getCount[i] = Cardinality(Owed(i))
      /\ Cardinality(Owed(i)) \in Nat
  <2>1. s \in Owed(i)
    BY <1>a, <1>c, <1>d DEF Owed, Readers, ReadersOf
  <2>2. IsFiniteSet(Owed(i))
    BY <1>c, <1>d, FS_Subset DEF Disciplined, CountsGiven, Owed
  <2>3. getCount[i] = Cardinality(Owed(i))
    BY <1>c, <1>d DEF ReplayInv, CountRight
  <2> QED BY <2>1, <2>2, <2>3, FS_CardinalityType
<1>f. /\ pc' = pc /\ job' = job /\ ip' = ip /\ status' = status /\ wasSuspended' = wasSuspended
      /\ group' = group /\ envIp' = envIp /\ getList' = [getList EXCEPT ![s] = Tail(q)]
      /\ IF getCount[i] = 1
         THEN /\ item' = [item EXCEPT ![i] = "none"]
              /\ getCount' = [getCount EXCEPT ![i] = UNSET_GET_COUNT]
         ELSE item' = item /\ getCount' = [getCount EXCEPT ![i] = @ - 1]
  <2>1. getCount[i] # UNSET_GET_COUNT
    BY <1>e DEF UNSET_GET_COUNT
  <2> QED BY <1>d, <2>1 DEF DecrementRefCount, envVars
<1>g. getList'[s] = Tail(q) /\ \A t \in Steps : t # s => getList'[t] = getList[t]
  BY <1>a, <1>f
<1> HIDE DEF q
<1>h. \A t \in Steps, j \in Items : Held(t, j)' <=> Held(t, j) /\ ~(t = s /\ j = i)
  BY <1>c, <1>g DEF Held, q
<1>i. \A t \in Steps : Commits(t)' <=> Commits(t)
  BY <1>f DEF Commits, AtBodyEnd
<1>j. AtBodyEnd(th)' /\ Commits(s)
  BY <1>a, <1>f DEF AtBodyEnd, Commits
<1>1. ASSUME NEW j \in Items PROVE HasBeenRead(j)' <=> HasBeenRead(j)
  BY <1>f, <1>i DEF HasBeenRead, Readers, ReadersOf, ReadSet, ReadSets
<1>2. ASSUME NEW j \in Items, j # i PROVE (Available(j) <=> Available(j)') /\ CountRight(j)'
  <2>1. item'[j] = item[j] /\ getCount'[j] = getCount[j]
    BY <1>2, <1>a, <1>c, <1>f
  <2>2. Owed(j)' = Owed(j)
    BY <1>2, <1>f, <1>h, <1>i DEF Owed, Readers, ReadersOf, ReadSet, ReadSets
  <2>3. Available(j) <=> Available(j)'
    BY <1>1, <2>1 DEF Available, Counted
  <2>4. CountRight(j)
    BY DEF ReplayInv
  <2> QED BY <2>1, <2>2, <2>3, <2>4 DEF CountRight, Counted, Readers, ReadersOf, ReadSet, ReadSets
<1>3. Owed(i)' = Owed(i) \ {s}
  <2>1. ASSUME NEW t \in Steps
        PROVE  (Commits(t)' => Held(t, i)') <=> (Commits(t) => Held(t, i)) /\ t # s
    BY <1>c, <1>h, <1>i, <1>j
  <2> QED BY <1>f, <2>1 DEF Owed, Readers, ReadersOf, ReadSet, ReadSets
<1>4. Cardinality(Owed(i) \ {s}) = Cardinality(Owed(i)) - 1 /\ IsFiniteSet(Owed(i) \ {s})
  BY <1>e, FS_RemoveElement
<1>4a. getCount[i] = 1 <=> Owed(i) \ {s} = {}
  <2>1. getCount[i] = 1 <=> Cardinality(Owed(i) \ {s}) = 0
    BY <1>4, <1>e
  <2> QED BY <2>1, <1>4, FS_EmptySet
<1>5. Available(i) /\ Available(i)'
  <2>1. s \in Readers(i)
    BY <1>a, <1>d DEF Readers, ReadersOf
  <2>2. HasBeenRead(i)
    BY <1>j, <2>1 DEF HasBeenRead
  <2> QED BY <1>1, <1>c, <1>d, <2>2 DEF Available, Counted
<1>6. CountRight(i)'
  <2>1. CASE getCount[i] = 1
    <3>1. item'[i] = "none" /\ getCount'[i] = UNSET_GET_COUNT
      BY <1>a, <1>c, <1>f, <2>1
    <3>2. Owed(i)' = {}
      BY <1>3, <1>4a, <2>1
    <3> QED BY <3>1, <3>2 DEF CountRight
  <2>2. CASE getCount[i] # 1
    <3>1. item'[i] = "stored" /\ getCount'[i] = getCount[i] - 1
      BY <1>a, <1>c, <1>d, <1>f, <2>2
    <3>2. Owed(i)' # {} /\ getCount'[i] = Cardinality(Owed(i)')
      BY <1>3, <1>4, <1>4a, <1>e, <2>2, <3>1
    <3>3. GetCount[i] # 0 /\ GetCount[i] > 0
      BY <1>c, <1>d DEF ReplayInv, CountRight, Counted
    <3> QED BY <3>1, <3>2, <3>3 DEF CountRight, Counted
  <2> QED BY <2>1, <2>2
<1>7. \A j \in Items : (Available(j) => Available(j)') /\ CountRight(j)'
  BY <1>2, <1>5, <1>6
<1>8. \A j \in Items : Counted(j) /\ Available(j)' => Available(j) \/ Assigned(j)'
  BY <1>2, <1>5
<1>9. ASSUME NEW j \in Items, NEW t \in Steps, Held(t, j), t # s \/ j # i PROVE item'[j] = "stored"
  <2>1. item[j] = "stored" /\ Counted(j) /\ j \in ReadSet(t) /\ status[t] # "Done"
    BY <1>9 DEF ReplayInv, ListRight
  <2>2. CASE j # i
    BY <2>1, <2>2, <1>a, <1>c, <1>f
  <2>3. CASE j = i
    <3>1. t # s /\ t \in Owed(i)
      BY <2>1, <2>3, <1>9 DEF Owed, Readers, ReadersOf
    <3>2. getCount[i] # 1
      BY <3>1, <1>4a
    <3> QED BY <3>2, <2>1, <2>3, <1>f
  <2> QED BY <2>2, <2>3
<1>10. GoesOn(th)
  BY <1>f, ThreadFacts DEF GoesOn, Running
<1>11. Behind(th)'
  <2>1. InBody(th)' /\ ReadsBehind(th)' /\ HeldBehind(th)' /\ PutsBehind(th)' /\ TagsBehind(th)' /\ SuspendedSince(th)'
    <3>0. InBody(th) /\ ReadsBehind(th) /\ PutsBehind(th) /\ TagsBehind(th) /\ SuspendedSince(th)
      BY <1>a DEF Behind
    <3>1. \A n \in 1..Len(Body[job[th]]), j \in Items : Missed(th, n, j)' <=> Missed(th, n, j)
      BY <1>f DEF Missed, FlushedBy
    <3>2. InBody(th)' /\ ReadsBehind(th)'
      BY <3>0, <3>1, <1>7, <1>f DEF InBody, ReadsBehind, ReadsAt
    <3>3. HeldBehind(th)'
      BY <1>j DEF HeldBehind
    <3>4. PutsBehind(th)' /\ TagsBehind(th)'
      BY <3>0, <1>7, <1>f DEF PutsBehind, TagsBehind
    <3>5. SuspendedSince(th)'
      BY <3>0, <3>1, <1>f DEF SuspendedSince, WaitsFor
    <3> QED BY <3>2, <3>3, <3>4, <3>5
  <2> QED BY <2>1 DEF Behind
<1>12. ASSUME NEW t \in Steps, t = job[th] PROVE ListRight(t)'
  <2>0. t = s
    BY <1>12
  <2>1. \A m, n \in 1..Len(getList'[t]) : getList'[t][m] = getList'[t][n] => m = n
    <3>1. getList'[t] = Tail(q)
      BY <1>g, <2>0
    <3> QED BY <1>c, <3>1, Zenon
  <2>2. ASSUME NEW j \in Items, Held(t, j), j # i
        PROVE  /\ item'[j] = "stored" /\ Counted(j) /\ j \in ReadSet(t) /\ status'[t] # "Done"
               /\ \E u \in Threads : job'[u] = t /\ GotBy(u, j)'
    <3>1. /\ Counted(j) /\ j \in ReadSet(t) /\ status[t] # "Done"
          /\ \E u \in Threads : job[u] = t /\ GotBy(u, j)
      BY <1>b, <2>0, <2>2 DEF ListRight
    <3>2. \A u \in Threads : GotBy(u, j)' <=> GotBy(u, j)
      BY <1>f DEF GotBy, Running, ReadsAt
    <3> QED BY <1>9, <1>f, <2>2, <3>1, <3>2
  <2>3. \A j \in Items : Held(t, j)' => Held(t, j) /\ j # i
    BY <1>h, <2>0
  <2> QED BY <2>1, <2>2, <2>3 DEF ListRight, ReadSet, ReadSets, Counted
<1>13. \A j \in Items, t \in Steps : t # job[th] /\ Held(t, j) => item'[j] = "stored"
  BY <1>9
<1>14. ReplayInv'
  BY <1>7, <1>8, <1>10, <1>11, <1>12, <1>13, Combine
<1>15. NewItems(th)
  BY <1>2, <1>5 DEF NewItems
<1> QED BY <1>14, <1>15 DEF Kept

\* The same, for the head of the list of the thread's step.
LEMMA DecrementStep ==
    ASSUME Disciplined, Inv, ReplayInv, NEW th \in Threads, Frame(th), DecrementRefCount(th)
    PROVE  Kept(th)
<1>1. job[th] \in Steps /\ getList[job[th]] \in Seq(Items) /\ getList[job[th]] # <<>>
  BY ThreadFacts DEF DecrementRefCount, AtBodyEnd, Inv, Shape, Typed, StepsTyped
<1>2. PICK s \in Steps, i \in Items : s = job[th] /\ i = Head(getList[s])
  BY <1>1
<1> QED BY <1>2, DecrementOf

-----------------------------------------------------------------------------
(* Every step of the system keeps the invariant *)

\* All 39 actions of a thread, each as one of the kinds above.
LEMMA ThreadStepReplay ==
    ASSUME Sequentialize = {}, Disciplined, Inv, Inv', WaitInv, ReplayInv,
           NEW th \in Threads, ThreadStep(th)
    PROVE  Kept(th)
<1>a. Env \in Threads /\ Null \notin Steps /\ envIp \in Nat
  BY ConstantsOK DEF Threads, Inv, Shape, Typed, ThreadsTyped
<1>b. /\ pc \in [Threads -> Pcs] /\ job \in [Threads -> Steps \cup {Null}] /\ ip \in [Threads -> Nat]
      /\ tgt \in [Threads -> Steps \cup {Null}]
      /\ status \in [Steps -> Statuses] /\ wasSuspended \in [Steps -> BOOLEAN]
      /\ getList \in [Steps -> Seq(Items)] /\ group \in [Items -> [Steps \cup {Null} -> Nat]]
      /\ item \in [Items -> {"none", "entry", "stored"}]
      /\ \A u \in Threads : pc[u] \in {"idle", "leave"} => job[u] = Null
  BY DEF Inv, Shape, Typed, ThreadsTyped, StepsTyped, ItemsTyped, Control
<1>c. ASSUME pc[th] = "run", job[th] # Null, NEW i \in Items, ip[th] <= Len(Body[job[th]]),
             Body[job[th]][ip[th]] \in {<<"get", i>>, <<"uget", i>>}
      PROVE  Owed(i) # {}
  <2>1. job[th] \in Steps /\ status[job[th]] = "Prepared"
    BY <1>c, <1>b DEF Inv, Ownership, Life, JobAlive
  <2>2. Running(th) /\ InBody(th)
    BY <1>c DEF ReplayInv, Behind, Running
  <2>3. ip[th] \in 1..Len(Body[job[th]])
    BY <1>c, <2>2, ThreadFacts DEF InBody
  <2>4. i \in ReadSet(job[th])
    BY <1>c, <2>1, <2>3 DEF ReadSet, ReadSets
  <2>5. ~Commits(job[th])
    BY <1>c, CommitsOf, ThreadFacts DEF AtBodyEnd
  <2>6. job[th] \in Owed(i)
    BY <2>1, <2>4, <2>5 DEF Owed, Readers, ReadersOf
  <2> QED BY <2>6
<1>d. ASSUME NEW i \in Items, EnvAt("get", i) PROVE ~Counted(i) /\ pc[Env] = "run" /\ job[Env] = Null
  <2>1. envIp \in 1..Len(EnvBody) /\ EnvBody[envIp] = <<"get", i>>
    BY <1>d, <1>a, ThreadFacts DEF EnvAt, AtOp, WaitInv, EnvInPlace
  <2> QED BY <1>d, <2>1 DEF Disciplined, CountsGiven, EnvAt, AtOp
<1>e. pc[Env] = "probed" => job[Env] = Null
  BY DEF WaitInv, EnvInPlace
<1>f. Frame(th)
  BY FrameStep
<1>g. /\ ret[th] \in {"run", "resume"}
      /\ \A s \in Steps : ~sequentialized[s]
      /\ pc[th] = "delete" => job[th] \in Steps /\ status[job[th]] = "Done"
  BY <1>b DEF Inv, Shape, Typed, ThreadsTyped, NoneSequential, Control, Ownership, Life, JobAlive
<1>k. /\ pendingSteps = <<>> /\ seqSteps = <<>>
      /\ \A s \in Steps : ~InSeq(s, pendingSteps) /\ ~InSeq(s, seqSteps)
  BY DEF Inv, Shape, NoneSequential, InSeq
<1>1. ASSUME NEW t \in Steps, PutTag(th, t) PROVE Kept(th)
  <2>1. /\ pc[th] = "run" /\ pc' = [pc EXCEPT ![th] = "depends"] /\ job' = job
        /\ status[t] = "None" /\ status'[t] = "Unprepared" /\ getList' = getList /\ group' = group
        /\ wasSuspended' = [wasSuspended EXCEPT ![t] = FALSE] /\ AtOp(th, "tag", t)
        /\ item' = item /\ getCount' = getCount
    BY <1>1, <1>b DEF PutTag, AtOp, Goto, itemVars
  <2>2. CASE job[th] = Null
    <3>1. Quiet(th)
      BY <2>1, <2>2, <1>a, <1>b DEF Quiet, Running, AtBodyEnd, Steady
    <3> QED BY <3>1, <1>f, QuietStep
  <2>3. CASE job[th] # Null
    <3>1. /\ ip[th] <= Len(Body[job[th]]) /\ Body[job[th]][ip[th]] = <<"tag", t>>
          /\ ip' = [ip EXCEPT ![th] = @ + 1] /\ job[th] \in Steps /\ job[th] # t
      BY <1>1, <2>1, <2>3, <1>b
         DEF PutTag, AtOp, Advance, Inv, Ownership, Life, UnbornUnseen, Unborn
    <3>2. OpDone(job[th], ip[th])
      BY <2>1, <3>1, <1>b DEF OpDone, ReadsAt
    <3>3. Advances(th) /\ \A i \in Items : Steady(i)
      BY <2>1, <2>3, <3>1, <3>2, <1>b DEF Advances, Steady
    <3> QED BY <2>1, <3>3, <1>f, AdvanceStep
  <2> QED BY <2>2, <2>3
<1>2. ASSUME NEW i \in Items, DependOn(th, i) PROVE Kept(th)
  <2>1. /\ pc[th] = "depends" /\ i \in deps[th] /\ tgt[th] \in Steps /\ status[tgt[th]] = "Unprepared"
        /\ i \in ReadSet(tgt[th]) /\ \A u \in Threads : job[u] # tgt[th]
    <3>1. pc[th] = "depends" /\ i \in deps[th]
      BY <1>2 DEF DependOn
    <3>2. tgt[th] \in Steps /\ status[tgt[th]] = "Unprepared"
      BY <3>1, <1>b DEF Inv, Shape, Control, Ownership, Life, TargetAlive
    <3>3. i \in ReadSet(tgt[th])
      BY <3>1 DEF ReplayInv, WaitsForReads
    <3>4. \A u \in Threads : job[u] # tgt[th]
      BY <3>2, <1>a DEF Inv, Ownership, Life, JobAlive
    <3> QED BY <3>1, <3>2, <3>3, <3>4
  <2>2. tgt[th] \in Owed(i)
    BY <2>1 DEF Owed, Readers, ReadersOf, Commits
  <2>3. pc' = pc /\ job' = job /\ ip' = ip /\ getList' = getList /\ getCount' = getCount
    BY <1>2 DEF DependOn
  <2>3a. /\ item' = item \/ (item[i] # "stored" /\ item' = [item EXCEPT ![i] = "entry"])
         /\ wasSuspended' = wasSuspended \/ wasSuspended' = [wasSuspended EXCEPT ![tgt[th]] = TRUE]
         /\ group' = group \/ group' = Join(group, i, tgt[th])
    BY <1>2, <2>1, <1>a DEF DependOn, SuspendOn, Suspend
  <2>3b. \A s \in Steps : s # tgt[th] => wasSuspended'[s] = wasSuspended[s]
    BY <2>3a, <2>1, <1>b
  <2>3c. \A s \in Steps, j \in Items : s # tgt[th] => group'[j][s] = group[j][s]
    <3>1. group \in Groups
      BY <1>b DEF Groups
    <3>2. \A s \in Steps, j \in Items : s # tgt[th] => Join(group, i, tgt[th])[j][s] = group[j][s]
      BY <3>1, <2>1, JoinGroups
    <3> QED BY <3>2, <2>3a
  <2>4. \A j \in Items : Steady(j)
    BY <2>2, <2>3, <2>3a, <1>b DEF Steady
  <2>5. Quiet(th)
    BY <2>1, <2>3, <2>3b, <2>3c, <2>4, <1>b DEF Quiet, Running, AtBodyEnd
  <2> QED BY <2>5, <1>f, QuietStep
<1>3. ASSUME EndPrepare(th) PROVE Kept(th)
  <2>1. Quiet(th)
    BY <1>3, <1>a, <1>b DEF EndPrepare, Goto, itemVars, envVars, Quiet, Running, AtBodyEnd, Steady
  <2> QED BY <2>1, <1>f, QuietStep
<1>4. ASSUME SequentializePrepared(th) PROVE FALSE
  BY <1>4, <1>a, <1>b DEF SequentializePrepared, Inv, Shape, NoneSequential
<1>5. ASSUME CheckDone(th) PROVE Kept(th)
  <2>1. Quiet(th)
    BY <1>5, <1>a, <1>b DEF CheckDone, Goto, itemVars, envVars, Quiet, Running, AtBodyEnd, Steady
  <2> QED BY <2>1, <1>f, QuietStep
<1>6. ASSUME ScheduleDefer(th) PROVE Kept(th)
  <2>1. Quiet(th)
    BY <1>6, <1>a, <1>b, <1>g
       DEF ScheduleDefer, Return, Goto, CurrentIsSequentialized, itemVars, envVars, Quiet, Running,
         AtBodyEnd, Steady
  <2> QED BY <2>1, <1>f, QuietStep
<1>7. ASSUME ScheduleCount(th) PROVE Kept(th)
  <2>1. Quiet(th)
    BY <1>7, <1>a, <1>b
       DEF ScheduleCount, Goto, stepVars, itemVars, envVars, Quiet, Running, AtBodyEnd, Steady
  <2> QED BY <2>1, <1>f, QuietStep
<1>8. ASSUME ScheduleEnqueue(th) PROVE Kept(th)
  <2>1. Quiet(th)
    BY <1>8, <1>a, <1>b, <1>g
       DEF ScheduleEnqueue, Return, Goto, stepVars, itemVars, envVars, Quiet, Running, AtBodyEnd,
         Steady
  <2> QED BY <2>1, <1>f, QuietStep
<1>9. ASSUME NEW s \in Steps, TakeStep(th, s) PROVE Kept(th)
  <2>1. Quiet(th)
    BY <1>9, <1>a, <1>b
       DEF TakeStep, Goto, stepVars, itemVars, envVars, Quiet, Running, AtBodyEnd, Steady
  <2> QED BY <2>1, <1>f, QuietStep
<1>10. ASSUME BeginExecute(th) PROVE Kept(th)
  BY <1>10, <1>f, BeginStep
<1>11. ASSUME DecrementRefCount(th) PROVE Kept(th)
  BY <1>11, <1>f, DecrementStep
<1>12. ASSUME Succeed(th) PROVE Kept(th)
  <2>1. Quiet(th)
    BY <1>12, <1>a, <1>b, <1>g
       DEF Succeed, Goto, itemVars, envVars, Quiet, Running, AtBodyEnd, Steady
  <2> QED BY <2>1, <1>f, QuietStep
<1>13. ASSUME LeaveSucceeded(th) PROVE Kept(th)
  <2>1. Quiet(th)
    BY <1>13, <1>a, <1>b
       DEF LeaveSucceeded, Goto, stepVars, itemVars, envVars, Quiet, Running, AtBodyEnd, Steady
  <2> QED BY <2>1, <1>f, QuietStep
<1>14. ASSUME DeleteStep(th) PROVE Kept(th)
  <2>1. Quiet(th)
    BY <1>14, <1>a, <1>b, <1>g
       DEF DeleteStep, Goto, itemVars, envVars, Quiet, Running, AtBodyEnd, Steady
  <2> QED BY <2>1, <1>f, QuietStep
<1>15. ASSUME CatchNotReady(th) PROVE Kept(th)
  BY <1>15, <1>f, CatchStep
<1>16. ASSUME Unprotect(th) PROVE Kept(th)
  <2>1. Quiet(th)
    BY <1>16, <1>a, <1>b DEF Unprotect, Goto, itemVars, envVars, Quiet, Running, AtBodyEnd, Steady
  <2> QED BY <2>1, <1>f, QuietStep
<1>17. ASSUME LeaveSuspended(th) PROVE Kept(th)
  <2>1. Quiet(th)
    BY <1>17, <1>a, <1>b
       DEF LeaveSuspended, Goto, stepVars, itemVars, envVars, Quiet, Running, AtBodyEnd, Steady
  <2> QED BY <2>1, <1>f, QuietStep
<1>18. ASSUME NEW i \in Items, NEW k \in {"get", "uget"}, GetStored(th, k, i) PROVE Kept(th)
  BY <1>18, <1>f, GetStoredStep
<1>19. ASSUME NEW i \in Items, GetMissing(th, i) PROVE Kept(th)
  <2>1. /\ pc[th] = "run" /\ pc' = [pc EXCEPT ![th] = "failed"] /\ job' = job /\ getList' = getList
        /\ getCount' = getCount /\ item[i] # "stored" /\ item' = [item EXCEPT ![i] = "entry"]
        /\ ip[th] <= Len(Body[job[th]]) /\ Body[job[th]][ip[th]] = <<"get", i>> /\ job[th] # Null
    BY <1>19 DEF GetMissing, AtOp, Goto
  <2>2. Owed(i) # {}
    BY <2>1, <1>c
  <2>3. \A j \in Items : Steady(j)
    BY <2>1, <2>2, <1>b DEF Steady
  <2>4. Throws(th)
    BY <2>1, <2>3, <1>b DEF Throws
  <2> QED BY <2>4, <1>f, ThrowStep
<1>20. ASSUME NEW i \in Items, UnsafeGetMissing(th, i) PROVE Kept(th)
  <2>1. /\ pc[th] = "run" /\ pc' = pc /\ job' = job /\ getList' = getList /\ status' = status
        /\ getCount' = getCount /\ item[i] # "stored" /\ item' = [item EXCEPT ![i] = "entry"]
        /\ ip[th] <= Len(Body[job[th]]) /\ Body[job[th]][ip[th]] = <<"uget", i>> /\ job[th] # Null
        /\ ip' = [ip EXCEPT ![th] = @ + 1] /\ wasSuspended' = [wasSuspended EXCEPT ![job[th]] = TRUE]
    BY <1>20 DEF UnsafeGetMissing, AtOp, Advance, SuspendOn, Suspend
  <2>2. Owed(i) # {} /\ job[th] \in Steps
    BY <2>1, <1>c, <1>b
  <2>3. \A j \in Items : Steady(j)
    BY <2>1, <2>2, <1>b DEF Steady
  <2>4. OpDone(job[th], ip[th])
    BY <2>1, <2>2, <1>b DEF OpDone, ReadsAt
  <2>5. Advances(th)
    BY <2>1, <2>4, <1>b DEF Advances
  <2> QED BY <2>1, <2>3, <2>5, <1>f, AdvanceStep
<1>21. ASSUME FlushGets(th) PROVE Kept(th)
  <2>1. /\ pc[th] = "run" /\ job' = job /\ job[th] # Null /\ stepVars' = stepVars /\ itemVars' = itemVars
        /\ ip[th] <= Len(Body[job[th]]) /\ Body[job[th]][ip[th]] = <<"flush">>
    BY <1>21 DEF FlushGets
  <2>2. \A j \in Items : Steady(j)
    BY <2>1 DEF itemVars, Steady
  <2>3. CASE wasSuspended[job[th]]
    <3>1. pc' = [pc EXCEPT ![th] = "failed"]
      BY <1>21, <2>3 DEF FlushGets, FlushThrows, Goto
    <3>2. Throws(th)
      BY <2>1, <2>2, <2>3, <3>1, <1>b DEF Throws, stepVars
    <3> QED BY <3>2, <1>f, ThrowStep
  <2>4. CASE ~wasSuspended[job[th]]
    <3>1. ip' = [ip EXCEPT ![th] = @ + 1] /\ pc' = pc
      BY <1>21, <2>4 DEF FlushGets, FlushThrows
    <3>2. OpDone(job[th], ip[th])
      BY <2>1, <2>4 DEF OpDone, ReadsAt, stepVars, itemVars
    <3>3. Advances(th)
      BY <2>1, <3>1, <3>2, <1>b DEF Advances
    <3> QED BY <2>1, <2>2, <3>3, <1>f, AdvanceStep DEF stepVars
  <2> QED BY <2>3, <2>4
<1>22. ASSUME NEW i \in Items, PutDiscarded(th, i) PROVE Kept(th)
  <2>1. /\ pc[th] = "run" /\ pc' = pc /\ job' = job /\ stepVars' = stepVars /\ itemVars' = itemVars
        /\ AtOp(th, "put", i) /\ (GetCount[i] = 0 \/ item[i] = "stored")
    BY <1>22 DEF PutDiscarded, AtOp
  <2>2. \A j \in Items : Steady(j)
    BY <2>1 DEF itemVars, Steady
  <2>3. CASE job[th] = Null
    <3>1. Quiet(th)
      BY <2>1, <2>2, <2>3, <1>b DEF Quiet, Running, AtBodyEnd, stepVars, itemVars
    <3> QED BY <3>1, <1>f, QuietStep
  <2>4. CASE job[th] # Null
    <3>1. /\ ip[th] <= Len(Body[job[th]]) /\ Body[job[th]][ip[th]] = <<"put", i>>
          /\ ip' = [ip EXCEPT ![th] = @ + 1]
      BY <1>22, <2>1, <2>4 DEF PutDiscarded, AtOp, Advance
    <3>2. OpDone(job[th], ip[th])
      BY <2>1, <3>1 DEF OpDone, ReadsAt, stepVars, itemVars
    <3>3. Advances(th)
      BY <2>1, <2>4, <3>1, <3>2, <1>b DEF Advances
    <3> QED BY <2>1, <2>2, <3>3, <1>f, AdvanceStep DEF stepVars
  <2> QED BY <2>3, <2>4
<1>23. ASSUME NEW i \in Items, PutStore(th, i) PROVE Kept(th)
  BY <1>23, <1>f, PutStoreStep
<1>24. ASSUME NEW i \in Items, NEW s \in Steps, ResumeStep(th, i, s) PROVE Kept(th)
  <2>1. Quiet(th)
    BY <1>24, <1>a, <1>b DEF ResumeStep, Leave, Goto, envVars, Quiet, Running, AtBodyEnd, Steady
  <2> QED BY <2>1, <1>f, QuietStep
<1>25. ASSUME NEW i \in Items, ResumeEnv(th, i) PROVE Kept(th)
  <2>1. Quiet(th)
    BY <1>25, <1>a, <1>b
       DEF ResumeEnv, Leave, UnblockForPut, stepVars, threadVars, envVars, Quiet, Running,
         AtBodyEnd, Steady
  <2> QED BY <2>1, <1>f, QuietStep
<1>26. ASSUME NEW i \in Items, EndPut(th, i) PROVE Kept(th)
  <2>1. Quiet(th)
    BY <1>26, <1>a, <1>b DEF EndPut, Goto, stepVars, envVars, Quiet, Running, AtBodyEnd, Steady
  <2> QED BY <2>1, <1>f, QuietStep
<1>27. ASSUME NEW i \in Items, th = Env, EnvGetStored(i) PROVE Kept(th)
  <2>1. /\ job[Env] = Null /\ job' = job /\ pc' = [pc EXCEPT ![Env] = "run"] /\ getList' = getList
        /\ item' = item /\ getCount' = getCount /\ pc[Env] # "failed"
    BY <1>27, <1>e DEF EnvGetStored, EnvAt, AtOp, Goto, stepVars, itemVars
  <2>2. Quiet(th)
    BY <1>27, <2>1, <1>b DEF Quiet, Running, AtBodyEnd, Steady
  <2> QED BY <2>2, <1>f, QuietStep
<1>28. ASSUME NEW i \in Items, th = Env, EnvGetActive(i) PROVE Kept(th)
  <2>1. Quiet(th)
    BY <1>28, <1>a, <1>b, <1>d
       DEF EnvGetActive, Goto, stepVars, envVars, EnvAt, Quiet, Running, AtBodyEnd, Steady
  <2> QED BY <2>1, <1>f, QuietStep
<1>29. ASSUME NEW i \in Items, th = Env, EnvBlockForPut(i) PROVE Kept(th)
  <2>1. Quiet(th)
    BY <1>29, <1>a, <1>b
       DEF EnvBlockForPut, SuspendOn, Join, Goto, envVars, Quiet, Running, AtBodyEnd, Steady
  <2> QED BY <2>1, <1>f, QuietStep
<1>30. ASSUME th = Env, EnvUnblock PROVE Kept(th)
  <2>1. Quiet(th)
    BY <1>30, <1>a, <1>b DEF EnvUnblock, Goto, stepVars, itemVars, Quiet, Running, AtBodyEnd, Steady
  <2> QED BY <2>1, <1>f, QuietStep
<1>31. ASSUME NEW i \in Items, th = Env, EnvGetInactive(i) PROVE Kept(th)
  <2>1. Quiet(th)
    BY <1>31, <1>a, <1>b, <1>d
       DEF EnvGetInactive, Goto, stepVars, envVars, EnvAt, Quiet, Running, AtBodyEnd, Steady
  <2> QED BY <2>1, <1>f, QuietStep
<1>32. ASSUME NEW i \in Items, th = Env, EnvGetGivesUp(i) PROVE Kept(th)
  <2>1. /\ job[Env] = Null /\ job' = job /\ pc' = [pc EXCEPT ![Env] = "run"] /\ getList' = getList
        /\ item' = item /\ getCount' = getCount /\ pc[Env] # "failed"
    BY <1>32, <1>e DEF EnvGetGivesUp, EnvAt, AtOp, Goto, stepVars, itemVars
  <2>2. Quiet(th)
    BY <1>32, <2>1, <1>b DEF Quiet, Running, AtBodyEnd, Steady
  <2> QED BY <2>2, <1>f, QuietStep
<1>33. ASSUME th = Env, EnvWait PROVE Kept(th)
  <2>1. Quiet(th)
    BY <1>33, <1>a, <1>b DEF EnvWait, Goto, stepVars, itemVars, Quiet, Running, AtBodyEnd, Steady
  <2> QED BY <2>1, <1>f, QuietStep
<1>34. ASSUME th = Env, WaitLockSteps PROVE Kept(th)
  <2>1. threadVars' = threadVars /\ itemVars' = itemVars /\ getList' = getList /\ pc[th] = "idle"
    BY <1>34 DEF WaitLockSteps
  <2>2. Quiet(th)
    BY <2>1, <1>b DEF threadVars, itemVars, Quiet, Running, AtBodyEnd, Steady
  <2> QED BY <2>2, <1>f, QuietStep
<1>35. ASSUME th = Env, WaitRunSequential PROVE FALSE
  BY <1>35, <1>a, <1>b DEF WaitRunSequential, Inv, Shape, NoneSequential
<1>36. ASSUME th = Env, WaitEndSequential PROVE Kept(th)
  <2>1. Quiet(th)
    BY <1>36, <1>a, <1>b
       DEF WaitEndSequential, stepVars, itemVars, threadVars, Quiet, Running, AtBodyEnd, Steady
  <2> QED BY <2>1, <1>f, QuietStep
<1>37. ASSUME th = Env, WaitRepost PROVE FALSE
  BY <1>37, <1>a, <1>b DEF WaitRepost, Inv, Shape, NoneSequential
<1>38. ASSUME th = Env, WaitAgain PROVE Kept(th)
  <2>1. Quiet(th)
    BY <1>38, <1>a, <1>b
       DEF WaitAgain, stepVars, itemVars, threadVars, Quiet, Running, AtBodyEnd, Steady
  <2> QED BY <2>1, <1>f, QuietStep
<1>39. ASSUME th = Env, WaitReturn PROVE Kept(th)
  <2>1. Quiet(th)
    BY <1>39, <1>a, <1>b DEF WaitReturn, Goto, stepVars, itemVars, Quiet, Running, AtBodyEnd, Steady
  <2> QED BY <2>1, <1>f, QuietStep
<1> QED
  BY <1>1, <1>2, <1>3, <1>4, <1>5, <1>6, <1>7, <1>8, <1>9, <1>10, <1>11, <1>12, <1>13, <1>14,
     <1>15, <1>16, <1>17, <1>18, <1>19, <1>20, <1>21, <1>22, <1>23, <1>24, <1>25, <1>26, <1>27,
     <1>28, <1>29, <1>30, <1>31, <1>32, <1>33, <1>34, <1>35, <1>36, <1>37, <1>38, <1>39
     DEF ThreadStep, Prepare, Schedule, Execute, Access, Environment

\* A stuttering step changes nothing the invariant speaks of.
LEMMA UnchangedReplay ==
    ASSUME ReplayInv, UNCHANGED vars
    PROVE  ReplayInv'
<1>a. /\ stepVars' = stepVars /\ itemVars' = itemVars /\ threadVars' = threadVars /\ envIp' = envIp
  BY DEF vars, envVars
<1> USE <1>a DEF stepVars, itemVars, threadVars
<1>b. \A s \in Steps : Commits(s)' <=> Commits(s)
  BY DEF Commits, AtBodyEnd
<1>c. \A i \in Items : (HasBeenRead(i)' <=> HasBeenRead(i)) /\ (Available(i)' <=> Available(i))
  BY <1>b DEF HasBeenRead, Available, Readers, ReadersOf, ReadSet, ReadSets, Counted
<1>d. \A i \in Items : Owed(i)' = Owed(i) /\ Readers(i)' = Readers(i)
  BY <1>b DEF Owed, Readers, ReadersOf, ReadSet, ReadSets, Held, InSeq
<1>1. \A th \in Threads : Behind(th)'
  <2> SUFFICES ASSUME NEW th \in Threads PROVE Behind(th)'
    OBVIOUS
  <2>1. \A n \in 1..Len(Body[job[th]]), i \in Items : Missed(th, n, i)' <=> Missed(th, n, i)
    BY DEF Missed, FlushedBy
  <2>2. Behind(th)
    BY DEF ReplayInv
  <2>3. (Running(th)' <=> Running(th)) /\ (InBody(th)' <=> InBody(th))
    BY DEF Running, InBody
  <2>4. ReadsBehind(th)' <=> ReadsBehind(th)
    BY <1>c, <2>1 DEF ReadsBehind, ReadsAt
  <2>5. HeldBehind(th)' <=> HeldBehind(th)
    BY <1>c, <2>1 DEF HeldBehind, ReadsAt, Held, InSeq, Counted, AtBodyEnd
  <2>6. (PutsBehind(th)' <=> PutsBehind(th)) /\ (TagsBehind(th)' <=> TagsBehind(th))
    BY <1>c DEF PutsBehind, TagsBehind
  <2>7. SuspendedSince(th)' <=> SuspendedSince(th)
    BY <2>1 DEF SuspendedSince, WaitsFor
  <2> QED BY <2>2, <2>3, <2>4, <2>5, <2>6, <2>7 DEF Behind
<1>2. \A s \in Steps : ListRight(s)' /\ DoneRight(s)'
  <2>1. \A s \in Steps : ListRight(s) /\ DoneRight(s)
    BY DEF ReplayInv
  <2>2. \A s \in Steps : DoneRight(s)'
    BY <2>1, <1>c DEF DoneRight, WaitsFor, ReadSet, ReadSets
  <2>3. \A s \in Steps : ListRight(s)'
    BY <2>1 DEF ListRight, Held, InSeq, GotBy, Running, ReadsAt, Counted, ReadSet, ReadSets
  <2> QED BY <2>2, <2>3
<1>3. \A i \in Items : CountRight(i)'
  BY <1>d DEF ReplayInv, CountRight, Counted
<1>4. AssignedOnce'
  BY <1>c DEF ReplayInv, AssignedOnce, Assigned, PutsAt, EnvPutsAt, Running, Counted
<1>5. WaitsForReads' /\ NoAbort'
  BY DEF ReplayInv, WaitsForReads, NoAbort, WaitsFor, ReadSet, ReadSets
<1> QED BY <1>1, <1>2, <1>3, <1>4, <1>5 DEF ReplayInv

\* A step of the system is a step of a thread or stutters.
LEMMA ReplayStep ==
    ASSUME Sequentialize = {}, Disciplined, Inv, Inv', WaitInv, ReplayInv, [Next]_vars
    PROVE  ReplayInv'
<1>1. ASSUME NEW th \in Threads, ThreadStep(th) PROVE ReplayInv'
  BY <1>1, ThreadStepReplay DEF Kept
<1>2. ASSUME UNCHANGED vars PROVE ReplayInv'
  BY <1>2, UnchangedReplay
<1> QED BY <1>1, <1>2 DEF Next, Terminated

\* At the start nothing is put and nothing is executed.
LEMMA InitReplay ==
    ASSUME Disciplined, Init
    PROVE  ReplayInv
<1>a. /\ Null \notin Steps /\ Env \in Threads
      /\ \A th \in Threads : job[th] = Null /\ pc[th] \in {"run", "idle"}
      /\ \A s \in Steps : getList[s] = <<>> /\ status[s] = "None"
      /\ \A i \in Items : item[i] = "none" /\ getCount[i] = UNSET_GET_COUNT
      /\ \A i \in Items, s \in Steps : group[i][s] = 0
  BY ConstantsOK DEF Init, Threads
<1>1. \A th \in Threads : Behind(th)
  BY <1>a DEF Behind, Running
<1>2. \A s \in Steps : ListRight(s) /\ DoneRight(s)
  BY <1>a DEF ListRight, DoneRight, Held, InSeq
<1>3. \A s \in Steps : ~Commits(s)
  BY <1>a DEF Commits, AtBodyEnd
<1>4. ASSUME NEW i \in Items PROVE Owed(i) = Readers(i) /\ ~Available(i)
  <2>1. Readers(i) \subseteq Steps
    BY DEF Readers, ReadersOf
  <2> QED BY <2>1, <1>3, <1>a DEF Owed, Available, HasBeenRead
<1>5. \A i \in Items : CountRight(i)
  BY <1>4, <1>a DEF CountRight
<1>6. AssignedOnce /\ WaitsForReads /\ NoAbort
  BY <1>4, <1>a DEF AssignedOnce, WaitsForReads, NoAbort, WaitsFor
<1> QED BY <1>1, <1>2, <1>5, <1>6 DEF ReplayInv

-----------------------------------------------------------------------------
(* The runtime implements the dataflow graph *)

\* Nobody executes, and no instance could.
NoneReady ==
    /\ \A s \in Steps : ~DF!Ready(s)
    /\ \A u \in Threads : pc[u] \in {"run", "idle", "delete"}

\* When wait has returned no step is ready: what is not done lacks an input.
LEMMA NothingReady == Inv /\ WaitInv /\ ReplayInv /\ NoStepLost /\ AfterWait => NoneReady
<1> SUFFICES ASSUME Inv, WaitInv, ReplayInv, NoStepLost, AfterWait
             PROVE  /\ \A s \in Steps : ~DF!Ready(s)
                    /\ \A u \in Threads : pc[u] \in {"run", "idle", "delete"}
  BY DEF NoneReady
<1>1. /\ \A w \in Workers : pc[w] \in {"idle", "delete"}
      /\ pc[Env] = "run" /\ job[Env] = Null /\ Threads = Workers \cup {Env}
  BY DEF WaitInv, QuietOnceOver, WaitOver, AfterWait, Threads
<1>2. \A s \in Steps : ~Commits(s)
  BY <1>1 DEF Commits, AtBodyEnd
<1>3. ASSUME NEW s \in Steps, DF!Ready(s) PROVE FALSE
  <2>1. status[s] \notin {"None", "Done"} /\ \A j \in ReadSet(s) : Available(j)
    BY <1>3 DEF DF!Ready, Available, Counted, ReadSet
  <2>2. PICK i \in WaitsFor(s) : item[i] # "stored"
    BY <2>1, QuietSteps
  <2>3. i \in Items /\ i \in ReadSet(s) /\ s \in Readers(i)
    BY <2>2 DEF ReplayInv, WaitsForReads, WaitsFor, Readers, ReadersOf
  <2>4. Counted(i) /\ HasBeenRead(i)
    BY <2>1, <2>2, <2>3 DEF Available
  <2>5. PICK t \in Readers(i) : status[t] = "Done"
    <3>1. Readers(i) \subseteq Steps
      BY <2>3 DEF Readers, ReadersOf
    <3> QED BY <3>1, <2>4, <1>2 DEF HasBeenRead
  <2>6. s \in Owed(i) /\ t \notin Owed(i)
    BY <1>2, <2>1, <2>3, <2>5 DEF Owed
  <2>7. CountRight(i)
    BY <2>3 DEF ReplayInv
  <2> QED BY <2>2, <2>4, <2>5, <2>6, <2>7 DEF CountRight
<1> QED BY <1>1, <1>3

\* Whoever is at a put or at the end of its step executes a step that is ready.
LEMMA ReadyHere ==
    ASSUME Inv, ReplayInv, NEW th \in Threads, job[th] # Null, pc[th] = "run",
           InputsBefore(job[th], ip[th])
    PROVE  DF!Ready(job[th])
<1>1. job[th] \in Steps /\ status[job[th]] = "Prepared"
  BY ThreadFacts DEF Inv, Ownership, Life, JobAlive
<1>2. Running(th) /\ Behind(th)
  BY DEF Running, ReplayInv
<1>3. \A i \in ReadSet(job[th]) : Available(i) /\ i \in Items
  BY <1>1, <1>2, InputsHere DEF ReadSet, ReadSets
<1> QED BY <1>1, <1>3 DEF DF!Ready, Available, Counted, ReadSet

\* A step of the runtime by what it changes: an instance newly prescribed is at a tag, an item
\* newly available at a put, an instance newly done at the end of its body with all its inputs,
\* and a wait that returns finds none ready. Everything else stutters.
LEMMA DataflowStep ==
    ASSUME Sequentialize = {}, Disciplined, Inv, WaitInv, ReplayInv,
           Inv', WaitInv', ReplayInv', NoStepLost', [Next]_vars
    PROVE  [DF!Next]_(DF!vars)
<1> DEFINE P == {s \in Steps : status[s] # "None"}
           A == {i \in Items : item[i] = "stored" \/ (GetCount[i] > 0 /\ HasBeenRead(i))}
           D == {s \in Steps : status[s] = "Done"}
           W == AfterWait
<1>a. A = {i \in Items : Available(i)} /\ A' = {i \in Items : Available(i)'}
  BY DEF Available, Counted
<1>1. ASSUME NEW th \in Threads, ThreadStep(th) PROVE [DF!Next]_(DF!vars)
  <2>1. Frame(th) /\ NewItems(th)
    BY <1>1, FrameStep, ThreadStepReplay DEF Kept
  <2>2. CASE AfterWait'
    <3>1. (\A s \in Steps : ~DF!Ready(s))' /\ \A u \in Threads : pc'[u] \in {"run", "idle", "delete"}
      <4>1. (Inv /\ WaitInv /\ ReplayInv /\ NoStepLost /\ AfterWait => NoneReady)'
        BY NothingReady, PTL
      <4> QED BY <2>2, <4>1 DEF NoneReady
    <3>2. P' = P
      BY <2>1, <3>1 DEF Frame
    <3>3. D' = D
      BY <2>1, <3>1 DEF Frame
    <3>4. A' = A
      BY <1>a, <2>1, <3>1 DEF NewItems
    <3>5. \A s \in Steps : ~DF!Ready(s)
      BY <3>1, <3>2, <3>3, <3>4 DEF DF!Ready, ReadSets
    <3>6. DF!WaitReturns
      BY <2>2, <3>2, <3>3, <3>4, <3>5 DEF DF!WaitReturns
    <3> QED BY <3>6 DEF DF!Next
  <2>3. CASE ~AfterWait' /\ \E t \in Steps : status[t] = "None" /\ status'[t] # "None"
    <3>1. PICK t \in Steps : status[t] = "None" /\ status'[t] # "None"
      BY <2>3
    <3>2. AtOp(th, "tag", t) /\ pc'[th] = "depends"
      BY <2>1, <3>1 DEF Frame
    <3>3. P' = P \cup {t}
      BY <2>1, <3>1, <3>2 DEF Frame, AtOp
    <3>4. D' = D
      BY <2>1, <3>2 DEF Frame
    <3>5. A' = A
      BY <1>a, <2>1, <3>2 DEF NewItems
    <3>6. t \in EnvTags \/ \E p \in Steps : DF!Ready(p) /\ t \in PrescribeSets[p]
      <4>1. CASE job[th] = Null
        <5>1. envIp \in 1..Len(EnvBody) /\ EnvBody[envIp] = <<"tag", t>>
          BY <3>2, <4>1, ThreadFacts DEF AtOp, WaitInv, EnvInPlace
        <5> QED BY <5>1 DEF EnvTags
      <4>2. CASE job[th] # Null
        <5>1. job[th] \in Steps /\ pc[th] = "run" /\ Body[job[th]][ip[th]] = <<"tag", t>>
          BY <3>2, <4>2, ThreadFacts DEF AtOp
        <5>2. ip[th] \in 1..Len(Body[job[th]])
          BY <3>2, <4>2, <5>1, ThreadFacts DEF AtOp, ReplayInv, Behind, InBody, Running
        <5>3. InputsBefore(job[th], ip[th])
          BY <5>1, <5>2 DEF Disciplined, GetsFirst
        <5>4. DF!Ready(job[th])
          BY <4>2, <5>1, <5>3, ReadyHere
        <5>5. t \in PrescribeSets[job[th]]
          BY <5>1, <5>2 DEF PrescribeSets
        <5> QED BY <5>1, <5>4, <5>5
      <4> QED BY <4>1, <4>2
    <3>7. DF!Prescribe(t)
      BY <2>3, <3>1, <3>3, <3>4, <3>5, <3>6 DEF DF!Prescribe
    <3> QED BY <3>7 DEF DF!Next
  <2>4. CASE ~AfterWait' /\ \E i \in Items : Available(i)' /\ ~Available(i)
    <3>1. PICK i \in Items : Available(i)' /\ ~Available(i)
      BY <2>4
    <3>2. AtOp(th, "put", i) /\ pc'[th] = "resume" /\ GetCount[i] # 0
      BY <2>1, <3>1 DEF NewItems
    <3>3. A' = A \cup {i}
      <4>1. \A j \in Items : Available(j)' <=> Available(j) \/ j = i
        BY <2>1, <3>1, <3>2 DEF NewItems, AtOp
      <4> QED BY <4>1, <1>a
    <3>4. P' = P
      BY <2>1, <3>2 DEF Frame
    <3>5. D' = D
      BY <2>1, <3>2 DEF Frame
    <3>6. i \in EnvPuts \/ \E p \in Steps : DF!Ready(p) /\ i \in WriteSets[p]
      <4>1. CASE job[th] = Null
        <5>1. envIp \in 1..Len(EnvBody) /\ EnvBody[envIp] = <<"put", i>>
          BY <3>2, <4>1, ThreadFacts DEF AtOp, WaitInv, EnvInPlace
        <5> QED BY <5>1 DEF EnvPuts
      <4>2. CASE job[th] # Null
        <5>1. job[th] \in Steps /\ pc[th] = "run" /\ Body[job[th]][ip[th]] = <<"put", i>>
          BY <3>2, <4>2, ThreadFacts DEF AtOp
        <5>2. ip[th] \in 1..Len(Body[job[th]])
          BY <3>2, <4>2, <5>1, ThreadFacts DEF AtOp, ReplayInv, Behind, InBody, Running
        <5>3. InputsBefore(job[th], ip[th])
          BY <5>1, <5>2 DEF Disciplined, GetsFirst
        <5>4. DF!Ready(job[th])
          BY <4>2, <5>1, <5>3, ReadyHere
        <5>5. i \in WriteSets[job[th]]
          BY <3>2, <5>1, <5>2 DEF WriteSets
        <5> QED BY <5>1, <5>4, <5>5
      <4> QED BY <4>1, <4>2
    <3>7. i \notin A
      BY <1>a, <3>1
    <3>8. DF!Put(i)
      BY <2>4, <3>3, <3>4, <3>5, <3>6, <3>7 DEF DF!Put
    <3> QED BY <3>8 DEF DF!Next
  <2>5. CASE ~AfterWait' /\ \E s \in Steps : status'[s] = "Done" /\ status[s] # "Done"
    <3>1. PICK s \in Steps : status'[s] = "Done" /\ status[s] # "Done"
      BY <2>5
    <3>2. s = job[th] /\ AtBodyEnd(th) /\ pc'[th] = "succeeded" /\ pc[th] = "run" /\ s # Null
      BY <2>1, <3>1 DEF Frame, AtBodyEnd
    <3>3. D' = D \cup {s}
      BY <2>1, <3>1, <3>2 DEF Frame
    <3>4. P' = P
      BY <2>1, <3>2 DEF Frame
    <3>5. A' = A
      BY <1>a, <2>1, <3>2 DEF NewItems
    <3>6. ~AfterWait
      BY <3>2 DEF AfterWait, WaitInv, QuietOnceOver, WaitOver, Threads
    <3>7. Running(th) /\ Behind(th) /\ ip[th] > Len(Body[s]) /\ ip[th] \in Nat /\ Len(Body[s]) \in Nat
      BY <3>2, ThreadFacts DEF AtBodyEnd, Running, ReplayInv
    <3>8. DF!Ready(s)
      BY <3>2, <3>7, AtTheEnd, ReadyHere
    <3>9. WriteSets[s] \subseteq A
      BY <1>a, <3>2, <3>7 DEF WriteSets, Behind, PutsBehind
    <3>10. PrescribeSets[s] \subseteq P
      BY <3>2, <3>7 DEF PrescribeSets, Behind, TagsBehind
    <3>11. W' = W
      BY <2>5, <3>6 DEF AfterWait
    <3>12. DF!Finish(s)
      BY <3>3, <3>4, <3>5, <3>8, <3>9, <3>10, <3>11 DEF DF!Finish
    <3> QED BY <3>12 DEF DF!Next
  <2>6. CASE /\ ~AfterWait'
             /\ \A t \in Steps : status[t] = "None" => status'[t] = "None"
             /\ \A i \in Items : Available(i)' => Available(i)
             /\ \A s \in Steps : status'[s] = "Done" => status[s] = "Done"
    <3>1. P' = P
      BY <2>1, <2>6 DEF Frame
    <3>2. D' = D
      BY <2>1, <2>6 DEF Frame
    <3>3. A' = A
      BY <1>a, <2>1, <2>6 DEF NewItems
    <3>4. CASE AfterWait
      <4>1. DF!Proceed
        BY <2>6, <3>1, <3>2, <3>3, <3>4 DEF DF!Proceed
      <4> QED BY <4>1 DEF DF!Next
    <3>5. CASE ~AfterWait
      <4>1. W' = W
        BY <2>6, <3>5 DEF AfterWait
      <4> QED BY <3>1, <3>2, <3>3, <4>1 DEF DF!vars
    <3> QED BY <3>4, <3>5
  <2> QED BY <2>2, <2>3, <2>4, <2>5, <2>6
<1>2. ASSUME UNCHANGED vars PROVE UNCHANGED DF!vars
  <2>1. /\ stepVars' = stepVars /\ itemVars' = itemVars /\ threadVars' = threadVars /\ envVars' = envVars
    BY <1>2 DEF vars
  <2>2. \A s \in Steps : Commits(s)' <=> Commits(s)
    BY <2>1 DEF threadVars, Commits, AtBodyEnd
  <2>3. P' = P /\ D' = D
    BY <2>1 DEF stepVars
  <2>4. \A i \in Items : HasBeenRead(i)' <=> HasBeenRead(i)
    BY <2>1, <2>2 DEF stepVars, HasBeenRead, Readers, ReadersOf, ReadSet, ReadSets
  <2>5. A' = A
    BY <2>1, <2>4 DEF itemVars
  <2>6. W' = W
    BY <2>1 DEF threadVars, envVars, waitVars, AfterWait
  <2> QED BY <2>3, <2>5, <2>6 DEF DF!vars
<1> QED BY <1>1, <1>2 DEF Next, Terminated

-----------------------------------------------------------------------------
(* Theorems *)

\* Replay, get counts and single assignment (ReplayInv), for every program that
\* keeps the rules: an execution that goes on has got what it read, a get list
\* holds what is to be given back, an item's count is what it still owes.
THEOREM ReplaysKept ==
    ASSUME Sequentialize = {}, Disciplined
    PROVE  Spec => []ReplayInv
<1>1. Init => ReplayInv
  BY InitReplay
<1>2. Inv /\ Inv' /\ WaitInv /\ ReplayInv /\ [Next]_vars => ReplayInv'
  BY ReplayStep
<1>3. Inv /\ WaitInv /\ [Next]_vars => WaitInv'
  BY WaitStep
<1> QED BY <1>1, <1>2, <1>3, InitWait, Invariance, PTL DEF Spec

\* The runtime implements the dataflow graph (ImplementsDataflow) for every such program: step
\* instances are executed to the end once, after their inputs have been put, whatever the order
\* in which threads get, suspend, resume and replay, and wait returns when none is ready.
THEOREM DataflowImplemented ==
    ASSUME Sequentialize = {}, Disciplined
    PROVE  Spec => ImplementsDataflow
<1>1. Init => DF!Init
  <2> SUFFICES ASSUME Init PROVE DF!Init
    OBVIOUS
  <2>1. /\ \A s \in Steps : status[s] = "None"
        /\ \A i \in Items : item[i] = "none"
        /\ \A th \in Threads : job[th] = Null
    BY DEF Init
  <2>2. \A i \in Items : ~HasBeenRead(i)
    <3>1. \A s \in Steps : ~Commits(s)
      BY <2>1 DEF Commits, AtBodyEnd
    <3>2. \A i \in Items : Readers(i) \subseteq Steps
      BY DEF Readers, ReadersOf
    <3> QED BY <2>1, <3>1, <3>2 DEF HasBeenRead
  <2>3. ~AfterWait
    BY ConstantsOK DEF Init, AfterWait
  <2>4. AfterWait = FALSE
    BY <2>3 DEF AfterWait
  <2> QED BY <2>1, <2>2, <2>4 DEF DF!Init
<1>2. /\ Inv /\ WaitInv /\ ReplayInv /\ Inv' /\ WaitInv' /\ ReplayInv' /\ NoStepLost' /\ [Next]_vars
      => [DF!Next]_(DF!vars)
  BY DataflowStep
<1>3. Inv /\ WaitInv /\ [Next]_vars => WaitInv'
  BY WaitStep
<1> QED BY <1>1, <1>2, <1>3, InitWait, Invariance, NeverLost, ReplaysKept, PTL
        DEF Spec, ImplementsDataflow, DF!Spec

-----------------------------------------------------------------------------
(* Without depends(): instances are deleted once *)

\* A step of th that deletes no instance and takes none that is done.
Tidy(th) ==
    /\ deleted' = deleted
    /\ \A u \in Threads : job'[u] # Null => job'[u] = job[u] \/ status[job'[u]] = "Prepared"
    /\ \A u \in Threads : pc'[u] # "prepared" /\ (pc'[u] = "depends" => deps'[u] = {})
    /\ \A s \in Steps : status'[s] = "Unprepared" => WaitsFor(s)' = {}

\* Such a step keeps what is known of deleted instances.
LEMMA TidyStep ==
    ASSUME Inv, Inv', DeleteInv, NEW th \in Threads, Frame(th), Tidy(th)
    PROVE  DeleteInv'
<1>1. ASSUME NEW s \in Steps, deleted[s] > 0 PROVE status'[s] = "Done" /\ \A u \in Threads : job'[u] # s
  <2>1. status[s] = "Done" /\ \A u \in Threads : job[u] # s
    BY <1>1 DEF DeleteInv
  <2>2. Null \notin Steps
    BY ConstantsOK
  <2> QED BY <2>1, <2>2 DEF Frame, Tidy
<1> QED BY <1>1 DEF DeleteInv, Tidy

\* do_execute deletes the instance that it has just executed, for the first time.
LEMMA DeleteStepOnce ==
    ASSUME Inv, DeleteInv, NEW th \in Threads, DeleteStep(th)
    PROVE  DeleteInv'
<1>1. /\ pc[th] = "delete" /\ pc' = [pc EXCEPT ![th] = "idle"] /\ job' = [job EXCEPT ![th] = Null]
      /\ deleted' = [deleted EXCEPT ![job[th]] = IF inPending[job[th]] THEN @ ELSE @ + 1]
      /\ status' = status /\ group' = group /\ deps' = deps
  BY DEF DeleteStep, Goto, itemVars
<1>2. /\ pc \in [Threads -> Pcs] /\ job \in [Threads -> Steps \cup {Null}] /\ deleted \in [Steps -> Nat]
      /\ Null \notin Steps
  BY ConstantsOK DEF Inv, Shape, Typed, ThreadsTyped, StepsTyped
<1>3. job[th] \in Steps /\ status[job[th]] = "Done" /\ deleted[job[th]] = 0
  <2>1. job[th] \in Steps /\ status[job[th]] = "Done"
    BY <1>1, <1>2 DEF Inv, Shape, Control, Ownership, Life, JobAlive
  <2>2. deleted[job[th]] \in Nat
    BY <1>2, <2>1
  <2> QED BY <2>1, <2>2 DEF DeleteInv
<1>4. \A u \in Threads : job'[u] # job[th]
  BY <1>1, <1>2, <1>3, JobsApart
<1>5. \A s \in Steps : deleted'[s] <= 1
  BY <1>1, <1>2, <1>3 DEF DeleteInv
<1>6. \A s \in Steps : deleted'[s] > 0 => status'[s] = "Done" /\ \A u \in Threads : job'[u] # s
  BY <1>1, <1>2, <1>3, <1>4 DEF DeleteInv
<1>7. \A u \in Threads : pc'[u] # "prepared" /\ (pc'[u] = "depends" => deps'[u] = {})
  BY <1>1, <1>2 DEF DeleteInv
<1>8. \A s \in Steps : status'[s] = "Unprepared" => WaitsFor(s)' = {}
  BY <1>1 DEF DeleteInv, WaitsFor
<1> QED BY <1>5, <1>6, <1>7, <1>8 DEF DeleteInv

\* All 39 actions of a thread: only DeleteStep deletes.
LEMMA DeleteInvStep ==
    ASSUME Sequentialize = {}, Disciplined, \A s \in Steps : Depends[s] = {},
           Inv, Inv', ReplayInv, DeleteInv, NEW th \in Threads, ThreadStep(th)
    PROVE  DeleteInv'
<1>a. Env \in Threads /\ Null \notin Steps
  BY ConstantsOK DEF Threads
<1>b. /\ pc \in [Threads -> Pcs] /\ job \in [Threads -> Steps \cup {Null}]
      /\ tgt \in [Threads -> Steps \cup {Null}] /\ deps \in [Threads -> SUBSET Items]
      /\ status \in [Steps -> Statuses] /\ group \in [Items -> [Steps \cup {Null} -> Nat]]
  BY DEF Inv, Shape, Typed, ThreadsTyped, StepsTyped, ItemsTyped
<1>c. /\ \A u \in Threads : pc[u] # "prepared" /\ (pc[u] = "depends" => deps[u] = {})
      /\ \A s \in Steps : status[s] = "Unprepared" => \A j \in Items : ~(group[j][s] > 0)
  BY DEF DeleteInv, WaitsFor
<1>d. \A s \in Steps : status[s] = "None" => \A j \in Items : group[j][s] = 0
  BY DEF Inv, Ownership, Life, UnbornUnseen, Unborn
<1>e. \A s \in Steps : queue[s] > 0 => status[s] = "Prepared"
  BY DEF Inv, Ownership, Life, QueuedPrepared
<1>f. Frame(th)
  BY FrameStep
<1>g. /\ ret[th] \in {"run", "resume"}
      /\ \A s \in Steps : ~sequentialized[s]
  BY DEF Inv, Shape, Typed, ThreadsTyped, NoneSequential
<1>h. ASSUME job[th] # Null, pc[th] \in {"begin", "run"}
      PROVE  job[th] \in Steps /\ status[job[th]] = "Prepared"
  BY <1>h, <1>b DEF Inv, Ownership, Life, JobAlive
<1>1. ASSUME NEW t \in Steps, PutTag(th, t) PROVE DeleteInv'
  <2>1. /\ deleted' = deleted /\ job' = job /\ pc' = [pc EXCEPT ![th] = "depends"] /\ group' = group
        /\ status' = [status EXCEPT ![t] = "Unprepared"] /\ deps' = [deps EXCEPT ![th] = {}]
        /\ status[t] = "None"
    BY <1>1 DEF PutTag, Goto, itemVars
  <2>2. \A s \in Steps : status'[s] = "Unprepared" => \A j \in Items : ~(group[j][s] > 0)
    BY <2>1, <1>b, <1>c, <1>d
  <2>3. \A s \in Steps : status'[s] = "Unprepared" => WaitsFor(s)' = {}
    BY <2>1, <2>2 DEF WaitsFor
  <2>4. \A u \in Threads : pc'[u] # "prepared" /\ (pc'[u] = "depends" => deps'[u] = {})
    BY <2>1, <1>b, <1>c
  <2>5. Tidy(th)
    BY <2>1, <2>3, <2>4 DEF Tidy
  <2> QED BY <2>5, <1>f, TidyStep
<1>2. ASSUME NEW i \in Items, DependOn(th, i) PROVE FALSE
  BY <1>2, <1>c DEF DependOn
<1>3. ASSUME EndPrepare(th) PROVE DeleteInv'
  <2>1. /\ tgt[th] \in Steps /\ status[tgt[th]] = "Unprepared" /\ pc[th] = "depends"
        /\ group \in Groups
    BY <1>3, <1>b DEF EndPrepare, Inv, Shape, Control, Ownership, Life, TargetAlive, Groups
  <2>2. nSuspenders[tgt[th]] = 1
    <3>1. Guarded(tgt[th])
      BY <2>1 DEF Guarded, Protects
    <3>2. \A j \in Items : group[j][tgt[th]] = 0
      BY <2>1, <1>c DEF Groups
    <3>3. IsFiniteSet(Registrations(group, tgt[th]))
      BY <2>1 DEF Inv, Counting, Countable
    <3>4. Cardinality(Registrations(group, tgt[th])) = 0
      BY <2>1, <3>2, <3>3, RegistrationsEmpty
    <3> QED BY <2>1, <3>1, <3>4 DEF Inv, Counting, SuspendersMatch
  <2>3. /\ pc' = [pc EXCEPT ![th] = "schedule"] /\ job' = job /\ deleted' = deleted /\ group' = group
        /\ deps' = deps /\ status' = [status EXCEPT ![tgt[th]] = "Prepared"]
    BY <1>3, <2>2 DEF EndPrepare, UnsuspendsLast, Goto, itemVars
  <2>4. \A s \in Steps : status'[s] = "Unprepared" => \A j \in Items : ~(group[j][s] > 0)
    BY <2>1, <2>3, <1>b, <1>c
  <2>5. \A s \in Steps : status'[s] = "Unprepared" => WaitsFor(s)' = {}
    BY <2>3, <2>4 DEF WaitsFor
  <2>6. \A u \in Threads : pc'[u] # "prepared" /\ (pc'[u] = "depends" => deps'[u] = {})
    BY <2>3, <1>b, <1>c
  <2>7. Tidy(th)
    BY <2>3, <2>5, <2>6 DEF Tidy
  <2> QED BY <2>7, <1>f, TidyStep
<1>4. ASSUME SequentializePrepared(th) PROVE FALSE
  BY <1>4, <1>a, <1>b DEF SequentializePrepared, Inv, Shape, NoneSequential
<1>5. ASSUME CheckDone(th) PROVE FALSE
  BY <1>5, <1>c DEF CheckDone
<1>6. ASSUME ScheduleDefer(th) PROVE DeleteInv'
  <2>1. Tidy(th)
    BY <1>6, <1>a, <1>b, <1>c, <1>g
       DEF ScheduleDefer, Return, Goto, CurrentIsSequentialized, itemVars, envVars, Tidy, WaitsFor
  <2> QED BY <2>1, <1>f, TidyStep
<1>7. ASSUME ScheduleCount(th) PROVE DeleteInv'
  <2>1. Tidy(th)
    BY <1>7, <1>a, <1>b, <1>c DEF ScheduleCount, Goto, stepVars, itemVars, envVars, Tidy, WaitsFor
  <2> QED BY <2>1, <1>f, TidyStep
<1>8. ASSUME ScheduleEnqueue(th) PROVE DeleteInv'
  <2>1. Tidy(th)
    BY <1>8, <1>a, <1>b, <1>c, <1>g
       DEF ScheduleEnqueue, Return, Goto, stepVars, itemVars, envVars, Tidy, WaitsFor
  <2> QED BY <2>1, <1>f, TidyStep
<1>9. ASSUME NEW s \in Steps, TakeStep(th, s) PROVE DeleteInv'
  <2>1. Tidy(th)
    BY <1>9, <1>a, <1>b, <1>c, <1>e DEF TakeStep, Goto, stepVars, itemVars, envVars, Tidy, WaitsFor
  <2> QED BY <2>1, <1>f, TidyStep
<1>10. ASSUME BeginExecute(th) PROVE DeleteInv'
  <2>1. Tidy(th)
    BY <1>10, <1>a, <1>b, <1>c, <1>h
       DEF BeginExecute, Protect, Goto, itemVars, envVars, Inv, Shape, Control, Tidy, WaitsFor
  <2> QED BY <2>1, <1>f, TidyStep
<1>11. ASSUME DecrementRefCount(th) PROVE DeleteInv'
  <2>1. Tidy(th)
    BY <1>11, <1>a, <1>b, <1>c DEF DecrementRefCount, AtBodyEnd, Goto, envVars, Tidy, WaitsFor
  <2> QED BY <2>1, <1>f, TidyStep
<1>12. ASSUME Succeed(th) PROVE DeleteInv'
  <2>1. Tidy(th)
    BY <1>12, <1>a, <1>b, <1>c, <1>h DEF Succeed, Goto, itemVars, envVars, AtBodyEnd, Tidy, WaitsFor
  <2> QED BY <2>1, <1>f, TidyStep
<1>13. ASSUME LeaveSucceeded(th) PROVE DeleteInv'
  <2>1. Tidy(th)
    BY <1>13, <1>a, <1>b, <1>c DEF LeaveSucceeded, Goto, stepVars, itemVars, envVars, Tidy, WaitsFor
  <2> QED BY <2>1, <1>f, TidyStep
<1>14. ASSUME DeleteStep(th) PROVE DeleteInv'
  BY <1>14, DeleteStepOnce
<1>15. ASSUME CatchNotReady(th) PROVE DeleteInv'
  <2>1. Tidy(th)
    BY <1>15, <1>a, <1>b, <1>c
       DEF CatchNotReady, ClearGetList, Goto, itemVars, envVars, Tidy, WaitsFor
  <2> QED BY <2>1, <1>f, TidyStep
<1>16. ASSUME Unprotect(th) PROVE DeleteInv'
  <2>1. Tidy(th)
    BY <1>16, <1>a, <1>b, <1>c DEF Unprotect, Goto, itemVars, envVars, Tidy, WaitsFor
  <2> QED BY <2>1, <1>f, TidyStep
<1>17. ASSUME LeaveSuspended(th) PROVE DeleteInv'
  <2>1. Tidy(th)
    BY <1>17, <1>a, <1>b, <1>c DEF LeaveSuspended, Goto, stepVars, itemVars, envVars, Tidy, WaitsFor
  <2> QED BY <2>1, <1>f, TidyStep
<1>18. ASSUME NEW i \in Items, NEW k \in {"get", "uget"}, GetStored(th, k, i) PROVE DeleteInv'
  <2>1. Tidy(th)
    BY <1>18, <1>a, <1>b, <1>c DEF GetStored, RecordGet, Advance, itemVars, waitVars, Tidy, WaitsFor
  <2> QED BY <2>1, <1>f, TidyStep
<1>19. ASSUME NEW i \in Items, GetMissing(th, i) PROVE DeleteInv'
  <2>1. /\ job' = job /\ status' = status /\ deleted' = deleted /\ deps' = deps
        /\ group' = Join(group, i, job[th]) /\ pc[th] = "run" /\ job[th] # Null
        /\ pc' = pc \/ pc' = [pc EXCEPT ![th] = "failed"]
    BY <1>19 DEF GetMissing, SuspendOn, AtOp, Goto
  <2>2. \A t \in Steps, j \in Items : t # job[th] => group'[j][t] = group[j][t]
    <3>1. group \in Groups /\ job[th] \in Steps
      BY <2>1, <1>b DEF Groups
    <3>2. \A j \in Items, t \in Steps : t # job[th] => Join(group, i, job[th])[j][t] = group[j][t]
      BY <3>1, JoinGroups
    <3> QED BY <2>1, <3>2
  <2>3. \A t \in Steps : status'[t] = "Unprepared" => WaitsFor(t)' = {}
    BY <2>1, <2>2, <1>c, <1>h DEF WaitsFor
  <2>4. \A u \in Threads : pc'[u] # "prepared" /\ (pc'[u] = "depends" => deps'[u] = {})
    BY <2>1, <1>b, <1>c
  <2>5. Tidy(th)
    BY <2>1, <2>3, <2>4 DEF Tidy
  <2> QED BY <2>5, <1>f, TidyStep
<1>20. ASSUME NEW i \in Items, UnsafeGetMissing(th, i) PROVE DeleteInv'
  <2>1. /\ job' = job /\ status' = status /\ deleted' = deleted /\ deps' = deps
        /\ group' = Join(group, i, job[th]) /\ pc[th] = "run" /\ job[th] # Null
        /\ pc' = pc \/ pc' = [pc EXCEPT ![th] = "failed"]
    BY <1>20 DEF UnsafeGetMissing, SuspendOn, AtOp, Goto
  <2>2. \A t \in Steps, j \in Items : t # job[th] => group'[j][t] = group[j][t]
    <3>1. group \in Groups /\ job[th] \in Steps
      BY <2>1, <1>b DEF Groups
    <3>2. \A j \in Items, t \in Steps : t # job[th] => Join(group, i, job[th])[j][t] = group[j][t]
      BY <3>1, JoinGroups
    <3> QED BY <2>1, <3>2
  <2>3. \A t \in Steps : status'[t] = "Unprepared" => WaitsFor(t)' = {}
    BY <2>1, <2>2, <1>c, <1>h DEF WaitsFor
  <2>4. \A u \in Threads : pc'[u] # "prepared" /\ (pc'[u] = "depends" => deps'[u] = {})
    BY <2>1, <1>b, <1>c
  <2>5. Tidy(th)
    BY <2>1, <2>3, <2>4 DEF Tidy
  <2> QED BY <2>5, <1>f, TidyStep
<1>21. ASSUME FlushGets(th) PROVE DeleteInv'
  <2>1. Tidy(th)
    BY <1>21, <1>a, <1>b, <1>c DEF FlushGets, Goto, stepVars, itemVars, envVars, Tidy, WaitsFor
  <2> QED BY <2>1, <1>f, TidyStep
<1>22. ASSUME NEW i \in Items, PutDiscarded(th, i) PROVE DeleteInv'
  <2>1. Tidy(th)
    BY <1>22, <1>a, <1>b, <1>c
       DEF PutDiscarded, Advance, stepVars, itemVars, waitVars, Tidy, WaitsFor
  <2> QED BY <2>1, <1>f, TidyStep
<1>23. ASSUME NEW i \in Items, PutStore(th, i) PROVE DeleteInv'
  <2>1. Tidy(th)
    BY <1>23, <1>a, <1>b, <1>c DEF PutStore, Advance, Goto, stepVars, waitVars, Tidy, WaitsFor
  <2> QED BY <2>1, <1>f, TidyStep
<1>24. ASSUME NEW i \in Items, NEW s \in Steps, ResumeStep(th, i, s) PROVE DeleteInv'
  <2>1. /\ deleted' = deleted /\ job' = job /\ status' = status /\ deps' = deps
        /\ group' = Leave(group, i, s) /\ group[i][s] > 0 /\ pc[th] = "resume"
        /\ pc' = pc \/ pc' = [pc EXCEPT ![th] = "schedule"]
    BY <1>24 DEF ResumeStep, Goto
  <2>2. \A t \in Steps, j \in Items : group'[j][t] > 0 => group[j][t] > 0
    <3>1. group \in Groups
      BY <1>b DEF Groups
    <3>2. \A j \in Items, t \in Steps \cup {Null} :
             Leave(group, i, s)[j][t] = IF j = i /\ t = s THEN group[j][t] - 1 ELSE group[j][t]
      BY <2>1, <3>1, LeaveGroups
    <3> QED BY <2>1, <3>2
  <2>3. \A t \in Steps : status'[t] = "Unprepared" => WaitsFor(t)' = {}
    BY <2>1, <2>2, <1>c DEF WaitsFor
  <2>4. \A u \in Threads : pc'[u] # "prepared" /\ (pc'[u] = "depends" => deps'[u] = {})
    BY <2>1, <1>b, <1>c
  <2>5. Tidy(th)
    BY <2>1, <2>3, <2>4 DEF Tidy
  <2> QED BY <2>5, <1>f, TidyStep
<1>25. ASSUME NEW i \in Items, ResumeEnv(th, i) PROVE DeleteInv'
  <2>1. Tidy(th)
    BY <1>25, <1>a, <1>b, <1>c
       DEF ResumeEnv, Leave, UnblockForPut, stepVars, threadVars, envVars, Tidy, WaitsFor
  <2> QED BY <2>1, <1>f, TidyStep
<1>26. ASSUME NEW i \in Items, EndPut(th, i) PROVE DeleteInv'
  <2>1. Tidy(th)
    BY <1>26, <1>a, <1>b, <1>c DEF EndPut, Goto, stepVars, envVars, Tidy, WaitsFor
  <2> QED BY <2>1, <1>f, TidyStep
<1>27. ASSUME NEW i \in Items, th = Env, EnvGetStored(i) PROVE DeleteInv'
  <2>1. Tidy(th)
    BY <1>27, <1>a, <1>b, <1>c DEF EnvGetStored, Goto, stepVars, itemVars, waitVars, Tidy, WaitsFor
  <2> QED BY <2>1, <1>f, TidyStep
<1>28. ASSUME NEW i \in Items, th = Env, EnvGetActive(i) PROVE DeleteInv'
  <2>1. Tidy(th)
    BY <1>28, <1>a, <1>b, <1>c DEF EnvGetActive, Goto, stepVars, envVars, Tidy, WaitsFor
  <2> QED BY <2>1, <1>f, TidyStep
<1>29. ASSUME NEW i \in Items, th = Env, EnvBlockForPut(i) PROVE DeleteInv'
  <2>1. Tidy(th)
    BY <1>29, <1>a, <1>b, <1>c DEF EnvBlockForPut, SuspendOn, Join, Goto, envVars, Tidy, WaitsFor
  <2> QED BY <2>1, <1>f, TidyStep
<1>30. ASSUME th = Env, EnvUnblock PROVE DeleteInv'
  <2>1. Tidy(th)
    BY <1>30, <1>a, <1>b, <1>c DEF EnvUnblock, Goto, stepVars, itemVars, Tidy, WaitsFor
  <2> QED BY <2>1, <1>f, TidyStep
<1>31. ASSUME NEW i \in Items, th = Env, EnvGetInactive(i) PROVE DeleteInv'
  <2>1. Tidy(th)
    BY <1>31, <1>a, <1>b, <1>c DEF EnvGetInactive, Goto, stepVars, envVars, Tidy, WaitsFor
  <2> QED BY <2>1, <1>f, TidyStep
<1>32. ASSUME NEW i \in Items, th = Env, EnvGetGivesUp(i) PROVE DeleteInv'
  <2>1. Tidy(th)
    BY <1>32, <1>a, <1>b, <1>c DEF EnvGetGivesUp, Goto, stepVars, itemVars, waitVars, Tidy, WaitsFor
  <2> QED BY <2>1, <1>f, TidyStep
<1>33. ASSUME th = Env, EnvWait PROVE DeleteInv'
  <2>1. Tidy(th)
    BY <1>33, <1>a, <1>b, <1>c DEF EnvWait, Goto, stepVars, itemVars, Tidy, WaitsFor
  <2> QED BY <2>1, <1>f, TidyStep
<1>34. ASSUME th = Env, WaitLockSteps PROVE DeleteInv'
  <2>1. Tidy(th)
    BY <1>34, <1>a, <1>b, <1>c DEF WaitLockSteps, itemVars, threadVars, Tidy, WaitsFor
  <2> QED BY <2>1, <1>f, TidyStep
<1>35. ASSUME th = Env, WaitRunSequential PROVE FALSE
  BY <1>35, <1>a, <1>b DEF WaitRunSequential, Inv, Shape, NoneSequential
<1>36. ASSUME th = Env, WaitEndSequential PROVE DeleteInv'
  <2>1. Tidy(th)
    BY <1>36, <1>a, <1>b, <1>c DEF WaitEndSequential, stepVars, itemVars, threadVars, Tidy, WaitsFor
  <2> QED BY <2>1, <1>f, TidyStep
<1>37. ASSUME th = Env, WaitRepost PROVE FALSE
  BY <1>37, <1>a, <1>b DEF WaitRepost, Inv, Shape, NoneSequential
<1>38. ASSUME th = Env, WaitAgain PROVE DeleteInv'
  <2>1. Tidy(th)
    BY <1>38, <1>a, <1>b, <1>c DEF WaitAgain, stepVars, itemVars, threadVars, Tidy, WaitsFor
  <2> QED BY <2>1, <1>f, TidyStep
<1>39. ASSUME th = Env, WaitReturn PROVE DeleteInv'
  <2>1. Tidy(th)
    BY <1>39, <1>a, <1>b, <1>c DEF WaitReturn, Goto, stepVars, itemVars, Tidy, WaitsFor
  <2> QED BY <2>1, <1>f, TidyStep
<1> QED
  BY <1>1, <1>2, <1>3, <1>4, <1>5, <1>6, <1>7, <1>8, <1>9, <1>10, <1>11, <1>12, <1>13, <1>14,
     <1>15, <1>16, <1>17, <1>18, <1>19, <1>20, <1>21, <1>22, <1>23, <1>24, <1>25, <1>26, <1>27,
     <1>28, <1>29, <1>30, <1>31, <1>32, <1>33, <1>34, <1>35, <1>36, <1>37, <1>38, <1>39
     DEF ThreadStep, Prepare, Schedule, Execute, Access, Environment

\* The get counts of items are kept: ErasedOnlyAfterLastGet and
\* CountedItemsCollected hold wherever ReplayInv does.
LEMMA CountsFollow ==
    ASSUME Disciplined, Inv, ReplayInv
    PROVE  ErasedOnlyAfterLastGet /\ CountedItemsCollected
<1>0. \A i \in Items : Readers(i) = {s \in Steps : i \in ReadSet(s)}
  BY DEF Readers, ReadersOf
<1>1. ASSUME NEW i \in Items, NEW s \in Steps, status[s] = "Done", i \in ReadSet(s), item[i] # "stored",
             NEW t \in Steps, i \in ReadSet(t)
      PROVE  status[t] = "Done" \/ Commits(t)
  <2>1. Available(i) /\ Counted(i)
    BY <1>1 DEF ReplayInv, DoneRight, Available
  <2>2. s \in Readers(i) /\ s \notin Owed(i) /\ t \in Readers(i)
    BY <1>0, <1>1 DEF Owed
  <2>3. Owed(i) = {}
    BY <1>1, <2>1, <2>2 DEF ReplayInv, CountRight
  <2> QED BY <2>2, <2>3 DEF Owed
<1>2. ErasedOnlyAfterLastGet
  BY <1>1 DEF ErasedOnlyAfterLastGet, ReplayInv, NoAbort
<1>3. ASSUME NEW i \in Items, GetCount[i] > 0, \A s \in Readers(i) : status[s] = "Done"
      PROVE  item[i] = "none"
  <2>1. Counted(i) /\ Owed(i) = {} /\ CountRight(i)
    BY <1>3 DEF Counted, Owed, ReplayInv
  <2>2. Readers(i) # {}
    <3>1. GetCount[i] = Cardinality(Readers(i)) /\ GetCount[i] # 0
      BY <1>3, <2>1 DEF Disciplined, CountsGiven
    <3> QED BY <3>1, FS_EmptySet
  <2> QED BY <2>1, <2>2 DEF CountRight
<1> QED BY <1>2, <1>3 DEF CountedItemsCollected

\* A deleted instance waits for nothing, is queued nowhere and in no thread's hands.
LEMMA NothingDangles ==
    ASSUME Inv, ReplayInv, DeleteInv
    PROVE  NoDanglingStep
<1>1. ASSUME NEW s \in Steps, deleted[s] > 0 PROVE WaitsFor(s) = {} /\ ~Owned(s)
  <2>1. status[s] = "Done" /\ \A th \in Threads : job[th] # s
    BY <1>1 DEF DeleteInv
  <2>2. WaitsFor(s) = {}
    BY <2>1 DEF ReplayInv, DoneRight
  <2>3. ~(queue[s] > 0)
    BY <2>1 DEF Inv, Ownership, Life, QueuedPrepared
  <2>4. \A th \in Threads : ~Holds(th, s)
    BY <2>1 DEF Holds, Holding, Inv, Shape, NoneSequential, Ownership, Life, TargetAlive
  <2>5. ~InSeq(s, pendingSteps) /\ ~InSeq(s, seqSteps) /\ ~InSeq(s, seq2)
    BY DEF Inv, Shape, NoneSequential, InSeq
  <2> QED BY <2>2, <2>3, <2>4, <2>5 DEF Owned
<1> QED BY <1>1 DEF NoDanglingStep, DeleteInv

\* Replayed executions do not count (get_list.h:47-56): a counted item is erased
\* only when all its readers have begun to commit, it is gone when they are done,
\* and a commit finds every entry it decrements.
THEOREM CountsExact ==
    ASSUME Sequentialize = {}, Disciplined
    PROVE  Spec => [](ErasedOnlyAfterLastGet /\ CountedItemsCollected)
<1>1. Inv /\ ReplayInv => ErasedOnlyAfterLastGet /\ CountedItemsCollected
  BY CountsFollow
<1> QED BY <1>1, Invariance, ReplaysKept, PTL

\* Where no tuner names dependencies, nothing refers to a deleted instance either,
\* and no instance is deleted twice.
THEOREM GetCountsExact ==
    ASSUME Sequentialize = {}, Disciplined, \A s \in Steps : Depends[s] = {}
    PROVE  Spec => []GetCountsKept
<1>1. Init => DeleteInv
  BY DEF Init, DeleteInv
<1>2. Inv /\ Inv' /\ ReplayInv /\ DeleteInv /\ [Next]_vars => DeleteInv'
  <2>1. ASSUME Inv, UNCHANGED vars, DeleteInv PROVE DeleteInv'
    BY <2>1 DEF vars, stepVars, itemVars, threadVars, DeleteInv, WaitsFor
  <2> QED BY <2>1, DeleteInvStep DEF Next, Terminated
<1>3. Inv /\ ReplayInv /\ DeleteInv => GetCountsKept
  BY CountsFollow, NothingDangles DEF GetCountsKept
<1> QED BY <1>1, <1>2, <1>3, Invariance, ReplaysKept, PTL DEF Spec
=============================================================================
