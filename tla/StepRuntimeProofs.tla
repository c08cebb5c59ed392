------------------------- MODULE StepRuntimeProofs -------------------------
(***************************************************************************)
(* Proofs about StepRuntime for any number of steps, items and threads and *)
(* for every program whose tuners do not sequentialize: the invariant of   *)
(* StepRuntimeInv is inductive, and it implies what the runs check.        *)
(***************************************************************************)
EXTENDS StepRuntimeInv, FiniteSetTheorems, TLAPS

\* The type of the suspend groups of all items.
Groups == [Items -> [Steps \cup {Null} -> Nat]]

\* One place of the suspend groups is changed, the others are not.
LEMMA GroupsExcept ==
    ASSUME NEW g \in Groups, NEW i \in Items, NEW s \in Steps \cup {Null}, NEW n \in Nat
    PROVE  LET h == [g EXCEPT ![i][s] = n]
           IN  /\ h \in Groups
               /\ \A j \in Items, t \in Steps \cup {Null} :
                    h[j][t] = IF j = i /\ t = s THEN n ELSE g[j][t]
<1> DEFINE gi == [g[i] EXCEPT ![s] = n]
           h == [g EXCEPT ![i][s] = n]
<1>1. /\ gi \in [Steps \cup {Null} -> Nat]
      /\ \A t \in Steps \cup {Null} : gi[t] = IF t = s THEN n ELSE g[i][t]
  BY DEF Groups
<1>2. h = [g EXCEPT ![i] = gi]
  OBVIOUS
<1>3. h \in Groups /\ \A j \in Items : h[j] = IF j = i THEN gi ELSE g[j]
  <2> HIDE DEF gi, h
  <2> QED BY <1>1, <1>2 DEF Groups
<1> QED BY <1>1, <1>3

\* suspend_group::add adds one place.
LEMMA JoinGroups ==
    ASSUME NEW g \in Groups, NEW i \in Items, NEW s \in Steps \cup {Null}
    PROVE  /\ Join(g, i, s) \in Groups
           /\ \A j \in Items, t \in Steps \cup {Null} :
                Join(g, i, s)[j][t] = IF j = i /\ t = s THEN g[j][t] + 1 ELSE g[j][t]
<1> DEFINE n == g[i][s] + 1
<1>1. n \in Nat
  BY DEF Groups
<1>2. Join(g, i, s) = [g EXCEPT ![i][s] = n]
  BY DEF Join
<1> HIDE DEF n
<1>3. LET h == [g EXCEPT ![i][s] = n]
      IN  /\ h \in Groups
          /\ \A j \in Items, t \in Steps \cup {Null} :
               h[j][t] = IF j = i /\ t = s THEN n ELSE g[j][t]
  BY <1>1, GroupsExcept
<1> QED BY <1>2, <1>3 DEF n

\* suspend_group::for_all takes one place away.
LEMMA LeaveGroups ==
    ASSUME NEW g \in Groups, NEW i \in Items, NEW s \in Steps \cup {Null}, g[i][s] > 0
    PROVE  /\ Leave(g, i, s) \in Groups
           /\ \A j \in Items, t \in Steps \cup {Null} :
                Leave(g, i, s)[j][t] = IF j = i /\ t = s THEN g[j][t] - 1 ELSE g[j][t]
<1> DEFINE n == g[i][s] - 1
<1>1. n \in Nat
  BY DEF Groups
<1>2. Leave(g, i, s) = [g EXCEPT ![i][s] = n]
  BY DEF Leave
<1> HIDE DEF n
<1>3. LET h == [g EXCEPT ![i][s] = n]
      IN  /\ h \in Groups
          /\ \A j \in Items, t \in Steps \cup {Null} :
               h[j][t] = IF j = i /\ t = s THEN n ELSE g[j][t]
  BY <1>1, GroupsExcept
<1> QED BY <1>2, <1>3 DEF n

\* scheduler_i::suspend registers the step once more, with one group.
LEMMA RegistrationsAdd ==
    ASSUME NEW g \in Groups, NEW i \in Items, NEW s \in Steps \cup {Null},
           NEW t \in Steps \cup {Null}, IsFiniteSet(Registrations(g, t))
    PROVE  LET h == Join(g, i, s)
           IN  /\ IsFiniteSet(Registrations(h, t))
               /\ Cardinality(Registrations(h, t)) =
                    Cardinality(Registrations(g, t)) + (IF t = s THEN 1 ELSE 0)
<1> DEFINE h == Join(g, i, s)
           e == <<i, g[i][s] + 1>>
<1>1. h \in Groups /\ \A j \in Items : h[j][t] = IF j = i /\ t = s THEN g[j][t] + 1 ELSE g[j][t]
  BY JoinGroups
<1>2. CASE t = s
  <2>1. Registrations(h, t) = Registrations(g, t) \cup {e}
    <3>1. ASSUME NEW j \in Items
          PROVE  {j} \X (1 .. h[j][t]) =
                   IF j = i THEN ({j} \X (1 .. g[j][t])) \cup {e} ELSE {j} \X (1 .. g[j][t])
      <4>1. g[j][t] \in Nat /\ h[j][t] = IF j = i THEN g[j][t] + 1 ELSE g[j][t]
        BY <1>1, <1>2 DEF Groups
      <4> HIDE DEF h
      <4> QED BY <4>1, <1>2
    <3> QED BY <3>1 DEF Registrations
  <2>2. e \notin Registrations(g, t)
    BY <1>2 DEF Registrations, Groups
  <2>3. /\ IsFiniteSet(Registrations(h, t))
        /\ Cardinality(Registrations(h, t)) = Cardinality(Registrations(g, t)) + 1
    <3> HIDE DEF h, e
    <3> QED BY <2>1, <2>2, FS_AddElement
  <2> QED BY <2>3, <1>2
<1>3. CASE t # s
  <2>1. Registrations(h, t) = Registrations(g, t)
    BY <1>1, <1>3 DEF Registrations
  <2> QED BY <2>1, <1>3, FS_CardinalityType
<1> QED BY <1>2, <1>3

\* re_schedule takes one registration away.
LEMMA RegistrationsRemove ==
    ASSUME NEW g \in Groups, NEW i \in Items, NEW s \in Steps \cup {Null},
           NEW t \in Steps \cup {Null}, IsFiniteSet(Registrations(g, t)), g[i][s] > 0
    PROVE  LET h == Leave(g, i, s)
           IN  /\ IsFiniteSet(Registrations(h, t))
               /\ Cardinality(Registrations(h, t)) =
                    Cardinality(Registrations(g, t)) - (IF t = s THEN 1 ELSE 0)
<1> DEFINE h == Leave(g, i, s)
           e == <<i, g[i][s]>>
<1>1. h \in Groups /\ \A j \in Items : h[j][t] = IF j = i /\ t = s THEN g[j][t] - 1 ELSE g[j][t]
  BY LeaveGroups
<1>2. CASE t = s
  <2>1. Registrations(h, t) = Registrations(g, t) \ {e}
    <3>1. ASSUME NEW j \in Items
          PROVE  {j} \X (1 .. h[j][t]) =
                   IF j = i THEN ({j} \X (1 .. g[j][t])) \ {e} ELSE {j} \X (1 .. g[j][t])
      BY <1>1, <1>2 DEF Groups
    <3>2. \A j \in Items : j # i => e \notin {j} \X (1 .. g[j][t])
      OBVIOUS
    <3> QED BY <3>1, <3>2 DEF Registrations
  <2>2. e \in Registrations(g, t)
    BY <1>2 DEF Registrations, Groups
  <2>3. /\ IsFiniteSet(Registrations(h, t))
        /\ Cardinality(Registrations(h, t)) = Cardinality(Registrations(g, t)) - 1
    <3> HIDE DEF h, e
    <3> QED BY <2>1, <2>2, FS_RemoveElement
  <2> QED BY <2>3, <1>2
<1>3. CASE t # s
  <2>1. Registrations(h, t) = Registrations(g, t)
    BY <1>1, <1>3 DEF Registrations
  <2> QED BY <2>1, <1>3, FS_CardinalityType
<1> QED BY <1>2, <1>3

\* A step that is registered somewhere waits for some item.
LEMMA RegistrationsEmpty ==
    ASSUME NEW g \in Groups, NEW s \in Steps, IsFiniteSet(Registrations(g, s))
    PROVE  /\ Cardinality(Registrations(g, s)) \in Nat
           /\ Cardinality(Registrations(g, s)) = 0 <=> \A i \in Items : g[i][s] = 0
<1>1. Cardinality(Registrations(g, s)) \in Nat
  BY FS_CardinalityType
<1>2. Registrations(g, s) = {} <=> \A i \in Items : g[i][s] = 0
  <2>1. ASSUME NEW i \in Items
        PROVE  {i} \X (1 .. g[i][s]) = {} <=> g[i][s] = 0
    <3>1. g[i][s] \in Nat
      BY DEF Groups
    <3>2. CASE g[i][s] = 0
      BY <3>2
    <3>3. CASE g[i][s] # 0
      <4>1. <<i, 1>> \in {i} \X (1 .. g[i][s])
        BY <3>1, <3>3
      <4> QED BY <4>1, <3>3
    <3> QED BY <3>2, <3>3
  <2> QED BY <2>1 DEF Registrations
<1> QED BY <1>1, <1>2, FS_EmptySet

-----------------------------------------------------------------------------

\* scheduler_i::suspend counts the step and adds it to the group.
LEMMA SuspendOnEffect ==
    ASSUME Typed, NEW s \in Steps, NEW i \in Items, SuspendOn(s, i)
    PROVE  /\ nSuspenders' \in [Steps -> Int] /\ wasSuspended' \in [Steps -> BOOLEAN]
           /\ group' \in Groups /\ group' = Join(group, i, s)
           /\ \A t \in Steps : nSuspenders'[t] = nSuspenders[t] + (IF t = s THEN 1 ELSE 0)
           /\ \A j \in Items, t \in Steps :
                group'[j][t] = IF j = i /\ t = s THEN group[j][t] + 1 ELSE group[j][t]
<1>1. Suspend(s) /\ group' = Join(group, i, s)
  BY ConstantsOK DEF SuspendOn
<1>2. group \in Groups
  BY DEF Typed, ItemsTyped, Groups
<1>3. /\ group' \in Groups
      /\ \A j \in Items, t \in Steps :
           group'[j][t] = IF j = i /\ t = s THEN group[j][t] + 1 ELSE group[j][t]
  BY <1>1, <1>2, JoinGroups
<1> QED BY <1>1, <1>3 DEF Suspend, Typed, StepsTyped

-----------------------------------------------------------------------------
\* decrement_ref_count erases an item whose last get this was, or counts the get.
LEMMA DecrementEffect ==
    ASSUME Typed, NEW th \in Threads, job[th] \in Steps, DecrementRefCount(th)
    PROVE  \E i \in Items :
              \/ UNCHANGED <<item, getCount>>
              \/ /\ getCount[i] = 1 /\ lock[i] = Null
                 /\ item' = [item EXCEPT ![i] = "none"]
                 /\ getCount' = [getCount EXCEPT ![i] = UNSET_GET_COUNT]
              \/ \E n \in Int : /\ n = -1 \/ n = getCount[i] - 1
                                /\ item' = item /\ getCount' = [getCount EXCEPT ![i] = n]
<1>1. PICK i \in Items : i = Head(getList[job[th]])
  BY DEF DecrementRefCount, Typed, StepsTyped
<1>2. CASE item[i] = "none"
  BY <1>1, <1>2 DEF DecrementRefCount
<1>3. CASE item[i] # "none" /\ getCount[i] = 1
  BY <1>1, <1>3 DEF DecrementRefCount
<1>4. CASE item[i] # "none" /\ getCount[i] # 1
  <2> DEFINE n == IF getCount[i] = UNSET_GET_COUNT THEN -1 ELSE getCount[i] - 1
  <2>1. getCount[i] \in Int
    BY DEF Typed, ItemsTyped
  <2>2. n \in Int /\ (n = -1 \/ n = getCount[i] - 1)
    BY <2>1
  <2>3. item' = item /\ getCount' = [getCount EXCEPT ![i] = n]
    BY <1>1, <1>4 DEF DecrementRefCount
  <2> HIDE DEF n
  <2> QED BY <2>2, <2>3
<1> QED BY <1>2, <1>3, <1>4

\* No step breaks the shape of the state.
LEMMA ShapeStep ==
    ASSUME Sequentialize = {}, Shape, [Next]_vars
    PROVE  Shape'
<1> USE DEF Shape, Typed
<1>a. Env \in Threads /\ Null \notin Steps
  BY ConstantsOK DEF Threads
<1>1. ASSUME NEW th \in Threads, NEW t \in Steps, PutTag(th, t) PROVE Shape'
  <2>b. Depends[t] \in SUBSET Items
    BY <1>1, <1>a, ConstantsOK
  <2>f. ip' \in [Threads -> Nat] /\ envIp' \in Nat
    BY <1>1, <1>a, <2>b DEF PutTag, Advance, ThreadsTyped
  <2>1. StepsTyped'
    BY <1>1, <1>a, <2>b, <2>f DEF PutTag, Goto, AtOp, itemVars, schedVars, waitVars, StepsTyped,
       Statuses
  <2>2. ItemsTyped'
    BY <1>1, <1>a, <2>b, <2>f DEF PutTag, Goto, AtOp, itemVars, schedVars, waitVars, ItemsTyped
  <2>3. SchedulerTyped'
    BY <1>1, <1>a, <2>b, <2>f DEF PutTag, Goto, AtOp, itemVars, schedVars, waitVars, SchedulerTyped
  <2>4. ThreadsTyped'
    BY <1>1, <1>a, <2>b, <2>f DEF PutTag, Goto, AtOp, itemVars, schedVars, waitVars, ThreadsTyped,
       Pcs
  <2>5. NoneSequential' /\ Control'
    BY <1>1, <1>a, <2>b, <2>f DEF PutTag, Goto, AtOp, itemVars, schedVars, waitVars, StepsTyped,
       ThreadsTyped, NoneSequential, Control
  <2> QED BY <2>1, <2>2, <2>3, <2>4, <2>5
<1>2. ASSUME NEW th \in Threads, NEW i \in Items, DependOn(th, i) PROVE Shape'
  <2>a. tgt[th] \in Steps
    BY <1>2, <1>a DEF Control, DependOn, ThreadsTyped
  <2>d. nSuspenders' \in [Steps -> Int] /\ wasSuspended' \in [Steps -> BOOLEAN] /\ group' \in Groups
    <3>1. CASE item[i] = "stored"
      BY <1>2, <1>a, <2>a, <3>1 DEF DependOn, StepsTyped, ItemsTyped, Groups
    <3>2. CASE item[i] # "stored"
      BY <1>2, <1>a, <2>a, <3>2, SuspendOnEffect DEF DependOn
    <3> QED BY <3>1, <3>2
  <2> QED
    BY <1>2, <1>a, <2>a, <2>d DEF DependOn, schedVars, envVars, waitVars, StepsTyped, Statuses,
       ItemsTyped, SchedulerTyped, ThreadsTyped, Pcs, NoneSequential, Control, Groups
<1>3. ASSUME NEW th \in Threads, EndPrepare(th) PROVE Shape'
  <2>a. tgt[th] \in Steps
    BY <1>3, <1>a DEF Control, EndPrepare, ThreadsTyped
  <2>1. StepsTyped'
    BY <1>3, <1>a, <2>a DEF EndPrepare, Unsuspend, UnsuspendsLast, Goto, itemVars, schedVars,
       envVars, waitVars, StepsTyped, Statuses
  <2>2. ItemsTyped'
    BY <1>3, <1>a, <2>a DEF EndPrepare, Unsuspend, UnsuspendsLast, Goto, itemVars, schedVars,
       envVars, waitVars, ItemsTyped
  <2>3. SchedulerTyped'
    BY <1>3, <1>a, <2>a DEF EndPrepare, Unsuspend, UnsuspendsLast, Goto, itemVars, schedVars,
       envVars, waitVars, SchedulerTyped
  <2>4. ThreadsTyped'
    BY <1>3, <1>a, <2>a DEF EndPrepare, Unsuspend, UnsuspendsLast, Goto, itemVars, schedVars,
       envVars, waitVars, ThreadsTyped, Pcs
  <2>5. NoneSequential' /\ Control'
    BY <1>3, <1>a, <2>a DEF EndPrepare, Unsuspend, UnsuspendsLast, Goto, itemVars, schedVars,
       envVars, waitVars, StepsTyped, ThreadsTyped, NoneSequential, Control
  <2> QED BY <2>1, <2>2, <2>3, <2>4, <2>5
<1>4. ASSUME NEW th \in Threads, SequentializePrepared(th) PROVE FALSE
  BY <1>4 DEF NoneSequential, SequentializePrepared, AddSequentialized, Goto
<1>5. ASSUME NEW th \in Threads, CheckDone(th) PROVE Shape'
  <2>a. tgt[th] \in Steps
    BY <1>5, <1>a DEF Control, CheckDone, ThreadsTyped
  <2>1. StepsTyped'
    BY <1>5, <1>a, <2>a DEF CheckDone, Goto, itemVars, schedVars, envVars, waitVars, StepsTyped,
       Statuses
  <2>2. ItemsTyped'
    BY <1>5, <1>a, <2>a DEF CheckDone, Goto, itemVars, schedVars, envVars, waitVars, ItemsTyped
  <2>3. SchedulerTyped'
    BY <1>5, <1>a, <2>a DEF CheckDone, Goto, itemVars, schedVars, envVars, waitVars, SchedulerTyped
  <2>4. ThreadsTyped'
    BY <1>5, <1>a, <2>a DEF CheckDone, Goto, itemVars, schedVars, envVars, waitVars, ThreadsTyped,
       Pcs
  <2>5. NoneSequential' /\ Control'
    BY <1>5, <1>a, <2>a DEF CheckDone, Goto, itemVars, schedVars, envVars, waitVars, StepsTyped,
       ThreadsTyped, NoneSequential, Control
  <2> QED BY <2>1, <2>2, <2>3, <2>4, <2>5
<1>6. ASSUME NEW th \in Threads, ScheduleDefer(th) PROVE Shape'
  <2>a. UNCHANGED <<status, inPending, pendingSteps>>
    BY <1>6, <1>a DEF NoneSequential, ScheduleDefer, CurrentIsSequentialized, Return, Goto,
       ThreadsTyped
  <2> QED
    BY <1>6, <1>a, <2>a DEF ScheduleDefer, CurrentIsSequentialized, Return, Goto, itemVars, envVars,
       waitVars, StepsTyped, Statuses, ItemsTyped, SchedulerTyped, ThreadsTyped, Pcs,
       NoneSequential, Control
<1>7. ASSUME NEW th \in Threads, ScheduleCount(th) PROVE Shape'
  <2>a. tgt[th] \in Steps
    BY <1>7, <1>a DEF Control, ScheduleCount, ThreadsTyped
  <2>1. StepsTyped'
    BY <1>7, <1>a, <2>a DEF ScheduleCount, CountStep, Goto, stepVars, itemVars, envVars, waitVars,
       StepsTyped, Statuses
  <2>2. ItemsTyped'
    BY <1>7, <1>a, <2>a DEF ScheduleCount, CountStep, Goto, stepVars, itemVars, envVars, waitVars,
       ItemsTyped
  <2>3. SchedulerTyped'
    BY <1>7, <1>a, <2>a DEF ScheduleCount, CountStep, Goto, stepVars, itemVars, envVars, waitVars,
       SchedulerTyped
  <2>4. ThreadsTyped'
    BY <1>7, <1>a, <2>a DEF ScheduleCount, CountStep, Goto, stepVars, itemVars, envVars, waitVars,
       ThreadsTyped, Pcs
  <2>5. NoneSequential' /\ Control'
    BY <1>7, <1>a, <2>a DEF ScheduleCount, CountStep, Goto, stepVars, itemVars, envVars, waitVars,
       StepsTyped, ThreadsTyped, NoneSequential, Control
  <2> QED BY <2>1, <2>2, <2>3, <2>4, <2>5
<1>8. ASSUME NEW th \in Threads, ScheduleEnqueue(th) PROVE Shape'
  <2>a. tgt[th] \in Steps
    BY <1>8, <1>a DEF Control, ScheduleEnqueue, ThreadsTyped
  <2>1. StepsTyped'
    BY <1>8, <1>a, <2>a DEF ScheduleEnqueue, Return, Goto, stepVars, itemVars, envVars, waitVars,
       StepsTyped, Statuses
  <2>2. ItemsTyped'
    BY <1>8, <1>a, <2>a DEF ScheduleEnqueue, Return, Goto, stepVars, itemVars, envVars, waitVars,
       ItemsTyped
  <2>3. SchedulerTyped'
    BY <1>8, <1>a, <2>a DEF ScheduleEnqueue, Return, Goto, stepVars, itemVars, envVars, waitVars,
       SchedulerTyped
  <2>4. ThreadsTyped'
    BY <1>8, <1>a, <2>a DEF ScheduleEnqueue, Return, Goto, stepVars, itemVars, envVars, waitVars,
       ThreadsTyped, Pcs
  <2>5. NoneSequential' /\ Control'
    BY <1>8, <1>a, <2>a DEF ScheduleEnqueue, Return, Goto, stepVars, itemVars, envVars, waitVars,
       StepsTyped, ThreadsTyped, NoneSequential, Control
  <2> QED BY <2>1, <2>2, <2>3, <2>4, <2>5
<1>9. ASSUME NEW th \in Threads, NEW s \in Steps, TakeStep(th, s) PROVE Shape'
  <2>1. StepsTyped'
    BY <1>9, <1>a DEF TakeStep, Goto, stepVars, itemVars, envVars, waitVars, StepsTyped, Statuses
  <2>2. ItemsTyped'
    BY <1>9, <1>a DEF TakeStep, Goto, stepVars, itemVars, envVars, waitVars, ItemsTyped
  <2>3. SchedulerTyped'
    BY <1>9, <1>a DEF TakeStep, Goto, stepVars, itemVars, envVars, waitVars, SchedulerTyped
  <2>4. ThreadsTyped'
    BY <1>9, <1>a DEF TakeStep, Goto, stepVars, itemVars, envVars, waitVars, ThreadsTyped, Pcs
  <2>5. NoneSequential' /\ Control'
    BY <1>9, <1>a DEF TakeStep, Goto, stepVars, itemVars, envVars, waitVars, StepsTyped,
       ThreadsTyped, NoneSequential, Control
  <2> QED BY <2>1, <2>2, <2>3, <2>4, <2>5
<1>10. ASSUME NEW th \in Threads, BeginExecute(th) PROVE Shape'
  <2>a. job[th] \in Steps
    BY <1>10, <1>a DEF Control, BeginExecute, ThreadsTyped
  <2>b. status[job[th]] # "FromPending"
    BY <1>10, <1>a, <2>a, ConstantsOK DEF NoneSequential
  <2>1. StepsTyped'
    BY <1>10, <1>a, <2>a, <2>b DEF BeginExecute, Protect, Goto, itemVars, schedVars, envVars,
       waitVars, StepsTyped, Statuses
  <2>2. ItemsTyped'
    BY <1>10, <1>a, <2>a, <2>b DEF BeginExecute, Protect, Goto, itemVars, schedVars, envVars,
       waitVars, ItemsTyped
  <2>3. SchedulerTyped'
    BY <1>10, <1>a, <2>a, <2>b DEF BeginExecute, Protect, Goto, itemVars, schedVars, envVars,
       waitVars, SchedulerTyped
  <2>4. ThreadsTyped'
    BY <1>10, <1>a, <2>a, <2>b DEF BeginExecute, Protect, Goto, itemVars, schedVars, envVars,
       waitVars, ThreadsTyped, Pcs
  <2>5. NoneSequential' /\ Control'
    BY <1>10, <1>a, <2>a, <2>b DEF BeginExecute, Protect, Goto, itemVars, schedVars, envVars,
       waitVars, StepsTyped, ThreadsTyped, NoneSequential, Control
  <2> QED BY <2>1, <2>2, <2>3, <2>4, <2>5
<1>11. ASSUME NEW th \in Threads, DecrementRefCount(th) PROVE Shape'
  <2>a. job[th] \in Steps
    BY <1>11, <1>a DEF Control, DecrementRefCount, AtBodyEnd, ThreadsTyped
  <2>b. item' \in [Items -> {"none", "entry", "stored"}] /\ getCount' \in [Items -> Int]
    <3>1. UNSET_GET_COUNT \in Int
      BY SMT DEF UNSET_GET_COUNT
    <3> QED BY <1>11, <2>a, <3>1, DecrementEffect DEF ItemsTyped
  <2>1. StepsTyped'
    BY <1>11, <1>a, <2>a, <2>b DEF DecrementRefCount, AtBodyEnd, Goto, schedVars, envVars, waitVars,
       StepsTyped, Statuses
  <2>2. ItemsTyped'
    BY <1>11, <2>b DEF DecrementRefCount, ItemsTyped
  <2>3. SchedulerTyped'
    BY <1>11, <1>a, <2>a, <2>b DEF DecrementRefCount, AtBodyEnd, Goto, schedVars, envVars, waitVars,
       SchedulerTyped
  <2>4. ThreadsTyped'
    BY <1>11, <1>a, <2>a, <2>b DEF DecrementRefCount, AtBodyEnd, Goto, schedVars, envVars, waitVars,
       ThreadsTyped, Pcs
  <2>5. NoneSequential' /\ Control'
    BY <1>11, <1>a, <2>a, <2>b DEF DecrementRefCount, AtBodyEnd, Goto, schedVars, envVars, waitVars,
       StepsTyped, ThreadsTyped, NoneSequential, Control
  <2> QED BY <2>1, <2>2, <2>3, <2>4, <2>5
<1>12. ASSUME NEW th \in Threads, Succeed(th) PROVE Shape'
  <2>a. job[th] \in Steps
    BY <1>12, <1>a DEF Control, Succeed, AtBodyEnd, ThreadsTyped
  <2> QED
    BY <1>12, <1>a, <2>a DEF Succeed, AtBodyEnd, Goto, itemVars, schedVars, envVars, waitVars,
       StepsTyped, Statuses, ItemsTyped, SchedulerTyped, ThreadsTyped, Pcs, NoneSequential, Control
<1>13. ASSUME NEW th \in Threads, LeaveSucceeded(th) PROVE Shape'
  <2>1. StepsTyped'
    BY <1>13, <1>a DEF LeaveSucceeded, Goto, stepVars, itemVars, envVars, waitVars, StepsTyped,
       Statuses
  <2>2. ItemsTyped'
    BY <1>13, <1>a DEF LeaveSucceeded, Goto, stepVars, itemVars, envVars, waitVars, ItemsTyped
  <2>3. SchedulerTyped'
    BY <1>13, <1>a DEF LeaveSucceeded, Goto, stepVars, itemVars, envVars, waitVars, SchedulerTyped
  <2>4. ThreadsTyped'
    BY <1>13, <1>a DEF LeaveSucceeded, Goto, stepVars, itemVars, envVars, waitVars, ThreadsTyped,
       Pcs
  <2>5. NoneSequential' /\ Control'
    BY <1>13, <1>a DEF LeaveSucceeded, Goto, stepVars, itemVars, envVars, waitVars, StepsTyped,
       ThreadsTyped, NoneSequential, Control
  <2> QED BY <2>1, <2>2, <2>3, <2>4, <2>5
<1>14. ASSUME NEW th \in Threads, DeleteStep(th) PROVE Shape'
  <2>a. job[th] \in Steps
    BY <1>14, <1>a DEF Control, DeleteStep, ThreadsTyped
  <2>1. StepsTyped'
    BY <1>14, <1>a, <2>a DEF DeleteStep, Goto, itemVars, schedVars, envVars, waitVars, StepsTyped,
       Statuses
  <2>2. ItemsTyped'
    BY <1>14, <1>a, <2>a DEF DeleteStep, Goto, itemVars, schedVars, envVars, waitVars, ItemsTyped
  <2>3. SchedulerTyped'
    BY <1>14, <1>a, <2>a DEF DeleteStep, Goto, itemVars, schedVars, envVars, waitVars,
       SchedulerTyped
  <2>4. ThreadsTyped'
    BY <1>14, <1>a, <2>a DEF DeleteStep, Goto, itemVars, schedVars, envVars, waitVars, ThreadsTyped,
       Pcs
  <2>5. NoneSequential' /\ Control'
    BY <1>14, <1>a, <2>a DEF DeleteStep, Goto, itemVars, schedVars, envVars, waitVars, StepsTyped,
       ThreadsTyped, NoneSequential, Control
  <2> QED BY <2>1, <2>2, <2>3, <2>4, <2>5
<1>15. ASSUME NEW th \in Threads, CatchNotReady(th) PROVE Shape'
  <2>a. job[th] \in Steps
    BY <1>15, <1>a DEF Control, CatchNotReady, ThreadsTyped
  <2>b. ~sequentialized[job[th]]
    BY <1>15, <1>a, <2>a, ConstantsOK DEF NoneSequential
  <2>1. StepsTyped'
    BY <1>15, <1>a, <2>a, <2>b DEF CatchNotReady, ClearGetList, AddSequentialized, Goto, itemVars,
       envVars, waitVars, StepsTyped, Statuses
  <2>2. ItemsTyped'
    BY <1>15, <1>a, <2>a, <2>b DEF CatchNotReady, ClearGetList, AddSequentialized, Goto, itemVars,
       envVars, waitVars, ItemsTyped
  <2>3. SchedulerTyped'
    BY <1>15, <1>a, <2>a, <2>b DEF CatchNotReady, ClearGetList, AddSequentialized, Goto, itemVars,
       envVars, waitVars, SchedulerTyped
  <2>4. ThreadsTyped'
    BY <1>15, <1>a, <2>a, <2>b DEF CatchNotReady, ClearGetList, AddSequentialized, Goto, itemVars,
       envVars, waitVars, ThreadsTyped, Pcs
  <2>5. NoneSequential' /\ Control'
    BY <1>15, <1>a, <2>a, <2>b DEF CatchNotReady, ClearGetList, AddSequentialized, Goto, itemVars,
       envVars, waitVars, StepsTyped, ThreadsTyped, NoneSequential, Control
  <2> QED BY <2>1, <2>2, <2>3, <2>4, <2>5
<1>16. ASSUME NEW th \in Threads, Unprotect(th) PROVE Shape'
  <2>a. job[th] \in Steps
    BY <1>16, <1>a DEF Control, Unprotect, ThreadsTyped
  <2>1. StepsTyped'
    BY <1>16, <1>a, <2>a DEF Unprotect, AllArrived, Unsuspend, UnsuspendsLast, Goto, itemVars,
       schedVars, envVars, waitVars, StepsTyped, Statuses
  <2>2. ItemsTyped'
    BY <1>16, <1>a, <2>a DEF Unprotect, AllArrived, Unsuspend, UnsuspendsLast, Goto, itemVars,
       schedVars, envVars, waitVars, ItemsTyped
  <2>3. SchedulerTyped'
    BY <1>16, <1>a, <2>a DEF Unprotect, AllArrived, Unsuspend, UnsuspendsLast, Goto, itemVars,
       schedVars, envVars, waitVars, SchedulerTyped
  <2>4. ThreadsTyped'
    BY <1>16, <1>a, <2>a DEF Unprotect, AllArrived, Unsuspend, UnsuspendsLast, Goto, itemVars,
       schedVars, envVars, waitVars, ThreadsTyped, Pcs
  <2>5. NoneSequential' /\ Control'
    BY <1>16, <1>a, <2>a DEF Unprotect, AllArrived, Unsuspend, UnsuspendsLast, Goto, itemVars,
       schedVars, envVars, waitVars, StepsTyped, ThreadsTyped, NoneSequential, Control
  <2> QED BY <2>1, <2>2, <2>3, <2>4, <2>5
<1>17. ASSUME NEW th \in Threads, LeaveSuspended(th) PROVE Shape'
  <2>1. StepsTyped'
    BY <1>17, <1>a DEF LeaveSuspended, Goto, stepVars, itemVars, envVars, waitVars, StepsTyped,
       Statuses
  <2>2. ItemsTyped'
    BY <1>17, <1>a DEF LeaveSuspended, Goto, stepVars, itemVars, envVars, waitVars, ItemsTyped
  <2>3. SchedulerTyped'
    BY <1>17, <1>a DEF LeaveSuspended, Goto, stepVars, itemVars, envVars, waitVars, SchedulerTyped
  <2>4. ThreadsTyped'
    BY <1>17, <1>a DEF LeaveSuspended, Goto, stepVars, itemVars, envVars, waitVars, ThreadsTyped,
       Pcs
  <2>5. NoneSequential' /\ Control'
    BY <1>17, <1>a DEF LeaveSuspended, Goto, stepVars, itemVars, envVars, waitVars, StepsTyped,
       ThreadsTyped, NoneSequential, Control
  <2> QED BY <2>1, <2>2, <2>3, <2>4, <2>5
<1>18. ASSUME NEW th \in Threads, NEW k \in {"get", "uget"}, NEW i \in Items, GetStored(th, k, i)
       PROVE Shape'
  <2>a. job[th] \in Steps
    BY <1>18, <1>a DEF Control, GetStored, ThreadsTyped
  <2>1. StepsTyped'
    BY <1>18, <1>a, <2>a DEF GetStored, RecordGet, AtOp, Advance, itemVars, schedVars, waitVars,
       StepsTyped, Statuses
  <2>2. ItemsTyped'
    BY <1>18, <1>a, <2>a DEF GetStored, RecordGet, AtOp, Advance, itemVars, schedVars, waitVars,
       ItemsTyped
  <2>3. SchedulerTyped'
    BY <1>18, <1>a, <2>a DEF GetStored, RecordGet, AtOp, Advance, itemVars, schedVars, waitVars,
       SchedulerTyped
  <2>4. ThreadsTyped'
    BY <1>18, <1>a, <2>a DEF GetStored, RecordGet, AtOp, Advance, itemVars, schedVars, waitVars,
       ThreadsTyped, Pcs
  <2>5. NoneSequential' /\ Control'
    BY <1>18, <1>a, <2>a DEF GetStored, RecordGet, AtOp, Advance, itemVars, schedVars, waitVars,
       StepsTyped, ThreadsTyped, NoneSequential, Control
  <2> QED BY <2>1, <2>2, <2>3, <2>4, <2>5
<1>19. ASSUME NEW th \in Threads, NEW i \in Items, GetMissing(th, i) PROVE Shape'
  <2>a. job[th] \in Steps
    BY <1>19, <1>a DEF Control, GetMissing, ThreadsTyped
  <2>d. nSuspenders' \in [Steps -> Int] /\ wasSuspended' \in [Steps -> BOOLEAN] /\ group' \in Groups
    BY <1>19, <1>a, <2>a, SuspendOnEffect DEF GetMissing
  <2> QED
    BY <1>19, <1>a, <2>a, <2>d DEF GetMissing, AtOp, Goto, schedVars, envVars, waitVars, StepsTyped,
       Statuses, ItemsTyped, SchedulerTyped, ThreadsTyped, Pcs, NoneSequential, Control, Groups
<1>20. ASSUME NEW th \in Threads, NEW i \in Items, UnsafeGetMissing(th, i) PROVE Shape'
  <2>a. job[th] \in Steps
    BY <1>20, <1>a DEF Control, UnsafeGetMissing, ThreadsTyped
  <2>d. nSuspenders' \in [Steps -> Int] /\ wasSuspended' \in [Steps -> BOOLEAN] /\ group' \in Groups
    BY <1>20, <1>a, <2>a, SuspendOnEffect DEF UnsafeGetMissing
  <2>f. ip' \in [Threads -> Nat] /\ envIp' \in Nat
    BY <1>20, <1>a, <2>a, <2>d DEF UnsafeGetMissing, Advance, ThreadsTyped
  <2> QED
    BY <1>20, <1>a, <2>a, <2>d, <2>f DEF UnsafeGetMissing, AtOp, schedVars, waitVars, StepsTyped,
       Statuses, ItemsTyped, SchedulerTyped, ThreadsTyped, Pcs, NoneSequential, Control, Groups
<1>21. ASSUME NEW th \in Threads, NEW i \in Items, PutDiscarded(th, i) PROVE Shape'
  <2>1. StepsTyped'
    BY <1>21, <1>a DEF PutDiscarded, AtOp, Advance, stepVars, itemVars, schedVars, waitVars,
       StepsTyped, Statuses
  <2>2. ItemsTyped'
    BY <1>21, <1>a DEF PutDiscarded, AtOp, Advance, stepVars, itemVars, schedVars, waitVars,
       ItemsTyped
  <2>3. SchedulerTyped'
    BY <1>21, <1>a DEF PutDiscarded, AtOp, Advance, stepVars, itemVars, schedVars, waitVars,
       SchedulerTyped
  <2>4. ThreadsTyped'
    BY <1>21, <1>a DEF PutDiscarded, AtOp, Advance, stepVars, itemVars, schedVars, waitVars,
       ThreadsTyped, Pcs
  <2>5. NoneSequential' /\ Control'
    BY <1>21, <1>a DEF PutDiscarded, AtOp, Advance, stepVars, itemVars, schedVars, waitVars,
       StepsTyped, ThreadsTyped, NoneSequential, Control
  <2> QED BY <2>1, <2>2, <2>3, <2>4, <2>5
<1>22. ASSUME NEW th \in Threads, NEW i \in Items, PutStore(th, i) PROVE Shape'
  <2>b. GetCount[i] \in Int /\ UNSET_GET_COUNT \in Int
    BY <1>22, <1>a, ConstantsOK DEF NO_GET_COUNT, UNSET_GET_COUNT
  <2>d. getCount' \in [Items -> Int]
    BY <1>22, <1>a, <2>b DEF PutStore, ItemsTyped
  <2>f. ip' \in [Threads -> Nat] /\ envIp' \in Nat
    BY <1>22, <1>a, <2>b, <2>d DEF PutStore, Advance, ThreadsTyped
  <2>1. StepsTyped'
    BY <1>22, <1>a, <2>b, <2>d, <2>f DEF PutStore, AtOp, Goto, stepVars, schedVars, waitVars,
       StepsTyped, Statuses
  <2>2. ItemsTyped'
    BY <1>22, <1>a, <2>b, <2>d, <2>f DEF PutStore, AtOp, Goto, stepVars, schedVars, waitVars,
       ItemsTyped
  <2>3. SchedulerTyped'
    BY <1>22, <1>a, <2>b, <2>d, <2>f DEF PutStore, AtOp, Goto, stepVars, schedVars, waitVars,
       SchedulerTyped
  <2>4. ThreadsTyped'
    BY <1>22, <1>a, <2>b, <2>d, <2>f DEF PutStore, AtOp, Goto, stepVars, schedVars, waitVars,
       ThreadsTyped, Pcs
  <2>5. NoneSequential' /\ Control'
    BY <1>22, <1>a, <2>b, <2>d, <2>f DEF PutStore, AtOp, Goto, stepVars, schedVars, waitVars,
       StepsTyped, ThreadsTyped, NoneSequential, Control
  <2> QED BY <2>1, <2>2, <2>3, <2>4, <2>5
<1>23. ASSUME NEW th \in Threads, NEW i \in Items, ResumeEnv(th, i) PROVE Shape'
  <2>c. group \in Groups
    BY DEF ItemsTyped, Groups
  <2>d. group' \in Groups
    BY <1>23, <1>a, <2>c, LeaveGroups, JoinGroups DEF ResumeEnv, UnblockForPut
  <2>1. StepsTyped'
    BY <1>23, <1>a, <2>d DEF ResumeEnv, UnblockForPut, stepVars, schedVars, threadVars, waitVars,
       StepsTyped, Statuses
  <2>2. ItemsTyped'
    BY <1>23, <1>a, <2>d DEF ResumeEnv, UnblockForPut, stepVars, schedVars, threadVars, waitVars,
       ItemsTyped, Groups
  <2>3. SchedulerTyped'
    BY <1>23, <1>a, <2>d DEF ResumeEnv, UnblockForPut, stepVars, schedVars, threadVars, waitVars,
       SchedulerTyped
  <2>4. ThreadsTyped'
    BY <1>23, <1>a, <2>d DEF ResumeEnv, UnblockForPut, stepVars, schedVars, threadVars, waitVars,
       ThreadsTyped, Pcs
  <2>5. NoneSequential' /\ Control'
    BY <1>23, <1>a, <2>d DEF ResumeEnv, UnblockForPut, stepVars, schedVars, threadVars, waitVars,
       StepsTyped, ThreadsTyped, NoneSequential, Control
  <2> QED BY <2>1, <2>2, <2>3, <2>4, <2>5
<1>24. ASSUME NEW th \in Threads, NEW i \in Items, EndPut(th, i) PROVE Shape'
  BY <1>24, <1>a DEF EndPut, Goto, stepVars, schedVars, envVars, waitVars, StepsTyped, Statuses,
     ItemsTyped, SchedulerTyped, ThreadsTyped, Pcs, NoneSequential, Control
<1>25. ASSUME NEW th \in Threads, NEW i \in Items, NEW s \in Steps, ResumeStep(th, i, s)
       PROVE Shape'
  <2>c. group \in Groups
    BY DEF ItemsTyped, Groups
  <2>d. group' \in Groups
    BY <1>25, <1>a, <2>c, LeaveGroups, JoinGroups DEF ResumeStep, Unsuspend, UnsuspendsLast, Goto
  <2>1. StepsTyped'
    BY <1>25, <1>a, <2>d DEF ResumeStep, Unsuspend, UnsuspendsLast, Goto, schedVars, envVars,
       waitVars, StepsTyped, Statuses
  <2>2. ItemsTyped'
    BY <1>25, <1>a, <2>d DEF ResumeStep, Unsuspend, UnsuspendsLast, Goto, schedVars, envVars,
       waitVars, ItemsTyped, Groups
  <2>3. SchedulerTyped'
    BY <1>25, <1>a, <2>d DEF ResumeStep, Unsuspend, UnsuspendsLast, Goto, schedVars, envVars,
       waitVars, SchedulerTyped
  <2>4. ThreadsTyped'
    BY <1>25, <1>a, <2>d DEF ResumeStep, Unsuspend, UnsuspendsLast, Goto, schedVars, envVars,
       waitVars, ThreadsTyped, Pcs
  <2>5. NoneSequential' /\ Control'
    BY <1>25, <1>a, <2>d DEF ResumeStep, Unsuspend, UnsuspendsLast, Goto, schedVars, envVars,
       waitVars, StepsTyped, ThreadsTyped, NoneSequential, Control
  <2> QED BY <2>1, <2>2, <2>3, <2>4, <2>5
<1>26. ASSUME NEW th \in Threads, FlushGets(th) PROVE Shape'
  <2>a. job[th] \in Steps
    BY <1>26, <1>a DEF Control, FlushGets, ThreadsTyped
  <2>c. ip' = ip \/ ip' = [ip EXCEPT ![th] = @ + 1]
    BY <1>26, <1>a, <2>a DEF FlushGets
  <2>d. UNCHANGED envIp
    BY <1>26, <1>a, <2>a DEF FlushGets, envVars
  <2>f. ip' \in [Threads -> Nat] /\ envIp' \in Nat
    BY <2>c, <2>d DEF ThreadsTyped
  <2>1. StepsTyped'
    BY <1>26, <1>a, <2>a, <2>f DEF FlushGets, Goto, stepVars, itemVars, schedVars, envVars,
       waitVars, StepsTyped, Statuses
  <2>2. ItemsTyped'
    BY <1>26, <1>a, <2>a, <2>f DEF FlushGets, Goto, stepVars, itemVars, schedVars, envVars,
       waitVars, ItemsTyped
  <2>3. SchedulerTyped'
    BY <1>26, <1>a, <2>a, <2>f DEF FlushGets, Goto, stepVars, itemVars, schedVars, envVars,
       waitVars, SchedulerTyped
  <2>4. ThreadsTyped'
    BY <1>26, <1>a, <2>a, <2>f DEF FlushGets, Goto, stepVars, itemVars, schedVars, envVars,
       waitVars, ThreadsTyped, Pcs
  <2>5. NoneSequential' /\ Control'
    BY <1>26, <1>a, <2>a, <2>f DEF FlushGets, Goto, stepVars, itemVars, schedVars, envVars,
       waitVars, StepsTyped, ThreadsTyped, NoneSequential, Control
  <2> QED BY <2>1, <2>2, <2>3, <2>4, <2>5
<1>27. ASSUME NEW i \in Items, EnvGetStored(i) PROVE Shape'
  <2>1. StepsTyped'
    BY <1>27, <1>a DEF EnvGetStored, EnvAt, AtOp, Goto, stepVars, itemVars, schedVars, waitVars,
       StepsTyped, Statuses
  <2>2. ItemsTyped'
    BY <1>27, <1>a DEF EnvGetStored, EnvAt, AtOp, Goto, stepVars, itemVars, schedVars, waitVars,
       ItemsTyped
  <2>3. SchedulerTyped'
    BY <1>27, <1>a DEF EnvGetStored, EnvAt, AtOp, Goto, stepVars, itemVars, schedVars, waitVars,
       SchedulerTyped
  <2>4. ThreadsTyped'
    BY <1>27, <1>a DEF EnvGetStored, EnvAt, AtOp, Goto, stepVars, itemVars, schedVars, waitVars,
       ThreadsTyped, Pcs
  <2>5. NoneSequential' /\ Control'
    BY <1>27, <1>a DEF EnvGetStored, EnvAt, AtOp, Goto, stepVars, itemVars, schedVars, waitVars,
       StepsTyped, ThreadsTyped, NoneSequential, Control
  <2> QED BY <2>1, <2>2, <2>3, <2>4, <2>5
<1>28. ASSUME NEW i \in Items, EnvGetActive(i) PROVE Shape'
  BY <1>28, <1>a DEF EnvGetActive, EnvAt, AtOp, Goto, stepVars, schedVars, envVars, waitVars,
     StepsTyped, Statuses, ItemsTyped, SchedulerTyped, ThreadsTyped, Pcs, NoneSequential, Control
<1>29. ASSUME NEW i \in Items, EnvBlockForPut(i) PROVE Shape'
  <2>c. group \in Groups
    BY DEF ItemsTyped, Groups
  <2>d. group' \in Groups
    BY <1>29, <1>a, <2>c, LeaveGroups, JoinGroups DEF EnvBlockForPut, SuspendOn, Goto
  <2> QED
    BY <1>29, <1>a, <2>d DEF EnvBlockForPut, SuspendOn, Goto, schedVars, envVars, waitVars,
       StepsTyped, Statuses, ItemsTyped, SchedulerTyped, ThreadsTyped, Pcs, NoneSequential, Control,
       Groups
<1>30. ASSUME NEW i \in Items, EnvGetInactive(i) PROVE Shape'
  BY <1>30, <1>a DEF EnvGetInactive, EnvAt, AtOp, Goto, stepVars, schedVars, envVars, waitVars,
     StepsTyped, Statuses, ItemsTyped, SchedulerTyped, ThreadsTyped, Pcs, NoneSequential, Control
<1>31. ASSUME NEW i \in Items, EnvGetGivesUp(i) PROVE Shape'
  <2>1. StepsTyped'
    BY <1>31, <1>a DEF EnvGetGivesUp, Goto, stepVars, itemVars, schedVars, waitVars, StepsTyped,
       Statuses
  <2>2. ItemsTyped'
    BY <1>31, <1>a DEF EnvGetGivesUp, Goto, stepVars, itemVars, schedVars, waitVars, ItemsTyped
  <2>3. SchedulerTyped'
    BY <1>31, <1>a DEF EnvGetGivesUp, Goto, stepVars, itemVars, schedVars, waitVars, SchedulerTyped
  <2>4. ThreadsTyped'
    BY <1>31, <1>a DEF EnvGetGivesUp, Goto, stepVars, itemVars, schedVars, waitVars, ThreadsTyped,
       Pcs
  <2>5. NoneSequential' /\ Control'
    BY <1>31, <1>a DEF EnvGetGivesUp, Goto, stepVars, itemVars, schedVars, waitVars, StepsTyped,
       ThreadsTyped, NoneSequential, Control
  <2> QED BY <2>1, <2>2, <2>3, <2>4, <2>5
<1>32. ASSUME EnvUnblock PROVE Shape'
  <2>1. StepsTyped'
    BY <1>32, <1>a DEF EnvUnblock, Goto, stepVars, itemVars, schedVars, waitVars, StepsTyped,
       Statuses
  <2>2. ItemsTyped'
    BY <1>32, <1>a DEF EnvUnblock, Goto, stepVars, itemVars, schedVars, waitVars, ItemsTyped
  <2>3. SchedulerTyped'
    BY <1>32, <1>a DEF EnvUnblock, Goto, stepVars, itemVars, schedVars, waitVars, SchedulerTyped
  <2>4. ThreadsTyped'
    BY <1>32, <1>a DEF EnvUnblock, Goto, stepVars, itemVars, schedVars, waitVars, ThreadsTyped, Pcs
  <2>5. NoneSequential' /\ Control'
    BY <1>32, <1>a DEF EnvUnblock, Goto, stepVars, itemVars, schedVars, waitVars, StepsTyped,
       ThreadsTyped, NoneSequential, Control
  <2> QED BY <2>1, <2>2, <2>3, <2>4, <2>5
<1>33. ASSUME EnvWait PROVE Shape'
  <2>1. StepsTyped'
    BY <1>33, <1>a DEF EnvWait, Goto, stepVars, itemVars, StepsTyped, Statuses
  <2>2. ItemsTyped'
    BY <1>33, <1>a DEF EnvWait, Goto, stepVars, itemVars, ItemsTyped
  <2>3. SchedulerTyped'
    BY <1>33, <1>a DEF EnvWait, Goto, stepVars, itemVars, SchedulerTyped
  <2>4. ThreadsTyped'
    BY <1>33, <1>a DEF EnvWait, Goto, stepVars, itemVars, ThreadsTyped, Pcs
  <2>5. NoneSequential' /\ Control'
    BY <1>33, <1>a DEF EnvWait, Goto, stepVars, itemVars, StepsTyped, ThreadsTyped, NoneSequential,
       Control
  <2> QED BY <2>1, <2>2, <2>3, <2>4, <2>5
<1>34. ASSUME WaitLockSteps PROVE Shape'
  <2>1. StepsTyped'
    BY <1>34, <1>a DEF WaitLockSteps, InSeq, itemVars, threadVars, StepsTyped, Statuses
  <2>2. ItemsTyped'
    BY <1>34, <1>a DEF WaitLockSteps, InSeq, itemVars, threadVars, ItemsTyped
  <2>3. SchedulerTyped'
    BY <1>34, <1>a DEF WaitLockSteps, InSeq, itemVars, threadVars, SchedulerTyped
  <2>4. ThreadsTyped'
    BY <1>34, <1>a DEF WaitLockSteps, InSeq, itemVars, threadVars, ThreadsTyped, Pcs
  <2>5. NoneSequential' /\ Control'
    BY <1>34, <1>a DEF WaitLockSteps, InSeq, itemVars, threadVars, StepsTyped, ThreadsTyped,
       NoneSequential, Control
  <2> QED BY <2>1, <2>2, <2>3, <2>4, <2>5
<1>35. ASSUME WaitRunSequential PROVE FALSE
  BY <1>35 DEF NoneSequential, WaitRunSequential, Goto
<1>36. ASSUME WaitEndSequential PROVE Shape'
  <2>1. StepsTyped'
    BY <1>36, <1>a DEF WaitEndSequential, PendingCount, stepVars, itemVars, schedVars, threadVars,
       StepsTyped, Statuses
  <2>2. ItemsTyped'
    BY <1>36, <1>a DEF WaitEndSequential, PendingCount, stepVars, itemVars, schedVars, threadVars,
       ItemsTyped
  <2>3. SchedulerTyped'
    BY <1>36, <1>a DEF WaitEndSequential, PendingCount, stepVars, itemVars, schedVars, threadVars,
       SchedulerTyped
  <2>4. ThreadsTyped'
    BY <1>36, <1>a DEF WaitEndSequential, PendingCount, stepVars, itemVars, schedVars, threadVars,
       ThreadsTyped, Pcs
  <2>5. NoneSequential' /\ Control'
    BY <1>36, <1>a DEF WaitEndSequential, PendingCount, stepVars, itemVars, schedVars, threadVars,
       StepsTyped, ThreadsTyped, NoneSequential, Control
  <2> QED BY <2>1, <2>2, <2>3, <2>4, <2>5
<1>37. ASSUME WaitRepost PROVE FALSE
  BY <1>37 DEF NoneSequential, WaitRepost, Goto
<1>38. ASSUME WaitAgain PROVE Shape'
  <2>1. StepsTyped'
    BY <1>38, <1>a DEF WaitAgain, stepVars, itemVars, schedVars, threadVars, StepsTyped, Statuses
  <2>2. ItemsTyped'
    BY <1>38, <1>a DEF WaitAgain, stepVars, itemVars, schedVars, threadVars, ItemsTyped
  <2>3. SchedulerTyped'
    BY <1>38, <1>a DEF WaitAgain, stepVars, itemVars, schedVars, threadVars, SchedulerTyped
  <2>4. ThreadsTyped'
    BY <1>38, <1>a DEF WaitAgain, stepVars, itemVars, schedVars, threadVars, ThreadsTyped, Pcs
  <2>5. NoneSequential' /\ Control'
    BY <1>38, <1>a DEF WaitAgain, stepVars, itemVars, schedVars, threadVars, StepsTyped,
       ThreadsTyped, NoneSequential, Control
  <2> QED BY <2>1, <2>2, <2>3, <2>4, <2>5
<1>39. ASSUME WaitReturn PROVE Shape'
  <2>1. StepsTyped'
    BY <1>39, <1>a DEF WaitReturn, Goto, stepVars, itemVars, StepsTyped, Statuses
  <2>2. ItemsTyped'
    BY <1>39, <1>a DEF WaitReturn, Goto, stepVars, itemVars, ItemsTyped
  <2>3. SchedulerTyped'
    BY <1>39, <1>a DEF WaitReturn, Goto, stepVars, itemVars, SchedulerTyped
  <2>4. ThreadsTyped'
    BY <1>39, <1>a DEF WaitReturn, Goto, stepVars, itemVars, ThreadsTyped, Pcs
  <2>5. NoneSequential' /\ Control'
    BY <1>39, <1>a DEF WaitReturn, Goto, stepVars, itemVars, StepsTyped, ThreadsTyped,
       NoneSequential, Control
  <2> QED BY <2>1, <2>2, <2>3, <2>4, <2>5
<1>40. ASSUME UNCHANGED vars PROVE Shape'
  BY <1>40 DEF vars, stepVars, itemVars, schedVars, threadVars, envVars, waitVars, StepsTyped,
     ItemsTyped,
     SchedulerTyped, ThreadsTyped, NoneSequential, Control
<1> QED
  BY <1>1, <1>2, <1>3, <1>4, <1>5, <1>6, <1>7, <1>8, <1>9, <1>10, <1>11, <1>12, <1>13, <1>14, <1>15,
     <1>16, <1>17, <1>18, <1>19, <1>20, <1>21, <1>22, <1>23, <1>24, <1>25, <1>26, <1>27, <1>28,
     <1>29, <1>30, <1>31, <1>32, <1>33, <1>34, <1>35, <1>36, <1>37, <1>38, <1>39, <1>40 DEF Next,
     ThreadStep, Prepare, Schedule,
     Execute, Access, Environment, Terminated

\* No step breaks the accessor discipline of the item table.
LEMMA LockingStep ==
    ASSUME Sequentialize = {}, Shape, Locking, [Next]_vars
    PROVE  Locking'
<1> USE DEF Shape, Typed
<1>a. Env \in Threads /\ Null \notin Steps /\ Null \notin Threads
  BY ConstantsOK DEF Threads
<1>b. group \in Groups
  BY DEF ItemsTyped, Groups
<1>c. UNSET_GET_COUNT \in Int /\ UNSET_GET_COUNT <= 0
  BY SMT DEF UNSET_GET_COUNT
<1>1. ASSUME NEW th \in Threads, NEW t \in Steps, PutTag(th, t) PROVE Locking'
  BY <1>1, <1>a DEF PutTag, Goto, AtOp, Advance, itemVars, schedVars, waitVars, Locking,
     HolderInPlace, OneAccessor, CountedIfStored, GroupAwaitsPut, LockHolder, ItemsTyped,
     ThreadsTyped, Control, NoneSequential
<1>2. ASSUME NEW th \in Threads, NEW i \in Items, DependOn(th, i) PROVE Locking'
  <2>a. tgt[th] \in Steps
    BY <1>2, <1>a DEF Control, DependOn, ThreadsTyped
  <2>b. \A j \in Items, t \in Steps : group'[j][t] > 0 => group[j][t] > 0 \/ (j = i /\ item'[i] = "entry")
    <3>1. CASE item[i] = "stored"
      BY <1>2, <1>a, <3>1 DEF DependOn
    <3>2. CASE item[i] # "stored"
      <4>1. item'[i] = "entry"
        BY <1>2, <1>a, <3>2 DEF DependOn, ItemsTyped
      <4>2. \A j \in Items, t \in Steps :
              group'[j][t] = IF j = i /\ t = tgt[th] THEN group[j][t] + 1 ELSE group[j][t]
        BY <1>2, <1>a, <2>a, <3>2, SuspendOnEffect DEF DependOn
      <4> QED BY <4>1, <4>2
    <3> QED BY <3>1, <3>2
  <2>c. \A j \in Items : item'[j] = item[j] \/ (j = i /\ lock[i] = Null /\ item[i] # "stored" /\ item'[j] = "entry")
    BY <1>2, <1>a DEF DependOn, ItemsTyped
  <2>1. HolderInPlace'
    BY <1>2, <1>a, <2>b, <2>c DEF DependOn, schedVars, envVars, waitVars, Locking, LockHolder,
       HolderInPlace, ItemsTyped, ThreadsTyped
  <2>2. OneAccessor'
    BY <1>2, <1>a, <2>b, <2>c DEF DependOn, schedVars, envVars, waitVars, Locking, HolderInPlace,
       LockHolder, OneAccessor, ItemsTyped, ThreadsTyped
  <2>3. CountedIfStored'
    BY <1>2, <1>a, <2>b, <2>c, <1>c DEF DependOn, schedVars, envVars, waitVars, Locking,
       CountedIfStored, ItemsTyped, ThreadsTyped
  <2>4. GroupAwaitsPut'
    BY <1>2, <1>a, <2>b, <2>c DEF DependOn, schedVars, envVars, waitVars, Locking, HolderInPlace,
       LockHolder, GroupAwaitsPut, ItemsTyped, ThreadsTyped
  <2> QED BY <2>1, <2>2, <2>3, <2>4 DEF Locking
<1>3. ASSUME NEW th \in Threads, EndPrepare(th) PROVE Locking'
  BY <1>3, <1>a DEF EndPrepare, Unsuspend, UnsuspendsLast, Goto, itemVars, schedVars, envVars,
     waitVars, Locking, HolderInPlace, OneAccessor, CountedIfStored, GroupAwaitsPut, LockHolder,
     ItemsTyped, ThreadsTyped, Control, NoneSequential
<1>4. ASSUME NEW th \in Threads, SequentializePrepared(th) PROVE FALSE
  BY <1>4 DEF NoneSequential, SequentializePrepared, AddSequentialized, Goto
<1>5. ASSUME NEW th \in Threads, CheckDone(th) PROVE Locking'
  BY <1>5, <1>a DEF CheckDone, Goto, itemVars, schedVars, envVars, waitVars, Locking, HolderInPlace,
     OneAccessor, CountedIfStored, GroupAwaitsPut, LockHolder, ItemsTyped, ThreadsTyped, Control,
     NoneSequential
<1>6. ASSUME NEW th \in Threads, ScheduleDefer(th) PROVE Locking'
  BY <1>6, <1>a DEF ScheduleDefer, CurrentIsSequentialized, Return, Goto, itemVars, envVars,
     waitVars, Locking, HolderInPlace, OneAccessor, CountedIfStored, GroupAwaitsPut, LockHolder,
     ItemsTyped, ThreadsTyped, Control, NoneSequential
<1>7. ASSUME NEW th \in Threads, ScheduleCount(th) PROVE Locking'
  BY <1>7, <1>a DEF ScheduleCount, CountStep, Goto, stepVars, itemVars, envVars, waitVars, Locking,
     HolderInPlace, OneAccessor, CountedIfStored, GroupAwaitsPut, LockHolder, ItemsTyped,
     ThreadsTyped, Control, NoneSequential
<1>8. ASSUME NEW th \in Threads, ScheduleEnqueue(th) PROVE Locking'
  BY <1>8, <1>a DEF ScheduleEnqueue, Return, Goto, stepVars, itemVars, envVars, waitVars, Locking,
     HolderInPlace, OneAccessor, CountedIfStored, GroupAwaitsPut, LockHolder, ItemsTyped,
     ThreadsTyped, Control, NoneSequential
<1>9. ASSUME NEW th \in Threads, NEW s \in Steps, TakeStep(th, s) PROVE Locking'
  BY <1>9, <1>a DEF TakeStep, Goto, stepVars, itemVars, envVars, waitVars, Locking, HolderInPlace,
     OneAccessor, CountedIfStored, GroupAwaitsPut, LockHolder, ItemsTyped, ThreadsTyped, Control,
     NoneSequential
<1>10. ASSUME NEW th \in Threads, BeginExecute(th) PROVE Locking'
  BY <1>10, <1>a DEF BeginExecute, Protect, Goto, itemVars, schedVars, envVars, waitVars, Locking,
     HolderInPlace, OneAccessor, CountedIfStored, GroupAwaitsPut, LockHolder, ItemsTyped,
     ThreadsTyped, Control, NoneSequential
<1>11. ASSUME NEW th \in Threads, DecrementRefCount(th) PROVE Locking'
  <2>a. job[th] \in Steps
    BY <1>11, <1>a DEF DecrementRefCount, AtBodyEnd, ThreadsTyped
  <2>c. \A j \in Items :
          \/ item'[j] = item[j] /\ (getCount'[j] <= getCount[j] \/ getCount'[j] = -1)
          \/ /\ getCount[j] = 1 /\ lock[j] = Null
             /\ item'[j] = "none" /\ getCount'[j] = UNSET_GET_COUNT
    <3>1. PICK i \in Items :
              \/ UNCHANGED <<item, getCount>>
              \/ /\ getCount[i] = 1 /\ lock[i] = Null
                 /\ item' = [item EXCEPT ![i] = "none"]
                 /\ getCount' = [getCount EXCEPT ![i] = UNSET_GET_COUNT]
              \/ \E n \in Int : /\ n = -1 \/ n = getCount[i] - 1
                                /\ item' = item /\ getCount' = [getCount EXCEPT ![i] = n]
      BY <1>11, <2>a, DecrementEffect
    <3> QED BY <3>1 DEF ItemsTyped
  <2>d. getCount' \in [Items -> Int] /\ UNCHANGED <<group, lock>>
    <3>1. getCount' \in [Items -> Int]
      BY <1>11, <1>c, <2>a, DecrementEffect DEF ItemsTyped
    <3> QED BY <1>11, <3>1 DEF DecrementRefCount
  <2>e. \A j \in Items : lock[j] # th
    BY <1>11, <1>a DEF DecrementRefCount, AtBodyEnd, Locking, HolderInPlace, LockHolder
  <2>f. UNCHANGED ret /\ \A u \in Threads : u # th => pc'[u] = pc[u]
    BY <1>11 DEF DecrementRefCount, Goto, ThreadsTyped
  <2>1. HolderInPlace'
    <3> SUFFICES ASSUME NEW j \in Items, lock[j] # Null PROVE LockHolder(j, lock[j])'
      BY <2>d DEF HolderInPlace
    <3>1. item'[j] = item[j] /\ lock[j] \in Threads /\ lock[j] # th
      BY <2>c, <2>e DEF ItemsTyped
    <3> QED BY <2>d, <2>f, <3>1 DEF Locking, HolderInPlace, LockHolder
  <2>2. OneAccessor'
    BY <2>d DEF Locking, OneAccessor
  <2>3. CountedIfStored'
    BY <1>c, <2>c, <2>d DEF Locking, CountedIfStored, ItemsTyped
  <2>4. GroupAwaitsPut'
    BY <1>c, <2>c, <2>d DEF Locking, CountedIfStored, GroupAwaitsPut, ItemsTyped
  <2> QED BY <2>1, <2>2, <2>3, <2>4 DEF Locking
<1>12. ASSUME NEW th \in Threads, Succeed(th) PROVE Locking'
  BY <1>12, <1>a DEF Succeed, AtBodyEnd, Goto, itemVars, schedVars, envVars, waitVars, Locking,
     HolderInPlace, OneAccessor, CountedIfStored, GroupAwaitsPut, LockHolder, ItemsTyped,
     ThreadsTyped, Control, NoneSequential
<1>13. ASSUME NEW th \in Threads, LeaveSucceeded(th) PROVE Locking'
  BY <1>13, <1>a DEF LeaveSucceeded, Goto, stepVars, itemVars, envVars, waitVars, Locking,
     HolderInPlace, OneAccessor, CountedIfStored, GroupAwaitsPut, LockHolder, ItemsTyped,
     ThreadsTyped, Control, NoneSequential
<1>14. ASSUME NEW th \in Threads, DeleteStep(th) PROVE Locking'
  BY <1>14, <1>a DEF DeleteStep, Goto, itemVars, schedVars, envVars, waitVars, Locking,
     HolderInPlace, OneAccessor, CountedIfStored, GroupAwaitsPut, LockHolder, ItemsTyped,
     ThreadsTyped, Control, NoneSequential
<1>15. ASSUME NEW th \in Threads, CatchNotReady(th) PROVE Locking'
  BY <1>15, <1>a DEF CatchNotReady, ClearGetList, AddSequentialized, Goto, itemVars, envVars,
     waitVars, Locking, HolderInPlace, OneAccessor, CountedIfStored, GroupAwaitsPut, LockHolder,
     ItemsTyped, ThreadsTyped, Control, NoneSequential
<1>16. ASSUME NEW th \in Threads, Unprotect(th) PROVE Locking'
  BY <1>16, <1>a DEF Unprotect, AllArrived, Unsuspend, UnsuspendsLast, Goto, itemVars, schedVars,
     envVars, waitVars, Locking, HolderInPlace, OneAccessor, CountedIfStored, GroupAwaitsPut,
     LockHolder, ItemsTyped, ThreadsTyped, Control, NoneSequential
<1>17. ASSUME NEW th \in Threads, LeaveSuspended(th) PROVE Locking'
  BY <1>17, <1>a DEF LeaveSuspended, Goto, stepVars, itemVars, envVars, waitVars, Locking,
     HolderInPlace, OneAccessor, CountedIfStored, GroupAwaitsPut, LockHolder, ItemsTyped,
     ThreadsTyped, Control, NoneSequential
<1>18. ASSUME NEW th \in Threads, NEW k \in {"get", "uget"}, NEW i \in Items, GetStored(th, k, i)
       PROVE Locking'
  BY <1>18, <1>a DEF GetStored, RecordGet, AtOp, Advance, itemVars, schedVars, waitVars, Locking,
     HolderInPlace, OneAccessor, CountedIfStored, GroupAwaitsPut, LockHolder, ItemsTyped,
     ThreadsTyped, Control, NoneSequential
<1>19. ASSUME NEW th \in Threads, NEW i \in Items, GetMissing(th, i) PROVE Locking'
  <2>a. job[th] \in Steps
    BY <1>19, <1>a DEF GetMissing, ThreadsTyped
  <2>b. \A j \in Items, t \in Steps : group'[j][t] > 0 => group[j][t] > 0 \/ j = i
    BY <1>19, <1>a, <2>a, SuspendOnEffect DEF GetMissing
  <2> QED BY <1>19, <1>a, <2>b DEF GetMissing, AtOp, Goto, schedVars, envVars, waitVars, Locking,
     HolderInPlace, OneAccessor, CountedIfStored, GroupAwaitsPut, LockHolder, ItemsTyped,
     ThreadsTyped, Control, NoneSequential
<1>20. ASSUME NEW th \in Threads, NEW i \in Items, UnsafeGetMissing(th, i) PROVE Locking'
  <2>a. job[th] \in Steps
    BY <1>20, <1>a DEF UnsafeGetMissing, ThreadsTyped
  <2>b. \A j \in Items, t \in Steps : group'[j][t] > 0 => group[j][t] > 0 \/ j = i
    BY <1>20, <1>a, <2>a, SuspendOnEffect DEF UnsafeGetMissing
  <2> QED BY <1>20, <1>a, <2>b DEF UnsafeGetMissing, AtOp, Advance, schedVars, waitVars, Locking,
     HolderInPlace, OneAccessor, CountedIfStored, GroupAwaitsPut, LockHolder, ItemsTyped,
     ThreadsTyped, Control, NoneSequential
<1>21. ASSUME NEW th \in Threads, NEW i \in Items, PutDiscarded(th, i) PROVE Locking'
  BY <1>21, <1>a DEF PutDiscarded, AtOp, Advance, stepVars, itemVars, schedVars, waitVars, Locking,
     HolderInPlace, OneAccessor, CountedIfStored, GroupAwaitsPut, LockHolder, ItemsTyped,
     ThreadsTyped, Control, NoneSequential
<1>22. ASSUME NEW th \in Threads, NEW i \in Items, PutStore(th, i) PROVE Locking'
  <2>1. HolderInPlace'
    BY <1>22, <1>a DEF PutStore, AtOp, Advance, Goto, stepVars, schedVars, waitVars, Locking,
       LockHolder, HolderInPlace, ItemsTyped, ThreadsTyped
  <2>2. OneAccessor'
    BY <1>22, <1>a DEF PutStore, AtOp, Advance, Goto, stepVars, schedVars, waitVars, Locking,
       HolderInPlace, LockHolder, OneAccessor, ItemsTyped, ThreadsTyped
  <2>3. CountedIfStored'
    BY <1>22, <1>a, <1>c DEF PutStore, AtOp, Advance, Goto, stepVars, schedVars, waitVars, Locking,
       CountedIfStored, ItemsTyped, ThreadsTyped
  <2>4. GroupAwaitsPut'
    BY <1>22, <1>a DEF PutStore, AtOp, Advance, Goto, stepVars, schedVars, waitVars, Locking,
       HolderInPlace, LockHolder, GroupAwaitsPut, ItemsTyped, ThreadsTyped
  <2> QED BY <2>1, <2>2, <2>3, <2>4 DEF Locking
<1>23. ASSUME NEW th \in Threads, NEW i \in Items, ResumeEnv(th, i) PROVE Locking'
  <2>a. group' = Leave(group, i, Null) /\ group[i][Null] > 0
    BY <1>23, <1>a DEF ResumeEnv
  <2>c. \A j \in Items, t \in Steps : group'[j][t] = IF j = i /\ t = Null THEN group[j][t] - 1 ELSE group[j][t]
    BY <1>b, <2>a, LeaveGroups
  <2>b. \A j \in Items, t \in Steps : group'[j][t] > 0 => group[j][t] > 0
    BY <1>a, <1>b, <2>c DEF Groups
  <2>1. HolderInPlace'
    BY <1>23, <1>a, <2>b DEF ResumeEnv, UnblockForPut, stepVars, schedVars, threadVars, waitVars,
       Locking, LockHolder, HolderInPlace, ItemsTyped, ThreadsTyped
  <2>2. OneAccessor'
    BY <1>23, <1>a, <2>b DEF ResumeEnv, UnblockForPut, stepVars, schedVars, threadVars, waitVars,
       Locking, HolderInPlace, LockHolder, OneAccessor, ItemsTyped, ThreadsTyped
  <2>3. CountedIfStored'
    BY <1>23, <1>a, <2>b, <1>c DEF ResumeEnv, UnblockForPut, stepVars, schedVars, threadVars,
       waitVars, Locking, CountedIfStored, ItemsTyped, ThreadsTyped
  <2>4. GroupAwaitsPut'
    BY <1>23, <1>a, <2>b DEF ResumeEnv, UnblockForPut, stepVars, schedVars, threadVars, waitVars,
       Locking, HolderInPlace, LockHolder, GroupAwaitsPut, ItemsTyped, ThreadsTyped
  <2> QED BY <2>1, <2>2, <2>3, <2>4 DEF Locking
<1>24. ASSUME NEW th \in Threads, NEW i \in Items, EndPut(th, i) PROVE Locking'
  BY <1>24, <1>a DEF EndPut, Goto, stepVars, schedVars, envVars, waitVars, Locking, HolderInPlace,
     OneAccessor, CountedIfStored, GroupAwaitsPut, LockHolder, ItemsTyped, ThreadsTyped, Control,
     NoneSequential
<1>25. ASSUME NEW th \in Threads, NEW i \in Items, NEW s \in Steps, ResumeStep(th, i, s)
       PROVE Locking'
  <2>a. group' = Leave(group, i, s) /\ group[i][s] > 0
    BY <1>25, <1>a DEF ResumeStep
  <2>c. \A j \in Items, t \in Steps : group'[j][t] = IF j = i /\ t = s THEN group[j][t] - 1 ELSE group[j][t]
    BY <1>b, <2>a, LeaveGroups
  <2>b. \A j \in Items, t \in Steps : group'[j][t] > 0 => group[j][t] > 0
    BY <1>a, <1>b, <2>c DEF Groups
  <2>1. HolderInPlace'
    BY <1>25, <1>a, <2>b DEF ResumeStep, Unsuspend, UnsuspendsLast, Goto, schedVars, envVars,
       waitVars, Locking, LockHolder, HolderInPlace, ItemsTyped, ThreadsTyped
  <2>2. OneAccessor'
    BY <1>25, <1>a, <2>b DEF ResumeStep, Unsuspend, UnsuspendsLast, Goto, schedVars, envVars,
       waitVars, Locking, HolderInPlace, LockHolder, OneAccessor, ItemsTyped, ThreadsTyped
  <2>3. CountedIfStored'
    BY <1>25, <1>a, <2>b, <1>c DEF ResumeStep, Unsuspend, UnsuspendsLast, Goto, schedVars, envVars,
       waitVars, Locking, CountedIfStored, ItemsTyped, ThreadsTyped
  <2>4. GroupAwaitsPut'
    BY <1>25, <1>a, <2>b DEF ResumeStep, Unsuspend, UnsuspendsLast, Goto, schedVars, envVars,
       waitVars, Locking, HolderInPlace, LockHolder, GroupAwaitsPut, ItemsTyped, ThreadsTyped
  <2> QED BY <2>1, <2>2, <2>3, <2>4 DEF Locking
<1>26. ASSUME NEW th \in Threads, FlushGets(th) PROVE Locking'
  BY <1>26, <1>a DEF FlushGets, Goto, stepVars, itemVars, schedVars, envVars, waitVars, Locking,
     HolderInPlace, OneAccessor, CountedIfStored, GroupAwaitsPut, LockHolder, ItemsTyped,
     ThreadsTyped, Control, NoneSequential
<1>27. ASSUME NEW i \in Items, EnvGetStored(i) PROVE Locking'
  BY <1>27, <1>a DEF EnvGetStored, EnvAt, AtOp, Goto, stepVars, itemVars, schedVars, waitVars,
     Locking, HolderInPlace, OneAccessor, CountedIfStored, GroupAwaitsPut, LockHolder, ItemsTyped,
     ThreadsTyped, Control, NoneSequential
<1>28. ASSUME NEW i \in Items, EnvGetActive(i) PROVE Locking'
  <2>1. HolderInPlace'
    BY <1>28, <1>a DEF EnvGetActive, EnvAt, AtOp, Goto, stepVars, schedVars, envVars, waitVars,
       Locking, LockHolder, HolderInPlace, ItemsTyped, ThreadsTyped
  <2>2. OneAccessor'
    BY <1>28, <1>a DEF EnvGetActive, EnvAt, AtOp, Goto, stepVars, schedVars, envVars, waitVars,
       Locking, HolderInPlace, LockHolder, OneAccessor, ItemsTyped, ThreadsTyped
  <2>3. CountedIfStored'
    BY <1>28, <1>a, <1>c DEF EnvGetActive, EnvAt, AtOp, Goto, stepVars, schedVars, envVars,
       waitVars, Locking, CountedIfStored, ItemsTyped, ThreadsTyped
  <2>4. GroupAwaitsPut'
    BY <1>28, <1>a DEF EnvGetActive, EnvAt, AtOp, Goto, stepVars, schedVars, envVars, waitVars,
       Locking, HolderInPlace, LockHolder, GroupAwaitsPut, ItemsTyped, ThreadsTyped
  <2> QED BY <2>1, <2>2, <2>3, <2>4 DEF Locking
<1>29. ASSUME NEW i \in Items, EnvBlockForPut(i) PROVE Locking'
  <2>a. group' = Join(group, i, Null)
    BY <1>29, <1>a DEF EnvBlockForPut, SuspendOn
  <2>c. \A j \in Items, t \in Steps : group'[j][t] = IF j = i /\ t = Null THEN group[j][t] + 1 ELSE group[j][t]
    BY <1>b, <2>a, JoinGroups
  <2>b. \A j \in Items, t \in Steps : group'[j][t] > 0 => group[j][t] > 0
    BY <1>a, <1>b, <2>c DEF Groups
  <2>1. HolderInPlace'
    BY <1>29, <1>a, <2>b DEF EnvBlockForPut, SuspendOn, Goto, schedVars, envVars, waitVars, Locking,
       LockHolder, OneAccessor, HolderInPlace, ItemsTyped, ThreadsTyped
  <2>2. OneAccessor'
    BY <1>29, <1>a, <2>b DEF EnvBlockForPut, SuspendOn, Goto, schedVars, envVars, waitVars, Locking,
       HolderInPlace, LockHolder, OneAccessor, ItemsTyped, ThreadsTyped
  <2>3. CountedIfStored'
    BY <1>29, <1>a, <2>b, <1>c DEF EnvBlockForPut, SuspendOn, Goto, schedVars, envVars, waitVars,
       Locking, CountedIfStored, ItemsTyped, ThreadsTyped
  <2>4. GroupAwaitsPut'
    BY <1>29, <1>a, <2>b DEF EnvBlockForPut, SuspendOn, Goto, schedVars, envVars, waitVars, Locking,
       HolderInPlace, LockHolder, GroupAwaitsPut, ItemsTyped, ThreadsTyped
  <2> QED BY <2>1, <2>2, <2>3, <2>4 DEF Locking
<1>30. ASSUME NEW i \in Items, EnvGetInactive(i) PROVE Locking'
  BY <1>30, <1>a DEF EnvGetInactive, EnvAt, AtOp, Goto, stepVars, schedVars, envVars, waitVars,
     Locking, HolderInPlace, OneAccessor, CountedIfStored, GroupAwaitsPut, LockHolder, ItemsTyped,
     ThreadsTyped, Control, NoneSequential
<1>31. ASSUME NEW i \in Items, EnvGetGivesUp(i) PROVE Locking'
  BY <1>31, <1>a DEF EnvGetGivesUp, Goto, stepVars, itemVars, schedVars, waitVars, Locking,
     HolderInPlace, OneAccessor, CountedIfStored, GroupAwaitsPut, LockHolder, ItemsTyped,
     ThreadsTyped, Control, NoneSequential
<1>32. ASSUME EnvUnblock PROVE Locking'
  BY <1>32, <1>a DEF EnvUnblock, Goto, stepVars, itemVars, schedVars, waitVars, Locking,
     HolderInPlace, OneAccessor, CountedIfStored, GroupAwaitsPut, LockHolder, ItemsTyped,
     ThreadsTyped, Control, NoneSequential
<1>33. ASSUME EnvWait PROVE Locking'
  BY <1>33, <1>a DEF EnvWait, Goto, stepVars, itemVars, Locking, HolderInPlace, OneAccessor,
     CountedIfStored, GroupAwaitsPut, LockHolder, ItemsTyped, ThreadsTyped, Control, NoneSequential
<1>34. ASSUME WaitLockSteps PROVE Locking'
  BY <1>34, <1>a DEF WaitLockSteps, InSeq, itemVars, threadVars, Locking, HolderInPlace,
     OneAccessor, CountedIfStored, GroupAwaitsPut, LockHolder, ItemsTyped, ThreadsTyped, Control,
     NoneSequential
<1>35. ASSUME WaitRunSequential PROVE FALSE
  BY <1>35 DEF NoneSequential, WaitRunSequential, Goto
<1>36. ASSUME WaitEndSequential PROVE Locking'
  BY <1>36, <1>a DEF WaitEndSequential, PendingCount, stepVars, itemVars, schedVars, threadVars,
     Locking, HolderInPlace, OneAccessor, CountedIfStored, GroupAwaitsPut, LockHolder, ItemsTyped,
     ThreadsTyped, Control, NoneSequential
<1>37. ASSUME WaitRepost PROVE FALSE
  BY <1>37 DEF NoneSequential, WaitRepost, Goto
<1>38. ASSUME WaitAgain PROVE Locking'
  BY <1>38, <1>a DEF WaitAgain, stepVars, itemVars, schedVars, threadVars, Locking, HolderInPlace,
     OneAccessor, CountedIfStored, GroupAwaitsPut, LockHolder, ItemsTyped, ThreadsTyped, Control,
     NoneSequential
<1>39. ASSUME WaitReturn PROVE Locking'
  BY <1>39, <1>a DEF WaitReturn, Goto, stepVars, itemVars, Locking, HolderInPlace, OneAccessor,
     CountedIfStored, GroupAwaitsPut, LockHolder, ItemsTyped, ThreadsTyped, Control, NoneSequential
<1>40. ASSUME UNCHANGED vars PROVE Locking'
  BY <1>40 DEF vars, itemVars, threadVars, Locking, HolderInPlace, OneAccessor, CountedIfStored,
     GroupAwaitsPut, LockHolder
<1> QED
  BY <1>1, <1>2, <1>3, <1>4, <1>5, <1>6, <1>7, <1>8, <1>9, <1>10, <1>11, <1>12, <1>13, <1>14, <1>15,
     <1>16, <1>17, <1>18, <1>19, <1>20, <1>21, <1>22, <1>23, <1>24, <1>25, <1>26, <1>27, <1>28,
     <1>29, <1>30, <1>31, <1>32, <1>33, <1>34, <1>35, <1>36, <1>37, <1>38, <1>39, <1>40 DEF Next,
     ThreadStep, Prepare, Schedule,
     Execute, Access, Environment, Terminated

-----------------------------------------------------------------------------
(***************************************************************************)
(* Ownership and Counting, step instance by step instance.                 *)
(***************************************************************************)

\* The thread is about to run s, or to give it to a queue.
ReadyIn(th, s) ==
    \/ tgt[th] = s /\ pc[th] \in {"schedule", "enqueue"}
    \/ job[th] = s /\ pc[th] = "begin"

StatusFits(th, s) ==
    /\ tgt[th] = s /\ pc[th] = "depends" => status[s] = "Unprepared"
    /\ tgt[th] = s /\ pc[th] \in {"schedule", "enqueue"} => status[s] = "Prepared"
    /\ job[th] = s =>
         status[s] = IF pc[th] \in {"succeeded", "delete"} THEN "Done" ELSE "Prepared"

StepOwned(s) ==
    /\ status[s] = "None" => Unborn(s)
    /\ queue[s] > 0 => status[s] = "Prepared"
    /\ status[s] = "Unprepared" => \E th \in Threads : tgt[th] = s /\ pc[th] = "depends"
    /\ \A th \in Threads : StatusFits(th, s)
    /\ queue[s] <= 1
    /\ \A th \in Threads : Holds(th, s) => queue[s] = 0
    /\ \A th1, th2 \in Threads : Holds(th1, s) /\ Holds(th2, s) => th1 = th2

StepCounted(s) ==
    /\ queue[s] > 0 \/ (\E th \in Threads : ReadyIn(th, s)) => nSuspenders[s] = 0
    /\ status[s] \notin {"None", "Done"} /\ Free(s) => nSuspenders[s] >= 1
    /\ IsFiniteSet(Registrations(group, s))
    /\ nSuspenders[s] = Cardinality(Registrations(group, s)) + (IF Guarded(s) THEN 1 ELSE 0)

StepInv(s) == StepOwned(s) /\ StepCounted(s)

\* The invariant says the same of every instance.
LEMMA PerStep == Shape => (Ownership /\ Counting <=> \A s \in Steps : StepInv(s))
<1> SUFFICES ASSUME Shape PROVE Ownership /\ Counting <=> \A s \in Steps : StepInv(s)
  OBVIOUS
<1> USE DEF Shape, Typed
<1>1. Null \notin Steps
  BY ConstantsOK
<1>2. ASSUME Ownership, Counting, NEW s \in Steps PROVE StepInv(s)
  <2>1. \A th \in Threads : StatusFits(th, s)
    BY <1>1, <1>2 DEF Ownership, Life, TargetAlive, JobAlive, StatusFits
  <2>2. StepOwned(s)
    BY <1>2, <2>1 DEF Ownership, Life, UnbornUnseen, QueuedPrepared, UnpreparedHeld, SingleOwner,
       StepOwned
  <2>3. StepCounted(s)
    BY <1>2 DEF Ownership, ReadyUnsuspended, IsReady, ReadyIn, FreeSuspended, Counting, Countable,
                SuspendersMatch, StepCounted
  <2> QED BY <2>2, <2>3 DEF StepInv
<1>3. ASSUME \A s \in Steps : StepInv(s) PROVE Ownership /\ Counting
  <2>1. UnbornUnseen /\ QueuedPrepared /\ UnpreparedHeld /\ SingleOwner
    BY <1>3 DEF StepInv, StepOwned, UnbornUnseen, QueuedPrepared, UnpreparedHeld, SingleOwner
  <2>2. \A s \in Steps, th \in Threads : StatusFits(th, s)
    BY <1>3 DEF StepInv, StepOwned
  <2>3. TargetAlive
    <3> SUFFICES ASSUME NEW th \in Threads
                 PROVE  /\ pc[th] = "depends" => status[tgt[th]] = "Unprepared"
                        /\ pc[th] \in {"schedule", "enqueue"} => status[tgt[th]] = "Prepared"
      BY DEF TargetAlive
    <3>1. pc[th] \in {"depends", "schedule", "enqueue"} => tgt[th] \in Steps
      BY DEF Control, ThreadsTyped
    <3> QED BY <2>2, <3>1 DEF StatusFits
  <2>4. JobAlive
    BY <2>2 DEF JobAlive, StatusFits, ThreadsTyped
  <2>5. ReadyUnsuspended /\ FreeSuspended
    BY <1>3 DEF StepInv, StepCounted, ReadyUnsuspended, IsReady, ReadyIn, FreeSuspended
  <2>6. Counting
    BY <1>3 DEF StepInv, StepCounted, Counting, Countable, SuspendersMatch
  <2> QED BY <2>1, <2>3, <2>4, <2>5, <2>6 DEF Ownership, Life
<1> QED BY <1>2, <1>3

\* A step of the system has nothing to do with s.
SameThread(u, s) ==
    /\ job'[u] = s <=> job[u] = s
    /\ job[u] = s => /\ pc'[u] = "begin" <=> pc[u] = "begin"
                     /\ pc'[u] \in {"succeeded", "delete"} <=> pc[u] \in {"succeeded", "delete"}
    /\ tgt'[u] = s => tgt[u] = s
    /\ tgt'[u] = s /\ pc'[u] = "depends" <=> tgt[u] = s /\ pc[u] = "depends"
    /\ tgt'[u] = s /\ pc'[u] \in {"schedule", "enqueue"} <=> tgt[u] = s /\ pc[u] \in {"schedule", "enqueue"}

Undisturbed(s) ==
    /\ nSuspenders'[s] = nSuspenders[s] /\ status'[s] = status[s] /\ queue'[s] = queue[s]
    /\ \A j \in Items : group'[j][s] = group[j][s]
    /\ \A u \in Threads : SameThread(u, s)

\* What an action does not touch stays as it is.
LEMMA UndisturbedStep ==
    ASSUME NoneSequential, NoneSequential', NEW s \in Steps, StepInv(s), Undisturbed(s)
    PROVE  StepInv(s)'
<1>1. ASSUME NEW u \in Threads
      PROVE  /\ Holds(u, s)' <=> Holds(u, s)
             /\ Protects(u, s)' <=> Protects(u, s)
             /\ ReadyIn(u, s)' <=> ReadyIn(u, s)
             /\ StatusFits(u, s) => StatusFits(u, s)'
  <2>1. pc[u] # "sequentialize" /\ pc'[u] # "sequentialize"
    BY DEF NoneSequential
  <2>2. SameThread(u, s) /\ status'[s] = status[s]
    BY DEF Undisturbed
  <2>3. (Holds(u, s)' <=> Holds(u, s)) /\ (Protects(u, s)' <=> Protects(u, s))
    BY <2>1, <2>2 DEF SameThread, Holds, Holding, Protects
  <2>4. ReadyIn(u, s)' <=> ReadyIn(u, s)
    BY <2>1, <2>2 DEF SameThread, ReadyIn
  <2>5. StatusFits(u, s) => StatusFits(u, s)'
    BY <2>1, <2>2 DEF SameThread, StatusFits
  <2> QED BY <2>3, <2>4, <2>5
<1>2. Registrations(group, s)' = Registrations(group, s)
  BY DEF Undisturbed, Registrations
<1>3. StepOwned(s)'
  BY <1>1 DEF Undisturbed, SameThread, StepInv, StepOwned, Unborn
<1>4. StepCounted(s)'
  BY <1>1, <1>2 DEF Undisturbed, StepInv, StepCounted, Free, Guarded
<1> QED BY <1>3, <1>4 DEF StepInv

\* Everything the invariant says of s when no thread but th can hold it.
Sole(s, th) ==
    /\ status[s] # "None"
    /\ queue[s] \in {0, 1}
    /\ queue[s] = 1 => ~Holds(th, s) /\ status[s] = "Prepared"
    /\ \A u \in Threads : u # th => ~Holds(u, s)
    /\ StatusFits(th, s)
    /\ status[s] = "Unprepared" => tgt[th] = s /\ pc[th] = "depends"
    /\ IsFiniteSet(Registrations(group, s))
    /\ nSuspenders[s] = Cardinality(Registrations(group, s))
                        + (IF status[s] = "Done" \/ Protects(th, s) THEN 1 ELSE 0)
    /\ queue[s] = 1 \/ ReadyIn(th, s) => nSuspenders[s] = 0
    /\ status[s] # "Done" /\ queue[s] = 0 /\ ~Holds(th, s) => nSuspenders[s] >= 1

\* What protects, readies or targets an instance holds it.
LEMMA HoldsIfUsed ==
    ASSUME NEW u \in Threads, NEW s \in Steps
    PROVE  /\ Protects(u, s) => Holds(u, s)
           /\ ReadyIn(u, s) => Holds(u, s)
           /\ ~Holds(u, s) => StatusFits(u, s)
           /\ tgt[u] = s /\ pc[u] = "depends" => Holds(u, s)
BY DEF Protects, ReadyIn, Holds, Holding, StatusFits

\* Then the invariant holds of s.
LEMMA SoleAfter == \A s \in Steps, u \in Threads : Sole(s, u) => StepInv(s)
<1> SUFFICES ASSUME NEW s \in Steps, NEW th \in Threads, Sole(s, th)
             PROVE  StepInv(s)
  OBVIOUS
<1>1. \A u \in Threads : u # th => ~Protects(u, s) /\ ~ReadyIn(u, s) /\ StatusFits(u, s)
  BY HoldsIfUsed DEF Sole
<1>2. StepOwned(s)
  BY <1>1 DEF Sole, StepOwned
<1>3. Guarded(s) <=> status[s] = "Done" \/ Protects(th, s)
  BY <1>1 DEF Guarded
<1>4. StepCounted(s)
  BY <1>1, <1>3 DEF Sole, StepCounted, Free
<1> QED BY <1>2, <1>4 DEF StepInv

\* And that is what the invariant says of s when no other thread holds it.
LEMMA SoleBefore ==
    ASSUME Typed, NEW s \in Steps, NEW th \in Threads, StepInv(s), status[s] # "None",
           \A u \in Threads : u # th => ~Holds(u, s)
    PROVE  Sole(s, th)
<1>1. \A u \in Threads : u # th => /\ ~Protects(u, s) /\ ~ReadyIn(u, s)
                                  /\ ~(tgt[u] = s /\ pc[u] = "depends")
  BY HoldsIfUsed
<1>2. Guarded(s) <=> status[s] = "Done" \/ Protects(th, s)
  BY <1>1 DEF Guarded
<1>3. queue[s] \in {0, 1}
  BY DEF StepInv, StepOwned, Typed, SchedulerTyped
<1>4. status[s] = "Unprepared" => tgt[th] = s /\ pc[th] = "depends"
  BY <1>1 DEF StepInv, StepOwned
<1>5. status[s] # "Done" /\ queue[s] = 0 /\ ~Holds(th, s) => nSuspenders[s] >= 1
  BY DEF StepInv, StepCounted, Free
<1> QED BY <1>2, <1>3, <1>4, <1>5 DEF StepInv, StepOwned, StepCounted, Sole

\* So an action has to be looked at only where it moves an instance.
LEMMA LocalEffect ==
    ASSUME Inv, Shape', \A s \in Steps : Undisturbed(s) \/ \E u \in Threads : Sole(s, u)'
    PROVE  Ownership' /\ Counting'
<1>1. \A s \in Steps : StepInv(s)
  BY PerStep DEF Inv
<1>2. (\A s \in Steps, u \in Threads : Sole(s, u) => StepInv(s))'
  BY SoleAfter, PTL
<1>3. \A s \in Steps : StepInv(s)'
  BY <1>1, <1>2, UndisturbedStep DEF Inv, Shape
<1>4. (Shape => (Ownership /\ Counting <=> \A s \in Steps : StepInv(s)))'
  BY PerStep, PTL
<1> QED BY <1>3, <1>4

\* No step breaks Ownership or Counting: the instances an action does not
\* name are undisturbed, the one it names ends in the hands of one thread at most.
LEMMA OwnershipStep ==
    ASSUME Sequentialize = {}, Inv, Shape', [Next]_vars
    PROVE  Ownership' /\ Counting'
<1> USE DEF Inv, Shape, Typed
<1>a. Env \in Threads /\ Null \notin Steps /\ Null \notin Threads
  BY ConstantsOK DEF Threads
<1>b. group \in Groups
  BY DEF ItemsTyped, Groups
<1>c. \A s \in Steps : StepInv(s)
  BY PerStep
<1>1. ASSUME NEW th \in Threads, NEW t \in Steps, PutTag(th, t)
      PROVE  \A s0 \in Steps : Undisturbed(s0) \/ \E u \in Threads : Sole(s0, u)'
  <2>1. status[t] = "None" /\ Unborn(t)
    BY <1>1, <1>c DEF PutTag, StepInv, StepOwned
  <2>2. Registrations(group, t)' = {}
    BY <1>1, <2>1 DEF PutTag, itemVars, Unborn, Registrations
  <2>3. IsFiniteSet(Registrations(group, t)') /\ Cardinality(Registrations(group, t)') = 0
    BY <2>2, FS_EmptySet
  <2>4. ASSUME NEW s0 \in Steps, s0 # t PROVE Undisturbed(s0)
    <3>1. /\ nSuspenders'[s0] = nSuspenders[s0] /\ status'[s0] = status[s0] /\ queue'[s0] = queue[s0]
          /\ \A j \in Items : group'[j][s0] = group[j][s0]
      BY <1>1, <2>4 DEF PutTag, itemVars, schedVars, StepsTyped
    <3>2. SameThread(th, s0)
      <4>1. pc[th] = "run"
        BY <1>1 DEF PutTag, AtOp
      <4> QED BY <1>1, <2>4, <4>1 DEF PutTag, Goto, ThreadsTyped, SameThread
    <3>3. \A u \in Threads : u # th => SameThread(u, s0)
      BY <1>1 DEF PutTag, Goto, ThreadsTyped, SameThread
    <3> QED BY <3>1, <3>2, <3>3 DEF Undisturbed
  <2>5. Sole(t, th)'
    <3>1. nSuspenders'[t] = 1 /\ status'[t] = "Unprepared" /\ queue'[t] = 0
      BY <1>1, <2>1 DEF PutTag, schedVars, StepsTyped, Unborn
    <3>2. pc'[th] = "depends" /\ tgt'[th] = t /\ job'[th] # t
      BY <1>1, <2>1 DEF PutTag, Goto, ThreadsTyped, Unborn
    <3>3. \A u \in Threads : u # th => ~Holds(u, t)'
      BY <1>1, <2>1 DEF PutTag, ThreadsTyped, Unborn, Holds
    <3> QED BY <2>3, <3>1, <3>2, <3>3 DEF Sole, Holds, Holding, Protects, ReadyIn, StatusFits
  <2> QED BY <2>4, <2>5
<1>2. ASSUME NEW th \in Threads, NEW i \in Items, DependOn(th, i)
      PROVE  \A s0 \in Steps : Undisturbed(s0) \/ \E u \in Threads : Sole(s0, u)'
  <2>1. PICK x \in Steps : x = tgt[th] /\ Holds(th, x)
    BY <1>2, <1>a DEF Control, DependOn, Holds, Holding, ThreadsTyped
  <2>2. CASE item[i] = "stored"
    BY <1>2, <2>2 DEF DependOn, schedVars, Undisturbed, SameThread
  <2>3. CASE item[i] # "stored"
    <3>1. Sole(x, th)
      <4>1. StepInv(x) /\ status[x] # "None"
        BY <1>a, <1>c, <2>1 DEF StepInv, StepOwned, Unborn, Holds
      <4> QED BY <2>1, <4>1, SoleBefore DEF StepInv, StepOwned
    <3>2. SuspendOn(x, i) /\ UNCHANGED <<status, queue, pc, job, tgt>> /\ pc[th] = "depends"
      BY <1>2, <2>1, <2>3 DEF DependOn, schedVars
    <3>3. /\ \A t \in Steps : nSuspenders'[t] = nSuspenders[t] + (IF t = x THEN 1 ELSE 0)
          /\ \A j \in Items, t \in Steps : t # x => group'[j][t] = group[j][t]
          /\ group' = Join(group, i, x)
      BY <2>1, <3>2, SuspendOnEffect
    <3>4. /\ IsFiniteSet(Registrations(group, x)')
          /\ Cardinality(Registrations(group, x)') = Cardinality(Registrations(group, x)) + 1
      BY <1>b, <3>1, <3>3, RegistrationsAdd DEF Sole, Registrations
    <3>5. \A s0 \in Steps : s0 # x => Undisturbed(s0)
      BY <3>2, <3>3 DEF StepsTyped, Undisturbed, SameThread
    <3>6. Cardinality(Registrations(group, x)) \in Nat
      BY <3>1, FS_CardinalityType DEF Sole
    <3>7. Sole(x, th)'
      BY <1>a, <2>1, <3>1, <3>2, <3>3, <3>4, <3>6 DEF StepsTyped, Sole, Holds, Holding, Protects,
         ReadyIn, StatusFits
    <3> QED BY <3>5, <3>7
  <2> QED BY <2>2, <2>3
<1>3. ASSUME NEW th \in Threads, EndPrepare(th)
      PROVE  \A s0 \in Steps : Undisturbed(s0) \/ \E u \in Threads : Sole(s0, u)'
  <2>1. PICK x \in Steps : x = tgt[th] /\ Holds(th, x)
    BY <1>3, <1>a DEF Control, EndPrepare, Holds, Holding, ThreadsTyped
  <2>2. Sole(x, th)
    <3>1. StepInv(x) /\ status[x] # "None"
      BY <1>a, <1>c, <2>1 DEF StepInv, StepOwned, Unborn, Holds
    <3> QED BY <2>1, <3>1, SoleBefore DEF StepInv, StepOwned
  <2>3. Cardinality(Registrations(group, x)) \in Nat
    BY <2>2, FS_CardinalityType DEF Sole
  <2>5. Registrations(group, x)' = Registrations(group, x)
    BY <1>3, <1>a, <2>1, <2>2, <2>3 DEF EndPrepare, Unsuspend, UnsuspendsLast, Goto, itemVars,
       schedVars, envVars, waitVars, Registrations
  <2>7. ASSUME NEW s0 \in Steps, s0 # x PROVE Undisturbed(s0)
    <3>1. /\ nSuspenders'[s0] = nSuspenders[s0] /\ status'[s0] = status[s0] /\ queue'[s0] = queue[s0]
          /\ \A j \in Items : group'[j][s0] = group[j][s0]
      BY <1>3, <1>a, <2>1, <2>7 DEF EndPrepare, Unsuspend, UnsuspendsLast, Goto, itemVars,
         schedVars, envVars, waitVars, StepsTyped, SchedulerTyped
    <3>2. SameThread(th, s0)
      BY <1>3, <1>a, <2>1, <2>7 DEF EndPrepare, Unsuspend, UnsuspendsLast, Goto, itemVars,
         schedVars, envVars, waitVars, ThreadsTyped, Control, SameThread
    <3>3. \A u \in Threads : u # th => SameThread(u, s0)
      BY <1>3, <1>a, <2>1 DEF EndPrepare, Unsuspend, UnsuspendsLast, Goto, itemVars, schedVars,
         envVars, waitVars, ThreadsTyped, SameThread
    <3> QED BY <3>1, <3>2, <3>3 DEF Undisturbed
  <2>8. Sole(x, th)'
    BY <1>3, <1>a, <2>1, <2>2, <2>3, <2>5 DEF EndPrepare, Unsuspend, UnsuspendsLast, Goto, itemVars,
       schedVars, envVars, waitVars, StepsTyped, SchedulerTyped, ThreadsTyped, Sole, Holds, Holding,
       Protects, ReadyIn, StatusFits
  <2> QED BY <2>1, <2>7, <2>8
<1>4. ASSUME NEW th \in Threads, SequentializePrepared(th) PROVE FALSE
  BY <1>4 DEF NoneSequential, SequentializePrepared, AddSequentialized, Goto
<1>5. ASSUME NEW th \in Threads, CheckDone(th) PROVE \A x \in Steps : Undisturbed(x)
  BY <1>5, <1>a DEF Undisturbed, SameThread, CheckDone, Goto, itemVars, schedVars, envVars,
     waitVars, ThreadsTyped, Control
<1>6. ASSUME NEW th \in Threads, ScheduleDefer(th) PROVE FALSE
  <2>1. pc[th] = "schedule" /\ tgt[th] \in Steps /\ tgt[th] = job[th]
    BY <1>6, <1>a DEF ScheduleDefer, CurrentIsSequentialized, Control, NoneSequential, ThreadsTyped
  <2>2. ReadyIn(th, tgt[th]) /\ Protects(th, tgt[th])
    BY <2>1 DEF ReadyIn, Protects
  <2>3. Cardinality(Registrations(group, tgt[th])) \in Nat
    BY <1>c, <2>1, FS_CardinalityType DEF StepInv, StepCounted
  <2> QED BY <1>c, <2>1, <2>2, <2>3 DEF StepInv, StepCounted, Guarded
<1>7. ASSUME NEW th \in Threads, ScheduleCount(th) PROVE \A x \in Steps : Undisturbed(x)
  BY <1>7, <1>a DEF Undisturbed, SameThread, ScheduleCount, CountStep, Goto, stepVars, itemVars,
     envVars, waitVars, ThreadsTyped, Control
<1>8. ASSUME NEW th \in Threads, ScheduleEnqueue(th)
      PROVE  \A s0 \in Steps : Undisturbed(s0) \/ \E u \in Threads : Sole(s0, u)'
  <2>1. PICK x \in Steps : x = tgt[th] /\ Holds(th, x)
    BY <1>8, <1>a DEF Control, ScheduleEnqueue, Holds, Holding, ThreadsTyped
  <2>2. Sole(x, th)
    <3>1. StepInv(x) /\ status[x] # "None"
      BY <1>a, <1>c, <2>1 DEF StepInv, StepOwned, Unborn, Holds
    <3> QED BY <2>1, <3>1, SoleBefore DEF StepInv, StepOwned
  <2>3. Cardinality(Registrations(group, x)) \in Nat
    BY <2>2, FS_CardinalityType DEF Sole
  <2>5. Registrations(group, x)' = Registrations(group, x)
    BY <1>8, <1>a, <2>1, <2>2, <2>3 DEF ScheduleEnqueue, Return, Goto, stepVars, itemVars, envVars,
       waitVars, Registrations
  <2>7. \A s0 \in Steps : s0 # x => Undisturbed(s0)
    BY <1>8, <1>a, <2>1 DEF ScheduleEnqueue, Return, Goto, stepVars, itemVars, envVars, waitVars,
       StepsTyped, SchedulerTyped, ThreadsTyped, Control, Undisturbed, SameThread
  <2>8. Sole(x, th)'
    BY <1>8, <1>a, <2>1, <2>2, <2>3, <2>5 DEF ScheduleEnqueue, Return, Goto, stepVars, itemVars,
       envVars, waitVars, StepsTyped, SchedulerTyped, ThreadsTyped, Sole, Holds, Holding, Protects,
       ReadyIn, StatusFits
  <2> QED BY <2>1, <2>7, <2>8
<1>9. ASSUME NEW th \in Threads, NEW s \in Steps, TakeStep(th, s)
      PROVE  \A s0 \in Steps : Undisturbed(s0) \/ \E u \in Threads : Sole(s0, u)'
  <2>1. PICK x \in Steps : x = s /\ queue[x] > 0
    BY <1>9, <1>a DEF TakeStep
  <2>2. Sole(x, th)
    <3>1. StepInv(x) /\ status[x] # "None"
      BY <1>a, <1>c, <2>1 DEF StepInv, StepOwned, Unborn, Holds
    <3> QED BY <2>1, <3>1, SoleBefore DEF StepInv, StepOwned
  <2>3. Cardinality(Registrations(group, x)) \in Nat
    BY <2>2, FS_CardinalityType DEF Sole
  <2>5. Registrations(group, x)' = Registrations(group, x)
    BY <1>9, <1>a, <2>1, <2>2, <2>3 DEF TakeStep, Goto, stepVars, itemVars, envVars, waitVars,
       Registrations
  <2>7. ASSUME NEW s0 \in Steps, s0 # x PROVE Undisturbed(s0)
    <3>1. /\ nSuspenders'[s0] = nSuspenders[s0] /\ status'[s0] = status[s0] /\ queue'[s0] = queue[s0]
          /\ \A j \in Items : group'[j][s0] = group[j][s0]
      BY <1>9, <1>a, <2>1, <2>7 DEF TakeStep, Goto, stepVars, itemVars, envVars, waitVars,
         StepsTyped, SchedulerTyped
    <3>2. SameThread(th, s0)
      BY <1>9, <1>a, <2>1, <2>7 DEF TakeStep, Goto, stepVars, itemVars, envVars, waitVars,
         ThreadsTyped, Control, SameThread
    <3>3. \A u \in Threads : u # th => SameThread(u, s0)
      BY <1>9, <1>a, <2>1 DEF TakeStep, Goto, stepVars, itemVars, envVars, waitVars, ThreadsTyped,
         SameThread
    <3> QED BY <3>1, <3>2, <3>3 DEF Undisturbed
  <2>8. Sole(x, th)'
    BY <1>9, <1>a, <2>1, <2>2, <2>3, <2>5 DEF TakeStep, Goto, stepVars, itemVars, envVars, waitVars,
       StepsTyped, SchedulerTyped, ThreadsTyped, Sole, Holds, Holding, Protects, ReadyIn, StatusFits
  <2> QED BY <2>1, <2>7, <2>8
<1>10. ASSUME NEW th \in Threads, BeginExecute(th)
      PROVE  \A s0 \in Steps : Undisturbed(s0) \/ \E u \in Threads : Sole(s0, u)'
  <2>1. PICK x \in Steps : x = job[th] /\ Holds(th, x)
    BY <1>10, <1>a DEF Control, BeginExecute, Holds, Holding, ThreadsTyped
  <2>2. Sole(x, th)
    <3>1. StepInv(x) /\ status[x] # "None"
      BY <1>a, <1>c, <2>1 DEF StepInv, StepOwned, Unborn, Holds
    <3> QED BY <2>1, <3>1, SoleBefore DEF StepInv, StepOwned
  <2>3. Cardinality(Registrations(group, x)) \in Nat
    BY <2>2, FS_CardinalityType DEF Sole
  <2>5. Registrations(group, x)' = Registrations(group, x)
    BY <1>10, <1>a, <2>1, <2>2, <2>3 DEF BeginExecute, Protect, Goto, itemVars, schedVars, envVars,
       waitVars, Registrations
  <2>6. status[x] # "FromPending"
    BY <2>1 DEF NoneSequential
  <2>7. ASSUME NEW s0 \in Steps, s0 # x PROVE Undisturbed(s0)
    <3>1. /\ nSuspenders'[s0] = nSuspenders[s0] /\ status'[s0] = status[s0] /\ queue'[s0] = queue[s0]
          /\ \A j \in Items : group'[j][s0] = group[j][s0]
      BY <1>10, <1>a, <2>1, <2>6, <2>7 DEF BeginExecute, Protect, Goto, itemVars, schedVars,
         envVars, waitVars, StepsTyped, SchedulerTyped
    <3>2. SameThread(th, s0)
      BY <1>10, <1>a, <2>1, <2>6, <2>7 DEF BeginExecute, Protect, Goto, itemVars, schedVars,
         envVars, waitVars, ThreadsTyped, Control, SameThread
    <3>3. \A u \in Threads : u # th => SameThread(u, s0)
      BY <1>10, <1>a, <2>1, <2>6 DEF BeginExecute, Protect, Goto, itemVars, schedVars, envVars,
         waitVars, ThreadsTyped, SameThread
    <3> QED BY <3>1, <3>2, <3>3 DEF Undisturbed
  <2>8. Sole(x, th)'
    BY <1>10, <1>a, <2>1, <2>2, <2>3, <2>5, <2>6 DEF BeginExecute, Protect, Goto, itemVars,
       schedVars, envVars, waitVars, StepsTyped, SchedulerTyped, ThreadsTyped, Sole, Holds, Holding,
       Protects, ReadyIn, StatusFits
  <2> QED BY <2>1, <2>7, <2>8
<1>11. ASSUME NEW th \in Threads, DecrementRefCount(th) PROVE \A x \in Steps : Undisturbed(x)
  BY <1>11, <1>a DEF Undisturbed, SameThread, DecrementRefCount, AtBodyEnd, Goto, schedVars,
     envVars, waitVars, ThreadsTyped, Control
<1>12. ASSUME NEW th \in Threads, Succeed(th)
      PROVE  \A s0 \in Steps : Undisturbed(s0) \/ \E u \in Threads : Sole(s0, u)'
  <2>1. PICK x \in Steps : x = job[th] /\ Holds(th, x)
    BY <1>12, <1>a DEF Control, Succeed, AtBodyEnd, Holds, Holding, ThreadsTyped
  <2>2. Sole(x, th)
    <3>1. StepInv(x) /\ status[x] # "None"
      BY <1>a, <1>c, <2>1 DEF StepInv, StepOwned, Unborn, Holds
    <3> QED BY <2>1, <3>1, SoleBefore DEF StepInv, StepOwned
  <2>3. Cardinality(Registrations(group, x)) \in Nat
    BY <2>2, FS_CardinalityType DEF Sole
  <2>5. Registrations(group, x)' = Registrations(group, x)
    BY <1>12, <1>a, <2>1, <2>2, <2>3 DEF Succeed, AtBodyEnd, Goto, itemVars, schedVars, envVars,
       waitVars, Registrations
  <2>7. \A s0 \in Steps : s0 # x => Undisturbed(s0)
    BY <1>12, <1>a, <2>1 DEF Succeed, AtBodyEnd, Goto, itemVars, schedVars, envVars, waitVars,
       StepsTyped, SchedulerTyped, ThreadsTyped, Control, Undisturbed, SameThread
  <2>8. Sole(x, th)'
    BY <1>12, <1>a, <2>1, <2>2, <2>3, <2>5 DEF Succeed, AtBodyEnd, Goto, itemVars, schedVars,
       envVars, waitVars, StepsTyped, SchedulerTyped, ThreadsTyped, Sole, Holds, Holding, Protects,
       ReadyIn, StatusFits
  <2> QED BY <2>1, <2>7, <2>8
<1>13. ASSUME NEW th \in Threads, LeaveSucceeded(th) PROVE \A x \in Steps : Undisturbed(x)
  BY <1>13, <1>a DEF Undisturbed, SameThread, LeaveSucceeded, Goto, stepVars, itemVars, envVars,
     waitVars, ThreadsTyped, Control
<1>14. ASSUME NEW th \in Threads, DeleteStep(th)
      PROVE  \A s0 \in Steps : Undisturbed(s0) \/ \E u \in Threads : Sole(s0, u)'
  <2>1. PICK x \in Steps : x = job[th] /\ Holds(th, x)
    BY <1>14, <1>a DEF Control, DeleteStep, Holds, Holding, ThreadsTyped
  <2>2. Sole(x, th)
    <3>1. StepInv(x) /\ status[x] # "None"
      BY <1>a, <1>c, <2>1 DEF StepInv, StepOwned, Unborn, Holds
    <3> QED BY <2>1, <3>1, SoleBefore DEF StepInv, StepOwned
  <2>3. Cardinality(Registrations(group, x)) \in Nat
    BY <2>2, FS_CardinalityType DEF Sole
  <2>5. Registrations(group, x)' = Registrations(group, x)
    BY <1>14, <1>a, <2>1, <2>2, <2>3 DEF DeleteStep, Goto, itemVars, schedVars, envVars, waitVars,
       Registrations
  <2>7. \A s0 \in Steps : s0 # x => Undisturbed(s0)
    BY <1>14, <1>a, <2>1 DEF DeleteStep, Goto, itemVars, schedVars, envVars, waitVars, StepsTyped,
       SchedulerTyped, ThreadsTyped, Control, Undisturbed, SameThread
  <2>8. Sole(x, th)'
    BY <1>14, <1>a, <2>1, <2>2, <2>3, <2>5 DEF DeleteStep, Goto, itemVars, schedVars, envVars,
       waitVars, StepsTyped, SchedulerTyped, ThreadsTyped, Sole, Holds, Holding, Protects, ReadyIn,
       StatusFits
  <2> QED BY <2>1, <2>7, <2>8
<1>15. ASSUME NEW th \in Threads, CatchNotReady(th) PROVE \A x \in Steps : Undisturbed(x)
  BY <1>15, <1>a DEF Undisturbed, SameThread, CatchNotReady, ClearGetList, AddSequentialized, Goto,
     itemVars, envVars, waitVars, ThreadsTyped, Control
<1>16. ASSUME NEW th \in Threads, Unprotect(th)
      PROVE  \A s0 \in Steps : Undisturbed(s0) \/ \E u \in Threads : Sole(s0, u)'
  <2>1. PICK x \in Steps : x = job[th] /\ Holds(th, x)
    BY <1>16, <1>a DEF Control, Unprotect, Holds, Holding, ThreadsTyped
  <2>2. Sole(x, th)
    <3>1. StepInv(x) /\ status[x] # "None"
      BY <1>a, <1>c, <2>1 DEF StepInv, StepOwned, Unborn, Holds
    <3> QED BY <2>1, <3>1, SoleBefore DEF StepInv, StepOwned
  <2>3. Cardinality(Registrations(group, x)) \in Nat
    BY <2>2, FS_CardinalityType DEF Sole
  <2>5. Registrations(group, x)' = Registrations(group, x)
    BY <1>16, <1>a, <2>1, <2>2, <2>3 DEF Unprotect, AllArrived, Unsuspend, UnsuspendsLast, Goto,
       itemVars, schedVars, envVars, waitVars, Registrations
  <2>7. ASSUME NEW s0 \in Steps, s0 # x PROVE Undisturbed(s0)
    <3>1. /\ nSuspenders'[s0] = nSuspenders[s0] /\ status'[s0] = status[s0] /\ queue'[s0] = queue[s0]
          /\ \A j \in Items : group'[j][s0] = group[j][s0]
      BY <1>16, <1>a, <2>1, <2>7 DEF Unprotect, AllArrived, Unsuspend, UnsuspendsLast, Goto,
         itemVars, schedVars, envVars, waitVars, StepsTyped, SchedulerTyped
    <3>2. SameThread(th, s0)
      BY <1>16, <1>a, <2>1, <2>7 DEF Unprotect, AllArrived, Unsuspend, UnsuspendsLast, Goto,
         itemVars, schedVars, envVars, waitVars, ThreadsTyped, Control, SameThread
    <3>3. \A u \in Threads : u # th => SameThread(u, s0)
      BY <1>16, <1>a, <2>1 DEF Unprotect, AllArrived, Unsuspend, UnsuspendsLast, Goto, itemVars,
         schedVars, envVars, waitVars, ThreadsTyped, SameThread
    <3> QED BY <3>1, <3>2, <3>3 DEF Undisturbed
  <2>8. Sole(x, th)'
    <3>1. /\ pc[th] = "unsuspend" /\ job[th] = x /\ status[x] = "Prepared" /\ queue[x] = 0
          /\ nSuspenders[x] = Cardinality(Registrations(group, x)) + 1
          /\ tgt[th] = x => pc[th] \notin Holding
      BY <1>16, <1>a, <2>1, <2>2, <2>3, <2>5 DEF Unprotect, Sole, Holds, Holding, Protects, ReadyIn,
         StatusFits
    <3>2. /\ nSuspenders'[x] = Cardinality(Registrations(group, x)) /\ UNCHANGED <<status, queue>>
          /\ IF nSuspenders[x] = 1 THEN pc'[th] = "begin" /\ job'[th] = x
                                   ELSE pc'[th] = "leave" /\ job'[th] = Null
          /\ UNCHANGED tgt
      BY <1>16, <1>a, <2>1, <2>2, <2>3, <2>5, <3>1 DEF Unprotect, AllArrived, Unsuspend,
         UnsuspendsLast, Goto, itemVars, schedVars, envVars, waitVars, StepsTyped, ThreadsTyped,
         NoneSequential
    <3>3. \A u \in Threads : u # th => ~Holds(u, x)'
      BY <1>16, <1>a, <2>1, <2>2, <2>3, <2>5 DEF Unprotect, AllArrived, Unsuspend, UnsuspendsLast,
         Goto, itemVars, schedVars, envVars, waitVars, ThreadsTyped, Sole, Holds
    <3> QED BY <1>a, <2>2, <2>3, <2>5, <3>1, <3>2, <3>3 DEF Sole, Holds, Holding, Protects, ReadyIn,
       StatusFits
  <2> QED BY <2>1, <2>7, <2>8
<1>17. ASSUME NEW th \in Threads, LeaveSuspended(th) PROVE \A x \in Steps : Undisturbed(x)
  BY <1>17, <1>a DEF Undisturbed, SameThread, LeaveSuspended, Goto, stepVars, itemVars, envVars,
     waitVars, ThreadsTyped, Control
<1>18. ASSUME NEW th \in Threads, NEW k \in {"get", "uget"}, NEW i \in Items, GetStored(th, k, i)
       PROVE \A x \in Steps : Undisturbed(x)
  BY <1>18, <1>a DEF Undisturbed, SameThread, GetStored, RecordGet, AtOp, Advance, itemVars,
     schedVars, waitVars, ThreadsTyped, Control
<1>19. ASSUME NEW th \in Threads, NEW i \in Items, GetMissing(th, i)
      PROVE  \A s0 \in Steps : Undisturbed(s0) \/ \E u \in Threads : Sole(s0, u)'
  <2>1. PICK x \in Steps : x = job[th] /\ Holds(th, x)
    BY <1>19, <1>a DEF Control, GetMissing, Holds, Holding, ThreadsTyped
  <2>2. Sole(x, th)
    <3>1. StepInv(x) /\ status[x] # "None"
      BY <1>a, <1>c, <2>1 DEF StepInv, StepOwned, Unborn, Holds
    <3> QED BY <2>1, <3>1, SoleBefore DEF StepInv, StepOwned
  <2>3. Cardinality(Registrations(group, x)) \in Nat
    BY <2>2, FS_CardinalityType DEF Sole
  <2>6. SuspendOn(x, i)
    BY <1>19, <1>a, <2>1, <2>2, <2>3 DEF GetMissing
  <2>4. /\ \A t \in Steps : nSuspenders'[t] = nSuspenders[t] + (IF t = x THEN 1 ELSE 0)
        /\ \A j \in Items, t \in Steps : t # x => group'[j][t] = group[j][t]
        /\ group' = Join(group, i, x)
    BY <2>1, <2>6, SuspendOnEffect
  <2>5. /\ IsFiniteSet(Registrations(group, x)')
        /\ Cardinality(Registrations(group, x)') = Cardinality(Registrations(group, x)) + 1
    BY <1>b, <2>1, <2>2, <2>4, RegistrationsAdd DEF Sole, Registrations
  <2>7. ASSUME NEW s0 \in Steps, s0 # x PROVE Undisturbed(s0)
    <3>1. /\ nSuspenders'[s0] = nSuspenders[s0] /\ status'[s0] = status[s0] /\ queue'[s0] = queue[s0]
          /\ \A j \in Items : group'[j][s0] = group[j][s0]
      BY <1>19, <1>a, <2>1, <2>4, <2>7 DEF GetMissing, AtOp, Goto, schedVars, envVars, waitVars,
         StepsTyped, SchedulerTyped
    <3>2. SameThread(th, s0)
      BY <1>19, <1>a, <2>1, <2>4, <2>7 DEF GetMissing, AtOp, Goto, schedVars, envVars, waitVars,
         ThreadsTyped, Control, SameThread
    <3>3. \A u \in Threads : u # th => SameThread(u, s0)
      BY <1>19, <1>a, <2>1, <2>4 DEF GetMissing, AtOp, Goto, schedVars, envVars, waitVars,
         ThreadsTyped, SameThread
    <3> QED BY <3>1, <3>2, <3>3 DEF Undisturbed
  <2>8. Sole(x, th)'
    BY <1>19, <1>a, <2>1, <2>2, <2>3, <2>4, <2>5 DEF GetMissing, AtOp, Goto, schedVars, envVars,
       waitVars, StepsTyped, SchedulerTyped, ThreadsTyped, Sole, Holds, Holding, Protects, ReadyIn,
       StatusFits
  <2> QED BY <2>1, <2>7, <2>8
<1>20. ASSUME NEW th \in Threads, NEW i \in Items, UnsafeGetMissing(th, i)
      PROVE  \A s0 \in Steps : Undisturbed(s0) \/ \E u \in Threads : Sole(s0, u)'
  <2>1. PICK x \in Steps : x = job[th] /\ Holds(th, x)
    BY <1>20, <1>a DEF Control, UnsafeGetMissing, Holds, Holding, ThreadsTyped
  <2>2. Sole(x, th)
    <3>1. StepInv(x) /\ status[x] # "None"
      BY <1>a, <1>c, <2>1 DEF StepInv, StepOwned, Unborn, Holds
    <3> QED BY <2>1, <3>1, SoleBefore DEF StepInv, StepOwned
  <2>3. Cardinality(Registrations(group, x)) \in Nat
    BY <2>2, FS_CardinalityType DEF Sole
  <2>6. SuspendOn(x, i)
    BY <1>20, <1>a, <2>1, <2>2, <2>3 DEF UnsafeGetMissing
  <2>4. /\ \A t \in Steps : nSuspenders'[t] = nSuspenders[t] + (IF t = x THEN 1 ELSE 0)
        /\ \A j \in Items, t \in Steps : t # x => group'[j][t] = group[j][t]
        /\ group' = Join(group, i, x)
    BY <2>1, <2>6, SuspendOnEffect
  <2>5. /\ IsFiniteSet(Registrations(group, x)')
        /\ Cardinality(Registrations(group, x)') = Cardinality(Registrations(group, x)) + 1
    BY <1>b, <2>1, <2>2, <2>4, RegistrationsAdd DEF Sole, Registrations
  <2>7. ASSUME NEW s0 \in Steps, s0 # x PROVE Undisturbed(s0)
    <3>1. /\ nSuspenders'[s0] = nSuspenders[s0] /\ status'[s0] = status[s0] /\ queue'[s0] = queue[s0]
          /\ \A j \in Items : group'[j][s0] = group[j][s0]
      BY SMTT(20), <1>20, <1>a, <2>1, <2>4, <2>7 DEF UnsafeGetMissing, AtOp, Advance, schedVars, waitVars,
         StepsTyped, SchedulerTyped
    <3>2. SameThread(th, s0)
      BY <1>20, <1>a, <2>1, <2>4, <2>7 DEF UnsafeGetMissing, AtOp, Advance, schedVars, waitVars,
         ThreadsTyped, Control, SameThread
    <3>3. \A u \in Threads : u # th => SameThread(u, s0)
      BY <1>20, <1>a, <2>1, <2>4 DEF UnsafeGetMissing, AtOp, Advance, schedVars, waitVars,
         ThreadsTyped, SameThread
    <3> QED BY <3>1, <3>2, <3>3 DEF Undisturbed
  <2>8. Sole(x, th)'
    BY <1>20, <1>a, <2>1, <2>2, <2>3, <2>4, <2>5 DEF UnsafeGetMissing, AtOp, Advance, schedVars,
       waitVars, StepsTyped, SchedulerTyped, ThreadsTyped, Sole, Holds, Holding, Protects, ReadyIn,
       StatusFits
  <2> QED BY <2>1, <2>7, <2>8
<1>21. ASSUME NEW th \in Threads, NEW i \in Items, PutDiscarded(th, i)
       PROVE \A x \in Steps : Undisturbed(x)
  BY <1>21, <1>a DEF Undisturbed, SameThread, PutDiscarded, AtOp, Advance, stepVars, itemVars,
     schedVars, waitVars, ThreadsTyped, Control
<1>22. ASSUME NEW th \in Threads, NEW i \in Items, PutStore(th, i)
       PROVE \A x \in Steps : Undisturbed(x)
  BY <1>22, <1>a DEF Undisturbed, SameThread, PutStore, AtOp, Advance, Goto, stepVars, schedVars,
     waitVars, ThreadsTyped, Control
<1>23. ASSUME NEW th \in Threads, NEW i \in Items, ResumeEnv(th, i)
       PROVE \A x \in Steps : Undisturbed(x)
  <2>1. group' = Leave(group, i, Null) /\ group[i][Null] > 0
    BY <1>23, <1>a DEF ResumeEnv
  <2>2. \A j \in Items, t \in Steps : group'[j][t] = group[j][t]
    BY <1>a, <1>b, <2>1, LeaveGroups
  <2> QED BY <1>23, <1>a, <2>2 DEF Undisturbed, SameThread, ResumeEnv, UnblockForPut, stepVars,
     schedVars, threadVars, waitVars, ThreadsTyped, Control
<1>24. ASSUME NEW th \in Threads, NEW i \in Items, EndPut(th, i)
       PROVE \A x \in Steps : Undisturbed(x)
  BY <1>24, <1>a DEF Undisturbed, SameThread, EndPut, Goto, stepVars, schedVars, envVars, waitVars,
     ThreadsTyped, Control
<1>25. ASSUME NEW th \in Threads, NEW i \in Items, NEW s \in Steps, ResumeStep(th, i, s)
      PROVE  \A s0 \in Steps : Undisturbed(s0) \/ \E u \in Threads : Sole(s0, u)'
  <2>1. pc[th] = "resume" /\ group[i][s] > 0 /\ group' = Leave(group, i, s) /\ UNCHANGED <<status, queue, job>>
    BY <1>25 DEF ResumeStep, schedVars
  <2>2. nSuspenders' = [nSuspenders EXCEPT ![s] = @ - 1]
    BY <1>25 DEF ResumeStep, Unsuspend
  <2>3. StepInv(s) /\ status[s] # "None"
    BY <1>c, <2>1 DEF StepInv, StepOwned, Unborn
  <2>4. \A j \in Items, t \in Steps : t # s => group'[j][t] = group[j][t]
    BY <1>b, <2>1, LeaveGroups
  <2>5. /\ IsFiniteSet(Registrations(group, s)) /\ Cardinality(Registrations(group, s)) \in Nat
        /\ Cardinality(Registrations(group, s)) # 0
    <3>1. IsFiniteSet(Registrations(group, s))
      BY <2>3 DEF StepInv, StepCounted
    <3>2. group[i][s] # 0
      BY <2>1
    <3> QED BY <1>b, <3>1, <3>2, RegistrationsEmpty
  <2>6. /\ IsFiniteSet(Registrations(group, s)')
        /\ Cardinality(Registrations(group, s)') = Cardinality(Registrations(group, s)) - 1
    BY <1>b, <2>1, <2>5, RegistrationsRemove DEF Registrations
  <2>7. ASSUME NEW s0 \in Steps, s0 # s PROVE Undisturbed(s0)
    <3>1. /\ nSuspenders'[s0] = nSuspenders[s0] /\ status'[s0] = status[s0] /\ queue'[s0] = queue[s0]
          /\ \A j \in Items : group'[j][s0] = group[j][s0]
      BY <2>1, <2>2, <2>4, <2>7 DEF StepsTyped
    <3>2. SameThread(th, s0)
      BY <1>25, <2>1, <2>7 DEF ResumeStep, Goto, ThreadsTyped, SameThread
    <3>3. \A u \in Threads : u # th => SameThread(u, s0)
      BY <1>25 DEF ResumeStep, Goto, ThreadsTyped, SameThread
    <3> QED BY <3>1, <3>2, <3>3 DEF Undisturbed
  <2>8. CASE nSuspenders[s] = 1
    <3>1. status[s] # "Done" /\ \A u \in Threads : ~Protects(u, s) /\ ~ReadyIn(u, s)
      BY <2>3, <2>5, <2>8 DEF StepInv, StepCounted, Guarded
    <3>2. \A u \in Threads : ~Holds(u, s)
      BY <3>1 DEF Holds, Holding, Protects, ReadyIn, NoneSequential
    <3>3. status[s] = "Prepared" /\ queue[s] = 0
      <4>1. status[s] # "Unprepared"
        BY <2>3, <3>2, HoldsIfUsed DEF StepInv, StepOwned
      <4>2. status[s] = "Prepared"
        BY <2>3, <3>1, <4>1 DEF StepsTyped, Statuses, NoneSequential
      <4>3. queue[s] = 0
        BY <2>3, <2>8 DEF StepInv, StepCounted, SchedulerTyped
      <4> QED BY <4>2, <4>3
    <3>4. pc'[th] = "schedule" /\ tgt'[th] = s /\ job'[th] # s
      BY <1>25, <2>1, <2>8, <3>2 DEF ResumeStep, UnsuspendsLast, Goto, ThreadsTyped, Holds
    <3>5. \A u \in Threads : u # th => ~Holds(u, s)'
      BY <1>25, <2>1, <3>2 DEF ResumeStep, Goto, ThreadsTyped, Holds
    <3>6. nSuspenders'[s] = 0
      BY <2>2, <2>8 DEF StepsTyped
    <3>7. Cardinality(Registrations(group, s)') = 0
      BY <2>3, <2>5, <2>6, <2>8 DEF StepInv, StepCounted
    <3>8. Sole(s, th)'
      BY <2>1, <2>6, <3>3, <3>4, <3>5, <3>6, <3>7 DEF Sole, Holds, Holding, Protects, ReadyIn,
         StatusFits
    <3> QED BY <2>7, <3>8
  <2>9. CASE nSuspenders[s] # 1
    <3>1. PICK u \in Threads : \A v \in Threads : v # u => ~Holds(v, s)
      BY <2>3 DEF StepInv, StepOwned
    <3>2. Sole(s, u)
      BY <2>3, <3>1, SoleBefore
    <3>3. UNCHANGED <<pc, tgt>>
      BY <1>25, <2>9 DEF ResumeStep, UnsuspendsLast
    <3>4. nSuspenders'[s] = nSuspenders[s] - 1 /\ nSuspenders'[s] >= 1
      BY <2>2, <2>5, <2>9, <3>2 DEF StepsTyped, Sole
    <3>5. Sole(s, u)'
      BY <2>1, <2>5, <2>6, <3>2, <3>3, <3>4 DEF Sole, Holds, Holding, Protects, ReadyIn, StatusFits
    <3> QED BY <2>7, <3>5
  <2> QED BY <2>8, <2>9 DEF StepsTyped
<1>26. ASSUME NEW th \in Threads, FlushGets(th) PROVE \A x \in Steps : Undisturbed(x)
  BY <1>26, <1>a DEF Undisturbed, SameThread, FlushGets, Goto, stepVars, itemVars, schedVars,
     envVars, waitVars, ThreadsTyped, Control
<1>27. ASSUME NEW i \in Items, EnvGetStored(i) PROVE \A x \in Steps : Undisturbed(x)
  BY <1>27, <1>a DEF Undisturbed, SameThread, EnvGetStored, EnvAt, AtOp, Goto, stepVars, itemVars,
     schedVars, waitVars, ThreadsTyped, Control
<1>28. ASSUME NEW i \in Items, EnvGetActive(i) PROVE \A x \in Steps : Undisturbed(x)
  BY <1>28, <1>a DEF Undisturbed, SameThread, EnvGetActive, EnvAt, AtOp, Goto, stepVars, schedVars,
     envVars, waitVars, ThreadsTyped, Control
<1>29. ASSUME NEW i \in Items, EnvBlockForPut(i) PROVE \A x \in Steps : Undisturbed(x)
  <2>1. group' = Join(group, i, Null)
    BY <1>29, <1>a DEF EnvBlockForPut, SuspendOn
  <2>2. \A j \in Items, t \in Steps : group'[j][t] = group[j][t]
    BY <1>a, <1>b, <2>1, JoinGroups
  <2> QED BY <1>29, <1>a, <2>2 DEF Undisturbed, SameThread, EnvBlockForPut, SuspendOn, Goto,
     schedVars, envVars, waitVars, ThreadsTyped, Control
<1>30. ASSUME NEW i \in Items, EnvGetInactive(i) PROVE \A x \in Steps : Undisturbed(x)
  BY <1>30, <1>a DEF Undisturbed, SameThread, EnvGetInactive, EnvAt, AtOp, Goto, stepVars,
     schedVars, envVars, waitVars, ThreadsTyped, Control
<1>31. ASSUME NEW i \in Items, EnvGetGivesUp(i) PROVE \A x \in Steps : Undisturbed(x)
  BY <1>31, <1>a DEF Undisturbed, SameThread, EnvGetGivesUp, Goto, stepVars, itemVars, schedVars,
     waitVars, ThreadsTyped, Control
<1>32. ASSUME EnvUnblock PROVE \A x \in Steps : Undisturbed(x)
  BY <1>32, <1>a DEF Undisturbed, SameThread, EnvUnblock, Goto, stepVars, itemVars, schedVars,
     waitVars, ThreadsTyped, Control
<1>33. ASSUME EnvWait PROVE \A x \in Steps : Undisturbed(x)
  BY <1>33, <1>a DEF Undisturbed, SameThread, EnvWait, Goto, stepVars, itemVars, ThreadsTyped,
     Control
<1>34. ASSUME WaitLockSteps PROVE \A x \in Steps : Undisturbed(x)
  <2>1. \A s \in Steps : nSuspenders'[s] = nSuspenders[s]
    BY <1>34, <1>a DEF WaitLockSteps, InSeq, NoneSequential
  <2>2. nSuspenders' = nSuspenders
    BY <1>34, <1>a, <2>1 DEF WaitLockSteps, StepsTyped
  <2> QED BY <1>34, <1>a, <2>2 DEF Undisturbed, SameThread, WaitLockSteps, InSeq, itemVars,
     threadVars, ThreadsTyped, Control
<1>35. ASSUME WaitRunSequential PROVE FALSE
  BY <1>35 DEF NoneSequential, WaitRunSequential, Goto
<1>36. ASSUME WaitEndSequential PROVE \A x \in Steps : Undisturbed(x)
  BY <1>36, <1>a DEF Undisturbed, SameThread, WaitEndSequential, PendingCount, stepVars, itemVars,
     schedVars, threadVars, ThreadsTyped, Control
<1>37. ASSUME WaitRepost PROVE FALSE
  BY <1>37 DEF NoneSequential, WaitRepost, Goto
<1>38. ASSUME WaitAgain PROVE \A x \in Steps : Undisturbed(x)
  BY <1>38, <1>a DEF Undisturbed, SameThread, WaitAgain, stepVars, itemVars, schedVars, threadVars,
     ThreadsTyped, Control
<1>39. ASSUME WaitReturn PROVE \A x \in Steps : Undisturbed(x)
  BY <1>39, <1>a DEF Undisturbed, SameThread, WaitReturn, Goto, stepVars, itemVars, ThreadsTyped,
     Control
<1>40. ASSUME UNCHANGED vars PROVE \A x \in Steps : Undisturbed(x)
  BY <1>40 DEF vars, stepVars, itemVars, schedVars, threadVars, Undisturbed, SameThread
<1>41. \A s0 \in Steps : Undisturbed(s0) \/ \E u \in Threads : Sole(s0, u)'
  BY <1>1, <1>2, <1>3, <1>4, <1>5, <1>6, <1>7, <1>8, <1>9, <1>10, <1>11, <1>12, <1>13, <1>14, <1>15,
     <1>16, <1>17, <1>18, <1>19, <1>20, <1>21, <1>22, <1>23, <1>24, <1>25, <1>26, <1>27, <1>28,
     <1>29, <1>30, <1>31, <1>32, <1>33, <1>34, <1>35, <1>36, <1>37, <1>38, <1>39, <1>40 DEF Next,
     ThreadStep, Prepare,
     Schedule, Execute, Access, Environment, Terminated
<1> QED BY <1>41, LocalEffect

-----------------------------------------------------------------------------
\* The runtime starts in a state of the invariant: no instance, no item.
LEMMA InitInv == Init => Inv
<1> SUFFICES ASSUME Init PROVE Inv
  OBVIOUS
<1> USE DEF Init
<1>1. Env \in Threads /\ Null \notin Steps /\ Null \notin Threads
  BY ConstantsOK DEF Threads
<1>2. Typed
  <2>1. StepsTyped
    BY DEF StepsTyped, Statuses
  <2>2. UNSET_GET_COUNT \in Int
    BY SMT DEF UNSET_GET_COUNT
  <2>3. ItemsTyped
    BY <2>2 DEF ItemsTyped
  <2>4. SchedulerTyped
    BY DEF SchedulerTyped
  <2>5. ThreadsTyped
    BY ConstantsOK DEF ThreadsTyped, Pcs
  <2> QED BY <2>1, <2>3, <2>4, <2>5 DEF Typed
<1>3. NoneSequential /\ Control
  BY DEF NoneSequential, Control
<1>4. Locking
  <2>1. UNSET_GET_COUNT <= 0
    BY SMT DEF UNSET_GET_COUNT
  <2> QED BY <2>1 DEF Locking, HolderInPlace, OneAccessor, CountedIfStored, GroupAwaitsPut
<1>5. ASSUME NEW s \in Steps PROVE StepInv(s)
  <2>1. \A th \in Threads : job[th] # s /\ tgt[th] # s
    BY <1>1
  <2>2. \A th \in Threads : ~Holds(th, s) /\ ~Protects(th, s) /\ ~ReadyIn(th, s) /\ StatusFits(th, s)
    BY <2>1 DEF Holds, Protects, ReadyIn, StatusFits
  <2>3. StepOwned(s)
    BY <2>1, <2>2 DEF StepOwned, Unborn
  <2>4. Registrations(group, s) = {}
    BY DEF Registrations
  <2>5. IsFiniteSet(Registrations(group, s)) /\ Cardinality(Registrations(group, s)) = 0
    BY <2>4, FS_EmptySet
  <2>6. ~Guarded(s) /\ nSuspenders[s] = 0 /\ queue[s] = 0 /\ status[s] = "None"
    BY <2>2 DEF Guarded
  <2>7. StepCounted(s)
    BY <2>2, <2>5, <2>6 DEF StepCounted
  <2> QED BY <2>3, <2>7 DEF StepInv
<1> QED BY <1>2, <1>3, <1>4, <1>5, PerStep DEF Inv, Shape

\* The inductive invariant: no step of any thread breaks it.
THEOREM Invariance ==
    ASSUME Sequentialize = {}
    PROVE  Spec => []Inv
<1>1. Inv /\ [Next]_vars => Inv'
  <2> SUFFICES ASSUME Inv, [Next]_vars PROVE Inv'
    OBVIOUS
  <2>1. Shape'
    BY ShapeStep DEF Inv
  <2>2. Locking'
    BY LockingStep DEF Inv
  <2>3. Ownership' /\ Counting'
    BY <2>1, OwnershipStep
  <2> QED BY <2>1, <2>2, <2>3 DEF Inv
<1> QED BY InitInv, <1>1, PTL DEF Spec

\* Every variable keeps its declared shape, and the assertion of
\* schedulable::unsuspend holds: no suspend counter falls below zero.
THEOREM TypeCorrect ==
    ASSUME Sequentialize = {}
    PROVE  Spec => []TypeOK
<1>1. Inv => TypeOK
  <2> SUFFICES ASSUME Inv PROVE nSuspenders \in [Steps -> Nat]
    BY DEF Inv, Shape, TypeOK
  <2>1. ASSUME NEW s \in Steps PROVE nSuspenders[s] \in Nat
    BY FS_CardinalityType DEF Inv, Counting, Countable, SuspendersMatch
  <2> QED BY <2>1 DEF Inv, Shape, Typed, StepsTyped
<1> QED BY <1>1, Invariance, PTL

\* The suspend counter of every instance is exactly its registrations plus
\* the protection of the thread that prepares or executes it, whatever gets
\* and puts race with the execution.
THEOREM ExactCounters ==
    ASSUME Sequentialize = {}
    PROVE  Spec => []SuspendersExact
<1>1. Inv => SuspendersExact
  BY DEF Inv, Counting, SuspendersExact
<1> QED BY <1>1, Invariance, PTL

\* No instance is queued twice, executed by two threads at once, or queued
\* while a thread executes it: re_schedule never doubles a step.
THEOREM NeverTwice ==
    ASSUME Sequentialize = {}
    PROVE  Spec => []SingleOwner
<1>1. Inv => SingleOwner
  BY DEF Inv, Ownership
<1> QED BY <1>1, Invariance, PTL

\* No wake-up is lost: an instance that nobody holds is in the suspend group
\* of an item that is missing or whose put is still at work on the group.
THEOREM NeverLost ==
    ASSUME Sequentialize = {}
    PROVE  Spec => []NoStepLost
<1>1. Inv => NoStepLost
  <2> SUFFICES ASSUME Inv, NEW s \in Steps, status[s] \notin {"None", "Done"}, ~Owned(s)
               PROVE  \E i \in WaitsFor(s) : item[i] # "stored" \/ lock[i] # Null
    BY DEF NoStepLost
  <2>1. queue[s] = 0 /\ \A th \in Threads : ~Holds(th, s)
    BY DEF Owned, Inv, Shape, Typed, SchedulerTyped
  <2>2. ~Guarded(s)
    BY <2>1, HoldsIfUsed DEF Guarded
  <2>3. nSuspenders[s] >= 1
    BY <2>1 DEF Inv, Ownership, FreeSuspended, Free
  <2>4. IsFiniteSet(Registrations(group, s)) /\ Cardinality(Registrations(group, s)) # 0
    BY <2>2, <2>3 DEF Inv, Counting, Countable, SuspendersMatch
  <2>5. group \in Groups
    BY DEF Inv, Shape, Typed, ItemsTyped, Groups
  <2>6. PICK i \in Items : group[i][s] # 0
    BY <2>4, <2>5, RegistrationsEmpty
  <2>7. i \in WaitsFor(s)
    BY <2>5, <2>6 DEF WaitsFor, Groups
  <2> QED BY <2>7 DEF WaitsFor, Inv, Locking, GroupAwaitsPut
<1> QED BY <1>1, Invariance, PTL

-----------------------------------------------------------------------------
(* The in-flight counter of scheduler_i is exact, and context::wait returns *)
(* only at quiescence: WaitInv is inductive on top of Inv. Most steps of a  *)
(* thread leave the counter and everything it counts alone (LocalStep); the *)
(* others move one step instance from one of the counted places to another, *)
(* or count it.                                                             *)

\* The places of a thread that the in-flight counter depends on.
Accounted == {"idle", "leave", "enqueue", "delete"}

\* A step of th that neither takes, queues, counts nor lets go of an instance.
\* After a wait the environment stays at "run" and "probed", unless something
\* is in flight.
LocalStep(th) ==
    /\ queue' = queue /\ inFlight' = inFlight /\ waitPhase' = waitPhase /\ job' = job
    /\ \A u \in Threads : u # th => pc'[u] = pc[u]
    /\ pc[th] \notin Accounted /\ pc'[th] \notin Accounted
    /\ \/ envIp' = envIp
       \/ th = Env /\ job[Env] = Null /\ envIp' = envIp + 1 /\ EnvBody[envIp] # <<"wait">>
    /\ th = Env /\ envIp' = envIp /\ job[Env] = Null /\ pc[Env] \in {"run", "probed"} =>
          pc'[Env] \in {"run", "probed"} \/ inFlight > 0
    /\ pc'[Env] = "probed" => pc[Env] = "probed" \/ job[Env] = Null

\* The counter stays exact when nothing it counts changes.
LEMMA CountsKept ==
    ASSUME InFlightCounts, Queued' = Queued, Executing' = Executing, Moving' = Moving,
           inFlight' = inFlight, Waiters' = Waiters
    PROVE  InFlightCounts'
BY DEF InFlightCounts

\* The summands of the counter are naturals.
LEMMA CountsAreNat ==
    ASSUME InFlightCounts
    PROVE  /\ Cardinality(Queued) \in Nat /\ Cardinality(Executing) \in Nat
           /\ Cardinality(Moving) \in Nat /\ Waiters \in Nat
BY FS_CardinalityType DEF InFlightCounts, Waiters

\* A counter at most 1 during a wait counts only the waiter.
LEMMA NothingCounted ==
    ASSUME InFlightCounts, inFlight <= Waiters
    PROVE  Queued = {} /\ Executing = {} /\ Moving = {}
<1>1. inFlight = Cardinality(Queued) + Cardinality(Executing) + Cardinality(Moving) + Waiters
  BY DEF InFlightCounts
<1>2. Cardinality(Queued) = 0 /\ Cardinality(Executing) = 0 /\ Cardinality(Moving) = 0
  <2>1. /\ Cardinality(Queued) \in Nat /\ Cardinality(Executing) \in Nat
        /\ Cardinality(Moving) \in Nat /\ Waiters \in Nat
    BY CountsAreNat
  <2> QED BY <1>1, <2>1
<1> QED BY <1>2, FS_EmptySet DEF InFlightCounts

\* After a wait nothing is in flight.
LEMMA NoneInFlight ==
    ASSUME Inv, WaitInv, WaitOver, waitPhase = "none"
    PROVE  inFlight = 0
<1>1. Queued = {}
  BY DEF WaitInv, QuietOnceOver, Queued
<1>2. Executing = {} /\ Moving = {}
  BY DEF WaitInv, QuietOnceOver, EnvInPlace, Executing, Moving, Threads, Inv, Shape, Control
<1>3. Cardinality({}) = 0
  BY FS_EmptySet
<1> QED BY <1>1, <1>2, <1>3 DEF WaitInv, InFlightCounts, Waiters

\* A local step keeps the invariant.
LEMMA LocalStepKeeps ==
    ASSUME Inv, WaitInv, NEW th \in Threads, LocalStep(th)
    PROVE  WaitInv'
<1>a. Env \in Threads /\ Env \notin Workers /\ Workers \subseteq Threads /\ envIp \in Nat
  BY ConstantsOK DEF Threads, Inv, Shape, Typed, ThreadsTyped
<1>1. InFlightCounts'
  <2>1. Queued' = Queued /\ Waiters' = Waiters
    BY DEF LocalStep, Queued, Waiters
  <2>2. Executing' = Executing
    BY DEF LocalStep, Executing, Accounted
  <2>3. Moving' = Moving
    BY DEF LocalStep, Moving, Accounted
  <2> QED BY <2>1, <2>2, <2>3, CountsKept DEF LocalStep, WaitInv
<1>2. WorkersAtLoop'
  BY <1>a DEF WaitInv, WorkersAtLoop, LocalStep, Accounted
<1>3. EnvInPlace'
  BY <1>a DEF WaitInv, EnvInPlace, LocalStep, Accounted
<1>4. QuietOnceOver'
  <2> SUFFICES ASSUME WaitOver' PROVE QuietOnceOver'
    BY DEF QuietOnceOver
  <2>1. WaitOver
    BY <1>a DEF WaitOver, LocalStep
  <2>2. th = Env
    BY <2>1 DEF WaitInv, QuietOnceOver, LocalStep, Accounted, Threads
  <2>3. waitPhase = "none"
    BY <2>1, <2>2 DEF WaitInv, EnvInPlace, WaitOver, LocalStep, Accounted
  <2>4. inFlight = 0
    BY <2>1, <2>3, NoneInFlight
  <2>5. envIp' = envIp
    BY <1>a, <2>3 DEF WaitOver, LocalStep
  <2>6. pc'[Env] \in {"run", "probed"}
    BY <2>1, <2>2, <2>3, <2>4, <2>5
    DEF WaitInv, QuietOnceOver, EnvInPlace, LocalStep, Accounted
  <2> QED BY <1>a, <2>1, <2>2, <2>6 DEF WaitInv, QuietOnceOver, LocalStep
<1> QED BY <1>1, <1>2, <1>3, <1>4 DEF WaitInv

\* No step of any thread breaks the invariant.
LEMMA WaitStep ==
    ASSUME Sequentialize = {}, Inv, WaitInv, [Next]_vars
    PROVE  WaitInv'
<1>a. Env \in Threads /\ Env \notin Workers /\ Workers \subseteq Threads /\ Null \notin Steps
  BY ConstantsOK DEF Threads
<1>b. /\ pc \in [Threads -> Pcs] /\ job \in [Threads -> Steps \cup {Null}] /\ envIp \in Nat
      /\ queue \in [Steps -> Nat] /\ tgt \in [Threads -> Steps \cup {Null}] /\ inFlight \in Int
      /\ ret \in [Threads -> {"run", "resume", "idle"}]
      /\ \A th \in Threads : ret[th] # "idle"
  BY DEF Inv, Shape, Typed, ThreadsTyped, SchedulerTyped, NoneSequential
<1>c. InFlightCounts /\ WorkersAtLoop /\ EnvInPlace /\ QuietOnceOver
  BY DEF WaitInv
<1>d. /\ Cardinality(Queued) \in Nat /\ Cardinality(Executing) \in Nat
      /\ Cardinality(Moving) \in Nat /\ Waiters \in Nat
  BY <1>c, CountsAreNat
<1>f. ASSUME NEW S, IsFiniteSet(S), NEW x
      PROVE  /\ IsFiniteSet(S \cup {x}) /\ IsFiniteSet(S \ {x})
             /\ x \notin S => Cardinality(S \cup {x}) = Cardinality(S) + 1
             /\ x \in S => Cardinality(S \ {x}) = Cardinality(S) - 1
  BY <1>f, FS_AddElement, FS_RemoveElement
<1>1. ASSUME NEW th \in Threads, NEW t \in Steps, PutTag(th, t) PROVE WaitInv'
  <2>1. LocalStep(th)
    BY <1>1, <1>a, <1>b DEF PutTag, Advance, AtOp, Goto, schedVars, waitVars, LocalStep, Accounted
  <2> QED BY <2>1, <1>a, LocalStepKeeps
<1>2. ASSUME NEW th \in Threads, NEW i \in Items, DependOn(th, i) PROVE WaitInv'
  <2>1. LocalStep(th)
    BY <1>2, <1>a, <1>b DEF DependOn, schedVars, envVars, waitVars, LocalStep, Accounted
  <2> QED BY <2>1, <1>a, LocalStepKeeps
<1>3. ASSUME NEW th \in Threads, EndPrepare(th) PROVE WaitInv'
  <2>1. LocalStep(th)
    BY <1>3, <1>a, <1>b DEF EndPrepare, Goto, schedVars, envVars, waitVars, LocalStep, Accounted
  <2> QED BY <2>1, <1>a, LocalStepKeeps
<1>4. ASSUME NEW th \in Threads, SequentializePrepared(th) PROVE FALSE
  BY <1>4 DEF SequentializePrepared, Inv, Shape, NoneSequential
<1>5. ASSUME NEW th \in Threads, CheckDone(th) PROVE WaitInv'
  <2>1. LocalStep(th)
    BY <1>5, <1>a, <1>b DEF CheckDone, Goto, schedVars, envVars, waitVars, LocalStep, Accounted
  <2> QED BY <2>1, <1>a, LocalStepKeeps
<1>6. ASSUME NEW th \in Threads, ScheduleDefer(th) PROVE WaitInv'
  <2>1. LocalStep(th)
    BY <1>6, <1>a, <1>b DEF ScheduleDefer, Return, Goto, envVars, waitVars, LocalStep, Accounted
  <2> QED BY <2>1, <1>a, LocalStepKeeps
<1>7. ASSUME NEW th \in Threads, ScheduleCount(th) PROVE WaitInv'
  <2>1. /\ pc' = [pc EXCEPT ![th] = "enqueue"] /\ pc[th] = "schedule"
        /\ job' = job /\ queue' = queue /\ waitPhase' = waitPhase /\ envIp' = envIp
        /\ inFlight' = inFlight + 1
    BY <1>7 DEF ScheduleCount, CountStep, Goto, envVars, waitVars
  <2>2. Moving' = Moving \cup {th} /\ th \notin Moving
    BY <2>1, <1>b DEF Moving
  <2>3. Queued' = Queued /\ Executing' = Executing /\ Waiters' = Waiters
    BY <2>1, <1>b DEF Queued, Executing, Waiters
  <2>4. Cardinality(Moving \cup {th}) = Cardinality(Moving) + 1 /\ IsFiniteSet(Moving \cup {th})
    BY <1>c, <1>f, <2>2 DEF InFlightCounts
  <2>7. InFlightCounts'
    BY <1>c, <1>d, <2>1, <2>2, <2>3, <2>4 DEF InFlightCounts
  <2>8. WorkersAtLoop' /\ EnvInPlace'
    <3>1. th \in Workers => job[th] # Null
      BY <2>1, <1>c DEF WorkersAtLoop
    <3> QED BY <2>1, <3>1, <1>a, <1>b, <1>c DEF WorkersAtLoop, EnvInPlace
  <2>9. QuietOnceOver'
    BY <2>1, <1>a, <1>b, <1>c DEF QuietOnceOver, WaitOver, Threads
  <2> QED BY <2>7, <2>8, <2>9 DEF WaitInv
<1>8. ASSUME NEW th \in Threads, ScheduleEnqueue(th) PROVE WaitInv'
  <2>0. tgt[th] \in Steps /\ queue[tgt[th]] = 0
    <3>1. tgt[th] \in Steps /\ pc[th] = "enqueue"
      BY <1>8, <1>b DEF ScheduleEnqueue, Inv, Shape, Control
    <3>2. Holds(th, tgt[th])
      BY <3>1 DEF Holds, Holding
    <3> QED BY <3>1, <3>2 DEF Inv, Ownership, SingleOwner
  <2>1. /\ pc' = [pc EXCEPT ![th] = ret[th]] /\ pc[th] = "enqueue"
        /\ queue' = [queue EXCEPT ![tgt[th]] = 1]
        /\ job' = job /\ waitPhase' = waitPhase /\ envIp' = envIp /\ inFlight' = inFlight
    BY <1>8, <1>b, <2>0 DEF ScheduleEnqueue, Return, Goto, envVars, waitVars
  <2>2. ret[th] \in {"run", "resume"}
    BY <1>b
  <2>3. Moving' = Moving \ {th} /\ th \in Moving
    BY <2>1, <2>2, <1>b DEF Moving
  <2>4. Queued' = Queued \cup {tgt[th]} /\ tgt[th] \notin Queued
    BY <2>0, <2>1, <1>b DEF Queued
  <2>5. Executing' = Executing /\ Waiters' = Waiters
    BY <2>1, <2>2, <1>b DEF Executing, Waiters
  <2>6. Cardinality(Moving \ {th}) = Cardinality(Moving) - 1 /\ IsFiniteSet(Moving \ {th})
    BY <1>c, <1>f, <2>3 DEF InFlightCounts
  <2>6b. /\ Cardinality(Queued \cup {tgt[th]}) = Cardinality(Queued) + 1
         /\ IsFiniteSet(Queued \cup {tgt[th]})
    BY <1>c, <1>f, <2>4 DEF InFlightCounts
  <2>7. InFlightCounts'
    BY <1>c, <1>d, <2>1, <2>3, <2>4, <2>5, <2>6, <2>6b DEF InFlightCounts
  <2>8. WorkersAtLoop' /\ EnvInPlace'
    <3>1. th \in Workers => job[th] # Null
      BY <2>1, <1>c DEF WorkersAtLoop
    <3> QED BY <2>1, <2>2, <3>1, <1>a, <1>b, <1>c DEF WorkersAtLoop, EnvInPlace
  <2>9. QuietOnceOver'
    BY <2>1, <1>a, <1>b, <1>c DEF QuietOnceOver, WaitOver, Threads
  <2> QED BY <2>7, <2>8, <2>9 DEF WaitInv
<1>9. ASSUME NEW th \in Threads, NEW s \in Steps, TakeStep(th, s) PROVE WaitInv'
  <2>0. queue[s] = 1
    BY <1>9, <1>b DEF TakeStep, Inv, Ownership, SingleOwner
  <2>1. /\ pc' = [pc EXCEPT ![th] = "begin"] /\ pc[th] = "idle"
        /\ queue' = [queue EXCEPT ![s] = 0] /\ job' = [job EXCEPT ![th] = s]
        /\ waitPhase' = waitPhase /\ envIp' = envIp /\ inFlight' = inFlight
        /\ th = Env => waitPhase = "run"
    BY <1>9, <1>b, <2>0 DEF TakeStep, Goto, envVars, waitVars
  <2>2. job[th] = Null /\ s # Null
    BY <2>1, <1>a DEF Inv, Shape, Control
  <2>3. Queued' = Queued \ {s} /\ s \in Queued
    BY <2>0, <2>1, <1>b DEF Queued
  <2>4. Executing' = Executing \cup {th} /\ th \notin Executing
    BY <2>1, <2>2, <1>b DEF Executing
  <2>5. Moving' = Moving /\ Waiters' = Waiters
    BY <2>1, <1>b DEF Moving, Waiters
  <2>6. Cardinality(Queued \ {s}) = Cardinality(Queued) - 1 /\ IsFiniteSet(Queued \ {s})
    BY <1>c, <1>f, <2>3 DEF InFlightCounts
  <2>6b. /\ Cardinality(Executing \cup {th}) = Cardinality(Executing) + 1
         /\ IsFiniteSet(Executing \cup {th})
    BY <1>c, <1>f, <2>4 DEF InFlightCounts
  <2>7. InFlightCounts'
    BY <1>c, <1>d, <2>1, <2>3, <2>4, <2>5, <2>6, <2>6b DEF InFlightCounts
  <2>8. WorkersAtLoop' /\ EnvInPlace'
    BY <2>1, <2>2, <1>a, <1>b, <1>c DEF WorkersAtLoop, EnvInPlace
  <2>9. QuietOnceOver'
    BY <2>0, <2>1, <1>a, <1>b, <1>c DEF QuietOnceOver, WaitOver
  <2> QED BY <2>7, <2>8, <2>9 DEF WaitInv
<1>10. ASSUME NEW th \in Threads, BeginExecute(th) PROVE WaitInv'
  <2>1. LocalStep(th)
    BY <1>10, <1>a, <1>b DEF BeginExecute, Goto, schedVars, envVars, waitVars, LocalStep, Accounted
  <2> QED BY <2>1, <1>a, LocalStepKeeps
<1>11. ASSUME NEW th \in Threads, DecrementRefCount(th) PROVE WaitInv'
  <2>1. LocalStep(th)
    BY <1>11, <1>a, <1>b
       DEF DecrementRefCount, AtBodyEnd, Goto, schedVars, envVars, waitVars, LocalStep, Accounted
  <2> QED BY <2>1, <1>a, LocalStepKeeps
<1>12. ASSUME NEW th \in Threads, Succeed(th) PROVE WaitInv'
  <2>1. LocalStep(th)
    BY <1>12, <1>a, <1>b
       DEF Succeed, AtBodyEnd, Goto, schedVars, envVars, waitVars, LocalStep, Accounted
  <2> QED BY <2>1, <1>a, LocalStepKeeps
<1>13. ASSUME NEW th \in Threads, LeaveSucceeded(th) PROVE WaitInv'
  <2>1. /\ pc' = [pc EXCEPT ![th] = "delete"] /\ pc[th] = "succeeded"
        /\ job' = job /\ queue' = queue /\ waitPhase' = waitPhase /\ envIp' = envIp
        /\ inFlight' = inFlight - 1
    BY <1>13 DEF LeaveSucceeded, Goto, envVars, waitVars
  <2>2. job[th] # Null
    BY <2>1 DEF Inv, Shape, Control
  <2>3. Executing' = Executing \ {th} /\ th \in Executing
    BY <2>1, <2>2, <1>b DEF Executing
  <2>4. Queued' = Queued /\ Moving' = Moving /\ Waiters' = Waiters
    BY <2>1, <1>b DEF Queued, Moving, Waiters
  <2>5. Cardinality(Executing \ {th}) = Cardinality(Executing) - 1 /\ IsFiniteSet(Executing \ {th})
    BY <1>c, <1>f, <2>3 DEF InFlightCounts
  <2>7. InFlightCounts'
    BY <1>c, <1>d, <2>1, <2>3, <2>4, <2>5 DEF InFlightCounts
  <2>8. WorkersAtLoop' /\ EnvInPlace'
    BY <2>1, <2>2, <1>a, <1>b, <1>c DEF WorkersAtLoop, EnvInPlace
  <2>9. QuietOnceOver'
    BY <2>1, <1>a, <1>b, <1>c DEF QuietOnceOver, WaitOver, Threads
  <2> QED BY <2>7, <2>8, <2>9 DEF WaitInv
<1>14. ASSUME NEW th \in Threads, DeleteStep(th) PROVE WaitInv'
  <2>1. /\ pc' = [pc EXCEPT ![th] = "idle"] /\ pc[th] = "delete"
        /\ job' = [job EXCEPT ![th] = Null]
        /\ queue' = queue /\ waitPhase' = waitPhase /\ envIp' = envIp /\ inFlight' = inFlight
    BY <1>14 DEF DeleteStep, Goto, schedVars, envVars, waitVars
  <2>2. job[th] # Null
    BY <2>1 DEF Inv, Shape, Control
  <2>3. /\ Executing' = Executing /\ Queued' = Queued /\ Moving' = Moving
        /\ Waiters' = Waiters
    BY <2>1, <2>2, <1>b DEF Executing, Queued, Moving, Waiters
  <2>7. InFlightCounts'
    BY <1>c, <2>1, <2>3, CountsKept
  <2>8. WorkersAtLoop' /\ EnvInPlace'
    BY <2>1, <2>2, <1>a, <1>b, <1>c DEF WorkersAtLoop, EnvInPlace
  <2>9. QuietOnceOver'
    BY <2>1, <1>a, <1>b, <1>c DEF QuietOnceOver, WaitOver
  <2> QED BY <2>7, <2>8, <2>9 DEF WaitInv
<1>15. ASSUME NEW th \in Threads, CatchNotReady(th) PROVE WaitInv'
  <2>1. LocalStep(th)
    BY <1>15, <1>a, <1>b DEF CatchNotReady, Goto, envVars, waitVars, LocalStep, Accounted
  <2> QED BY <2>1, <1>a, LocalStepKeeps
<1>16. ASSUME NEW th \in Threads, Unprotect(th) PROVE WaitInv'
  <2>1. /\ pc[th] = "unsuspend" /\ job[th] # Null
        /\ queue' = queue /\ waitPhase' = waitPhase /\ envIp' = envIp /\ inFlight' = inFlight
    BY <1>16 DEF Unprotect, schedVars, envVars, waitVars, Inv, Shape, Control
  <2>2. CASE AllArrived(job[th])
    <3>1. LocalStep(th)
      BY <1>16, <2>1, <2>2, <1>a, <1>b DEF Unprotect, Goto, LocalStep, Accounted
    <3> QED BY <3>1, LocalStepKeeps
  <2>3. CASE ~AllArrived(job[th])
    <3>1. pc' = [pc EXCEPT ![th] = "leave"] /\ job' = [job EXCEPT ![th] = Null]
      BY <1>16, <2>3 DEF Unprotect, Goto
    <3>2. Executing' = Executing \ {th} /\ th \in Executing
      BY <2>1, <3>1, <1>b DEF Executing
    <3>3. Moving' = Moving \cup {th} /\ th \notin Moving
      BY <2>1, <3>1, <1>b DEF Moving
    <3>4. Queued' = Queued /\ Waiters' = Waiters
      BY <2>1 DEF Queued, Waiters
    <3>5. /\ Cardinality(Executing \ {th}) = Cardinality(Executing) - 1
          /\ IsFiniteSet(Executing \ {th})
      BY <1>c, <1>f, <3>2 DEF InFlightCounts
    <3>6. /\ Cardinality(Moving \cup {th}) = Cardinality(Moving) + 1
          /\ IsFiniteSet(Moving \cup {th})
      BY <1>c, <1>f, <3>3 DEF InFlightCounts
    <3>7. InFlightCounts'
      BY <1>c, <1>d, <2>1, <3>2, <3>3, <3>4, <3>5, <3>6 DEF InFlightCounts
    <3>8. WorkersAtLoop' /\ EnvInPlace'
      BY <2>1, <3>1, <1>a, <1>b, <1>c DEF WorkersAtLoop, EnvInPlace
    <3>9. QuietOnceOver'
      BY <2>1, <3>1, <1>a, <1>b, <1>c DEF QuietOnceOver, WaitOver, Threads
    <3> QED BY <3>7, <3>8, <3>9 DEF WaitInv
  <2> QED BY <2>2, <2>3
<1>17. ASSUME NEW th \in Threads, LeaveSuspended(th) PROVE WaitInv'
  <2>1. /\ pc' = [pc EXCEPT ![th] = "idle"] /\ pc[th] = "leave"
        /\ job' = job /\ queue' = queue /\ waitPhase' = waitPhase /\ envIp' = envIp
        /\ inFlight' = inFlight - 1
    BY <1>17 DEF LeaveSuspended, Goto, envVars, waitVars
  <2>2. job[th] = Null
    BY <2>1 DEF Inv, Shape, Control
  <2>3. Moving' = Moving \ {th} /\ th \in Moving
    BY <2>1, <1>b DEF Moving
  <2>4. Queued' = Queued /\ Executing' = Executing /\ Waiters' = Waiters
    BY <2>1, <2>2, <1>b DEF Queued, Executing, Waiters
  <2>5. Cardinality(Moving \ {th}) = Cardinality(Moving) - 1 /\ IsFiniteSet(Moving \ {th})
    BY <1>c, <1>f, <2>3 DEF InFlightCounts
  <2>7. InFlightCounts'
    BY <1>c, <1>d, <2>1, <2>3, <2>4, <2>5 DEF InFlightCounts
  <2>8. WorkersAtLoop' /\ EnvInPlace'
    BY <2>1, <2>2, <1>a, <1>b, <1>c DEF WorkersAtLoop, EnvInPlace
  <2>9. QuietOnceOver'
    BY <2>1, <1>a, <1>b, <1>c DEF QuietOnceOver, WaitOver, Threads
  <2> QED BY <2>7, <2>8, <2>9 DEF WaitInv
<1>18. ASSUME NEW th \in Threads, NEW k \in {"get", "uget"}, NEW i \in Items, GetStored(th, k, i) PROVE WaitInv'
  <2>1. LocalStep(th)
    BY <1>18, <1>a, <1>b DEF GetStored, AtOp, Advance, schedVars, waitVars, LocalStep, Accounted
  <2> QED BY <2>1, <1>a, LocalStepKeeps
<1>19. ASSUME NEW th \in Threads, NEW i \in Items, GetMissing(th, i) PROVE WaitInv'
  <2>1. LocalStep(th)
    BY <1>19, <1>a, <1>b
       DEF GetMissing, AtOp, Goto, schedVars, envVars, waitVars, LocalStep, Accounted
  <2> QED BY <2>1, <1>a, LocalStepKeeps
<1>20. ASSUME NEW th \in Threads, NEW i \in Items, UnsafeGetMissing(th, i) PROVE WaitInv'
  <2>1. LocalStep(th)
    BY <1>20, <1>a, <1>b
       DEF UnsafeGetMissing, AtOp, Advance, schedVars, waitVars, LocalStep, Accounted
  <2> QED BY <2>1, <1>a, LocalStepKeeps
<1>21. ASSUME NEW th \in Threads, NEW i \in Items, PutDiscarded(th, i) PROVE WaitInv'
  <2>1. LocalStep(th)
    BY <1>21, <1>a, <1>b DEF PutDiscarded, AtOp, Advance, schedVars, waitVars, LocalStep, Accounted
  <2> QED BY <2>1, <1>a, LocalStepKeeps
<1>22. ASSUME NEW th \in Threads, NEW i \in Items, PutStore(th, i) PROVE WaitInv'
  <2>1. LocalStep(th)
    BY <1>22, <1>a, <1>b
       DEF PutStore, AtOp, Advance, Goto, schedVars, waitVars, LocalStep, Accounted
  <2> QED BY <2>1, <1>a, LocalStepKeeps
<1>23. ASSUME NEW th \in Threads, NEW i \in Items, ResumeEnv(th, i) PROVE WaitInv'
  <2>1. LocalStep(th)
    BY <1>23, <1>a, <1>b DEF ResumeEnv, schedVars, threadVars, waitVars, LocalStep, Accounted
  <2> QED BY <2>1, <1>a, LocalStepKeeps
<1>24. ASSUME NEW th \in Threads, NEW i \in Items, EndPut(th, i) PROVE WaitInv'
  <2>1. LocalStep(th)
    BY <1>24, <1>a, <1>b DEF EndPut, Goto, schedVars, envVars, waitVars, LocalStep, Accounted
  <2> QED BY <2>1, <1>a, LocalStepKeeps
<1>25. ASSUME NEW th \in Threads, NEW i \in Items, NEW s \in Steps, ResumeStep(th, i, s) PROVE WaitInv'
  <2>1. LocalStep(th)
    BY <1>25, <1>a, <1>b DEF ResumeStep, Goto, schedVars, envVars, waitVars, LocalStep, Accounted
  <2> QED BY <2>1, <1>a, LocalStepKeeps
<1>26. ASSUME NEW th \in Threads, FlushGets(th) PROVE WaitInv'
  <2>1. LocalStep(th)
    BY <1>26, <1>a, <1>b DEF FlushGets, Goto, schedVars, envVars, waitVars, LocalStep, Accounted
  <2> QED BY <2>1, <1>a, LocalStepKeeps
<1>27. ASSUME NEW i \in Items, EnvGetStored(i) PROVE WaitInv'
  <2>1. LocalStep(Env)
    BY <1>27, <1>a, <1>b, <1>c
       DEF EnvGetStored, EnvAt, AtOp, Goto, schedVars, waitVars, LocalStep, Accounted, EnvInPlace
  <2> QED BY <2>1, <1>a, LocalStepKeeps
<1>28. ASSUME NEW i \in Items, EnvGetActive(i) PROVE WaitInv'
  <2>1. LocalStep(Env)
    BY <1>28, <1>a, <1>b
       DEF EnvGetActive, EnvAt, AtOp, Goto, schedVars, envVars, waitVars, LocalStep, Accounted
  <2> QED BY <2>1, <1>a, LocalStepKeeps
<1>29. ASSUME NEW i \in Items, EnvBlockForPut(i) PROVE WaitInv'
  <2>1. LocalStep(Env)
    BY <1>29, <1>a, <1>b
       DEF EnvBlockForPut, Goto, schedVars, envVars, waitVars, LocalStep, Accounted
  <2> QED BY <2>1, <1>a, LocalStepKeeps
<1>30. ASSUME NEW i \in Items, EnvGetInactive(i) PROVE WaitInv'
  <2>1. LocalStep(Env)
    BY <1>30, <1>a, <1>b
       DEF EnvGetInactive, EnvAt, AtOp, Goto, schedVars, envVars, waitVars, LocalStep, Accounted
  <2> QED BY <2>1, <1>a, LocalStepKeeps
<1>31. ASSUME NEW i \in Items, EnvGetGivesUp(i) PROVE WaitInv'
  <2>1. LocalStep(Env)
    BY <1>31, <1>a, <1>b, <1>c
       DEF EnvGetGivesUp, Goto, schedVars, waitVars, LocalStep, Accounted, EnvInPlace
  <2> QED BY <2>1, <1>a, LocalStepKeeps
<1>32. ASSUME EnvUnblock PROVE WaitInv'
  <2>1. LocalStep(Env)
    BY <1>32, <1>a, <1>b DEF EnvUnblock, Goto, schedVars, waitVars, LocalStep, Accounted
  <2> QED BY <2>1, <1>a, LocalStepKeeps
<1>33. ASSUME EnvWait PROVE WaitInv'
  <2>1. /\ pc' = [pc EXCEPT ![Env] = "idle"] /\ pc[Env] = "run" /\ job[Env] = Null
        /\ job' = job /\ queue' = queue /\ envIp' = envIp + 1 /\ EnvBody[envIp] = <<"wait">>
        /\ waitPhase' = "run" /\ inFlight' = inFlight + 1
    BY <1>33 DEF EnvWait, Goto
  <2>2. waitPhase = "none" /\ envIp > 0
    BY <2>1, <1>33, <1>b, <1>c, ConstantsOK DEF EnvInPlace, EnvWait
  <2>3. /\ Queued' = Queued /\ Executing' = Executing /\ Moving' = Moving
        /\ Waiters' = 1 /\ Waiters = 0
    BY <2>1, <2>2, <1>a, <1>b DEF Queued, Executing, Moving, Waiters
  <2>7. InFlightCounts'
    BY <1>c, <1>d, <2>1, <2>3 DEF InFlightCounts
  <2>8. WorkersAtLoop' /\ EnvInPlace'
    BY <2>1, <2>2, <1>a, <1>b, <1>c DEF WorkersAtLoop, EnvInPlace
  <2>9. QuietOnceOver'
    BY <2>1 DEF QuietOnceOver, WaitOver
  <2> QED BY <2>7, <2>8, <2>9 DEF WaitInv
<1>34. ASSUME WaitLockSteps PROVE WaitInv'
  <2>1. /\ waitPhase = "run" /\ pc[Env] = "idle" /\ inFlight <= 1 /\ waitPhase' = "seq"
        /\ queue' = queue /\ inFlight' = inFlight /\ pc' = pc /\ job' = job /\ envIp' = envIp
    BY <1>34 DEF WaitLockSteps, OnlyWaiterLeft, threadVars
  <2>2. Waiters' = Waiters /\ Waiters = 1
    BY <2>1 DEF Waiters
  <2>3. Queued = {} /\ Executing = {} /\ Moving = {}
    BY <1>c, <2>1, <2>2, NothingCounted
  <2>4. \A s \in Steps : queue[s] = 0
    BY <2>3, <1>b DEF Queued
  <2>5. \A w \in Workers : pc[w] \in {"idle", "delete"}
    BY <2>3, <1>a, <1>c DEF Executing, Moving, WorkersAtLoop
  <2>6. Queued' = Queued /\ Executing' = Executing /\ Moving' = Moving
    BY <2>1 DEF Queued, Executing, Moving
  <2>7. InFlightCounts'
    BY <1>c, <2>1, <2>2, <2>6, CountsKept
  <2>8. WorkersAtLoop' /\ EnvInPlace'
    BY <2>1, <1>c DEF WorkersAtLoop, EnvInPlace
  <2>9. QuietOnceOver'
    BY <2>1, <2>4, <2>5 DEF QuietOnceOver
  <2> QED BY <2>7, <2>8, <2>9 DEF WaitInv
<1>35. ASSUME WaitRunSequential PROVE FALSE
  BY <1>35 DEF WaitRunSequential, Inv, Shape, NoneSequential
<1>36. ASSUME WaitEndSequential PROVE WaitInv'
  <2>1. /\ waitPhase = "seq" /\ pc[Env] = "idle" /\ waitPhase' = "repost"
        /\ queue' = queue /\ inFlight' = inFlight /\ pc' = pc /\ job' = job /\ envIp' = envIp
    BY <1>36 DEF WaitEndSequential, schedVars, threadVars
  <2>2. Waiters' = Waiters /\ Queued' = Queued /\ Executing' = Executing /\ Moving' = Moving
    BY <2>1 DEF Waiters, Queued, Executing, Moving
  <2>7. InFlightCounts'
    BY <1>c, <2>1, <2>2, CountsKept
  <2>8. WorkersAtLoop' /\ EnvInPlace'
    BY <2>1, <1>c DEF WorkersAtLoop, EnvInPlace
  <2>9. QuietOnceOver'
    BY <2>1, <1>c DEF QuietOnceOver, WaitOver
  <2> QED BY <2>7, <2>8, <2>9 DEF WaitInv
<1>37. ASSUME WaitRepost PROVE FALSE
  BY <1>37 DEF WaitRepost, Inv, Shape, NoneSequential
<1>38. ASSUME WaitAgain PROVE WaitInv'
  <2>1. /\ waitPhase = "repost" /\ pc[Env] = "idle" /\ waitPhase' = "run"
        /\ queue' = queue /\ inFlight' = inFlight /\ pc' = pc /\ job' = job /\ envIp' = envIp
    BY <1>38 DEF WaitAgain, schedVars, threadVars
  <2>2. Waiters' = Waiters /\ Queued' = Queued /\ Executing' = Executing /\ Moving' = Moving
    BY <2>1 DEF Waiters, Queued, Executing, Moving
  <2>7. InFlightCounts'
    BY <1>c, <2>1, <2>2, CountsKept
  <2>8. WorkersAtLoop' /\ EnvInPlace'
    BY <2>1, <1>c DEF WorkersAtLoop, EnvInPlace
  <2>9. QuietOnceOver'
    BY <2>1, <1>c DEF QuietOnceOver, WaitOver
  <2> QED BY <2>7, <2>8, <2>9 DEF WaitInv
<1>39. ASSUME WaitReturn PROVE WaitInv'
  <2>1. /\ waitPhase = "repost" /\ pc[Env] = "idle" /\ waitPhase' = "none"
        /\ queue' = queue /\ inFlight' = inFlight - 1 /\ pc' = [pc EXCEPT ![Env] = "run"]
        /\ job' = job /\ envIp' = envIp
    BY <1>39 DEF WaitReturn, Goto
  <2>2. job[Env] = Null
    BY <2>1, <1>a DEF Inv, Shape, Control
  <2>3. /\ Queued' = Queued /\ Executing' = Executing /\ Moving' = Moving
        /\ Waiters = 1 /\ Waiters' = 0
    BY <2>1, <2>2, <1>a, <1>b DEF Queued, Executing, Moving, Waiters
  <2>7. InFlightCounts'
    BY <1>c, <1>d, <2>1, <2>3 DEF InFlightCounts
  <2>8. WorkersAtLoop' /\ EnvInPlace'
    BY <2>1, <2>2, <1>a, <1>b, <1>c DEF WorkersAtLoop, EnvInPlace
  <2>9. QuietOnceOver'
    BY <2>1, <1>a, <1>b, <1>c DEF QuietOnceOver, WaitOver
  <2> QED BY <2>7, <2>8, <2>9 DEF WaitInv
<1>40. ASSUME UNCHANGED vars PROVE WaitInv'
  BY <1>40 DEF vars, schedVars, threadVars, envVars, waitVars, WaitInv, InFlightCounts, Queued,
     Executing, Moving, Waiters, WorkersAtLoop, EnvInPlace, QuietOnceOver, WaitOver
<1> QED
  BY <1>1, <1>2, <1>3, <1>4, <1>5, <1>6, <1>7, <1>8, <1>9, <1>10, <1>11, <1>12, <1>13, <1>14,
       <1>15, <1>16, <1>17, <1>18, <1>19, <1>20, <1>21, <1>22, <1>23, <1>24, <1>25, <1>26, <1>27,
       <1>28, <1>29, <1>30, <1>31, <1>32, <1>33, <1>34, <1>35, <1>36, <1>37, <1>38, <1>39, <1>40
     DEF Next, ThreadStep, Prepare, Schedule, Execute, Access, Environment, Terminated

\* The counter starts at zero with nothing to count.
LEMMA InitWait == Init => WaitInv
<1> SUFFICES ASSUME Init PROVE WaitInv
  OBVIOUS
<1>a. Env \in Threads /\ Env \notin Workers /\ Workers \subseteq Threads
  BY ConstantsOK DEF Threads
<1>1. Queued = {} /\ Executing = {} /\ Moving = {}
  BY DEF Init, Queued, Executing, Moving
<1>2. InFlightCounts
  BY <1>1, FS_EmptySet DEF InFlightCounts, Init, Waiters
<1>3. WorkersAtLoop /\ EnvInPlace /\ QuietOnceOver
  BY <1>a, ConstantsOK DEF Init, WorkersAtLoop, EnvInPlace, QuietOnceOver, WaitOver
<1> QED BY <1>2, <1>3 DEF WaitInv

\* After a wait no accessor is held and no thread has an unfinished instance, so
\* that what is not done waits for an item that is missing.
LEMMA QuietSteps ==
    ASSUME Inv, WaitInv, AfterWait, NoStepLost,
           NEW s \in Steps, status[s] \notin {"None", "Done"}
    PROVE  \E i \in WaitsFor(s) : item[i] # "stored"
<1>a. Env \in Threads /\ Null \notin Steps /\ Threads = Workers \cup {Env}
  BY ConstantsOK DEF Threads
<1>1. /\ queue[s] = 0 /\ pc[Env] = "run" /\ job[Env] = Null
      /\ \A w \in Workers : pc[w] \in {"idle", "delete"}
  BY DEF AfterWait, WaitInv, QuietOnceOver, WaitOver
<1>2. ASSUME NEW th \in Threads PROVE ~Holds(th, s)
  <2>1. pc[th] \notin Holding
    BY <1>1, <1>2, <1>a DEF Holding
  <2>2. job[th] # s
    BY <1>1, <1>2, <1>a DEF Inv, Shape, Control, Ownership, Life, JobAlive
  <2> QED BY <2>1, <2>2 DEF Holds
<1>3. ~Owned(s)
  BY <1>1, <1>2 DEF Owned, InSeq, Inv, Shape, NoneSequential
<1>4. PICK i \in WaitsFor(s) : item[i] # "stored" \/ lock[i] # Null
  BY <1>3 DEF NoStepLost
<1>5. lock[i] = Null
  <2>1. i \in Items /\ lock[i] \in Threads \cup {Null}
    BY <1>4 DEF WaitsFor, Inv, Shape, Typed, ItemsTyped
  <2> QED BY <2>1, <1>1, <1>a DEF Inv, Locking, HolderInPlace, LockHolder
<1> QED BY <1>4, <1>5

\* The in-flight counter counts exactly the queued and the executed steps and the
\* waiter, and context::wait returns only when there are none: whatever is not
\* done then waits for an item that was never put, and no execution is under way.
THEOREM WaitIsExact ==
    ASSUME Sequentialize = {}
    PROVE  Spec => []WaitExact
<1>1. Inv /\ WaitInv /\ [Next]_vars => WaitInv'
  BY WaitStep
<1>2. Inv /\ WaitInv /\ NoStepLost => WaitExact
  <2> SUFFICES ASSUME Inv, WaitInv, NoStepLost PROVE WaitExact
    OBVIOUS
  <2>1. InFlightExact
    <3>1. {s \in Steps : queue[s] >= 2} = {}
      BY DEF Inv, Ownership, SingleOwner, Shape, Typed, SchedulerTyped
    <3>2. Cardinality({s \in Steps : queue[s] >= 2}) = 0
      BY <3>1, FS_EmptySet
    <3>3. Sum(queue) = Cardinality(Queued) + Cardinality({s \in Steps : queue[s] >= 2})
      BY DEF Sum, Queued
    <3>4. Sum(queue) = Cardinality(Queued)
      BY <3>2, <3>3, CountsAreNat DEF WaitInv
    <3> QED BY <3>4 DEF WaitInv, InFlightCounts, InFlightExact, Executing, Moving, Waiters
  <2>2. QuiescentAfterWait
    <3>1. AfterWait => \A th \in Workers : pc[th] \in {"idle", "delete"}
      BY DEF AfterWait, WaitInv, QuietOnceOver, WaitOver
    <3> QED BY <3>1, QuietSteps DEF QuiescentAfterWait
  <2>3. SequentialPhase
    BY DEF SequentialPhase, Inv, Shape, NoneSequential, Typed, ThreadsTyped
  <2> QED BY <2>1, <2>2, <2>3 DEF WaitExact
<1> QED BY InitWait, <1>1, <1>2, Invariance, NeverLost, PTL DEF Spec
=============================================================================
