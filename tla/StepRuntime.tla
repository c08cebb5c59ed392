---------------------------- MODULE StepRuntime ----------------------------
(***************************************************************************)
(* The shared-memory core of the CnC runtime: step instances               *)
(* (schedulable.h, step_instance.h, tagged_step_instance.h), the item      *)
(* table with its suspend groups and get counts (item_collection_base.h,   *)
(* hash_item_table.h) and the scheduler base class with its wait procedure *)
(* (scheduler_i.cpp), driven by worker threads and by the environment      *)
(* thread, on one process and without scheduler bypass.                    *)
(*                                                                         *)
(* The user program is data: the body of a step (and of the environment)   *)
(* is a sequence of operations <<kind, argument>> whose kinds are          *)
(*   "get"   item_collection::get        "put"  item_collection::put       *)
(*   "uget"  item_collection::unsafe_get "tag"  tag_collection::put        *)
(*   "flush" context::flush_gets         "wait" context::wait (env only)   *)
(*   "exit"  the end of main (env only)                                    *)
(* Several programs may be given: EnvBody holds their mains and Init       *)
(* chooses one.                                                            *)
(***************************************************************************)
EXTENDS Integers, Sequences, FiniteSets

CONSTANTS
    Steps,          \* the step instances the program's tags prescribe
    Items,          \* the item instances (collection and tag)
    Workers,        \* the worker threads of the scheduler
    Env,            \* the thread that created the context
    Null,           \* NULL: no step, no thread
    Body,           \* Body[s]: what step.execute does for s
    EnvBody,        \* what the environments of the programs do, one after the other
    Mains,          \* where in EnvBody a program begins
    Depends,        \* Depends[s]: the items the step tuner's depends() names
    Sequentialize,  \* the steps for which tuner.sequentialize() is true
    GetCount,       \* GetCount[i]: what the item tuner's get_count() returns
    MaxWaitRounds   \* the 99999 of wait_all

Threads == Workers \cup {Env}

NO_GET_COUNT == -2147483647 - 1
UNSET_GET_COUNT == -2147483647

StepKinds == {"get", "uget", "put"}
Ops == (StepKinds \X Items) \cup ({"tag"} \X Steps) \cup {<<"flush">>}
EnvOps == ({"get", "put"} \X Items) \cup ({"tag"} \X Steps) \cup {<<"wait">>, <<"exit">>}

ASSUME ConstantsOK ==
    /\ IsFiniteSet(Items)
    /\ Env \notin Workers
    /\ Null \notin Steps /\ Null \notin Threads
    /\ Body \in [Steps -> Seq(Ops)]
    /\ EnvBody \in Seq(EnvOps)
    /\ Mains \subseteq Nat \ {0}
    /\ \A m \in Mains : m = 1 \/ EnvBody[m - 1] = <<"exit">>
    /\ Depends \in [Steps -> SUBSET Items]
    /\ Sequentialize \subseteq Steps
    /\ GetCount \in [Items -> Nat \cup {NO_GET_COUNT}]
    /\ MaxWaitRounds \in Nat

VARIABLES
    \* schedulable / step_instance_base
    nSuspenders,    \* m_nSuspenders
    wasSuspended,   \* m_wasSuspendedSinceReset
    status,         \* m_status ("None": the instance does not exist yet)
    inPending,      \* m_inPending
    sequentialized, \* m_sequentialize
    getList,        \* the step's get_list
    deleted,        \* how often the instance was deleted
    \* the item table
    item,           \* "none": no entry, "entry": entry without item, "stored"
    getCount,       \* item_properties::m_getCount
    group,          \* group[i][s]: how often s is a member of i's m_suspendGroup
    lock,           \* the thread that holds a write accessor, or Null
    \* scheduler_i
    inFlight,       \* m_userStepsInFlight
    queue,          \* what do_schedule was given and no thread has taken yet
    pendingSteps,   \* m_pendingSteps
    seqSteps,       \* m_seqSteps
    \* threads
    pc,             \* what the thread does next
    job,            \* the step it executes: current(), Null in the environment
    ip,             \* its place in Body[job]
    tgt,            \* the instance it is preparing or scheduling
    ret,            \* where schedule() returns to
    deps,           \* the items depends() still has to name
    \* the environment
    envIp,          \* its place in EnvBody
    envIsWaiting,   \* how many values m_envIsWaiting holds
    waitPhase,      \* where wait_all is
    round, currPend, seq2   \* the locals of wait_all

stepVars == <<nSuspenders, wasSuspended, status, inPending, sequentialized, getList, deleted>>
itemVars == <<item, getCount, group, lock>>
schedVars == <<inFlight, queue, pendingSteps, seqSteps>>
threadVars == <<pc, job, ip, tgt, ret, deps>>
waitVars == <<waitPhase, round, currPend, seq2>>
envVars == <<envIp, envIsWaiting, waitVars>>
vars == <<stepVars, itemVars, schedVars, threadVars, envVars>>

Init ==
    /\ nSuspenders = [s \in Steps |-> 0]
    /\ wasSuspended = [s \in Steps |-> FALSE]
    /\ status = [s \in Steps |-> "None"]
    /\ inPending = [s \in Steps |-> FALSE]
    /\ sequentialized = [s \in Steps |-> FALSE]
    /\ getList = [s \in Steps |-> <<>>]
    /\ deleted = [s \in Steps |-> 0]
    /\ item = [i \in Items |-> "none"]
    /\ getCount = [i \in Items |-> UNSET_GET_COUNT]
    /\ group = [i \in Items |-> [s \in Steps \cup {Null} |-> 0]]
    /\ lock = [i \in Items |-> Null]
    /\ inFlight = 0
    /\ queue = [s \in Steps |-> 0]
    /\ pendingSteps = <<>>
    /\ seqSteps = <<>>
    /\ pc = [th \in Threads |-> IF th = Env THEN "run" ELSE "idle"]
    /\ job = [th \in Threads |-> Null]
    /\ ip = [th \in Threads |-> 1]
    /\ tgt = [th \in Threads |-> Null]
    /\ ret = [th \in Threads |-> "run"]
    /\ deps = [th \in Threads |-> {}]
    /\ envIp \in Mains
    /\ envIsWaiting = 0
    /\ waitPhase = "none"
    /\ round = 0
    /\ currPend = 0
    /\ seq2 = <<>>

-----------------------------------------------------------------------------
(* Helpers *)

Goto(th, l) == pc' = [pc EXCEPT ![th] = l]

\* The operation the thread is at, if it is one of kind k with argument x.
AtOp(th, k, x) ==
    /\ pc[th] = "run"
    /\ IF job[th] = Null
       THEN th = Env /\ envIp <= Len(EnvBody) /\ EnvBody[envIp] = <<k, x>>
       ELSE ip[th] <= Len(Body[job[th]]) /\ Body[job[th]][ip[th]] = <<k, x>>

AtBodyEnd(th) == pc[th] = "run" /\ job[th] # Null /\ ip[th] > Len(Body[job[th]])

Advance(th) ==
    IF job[th] = Null
    THEN envIp' = envIp + 1 /\ UNCHANGED ip
    ELSE ip' = [ip EXCEPT ![th] = @ + 1] /\ UNCHANGED envIp

\* m_mutex is free unless wait_all is rescheduling the pending steps.
MutexFree == waitPhase # "repost"

\* schedulable::suspend() of s
Suspend(s) ==
    /\ nSuspenders' = [nSuspenders EXCEPT ![s] = @ + 1]
    /\ wasSuspended' = [wasSuspended EXCEPT ![s] = TRUE]

UnsuspendsLast(s) == nSuspenders[s] = 1
Unsuspend(s) == nSuspenders' = [nSuspenders EXCEPT ![s] = @ - 1]

\* suspend_group::add, and one member taken out by suspend_group::for_all
Join(g, i, s) == [g EXCEPT ![i][s] = @ + 1]
Leave(g, i, s) == [g EXCEPT ![i][s] = @ - 1]

\* scheduler_i::suspend( group ) with s as the current step (Null: the
\* environment, for which there is nothing to count)
SuspendOn(s, i) ==
    /\ group' = Join(group, i, s)
    /\ IF s = Null THEN UNCHANGED <<nSuspenders, wasSuspended>> ELSE Suspend(s)

-----------------------------------------------------------------------------
(* Putting a tag: step_launcher::create_step_instance, scheduler_i::prepare *)
(* and step_instance::prepare                                              *)

\* An instance is named by its tag, and the programs put a tag once.
PutTag(th, t) ==
    /\ AtOp(th, "tag", t)
    /\ status[t] = "None"
    /\ Advance(th)
    /\ status' = [status EXCEPT ![t] = "Unprepared"]
    /\ nSuspenders' = [nSuspenders EXCEPT ![t] = 1]
    /\ wasSuspended' = [wasSuspended EXCEPT ![t] = FALSE]
    /\ tgt' = [tgt EXCEPT ![th] = t]
    /\ deps' = [deps EXCEPT ![th] = Depends[t]]
    /\ Goto(th, "depends")
    /\ UNCHANGED <<inPending, sequentialized, getList, deleted, itemVars, schedVars, job, ret,
                   envIsWaiting, waitVars>>

\* step_delayer::depends -> delay_step( tag ) -> wait_for_put( ..., false )
DependOn(th, i) ==
    /\ pc[th] = "depends"
    /\ i \in deps[th]
    /\ lock[i] = Null
    /\ deps' = [deps EXCEPT ![th] = @ \ {i}]
    /\ IF item[i] = "stored"
       THEN UNCHANGED <<nSuspenders, wasSuspended, group, item>>
       ELSE SuspendOn(tgt[th], i) /\ item' = [item EXCEPT ![i] = "entry"]
    /\ UNCHANGED <<status, inPending, sequentialized, getList, deleted, getCount, lock, schedVars,
                   pc, job, ip, tgt, ret, envVars>>

\* step_instance::prepare ends: the guard goes, unless the step is sequentialized.
EndPrepare(th) ==
    /\ pc[th] = "depends"
    /\ deps[th] = {}
    /\ status' = [status EXCEPT ![tgt[th]] = "Prepared"]
    /\ IF tgt[th] \in Sequentialize
       THEN Goto(th, "sequentialize") /\ UNCHANGED nSuspenders
       ELSE /\ Unsuspend(tgt[th])
            /\ Goto(th, IF UnsuspendsLast(tgt[th]) THEN "schedule" ELSE "prepared")
    /\ ret' = [ret EXCEPT ![th] = "run"]
    /\ UNCHANGED <<wasSuspended, inPending, sequentialized, getList, deleted, itemVars, schedVars,
                   job, ip, tgt, deps, envVars>>

\* scheduler_i::sequentialize( s )
AddSequentialized(s) ==
    /\ MutexFree
    /\ sequentialized' = [sequentialized EXCEPT ![s] = TRUE]
    /\ seqSteps' = Append(seqSteps, s)

SequentializePrepared(th) ==
    /\ pc[th] = "sequentialize"
    /\ AddSequentialized(tgt[th])
    /\ tgt' = [tgt EXCEPT ![th] = Null]
    /\ Goto(th, "run")
    /\ UNCHANGED <<nSuspenders, wasSuspended, status, inPending, getList, deleted, itemVars,
                   inFlight, queue, pendingSteps, job, ip, ret, deps, envVars>>

\* The last branch of scheduler_i::prepare for an instance that waits for an
\* item: it reads stepInstance->done() after the guard is gone, and
\* create_step_instance deletes the instance if that was true. What a deleted
\* instance reads as is undefined.
CheckDone(th) ==
    /\ pc[th] = "prepared"
    /\ \E isDone \in BOOLEAN :
          /\ deleted[tgt[th]] = 0 => isDone = (status[tgt[th]] = "Done")
          /\ deleted' = [deleted EXCEPT ![tgt[th]] = IF isDone THEN @ + 1 ELSE @]
    /\ tgt' = [tgt EXCEPT ![th] = Null]
    /\ Goto(th, "run")
    /\ UNCHANGED <<nSuspenders, wasSuspended, status, inPending, sequentialized, getList,
                   itemVars, schedVars, job, ip, ret, deps, envVars>>

-----------------------------------------------------------------------------
(* scheduler_i::schedule( tgt, true, job ) *)

Return(th) ==
    /\ Goto(th, ret[th])
    /\ tgt' = [tgt EXCEPT ![th] = Null]

CurrentIsSequentialized(th) == IF job[th] = Null THEN FALSE ELSE sequentialized[job[th]]

\* schedule() returns without counting the step: the step to schedule is the
\* running one, or the running step is sequentialized and must not start
\* others, in which case the step is set aside by pending( stepInstance ).
ScheduleDefer(th) ==
    /\ pc[th] = "schedule"
    /\ tgt[th] = job[th] \/ CurrentIsSequentialized(th)
    /\ IF tgt[th] = job[th]
       THEN UNCHANGED <<status, inPending, pendingSteps>>
       ELSE /\ MutexFree
            /\ status' = [status EXCEPT ![tgt[th]] = "Pending"]
            /\ inPending' = [inPending EXCEPT ![tgt[th]] = TRUE]
            /\ pendingSteps' = Append(pendingSteps, tgt[th])
    /\ Return(th)
    /\ UNCHANGED <<nSuspenders, wasSuspended, sequentialized, getList, deleted, itemVars, inFlight,
                   queue, seqSteps, job, ip, ret, deps, envVars>>

\* ++m_userStepsInFlight: before the step can be found in a queue
CountStep_Forgotten == UNCHANGED inFlight
CountStep == inFlight' = inFlight + 1

ScheduleCount(th) ==
    /\ pc[th] = "schedule"
    /\ tgt[th] # job[th]
    /\ ~CurrentIsSequentialized(th)
    /\ CountStep
    /\ Goto(th, "enqueue")
    /\ UNCHANGED <<stepVars, itemVars, queue, pendingSteps, seqSteps, job, ip, tgt, ret, deps,
                   envVars>>

\* do_schedule( stepInstance )
ScheduleEnqueue(th) ==
    /\ pc[th] = "enqueue"
    /\ queue' = [queue EXCEPT ![tgt[th]] = @ + 1]
    /\ Return(th)
    /\ UNCHANGED <<stepVars, itemVars, inFlight, pendingSteps, seqSteps, job, ip, ret, deps,
                   envVars>>

-----------------------------------------------------------------------------
(* scheduler_i::do_execute and tagged_step_instance::do_execute *)

\* pop_next finds a step: any queue, any thief; the waiting environment helps.
TakeStep(th, s) ==
    /\ pc[th] = "idle"
    /\ th = Env => waitPhase = "run" /\ inFlight > 1
    /\ queue[s] > 0
    /\ queue' = [queue EXCEPT ![s] = @ - 1]
    /\ job' = [job EXCEPT ![th] = s]
    /\ Goto(th, "begin")
    /\ UNCHANGED <<stepVars, itemVars, inFlight, pendingSteps, seqSteps, ip, tgt, ret, deps,
                   envVars>>

\* The extra suspend that keeps a put of another thread from re-scheduling the
\* running step; a step from the pending list got it from wait_all.
Protect_Never(s) == UNCHANGED <<nSuspenders, status>>
Protect(s) ==
    IF status[s] = "FromPending"
    THEN status' = [status EXCEPT ![s] = "Prepared"] /\ UNCHANGED nSuspenders
    ELSE nSuspenders' = [nSuspenders EXCEPT ![s] = @ + 1] /\ UNCHANGED status

\* The head of the loop in scheduler_i::do_execute
BeginExecute(th) ==
    /\ pc[th] = "begin"
    /\ Protect(job[th])
    /\ wasSuspended' = [wasSuspended EXCEPT ![job[th]] = FALSE]
    /\ ip' = [ip EXCEPT ![th] = 1]
    /\ Goto(th, "run")
    /\ UNCHANGED <<inPending, sequentialized, getList, deleted, itemVars, schedVars, job, tgt, ret,
                   deps, envVars>>

\* get_list::decrement: one decrement_ref_count of an item the step has got.
\* The entry must be there (CNC_ABORT otherwise).
DecrementRefCount(th) ==
    /\ AtBodyEnd(th)
    /\ getList[job[th]] # <<>>
    /\ LET i == Head(getList[job[th]]) IN
         /\ lock[i] = Null
         /\ IF item[i] = "none"
            THEN Goto(th, "abort") /\ UNCHANGED <<item, getCount>>
            ELSE /\ IF getCount[i] = 1
                    THEN /\ item' = [item EXCEPT ![i] = "none"]
                         /\ getCount' = [getCount EXCEPT ![i] = UNSET_GET_COUNT]
                    ELSE /\ getCount' = [getCount EXCEPT ![i] = IF @ = UNSET_GET_COUNT THEN -1 ELSE @ - 1]
                         /\ UNCHANGED item
                 /\ UNCHANGED pc
    /\ getList' = [getList EXCEPT ![job[th]] = Tail(@)]
    /\ UNCHANGED <<nSuspenders, wasSuspended, status, inPending, sequentialized, deleted, group,
                   lock, schedVars, job, ip, tgt, ret, deps, envVars>>

\* CNC_Success: every get is committed, the step is done.
Succeed(th) ==
    /\ AtBodyEnd(th)
    /\ getList[job[th]] = <<>>
    /\ status' = [status EXCEPT ![job[th]] = "Done"]
    /\ Goto(th, "succeeded")
    /\ UNCHANGED <<nSuspenders, wasSuspended, inPending, sequentialized, getList, deleted,
                   itemVars, schedVars, job, ip, tgt, ret, deps, envVars>>

\* --m_userStepsInFlight of a successful execution
LeaveSucceeded(th) ==
    /\ pc[th] = "succeeded"
    /\ inFlight' = inFlight - 1
    /\ Goto(th, "delete")
    /\ UNCHANGED <<stepVars, itemVars, queue, pendingSteps, seqSteps, job, ip, tgt, ret, deps,
                   envVars>>

\* if( ! s->m_inPending ) delete s
DeleteStep(th) ==
    /\ pc[th] = "delete"
    /\ deleted' = [deleted EXCEPT ![job[th]] = IF inPending[job[th]] THEN @ ELSE @ + 1]
    /\ job' = [job EXCEPT ![th] = Null]
    /\ Goto(th, "idle")
    /\ UNCHANGED <<nSuspenders, wasSuspended, status, inPending, sequentialized, getList,
                   itemVars, schedVars, ip, tgt, ret, deps, envVars>>

\* get_list::clear
ClearGetList_Forgotten(s) == UNCHANGED getList
ClearGetList(s) == getList' = [getList EXCEPT ![s] = <<>>]

\* data_not_ready was thrown: the get list is cleared, nothing was committed.
CatchNotReady(th) ==
    /\ pc[th] = "failed"
    /\ ClearGetList(job[th])
    /\ IF sequentialized[job[th]]
       THEN AddSequentialized(job[th])
       ELSE UNCHANGED <<sequentialized, seqSteps>>
    /\ Goto(th, "unsuspend")
    /\ UNCHANGED <<nSuspenders, wasSuspended, status, inPending, deleted, itemVars, inFlight,
                   queue, pendingSteps, job, ip, tgt, ret, deps, envVars>>

\* s->unsuspend() && !s->done() && _res != CNC_NeedsSequentialize
AllArrived_Ignored(s) == FALSE
AllArrived(s) == UnsuspendsLast(s) /\ status[s] # "Done" /\ ~sequentialized[s]

\* The extra suspend goes. If all items arrived in the meanwhile the step is
\* executed again; otherwise the thread lets go of it.
Unprotect(th) ==
    /\ pc[th] = "unsuspend"
    /\ Unsuspend(job[th])
    /\ IF AllArrived(job[th])
       THEN Goto(th, "begin") /\ UNCHANGED job
       ELSE Goto(th, "leave") /\ job' = [job EXCEPT ![th] = Null]
    /\ UNCHANGED <<wasSuspended, status, inPending, sequentialized, getList, deleted, itemVars,
                   schedVars, ip, tgt, ret, deps, envVars>>

\* --m_userStepsInFlight of an execution that has to be replayed
LeaveSuspended(th) ==
    /\ pc[th] = "leave"
    /\ inFlight' = inFlight - 1
    /\ Goto(th, "idle")
    /\ UNCHANGED <<stepVars, itemVars, queue, pendingSteps, seqSteps, job, ip, tgt, ret, deps,
                   envVars>>

-----------------------------------------------------------------------------
(* Items: gets and puts *)

\* update_get_list: counted items enter the get list.
RecordGet_Forgotten(s, i) == UNCHANGED getList
RecordGet(s, i) ==
    getList' = IF getCount[i] = NO_GET_COUNT THEN getList
               ELSE [getList EXCEPT ![s] = Append(@, i)]

\* get and unsafe_get of a stored item
GetStored(th, k, i) ==
    /\ k \in {"get", "uget"}
    /\ AtOp(th, k, i)
    /\ job[th] # Null
    /\ lock[i] = Null
    /\ item[i] = "stored"
    /\ Advance(th)
    /\ RecordGet(job[th], i)
    /\ UNCHANGED <<nSuspenders, wasSuspended, status, inPending, sequentialized, deleted, itemVars,
                   schedVars, pc, job, tgt, ret, deps, envIsWaiting, waitVars>>

\* get of a missing item: wait_for_put suspends the step and throws.
GetMissing(th, i) ==
    /\ AtOp(th, "get", i)
    /\ job[th] # Null
    /\ lock[i] = Null
    /\ item[i] # "stored"
    /\ item' = [item EXCEPT ![i] = "entry"]
    /\ SuspendOn(job[th], i)
    /\ Goto(th, "failed")
    /\ UNCHANGED <<status, inPending, sequentialized, getList, deleted, getCount, lock, schedVars,
                   job, ip, tgt, ret, deps, envVars>>

\* unsafe_get of a missing item: the step is suspended but goes on.
UnsafeGetMissing(th, i) ==
    /\ AtOp(th, "uget", i)
    /\ job[th] # Null
    /\ lock[i] = Null
    /\ item[i] # "stored"
    /\ item' = [item EXCEPT ![i] = "entry"]
    /\ SuspendOn(job[th], i)
    /\ Advance(th)
    /\ UNCHANGED <<status, inPending, sequentialized, getList, deleted, getCount, lock, schedVars,
                   pc, job, tgt, ret, deps, envIsWaiting, waitVars>>

\* was_suspended_since_reset: an item that arrived after its unsafe_get failed
\* does not make the get succeed.
FlushThrows_Never(s) == FALSE
FlushThrows(s) == wasSuspended[s]

\* context_base::flush_gets
FlushGets(th) ==
    /\ pc[th] = "run" /\ job[th] # Null
    /\ ip[th] <= Len(Body[job[th]]) /\ Body[job[th]][ip[th]] = <<"flush">>
    /\ IF FlushThrows(job[th])
       THEN Goto(th, "failed") /\ UNCHANGED ip
       ELSE ip' = [ip EXCEPT ![th] = @ + 1] /\ UNCHANGED pc
    /\ UNCHANGED <<stepVars, itemVars, schedVars, job, tgt, ret, deps, envVars>>

\* put_or_delete of an item with get count 0 (nobody will get it), or of an
\* item that is already there ("multiple assignments"): it is discarded.
PutDiscarded(th, i) ==
    /\ AtOp(th, "put", i)
    /\ GetCount[i] = 0 \/ (lock[i] = Null /\ item[i] = "stored")
    /\ Advance(th)
    /\ UNCHANGED <<stepVars, itemVars, schedVars, pc, job, tgt, ret, deps, envIsWaiting, waitVars>>

\* put_or_delete stores the item and keeps the accessor to resume the group.
PutStore(th, i) ==
    /\ AtOp(th, "put", i)
    /\ lock[i] = Null
    /\ GetCount[i] # 0 /\ item[i] # "stored"
    /\ item' = [item EXCEPT ![i] = "stored"]
    /\ getCount' = [getCount EXCEPT ![i] =
                      IF GetCount[i] = NO_GET_COUNT \/ @ = UNSET_GET_COUNT THEN GetCount[i]
                      ELSE @ + GetCount[i]]
    /\ lock' = [lock EXCEPT ![i] = th]
    /\ Advance(th)
    /\ Goto(th, "resume")
    /\ UNCHANGED <<stepVars, group, schedVars, job, tgt, ret, deps, envIsWaiting, waitVars>>

\* re_schedule applied to one step of the group, a vector whose order does not
\* matter here. It shrinks member by member; the code empties it in one go,
\* under the same accessor.
ResumeStep(th, i, s) ==
    /\ pc[th] = "resume" /\ lock[i] = th
    /\ group[i][s] > 0
    /\ group' = Leave(group, i, s)
    /\ Unsuspend(s)
    /\ IF UnsuspendsLast(s)
       THEN /\ Goto(th, "schedule")
            /\ tgt' = [tgt EXCEPT ![th] = s]
            /\ ret' = [ret EXCEPT ![th] = "resume"]
       ELSE UNCHANGED <<pc, tgt, ret>>
    /\ UNCHANGED <<wasSuspended, status, inPending, sequentialized, getList, deleted, item,
                   getCount, lock, schedVars, job, ip, deps, envVars>>

\* context_base::unblock_for_put
UnblockForPut_Forgotten == UNCHANGED envIsWaiting
UnblockForPut == envIsWaiting' = envIsWaiting + 1

\* The NULL member of the group is the environment.
ResumeEnv(th, i) ==
    /\ pc[th] = "resume" /\ lock[i] = th
    /\ group[i][Null] > 0
    /\ group' = Leave(group, i, Null)
    /\ UnblockForPut
    /\ UNCHANGED <<stepVars, item, getCount, lock, schedVars, threadVars, envIp, waitVars>>

\* The accessor is released at the end of put_or_delete.
EndPut(th, i) ==
    /\ pc[th] = "resume" /\ lock[i] = th
    /\ \A s \in Steps \cup {Null} : group[i][s] = 0
    /\ lock' = [lock EXCEPT ![i] = Null]
    /\ Goto(th, "run")
    /\ UNCHANGED <<stepVars, item, getCount, group, schedVars, job, ip, tgt, ret, deps, envVars>>

-----------------------------------------------------------------------------
(* item_collection_base::get from the environment *)

EnvAt(k, i) == AtOp(Env, k, i) /\ job[Env] = Null

EnvGetStored(i) ==
    /\ \/ EnvAt("get", i)
       \/ pc[Env] = "probed" /\ EnvBody[envIp] = <<"get", i>>
    /\ lock[i] = Null
    /\ item[i] = "stored"
    /\ envIp' = envIp + 1
    /\ Goto(Env, "run")
    /\ UNCHANGED <<stepVars, itemVars, schedVars, job, ip, tgt, ret, deps, envIsWaiting, waitVars>>

\* The item is missing and the scheduler is active(): block for it. The
\* accessor is held until the environment is in the suspend group.
EnvGetActive(i) ==
    /\ EnvAt("get", i)
    /\ lock[i] = Null
    /\ item[i] # "stored"
    /\ inFlight > 0
    /\ item' = [item EXCEPT ![i] = "entry"]
    /\ lock' = [lock EXCEPT ![i] = Env]
    /\ Goto(Env, "blockForPut")
    /\ UNCHANGED <<stepVars, getCount, group, schedVars, job, ip, tgt, ret, deps, envVars>>

EnvBlockForPut(i) ==
    /\ pc[Env] = "blockForPut" /\ lock[i] = Env
    /\ SuspendOn(Null, i)
    /\ lock' = [lock EXCEPT ![i] = Null]
    /\ Goto(Env, "blocked")
    /\ UNCHANGED <<status, inPending, sequentialized, getList, deleted, item, getCount, schedVars,
                   job, ip, tgt, ret, deps, envVars>>

\* m_envIsWaiting.pop: then the get is tried again.
EnvUnblock ==
    /\ pc[Env] = "blocked"
    /\ envIsWaiting > 0
    /\ envIsWaiting' = envIsWaiting - 1
    /\ Goto(Env, "run")
    /\ UNCHANGED <<stepVars, itemVars, schedVars, job, ip, tgt, ret, deps, envIp, waitVars>>

\* The graph has finished: look once more (probe() does nothing on one process) ...
EnvGetInactive(i) ==
    /\ EnvAt("get", i)
    /\ lock[i] = Null
    /\ item[i] # "stored"
    /\ inFlight = 0
    /\ item' = [item EXCEPT ![i] = "entry"]
    /\ Goto(Env, "probed")
    /\ UNCHANGED <<stepVars, getCount, group, lock, schedVars, job, ip, tgt, ret, deps, envVars>>

\* ... and go on without a value.
EnvGetGivesUp(i) ==
    /\ pc[Env] = "probed" /\ EnvBody[envIp] = <<"get", i>>
    /\ lock[i] = Null
    /\ item[i] # "stored"
    /\ envIp' = envIp + 1
    /\ Goto(Env, "run")
    /\ UNCHANGED <<stepVars, itemVars, schedVars, job, ip, tgt, ret, deps, envIsWaiting, waitVars>>

-----------------------------------------------------------------------------
(* context::wait: scheduler_i::wait_loop and wait_all *)

EnvWait ==
    /\ pc[Env] = "run" /\ job[Env] = Null
    /\ envIp <= Len(EnvBody) /\ EnvBody[envIp] = <<"wait">>
    /\ envIp' = envIp + 1
    /\ inFlight' = inFlight + 1
    /\ waitPhase' = "run"
    /\ round' = 0
    /\ Goto(Env, "idle")
    /\ UNCHANGED <<stepVars, itemVars, queue, pendingSteps, seqSteps, job, ip, tgt, ret, deps,
                   envIsWaiting, currPend, seq2>>

InSeq(s, q) == \E n \in 1..Len(q) : q[n] = s

\* wait( m_userStepsInFlight ) returns: only the waiter is left.
OnlyWaiterLeft_OffByOne == inFlight <= 2
OnlyWaiterLeft == inFlight <= 1

\* wait( m_userStepsInFlight ) has returned: "lock" the pending and the
\* sequentialized steps by a suspend, take over the sequentialized ones.
WaitLockSteps ==
    /\ waitPhase = "run" /\ pc[Env] = "idle"
    /\ OnlyWaiterLeft
    /\ LET locked(s) == /\ status[s] # "Done"
                        /\ InSeq(s, pendingSteps) \/ InSeq(s, seqSteps)
       IN  /\ nSuspenders' = [s \in Steps |-> IF locked(s) THEN nSuspenders[s] + 1 ELSE nSuspenders[s]]
           /\ wasSuspended' = [s \in Steps |-> locked(s) \/ wasSuspended[s]]
    /\ seq2' = seqSteps
    /\ seqSteps' = <<>>
    /\ waitPhase' = "seq"
    /\ UNCHANGED <<status, inPending, sequentialized, getList, deleted, itemVars, inFlight, queue,
                   pendingSteps, threadVars, envIp, envIsWaiting, round, currPend>>

\* The sequentialized steps run one after the other on the waiting thread.
WaitRunSequential ==
    /\ waitPhase = "seq" /\ pc[Env] = "idle"
    /\ seq2 # <<>>
    /\ job' = [job EXCEPT ![Env] = seq2[Len(seq2)]]
    /\ seq2' = SubSeq(seq2, 1, Len(seq2) - 1)
    /\ inFlight' = inFlight + 1
    /\ Goto(Env, "begin")
    /\ UNCHANGED <<stepVars, itemVars, queue, pendingSteps, seqSteps, ip, tgt, ret, deps, envIp,
                   envIsWaiting, waitPhase, round, currPend>>

\* _curr_pend: another round is needed for what is still set aside.
PendingCount == Len(pendingSteps) + Len(seqSteps)

WaitEndSequential ==
    /\ waitPhase = "seq" /\ pc[Env] = "idle"
    /\ seq2 = <<>>
    /\ currPend' = PendingCount
    /\ waitPhase' = "repost"
    /\ UNCHANGED <<stepVars, itemVars, schedVars, threadVars, envIp, envIsWaiting, round, seq2>>

\* One pending step is popped: scheduled again, or deleted if it is done.
WaitRepost ==
    /\ waitPhase = "repost" /\ pc[Env] = "idle"
    /\ pendingSteps # <<>>
    /\ LET s == pendingSteps[Len(pendingSteps)] IN
         IF status[s] = "Done"
         THEN /\ deleted' = [deleted EXCEPT ![s] = @ + 1]
              /\ UNCHANGED <<status, inPending, pc, tgt, ret>>
         ELSE /\ status' = [status EXCEPT ![s] = "FromPending"]
              /\ inPending' = [inPending EXCEPT ![s] = FALSE]
              /\ tgt' = [tgt EXCEPT ![Env] = s]
              /\ ret' = [ret EXCEPT ![Env] = "idle"]
              /\ Goto(Env, "schedule")
              /\ UNCHANGED deleted
    /\ pendingSteps' = SubSeq(pendingSteps, 1, Len(pendingSteps) - 1)
    /\ UNCHANGED <<nSuspenders, wasSuspended, sequentialized, getList, itemVars, inFlight, queue,
                   seqSteps, job, ip, deps, envVars>>

WaitAgain ==
    /\ waitPhase = "repost" /\ pc[Env] = "idle"
    /\ pendingSteps = <<>>
    /\ currPend > 0 /\ round + 1 < MaxWaitRounds
    /\ round' = round + 1
    /\ waitPhase' = "run"
    /\ UNCHANGED <<stepVars, itemVars, schedVars, threadVars, envIp, envIsWaiting, currPend, seq2>>

\* wait_all and wait_loop return.
WaitReturn ==
    /\ waitPhase = "repost" /\ pc[Env] = "idle"
    /\ pendingSteps = <<>>
    /\ currPend = 0 \/ round + 1 >= MaxWaitRounds
    /\ inFlight' = inFlight - 1
    /\ waitPhase' = "none"
    /\ Goto(Env, "run")
    /\ UNCHANGED <<stepVars, itemVars, queue, pendingSteps, seqSteps, job, ip, tgt, ret, deps,
                   envIp, envIsWaiting, round, currPend, seq2>>

-----------------------------------------------------------------------------

Prepare(th) ==
    \/ \E t \in Steps : PutTag(th, t)
    \/ \E i \in Items : DependOn(th, i)
    \/ EndPrepare(th) \/ SequentializePrepared(th) \/ CheckDone(th)

Schedule(th) ==
    ScheduleDefer(th) \/ ScheduleCount(th) \/ ScheduleEnqueue(th)

Execute(th) ==
    \/ \E s \in Steps : TakeStep(th, s)
    \/ BeginExecute(th) \/ DecrementRefCount(th) \/ Succeed(th) \/ LeaveSucceeded(th)
    \/ DeleteStep(th) \/ CatchNotReady(th) \/ Unprotect(th) \/ LeaveSuspended(th)

Access(th) ==
    \/ \E i \in Items : \/ \E k \in {"get", "uget"} : GetStored(th, k, i)
                        \/ GetMissing(th, i) \/ UnsafeGetMissing(th, i)
                        \/ PutDiscarded(th, i) \/ PutStore(th, i)
                        \/ ResumeEnv(th, i) \/ EndPut(th, i)
                        \/ \E s \in Steps : ResumeStep(th, i, s)
    \/ FlushGets(th)

Environment ==
    \/ \E i \in Items : \/ EnvGetStored(i) \/ EnvGetActive(i) \/ EnvBlockForPut(i)
                        \/ EnvGetInactive(i) \/ EnvGetGivesUp(i)
    \/ EnvUnblock \/ EnvWait \/ WaitLockSteps \/ WaitRunSequential \/ WaitEndSequential
    \/ WaitRepost \/ WaitAgain \/ WaitReturn

ThreadStep(th) ==
    Prepare(th) \/ Schedule(th) \/ Execute(th) \/ Access(th) \/ (th = Env /\ Environment)

EnvDone ==
    /\ pc[Env] = "run" /\ job[Env] = Null
    /\ envIp > Len(EnvBody) \/ EnvBody[envIp] = <<"exit">>

\* The program is over: the environment has left main's last wait, the
\* workers sleep in the global queue.
Terminated ==
    /\ EnvDone
    /\ \A th \in Workers : pc[th] = "idle"
    /\ \A s \in Steps : queue[s] = 0
    /\ UNCHANGED vars

Next == (\E th \in Threads : ThreadStep(th)) \/ Terminated

Spec == Init /\ [][Next]_vars

\* Every thread keeps running: the OS schedules it, its locks are released. An
\* idle worker finds a step that is queued; how it sleeps on m_gQueue and is
\* woken is below this module's level of detail.
FairSpec == Spec /\ \A th \in Threads : WF_vars(ThreadStep(th))

-----------------------------------------------------------------------------
(* Properties *)

Pcs == {"idle", "run", "depends", "sequentialize", "prepared", "schedule", "enqueue", "begin",
        "succeeded", "delete", "failed", "unsuspend", "leave", "resume", "abort",
        "blockForPut", "blocked", "probed"}

Statuses == {"None", "Unprepared", "Prepared", "Pending", "FromPending", "Done"}

StepsTyped ==
    /\ nSuspenders \in [Steps -> Int]
    /\ wasSuspended \in [Steps -> BOOLEAN]
    /\ status \in [Steps -> Statuses]
    /\ inPending \in [Steps -> BOOLEAN]
    /\ sequentialized \in [Steps -> BOOLEAN]
    /\ getList \in [Steps -> Seq(Items)]
    /\ deleted \in [Steps -> Nat]

ItemsTyped ==
    /\ item \in [Items -> {"none", "entry", "stored"}]
    /\ getCount \in [Items -> Int]
    /\ group \in [Items -> [Steps \cup {Null} -> Nat]]
    /\ lock \in [Items -> Threads \cup {Null}]

SchedulerTyped ==
    /\ inFlight \in Int
    /\ queue \in [Steps -> Nat]
    /\ pendingSteps \in Seq(Steps) /\ seqSteps \in Seq(Steps) /\ seq2 \in Seq(Steps)
    /\ waitPhase \in {"none", "run", "seq", "repost"}
    /\ round \in Nat /\ currPend \in Nat

ThreadsTyped ==
    /\ pc \in [Threads -> Pcs]
    /\ job \in [Threads -> Steps \cup {Null}]
    /\ ip \in [Threads -> Nat]
    /\ tgt \in [Threads -> Steps \cup {Null}]
    /\ ret \in [Threads -> {"run", "resume", "idle"}]
    /\ deps \in [Threads -> SUBSET Items]
    /\ envIp \in Nat /\ envIsWaiting \in Int

Typed == StepsTyped /\ ItemsTyped /\ SchedulerTyped /\ ThreadsTyped

\* Every variable has the shape the declarations in schedulable.h,
\* item_properties.h and scheduler_i.h give it, and the assertion in
\* schedulable::unsuspend holds: no suspend counter goes below zero.
TypeOK == Typed /\ nSuspenders \in [Steps -> Nat]

\* The thread has s in its hands: it executes it, prepares it or schedules it.
Holding == {"depends", "sequentialize", "schedule", "enqueue"}
Holds(th, s) == job[th] = s \/ (tgt[th] = s /\ pc[th] \in Holding)

\* The thread has put an extra suspend on s (do_execute, prepare).
Protects(th, s) ==
    \/ job[th] = s /\ pc[th] # "begin"
    \/ tgt[th] = s /\ pc[th] = "depends"

\* A done step keeps the suspend of its last execution.
Guarded(s) == status[s] = "Done" \/ \E th \in Threads : Protects(th, s)

WaitsFor(s) == {i \in Items : group[i][s] > 0}

\* One element for each place of the suspend groups g that names s.
Registrations(g, s) == UNION {{i} \X (1 .. g[i][s]) : i \in Items}

SuspendersMatch ==
    \A s \in Steps :
        nSuspenders[s] = Cardinality(Registrations(group, s)) + (IF Guarded(s) THEN 1 ELSE 0)

\* schedulable.h:56-60: the suspend counter of a step is exactly the number of
\* times it is registered with a suspend group, plus one while a thread protects it.
\* A counter that is too low runs a step twice, one that is too high never. (Steps
\* that are set aside for wait_all hold other suspends.)
SuspendersExact == (\A s \in Sequentialize : status[s] = "None") => SuspendersMatch

\* An instance is in one place at most: in the ready queue once, or in the
\* hands of one thread. No put schedules a step that is queued or running.
SingleOwner ==
    \A s \in Steps :
        /\ queue[s] <= 1
        /\ \A th \in Threads : Holds(th, s) => queue[s] = 0
        /\ \A th1, th2 \in Threads : Holds(th1, s) /\ Holds(th2, s) => th1 = th2

Owned(s) ==
    \/ queue[s] > 0
    \/ \E th \in Threads : Holds(th, s)
    \/ InSeq(s, pendingSteps) \/ InSeq(s, seqSteps) \/ InSeq(s, seq2)

\* Lost wake-up: a prescribed step that is neither done nor queued, held or
\* set aside for wait_all is registered with an item that is missing, or whose
\* put is still walking the suspend group.
NoStepLost ==
    \A s \in Steps :
        status[s] \notin {"None", "Done"} /\ ~Owned(s) =>
            \E i \in WaitsFor(s) : item[i] # "stored" \/ lock[i] # Null

\* Nothing refers to a deleted instance: no suspend group, no queue, no thread;
\* and it is deleted once.
NoDanglingStep ==
    \A s \in Steps :
        /\ deleted[s] <= 1
        /\ deleted[s] > 0 => WaitsFor(s) = {} /\ ~Owned(s)

Sum(f) == LET plus(n) == Cardinality({s \in Steps : f[s] >= n})
          IN  plus(1) + plus(2)

\* m_userStepsInFlight counts exactly the queued steps, the executions that have
\* not left do_execute and the waiter; a count that is too low lets wait() return early.
InFlightExact ==
    inFlight = Sum(queue)
               + Cardinality({th \in Threads : job[th] # Null /\ pc[th] # "delete"})
               + Cardinality({th \in Threads : pc[th] \in {"leave", "enqueue"}})
               + (IF waitPhase = "none" THEN 0 ELSE 1)

\* The environment has just come out of context::wait.
AfterWait == /\ envIp > 1 /\ EnvBody[envIp - 1] = <<"wait">>
             /\ pc[Env] = "run" /\ job[Env] = Null /\ waitPhase = "none"

\* context::wait returns only at quiescence: whatever is not done then waits
\* for an item that was never put, and no execution is under way.
QuiescentAfterWait ==
    AfterWait =>
        /\ \A s \in Steps : status[s] \notin {"None", "Done"} =>
              \E i \in WaitsFor(s) : item[i] # "stored"
        /\ \A th \in Workers : pc[th] \in {"idle", "delete"}

ReadSets ==
    [s \in Steps |->
        {i \in Items : \E n \in 1..Len(Body[s]) : Body[s][n] \in {<<"get", i>>, <<"uget", i>>}}]
ReadSet(s) == ReadSets[s]

Commits(s) == \E th \in Threads : job[th] = s /\ AtBodyEnd(th)

\* get_list.h:47-56: replayed executions do not count. An item with a get count
\* is gone only when every step that reads it has begun to commit, and a commit
\* always finds the entry it decrements.
ErasedOnlyAfterLastGet ==
    /\ \A i \in Items :
         (\E s \in Steps : status[s] = "Done" /\ i \in ReadSet(s)) /\ item[i] # "stored" =>
            \A s \in Steps : i \in ReadSet(s) =>
                status[s] = "Done" \/ Commits(s)
    /\ \A th \in Threads : pc[th] # "abort"

ReadersOf == [i \in Items |-> {s \in Steps : i \in ReadSet(s)}]
Readers(i) == ReadersOf[i]

\* When every step that reads it is done a counted item is gone: no leak, no
\* resurrection.
CountedItemsCollected ==
    \A i \in Items :
        GetCount[i] > 0 /\ (\A s \in Readers(i) : status[s] = "Done") => item[i] = "none"

\* default_tuner.h:236-238: a sequentialized step runs while nothing else does.
SequentialPhase ==
    \A th \in Threads :
        job[th] # Null /\ sequentialized[job[th]] /\ pc[th] # "delete" =>
            /\ th = Env
            /\ \A w \in Workers : pc[w] \in {"idle", "delete"}

\* Every prescribed step is executed to its end and destroyed, unless it waits for
\* an item that is never put, and the environment gets through its program.
AllStepsFinish ==
    <>[](\A s \in Steps :
            status[s] # "None" => deleted[s] = 1 \/ \E i \in WaitsFor(s) : item[i] # "stored")
EnvFinishes == <>EnvDone

\* An item with get count 0 is thrown away by its put.
WriteSets ==
    [s \in Steps |-> {i \in Items : GetCount[i] # 0 /\ \E n \in 1..Len(Body[s]) : Body[s][n] = <<"put", i>>}]
PrescribeSets ==
    [s \in Steps |-> {t \in Steps : \E n \in 1..Len(Body[s]) : Body[s][n] = <<"tag", t>>}]
EnvPuts == {i \in Items : \E n \in 1..Len(EnvBody) : EnvBody[n] = <<"put", i>>}
EnvTags == {s \in Steps : \E n \in 1..Len(EnvBody) : EnvBody[n] = <<"tag", s>>}

\* A counted item that is gone has been there: a step that read it is done or has
\* begun to commit.
HasBeenRead(i) ==
    \E s \in Readers(i) : status[s] = "Done" \/ Commits(s)

\* The dataflow graph this program is.
DF == INSTANCE Dataflow WITH
        Reads <- ReadSets,
        Writes <- WriteSets,
        Prescribes <- PrescribeSets,
        EnvWrites <- EnvPuts,
        EnvPrescribes <- EnvTags,
        prescribed <- {s \in Steps : status[s] # "None"},
        available <- {i \in Items : item[i] = "stored" \/ (GetCount[i] > 0 /\ HasBeenRead(i))},
        done <- {s \in Steps : status[s] = "Done"},
        quiet <- AfterWait

\* The runtime implements the dataflow graph: a step takes effect only when all
\* its inputs are there, once, however often its execution is replayed, and
\* wait returns only when no step is ready.
ImplementsDataflow == DF!Spec

\* A step whose inputs are all available is eventually executed.
ReadyStepsFinish == DF!ReadyStepsFinish

\* step_launcher.h:201-202 with scheduler_i.h:101: an instance is deleted by
\* whoever runs it or by the launcher that could not schedule it, never by both.
DeletedOnce == \A s \in Steps : deleted[s] <= 1

\* Get counts and get lists (get_list.h, item_collection_base.h): a counted item
\* lives until its last reader has read it and no longer, and an execution that
\* missed an item leaves nothing behind.
GetCountsKept == ErasedOnlyAfterLastGet /\ CountedItemsCollected /\ NoDanglingStep

\* wait_all (scheduler_i.cpp): the in-flight counter counts the steps that are
\* queued or executed, wait returns only when there are none, and sequentialized
\* steps run when nothing else does.
WaitExact == InFlightExact /\ QuiescentAfterWait /\ SequentialPhase

=============================================================================
