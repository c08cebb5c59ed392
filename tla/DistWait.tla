------------------------------ MODULE DistWait ------------------------------
(***************************************************************************)
(* context::wait on several processes (distCnC): the wait procedure of the *)
(* scheduler (scheduler_i.cpp), the flush of the distributor               *)
(* (distributor.cpp), the send and receive threads of the communicator     *)
(* (GenericCommunicator.cpp) and the creation and deletion of the clones   *)
(* of a context (distributable_context.cpp).                               *)
(*                                                                         *)
(* The user program is reduced to what termination detection sees of it:   *)
(* a process has steps in flight; a step, or the handler of a message, may *)
(* send a message; a message may start a step. MaxWork bounds how often.   *)
(*                                                                         *)
(* DistEnv is distributor::distributed_env(): if it is FALSE only the host *)
(* runs main and the clients react to messages, otherwise every process    *)
(* runs main and calls wait.                                               *)
(***************************************************************************)
EXTENDS Integers, Sequences, FiniteSets

CONSTANTS
    MaxProcs,        \* no mode has more processes
    Modes            \* how the program is built and started, a set of records with
                     \*   procs    distributor::numProcs()
                     \*   distEnv  distributor::distributed_env()
                     \*   preSend  PRE_SEND_MSGS (the MPI build): a message is handed to
                     \*            MPI when it is pushed, the send thread waits for its
                     \*            completion
                     \*   work     bound: how many messages and initial steps there are
                     \*   prompt   the host does not read its message counter while its
                     \*            receive thread is between counting a message and
                     \*            handing it to the context

ASSUME DistWaitConstants ==
    /\ MaxProcs \in Nat
    /\ Modes \subseteq [procs : 2 .. MaxProcs, distEnv : BOOLEAN, preSend : BOOLEAN, work : Nat,
                        prompt : BOOLEAN]

VARIABLES
    mode,         \* the one of Modes that is used
    \* what the user program does
    steps,        \* the user steps and service tasks that are queued or run
    budget,       \* how much of MaxWork is left
    \* scheduler_i
    inFlight,     \* m_userStepsInFlight
    barrier,      \* m_barrier: 0 for PING (distributed environment), else 1
    wpc,          \* where the thread in wait_loop is
    loop,         \* which of the two wait_loops of context_base::wait it is
    leaving,      \* waiters of a client that have sent PONG and not returned
    \* distributor
    flushCount,   \* m_flushCount
    nMsgsRecvd,   \* m_nMsgsRecvd
    sync,         \* the size of the host's m_sync
    \* distributable_context
    ctxt,         \* the state of the process's clone
    readies,      \* the size of the host's m_barrier
    \* GenericCommunicator
    sendQueue,    \* m_sendQueue: the receivers each item has still to be written to
    sending,      \* the receivers the item in the send thread's hands is not yet written to
    chan,         \* chan[p][q]: what p has sent to q and q has not read yet, the messages
                  \* that p has still to write at the end
    hand          \* the message the receive thread is handling

appVars == <<steps, budget>>
waitVars == <<barrier, wpc, loop, leaving>>
flushVars == <<flushCount, nMsgsRecvd, sync>>
ctxtVars == <<ctxt, readies>>
vars == <<mode, appVars, inFlight, waitVars, flushVars, ctxtVars, sendQueue, sending, chan, hand>>

NumProcs == mode.procs
DistEnv == mode.distEnv
PreSend == mode.preSend

Procs == 0 .. NumProcs - 1
Host == 0
Clients == Procs \ {Host}

Kinds == {"app", "wPING", "wPONG", "DONE", "fPING", "fPONG", "DIS_CTXT", "UN_CTXT", "READY",
          "CLEANUP"}

\* n is the number a PONG of the distributor carries. In a message of the
\* program it is 1 if the message was sent before the current flush began.
Message(k, n) == [k |-> k, n |-> n]
None == Message("none", 0)

\* What a handler goes on with after the first part of it.
PongOthers == Message("pongOthers", 0)
CountDown == Message("countDown", 0)
PongHost == Message("pongHost", 0)

Init ==
    /\ mode \in Modes
    /\ steps = [p \in Procs |-> 0]
    /\ budget = mode.work
    /\ inFlight = [p \in Procs |-> 0]
    /\ barrier = [p \in Procs |-> <<>>]
    /\ wpc = [p \in Procs |-> IF DistEnv THEN "main" ELSE IF p = Host THEN "distribute" ELSE "none"]
    /\ loop = [p \in Procs |-> 1]
    /\ leaving = [p \in Procs |-> 0]
    /\ flushCount = [p \in Procs |-> 0]
    /\ nMsgsRecvd = [p \in Procs |-> 0]
    /\ sync = 0
    /\ ctxt = [p \in Procs |-> IF DistEnv THEN "ready" ELSE "none"]
    /\ readies = 0
    /\ sendQueue = [p \in Procs |-> <<>>]
    /\ sending = [p \in Procs |-> {}]
    /\ chan = [p \in Procs |-> [q \in Procs |-> <<>>]]
    /\ hand = [p \in Procs |-> None]

-----------------------------------------------------------------------------
(* The communicator *)

\* pushForSend and pushForBcast: one item of the send queue. With PRE_SEND_MSGS
\* nothing is left for the send thread to write.
Unsent(S) == IF PreSend THEN {} ELSE S
Push(p, m, S) ==
    /\ sendQueue' = [sendQueue EXCEPT ![p] = Append(@, Unsent(S))]
    /\ chan' = [chan EXCEPT ![p] = [q \in Procs |-> IF q \in S THEN Append(@[q], m) ELSE @[q]]]
Send(p, m, q) == Push(p, m, {q})
Bcast(p, m) == Push(p, m, Procs \ {p})

\* What has_pending_messages sees: an item that the send thread has popped is
\* no longer pending, even if it is not on the wire yet.
HasPending(p) == sendQueue[p] # <<>>

\* SendThread::runEventLoop: pop an item ...
SendThreadPop(p) ==
    /\ sending[p] = {}
    /\ HasPending(p)
    /\ sending' = [sending EXCEPT ![p] = Head(sendQueue[p])]
    /\ sendQueue' = [sendQueue EXCEPT ![p] = Tail(@)]
    /\ UNCHANGED <<appVars, inFlight, waitVars, flushVars, ctxtVars, chan, hand>>

\* ... and write it to one receiver after the other.
SendThreadWrite(p) ==
    /\ \E q \in sending[p] :
        /\ \A r \in sending[p] : q <= r
        /\ sending' = [sending EXCEPT ![p] = @ \ {q}]
    /\ UNCHANGED <<appVars, inFlight, waitVars, flushVars, ctxtVars, sendQueue, chan, hand>>

\* How many messages p has still to write to q.
Unwritten(p, q) ==
    Cardinality({n \in DOMAIN sendQueue[p] : q \in sendQueue[p][n]})
        + (IF q \in sending[p] THEN 1 ELSE 0)

\* The messages distributor::recv_msg counts: all but its own PING and PONG.
Counted_All(m) == TRUE
Counted_NotWaitPing(m) == m.k \notin {"fPING", "fPONG", "wPING"}
Counted(m) == m.k \notin {"fPING", "fPONG"}

\* RecvThread::recv_msg and the head of distributor::recv_msg
RecvThreadRead(p, q) ==
    /\ hand[p] = None
    /\ Len(chan[q][p]) > Unwritten(q, p)
    /\ LET m == Head(chan[q][p]) IN
         /\ hand' = [hand EXCEPT ![p] = m]
         /\ nMsgsRecvd' = [nMsgsRecvd EXCEPT ![p] = IF Counted(m) THEN @ + 1 ELSE @]
    /\ chan' = [chan EXCEPT ![q][p] = Tail(@)]
    /\ UNCHANGED <<appVars, inFlight, waitVars, flushCount, sync, ctxtVars, sendQueue, sending>>

Handles(p, k) == hand[p].k = k
HandlerReturns(p) == hand' = [hand EXCEPT ![p] = None]
GoOnWith(p, m) == hand' = [hand EXCEPT ![p] = m]

-----------------------------------------------------------------------------
(* The user program *)

StartStep(p) ==
    /\ steps' = [steps EXCEPT ![p] = @ + 1]
    /\ inFlight' = [inFlight EXCEPT ![p] = @ + 1]

Spend == budget > 0 /\ budget' = budget - 1

\* main puts a tag: the step instance stays here or is sent away
EnvPutsTag(p) ==
    /\ wpc[p] = "main"
    /\ Spend
    /\ \/ StartStep(p) /\ UNCHANGED <<sendQueue, chan>>
       \/ /\ \E q \in Procs \ {p} : Send(p, Message("app", 0), q)
          /\ UNCHANGED <<steps, inFlight>>
    /\ UNCHANGED <<waitVars, flushVars, ctxtVars, sending, hand>>

StepSends(p) ==
    /\ steps[p] > 0
    /\ Spend
    /\ \E q \in Procs \ {p} : Send(p, Message("app", 0), q)
    /\ UNCHANGED <<steps, inFlight, waitVars, flushVars, ctxtVars, sending, hand>>

\* scheduler_i::do_execute is done with a step
StepEnds(p) ==
    /\ steps[p] > 0
    /\ steps' = [steps EXCEPT ![p] = @ - 1]
    /\ inFlight' = [inFlight EXCEPT ![p] = @ - 1]
    /\ UNCHANGED <<budget, waitVars, flushVars, ctxtVars, sendQueue, sending, chan, hand>>

\* A collection's recv_msg: a tag or an item that starts a step, a request
\* that is answered at once, or something nobody waits for
HandleApp(p) ==
    /\ Handles(p, "app")
    /\ \/ StartStep(p) /\ UNCHANGED <<budget, sendQueue, chan>>
       \/ /\ Spend
          /\ \E q \in Procs \ {p} : Send(p, Message("app", 0), q)
          /\ UNCHANGED <<steps, inFlight>>
       \/ UNCHANGED <<appVars, inFlight, sendQueue, chan>>
    /\ HandlerReturns(p)
    /\ UNCHANGED <<waitVars, flushVars, ctxtVars, sending>>

-----------------------------------------------------------------------------
(* Cloning the context *)

\* distributor::distribute: clone the context and wait for the clones
Distribute ==
    /\ wpc[Host] = "distribute"
    /\ Bcast(Host, Message("DIS_CTXT", 0))
    /\ wpc' = [wpc EXCEPT ![Host] = "awaitReady"]
    /\ UNCHANGED <<appVars, inFlight, barrier, loop, leaving, flushVars, ctxtVars, sending,
                   hand>>

HandleDistribute(p) ==
    /\ Handles(p, "DIS_CTXT")
    /\ ctxt' = [ctxt EXCEPT ![p] = "ready"]
    /\ Send(p, Message("READY", 0), Host)
    /\ HandlerReturns(p)
    /\ UNCHANGED <<appVars, inFlight, waitVars, flushVars, readies, sending>>

HandleReady ==
    /\ Handles(Host, "READY")
    /\ readies' = readies + 1
    /\ HandlerReturns(Host)
    /\ UNCHANGED <<appVars, inFlight, waitVars, flushVars, ctxt, sendQueue, sending, chan>>

\* distributable_context::fini_dist_ready on the host
AllReady_OneMissing == readies >= NumProcs - 2
AllReady == readies >= NumProcs - 1

FiniDistReady ==
    /\ wpc[Host] = "awaitReady"
    /\ AllReady
    /\ readies' = readies - (NumProcs - 1)
    /\ ctxt' = [ctxt EXCEPT ![Host] = "ready"]
    /\ wpc' = [wpc EXCEPT ![Host] = "main"]
    /\ UNCHANGED <<appVars, inFlight, barrier, loop, leaving, flushVars, sendQueue, sending, chan,
                   hand>>

\* ~context on the host: distributor::undistribute
Undistribute ==
    /\ wpc[Host] = "end" /\ ~DistEnv
    /\ Bcast(Host, Message("UN_CTXT", 0))
    /\ ctxt' = [ctxt EXCEPT ![Host] = "gone"]
    /\ wpc' = [wpc EXCEPT ![Host] = "none"]
    /\ UNCHANGED <<appVars, inFlight, barrier, loop, leaving, flushVars, readies, sending,
                   hand>>

\* A client deletes its clone; ~scheduler_i waits for the waiters.
HandleUndistribute(p) ==
    /\ Handles(p, "UN_CTXT")
    /\ wpc[p] = "none" /\ leaving[p] = 0
    /\ ctxt' = [ctxt EXCEPT ![p] = "gone"]
    /\ HandlerReturns(p)
    /\ UNCHANGED <<appVars, inFlight, waitVars, flushVars, readies, sendQueue, sending, chan>>

-----------------------------------------------------------------------------
(* scheduler_i::wait_loop *)

\* main calls context_base::wait
EnvWaits(p) ==
    /\ wpc[p] = "main"
    /\ wpc' = [wpc EXCEPT ![p] = "init"]
    /\ inFlight' = [inFlight EXCEPT ![p] = @ + 1]
    /\ UNCHANGED <<appVars, barrier, loop, leaving, flushVars, ctxtVars, sendQueue, sending, chan,
                   hand>>

\* The task of enqueue_waiter starts.
WaiterStarts(p) ==
    /\ wpc[p] = "spawned"
    /\ wpc' = [wpc EXCEPT ![p] = "waiting"]
    /\ inFlight' = [inFlight EXCEPT ![p] = @ + 1]
    /\ UNCHANGED <<appVars, barrier, loop, leaving, flushVars, ctxtVars, sendQueue, sending, chan,
                   hand>>

\* init_wait: the host tells the clients to wait
InitWait(p) ==
    /\ wpc[p] = "init"
    /\ IF p = Host THEN Bcast(p, Message("wPING", 0)) ELSE UNCHANGED <<sendQueue, chan>>
    /\ wpc' = [wpc EXCEPT ![p] = "waiting"]
    /\ UNCHANGED <<appVars, inFlight, barrier, loop, leaving, flushVars, ctxtVars, sending,
                   hand>>

\* wait_all returns: only the waiter is in flight
LocallyIdle_Never(p) == TRUE
LocallyIdle(p) == inFlight[p] <= 1

WaitAll(p) ==
    /\ wpc[p] = "waiting"
    /\ LocallyIdle(p)
    /\ wpc' = [wpc EXCEPT ![p] = "idle"]
    /\ UNCHANGED <<appVars, inFlight, barrier, loop, leaving, flushVars, ctxtVars, sendQueue,
                   sending, chan, hand>>

\* while( distributor::has_pending_messages() && _yield() )
CheckPending(p) ==
    /\ wpc[p] = "idle"
    /\ wpc' = [wpc EXCEPT ![p] = IF HasPending(p) THEN "waiting" ELSE "fini"]
    /\ UNCHANGED <<appVars, inFlight, barrier, loop, leaving, flushVars, ctxtVars, sendQueue,
                   sending, chan, hand>>

\* fini_wait of a client that has no environment: report and leave
FiniWaitClient(p) ==
    /\ wpc[p] = "fini" /\ p # Host /\ ~DistEnv
    /\ Send(p, Message("wPONG", 0), Host)
    /\ wpc' = [wpc EXCEPT ![p] = "none"]
    /\ leaving' = [leaving EXCEPT ![p] = @ + 1]
    /\ UNCHANGED <<appVars, inFlight, barrier, loop, flushVars, ctxtVars, sending, hand>>

WaiterReturns(p) ==
    /\ leaving[p] > 0
    /\ leaving' = [leaving EXCEPT ![p] = @ - 1]
    /\ inFlight' = [inFlight EXCEPT ![p] = @ - 1]
    /\ UNCHANGED <<appVars, barrier, wpc, loop, flushVars, ctxtVars, sendQueue, sending, chan,
                   hand>>

\* fini_wait of a client with an environment: PING asks for a report and
\* another round, DONE ends the wait
SaysDone_Anything(b) == TRUE
SaysDone(b) == b = 1

FiniWaitDistEnv(p) ==
    /\ wpc[p] = "fini" /\ p # Host /\ DistEnv
    /\ barrier[p] # <<>>
    /\ barrier' = [barrier EXCEPT ![p] = Tail(@)]
    /\ IF SaysDone(Head(barrier[p]))
       THEN wpc' = [wpc EXCEPT ![p] = "leave"] /\ UNCHANGED <<sendQueue, chan>>
       ELSE wpc' = [wpc EXCEPT ![p] = "init"] /\ Send(p, Message("wPONG", 0), Host)
    /\ UNCHANGED <<appVars, inFlight, loop, leaving, flushVars, ctxtVars, sending, hand>>

\* fini_wait of the host: every client has reported
ClientsReported == Len(barrier[Host]) >= NumProcs - 1

FiniWaitHost ==
    /\ wpc[Host] = "fini"
    /\ ClientsReported
    /\ barrier' = [barrier EXCEPT ![Host] = SubSeq(@, NumProcs, Len(@))]
    /\ wpc' = [wpc EXCEPT ![Host] = "flush"]
    /\ UNCHANGED <<appVars, inFlight, loop, leaving, flushVars, ctxtVars, sendQueue, sending, chan,
                   hand>>

\* scheduler_i::recv_msg
HandleWaitPing(p) ==
    /\ Handles(p, "wPING")
    /\ IF DistEnv
       THEN barrier' = [barrier EXCEPT ![p] = Append(@, 0)] /\ UNCHANGED wpc
       ELSE wpc' = [wpc EXCEPT ![p] = "spawned"] /\ UNCHANGED barrier
    /\ HandlerReturns(p)
    /\ UNCHANGED <<appVars, inFlight, loop, leaving, flushVars, ctxtVars, sendQueue, sending, chan>>

HandleWaitPong(p) ==
    /\ Handles(p, "wPONG") \/ Handles(p, "DONE")
    /\ barrier' = [barrier EXCEPT ![p] = Append(@, 1)]
    /\ HandlerReturns(p)
    /\ UNCHANGED <<appVars, inFlight, wpc, loop, leaving, flushVars, ctxtVars, sendQueue, sending,
                   chan>>

\* The end of wait_loop: in a distributed environment the host says DONE.
BcastDone_Forgotten ==
    /\ wpc[Host] = "done"
    /\ wpc' = [wpc EXCEPT ![Host] = "leave"]
    /\ UNCHANGED <<appVars, inFlight, barrier, loop, leaving, flushVars, ctxtVars, sendQueue,
                   sending, chan, hand>>

BcastDone ==
    /\ wpc[Host] = "done"
    /\ IF DistEnv THEN Bcast(Host, Message("DONE", 0)) ELSE UNCHANGED <<sendQueue, chan>>
    /\ wpc' = [wpc EXCEPT ![Host] = "leave"]
    /\ UNCHANGED <<appVars, inFlight, barrier, loop, leaving, flushVars, ctxtVars, sending,
                   hand>>

LeaveWaitLoop(p) ==
    /\ wpc[p] = "leave"
    /\ inFlight' = [inFlight EXCEPT ![p] = @ - 1]
    /\ wpc' = [wpc EXCEPT ![p] = IF loop[p] = 1 THEN "cleanup" ELSE "end"]
    /\ UNCHANGED <<appVars, barrier, loop, leaving, flushVars, ctxtVars, sendQueue, sending, chan,
                   hand>>

\* context_base::wait: the host starts a cleanup everywhere, and all wait again.
Cleanup(p) ==
    /\ wpc[p] = "cleanup"
    /\ IF p = Host THEN Bcast(p, Message("CLEANUP", 0)) ELSE UNCHANGED <<sendQueue, chan>>
    /\ loop' = [loop EXCEPT ![p] = 2]
    /\ inFlight' = [inFlight EXCEPT ![p] = @ + 1]
    /\ wpc' = [wpc EXCEPT ![p] = "init"]
    /\ UNCHANGED <<appVars, barrier, leaving, flushVars, ctxtVars, sending, hand>>

\* context_base::spawn_cleanup: a service task. That the handler waits for the
\* task to start is left out: the model lets it return earlier.
HandleCleanup(p) ==
    /\ Handles(p, "CLEANUP")
    /\ StartStep(p)
    /\ HandlerReturns(p)
    /\ UNCHANGED <<budget, waitVars, flushVars, ctxtVars, sendQueue, sending, chan>>

-----------------------------------------------------------------------------
(* distributor::flush *)

\* Ghost: the messages of the program that were sent before the flush
Mark(m) == IF m.k = "app" THEN Message("app", 1) ELSE m
MarkAll(s) == [n \in DOMAIN s |-> Mark(s[n])]

FlushBegin ==
    /\ wpc[Host] = "flush"
    /\ sendQueue' = [sendQueue EXCEPT ![Host] = Append(@, Unsent(Clients))]
    /\ chan' = [p \in Procs |-> [q \in Procs |->
            IF p = Host /\ q # Host THEN Append(MarkAll(chan[p][q]), Message("fPING", 0))
            ELSE MarkAll(chan[p][q])]]
    /\ hand' = [p \in Procs |-> Mark(hand[p])]
    /\ wpc' = [wpc EXCEPT ![Host] = "sync"]
    /\ UNCHANGED <<appVars, inFlight, barrier, loop, leaving, flushVars, ctxtVars, sending>>

\* The messages of a round in which nothing happens: the PING and the PONG of
\* the scheduler for every client.
RoundIsQuiet_OffByOne(n) == n <= 2 * NumProcs - 1
RoundIsQuiet(n) == n <= 2 * NumProcs - 2

FlushEnd ==
    /\ wpc[Host] = "sync"
    /\ sync >= NumProcs - 1
    /\ mode.prompt => hand[Host] = None
    /\ sync' = sync - (NumProcs - 1)
    /\ nMsgsRecvd' = [nMsgsRecvd EXCEPT ![Host] = 0]
    /\ wpc' = [wpc EXCEPT ![Host] = IF RoundIsQuiet(nMsgsRecvd[Host]) THEN "done" ELSE "init"]
    /\ UNCHANGED <<appVars, inFlight, barrier, loop, leaving, flushCount, ctxtVars, sendQueue,
                   sending, chan, hand>>

CountPending(p) == nMsgsRecvd' = [nMsgsRecvd EXCEPT ![p] = IF HasPending(p) THEN @ + 1 ELSE @]

\* distributor::recv_msg, PING: with a single client there are no other
\* clients to tell ...
HandleFlushPing(p) ==
    /\ Handles(p, "fPING")
    /\ IF NumProcs = 2
       THEN /\ flushCount' = [flushCount EXCEPT ![p] = 1]
            /\ GoOnWith(p, CountDown)
            /\ UNCHANGED nMsgsRecvd
       ELSE CountPending(p) /\ GoOnWith(p, PongOthers) /\ UNCHANGED flushCount
    /\ UNCHANGED <<appVars, inFlight, waitVars, sync, ctxtVars, sendQueue, sending, chan>>

\* ... otherwise they get a PONG, and theirs may have been here first.
PongsCameFirst(p) == flushCount[p] = 2 - NumProcs

FlushPongOthers(p) ==
    /\ hand[p] = PongOthers
    /\ Push(p, Message("fPONG", 0), Clients \ {p})
    /\ IF PongsCameFirst(p)
       THEN flushCount' = [flushCount EXCEPT ![p] = 1] /\ GoOnWith(p, CountDown)
       ELSE flushCount' = [flushCount EXCEPT ![p] = @ + NumProcs - 2] /\ HandlerReturns(p)
    /\ UNCHANGED <<appVars, inFlight, waitVars, nMsgsRecvd, sync, ctxtVars, sending>>

\* PONG on a client: the last one is reported to the host
LastPong_Any(p) == TRUE
LastPong(p) == flushCount[p] = 1

HandleFlushPongClient(p) ==
    /\ p # Host
    /\ Handles(p, "fPONG") \/ hand[p] = CountDown
    /\ flushCount' = [flushCount EXCEPT ![p] = @ - 1]
    /\ IF LastPong(p)
       THEN CountPending(p) /\ GoOnWith(p, PongHost)
       ELSE HandlerReturns(p) /\ UNCHANGED nMsgsRecvd
    /\ UNCHANGED <<appVars, inFlight, waitVars, sync, ctxtVars, sendQueue, sending, chan>>

FlushPongHost(p) ==
    /\ hand[p] = PongHost
    /\ Send(p, Message("fPONG", nMsgsRecvd[p]), Host)
    /\ nMsgsRecvd' = [nMsgsRecvd EXCEPT ![p] = 0]
    /\ HandlerReturns(p)
    /\ UNCHANGED <<appVars, inFlight, waitVars, flushCount, sync, ctxtVars, sending>>

HandleFlushPongHost ==
    /\ Handles(Host, "fPONG")
    /\ nMsgsRecvd' = [nMsgsRecvd EXCEPT ![Host] = @ + hand[Host].n]
    /\ sync' = sync + 1
    /\ HandlerReturns(Host)
    /\ UNCHANGED <<appVars, inFlight, waitVars, flushCount, ctxtVars, sendQueue, sending, chan>>

-----------------------------------------------------------------------------
SendThread(p) == SendThreadPop(p) \/ SendThreadWrite(p)

RecvThread(p) ==
    \/ \E q \in Procs \ {p} : RecvThreadRead(p, q)
    \/ HandleApp(p) \/ HandleDistribute(p) \/ HandleUndistribute(p) \/ HandleCleanup(p)
    \/ HandleWaitPing(p) \/ HandleWaitPong(p)
    \/ HandleFlushPing(p) \/ FlushPongOthers(p) \/ HandleFlushPongClient(p) \/ FlushPongHost(p)
    \/ p = Host /\ (HandleReady \/ HandleFlushPongHost)

Waiter(p) ==
    \/ EnvWaits(p) \/ WaiterStarts(p) \/ InitWait(p) \/ WaitAll(p) \/ CheckPending(p)
    \/ FiniWaitClient(p) \/ WaiterReturns(p) \/ FiniWaitDistEnv(p)
    \/ LeaveWaitLoop(p) \/ Cleanup(p)
    \/ /\ p = Host
       /\ \/ Distribute \/ FiniDistReady \/ FiniWaitHost \/ FlushBegin \/ FlushEnd
          \/ BcastDone \/ Undistribute

Worker(p) == StepSends(p) \/ StepEnds(p)

\* Everyone has come out of wait, the clones are gone, nothing is left to send.
Finished ==
    /\ \A p \in Procs : wpc[p] \in {"none", "end"} /\ hand[p] = None /\ leaving[p] = 0
    /\ \A p \in Procs : ctxt[p] = (IF DistEnv THEN "ready" ELSE "gone")
    /\ \A p \in Procs : steps[p] = 0 /\ sendQueue[p] = <<>> /\ sending[p] = {}
    /\ \A p, q \in Procs : chan[p][q] = <<>>

Terminated == Finished /\ UNCHANGED vars

Next ==
    \/ \E p \in Procs :
        /\ SendThread(p) \/ RecvThread(p) \/ Waiter(p) \/ Worker(p) \/ EnvPutsTag(p)
        /\ UNCHANGED mode
    \/ Terminated

Spec == Init /\ [][Next]_vars

\* The threads of every process keep running and steps end. Only putting tags
\* and sending from a step are up to the program.
FairSpec ==
    /\ Spec
    /\ \A p \in 0 .. MaxProcs - 1 :
            /\ WF_vars(p \in Procs /\ SendThread(p) /\ UNCHANGED mode)
            /\ WF_vars(p \in Procs /\ RecvThread(p) /\ UNCHANGED mode)
            /\ WF_vars(p \in Procs /\ Waiter(p) /\ UNCHANGED mode)
            /\ WF_vars(p \in Procs /\ StepEnds(p) /\ UNCHANGED mode)

-----------------------------------------------------------------------------
(* Properties *)

Phases == {"none", "distribute", "awaitReady", "main", "spawned", "init", "waiting", "idle", "fini",
           "flush", "sync", "done", "leave", "cleanup", "end"}

\* The variables have the shape of their declarations, and there is one waiter
\* at a time: a PING finds a client that has reported on the previous one.
TypeOK ==
    /\ steps \in [Procs -> Nat] /\ budget \in 0 .. mode.work /\ inFlight \in [Procs -> Nat]
    /\ barrier \in [Procs -> Seq({0, 1})] /\ wpc \in [Procs -> Phases]
    /\ loop \in [Procs -> {1, 2}] /\ leaving \in [Procs -> Nat]
    /\ flushCount \in [Procs -> 2 - NumProcs .. NumProcs]
    /\ nMsgsRecvd \in [Procs -> Nat] /\ sync \in Nat /\ readies \in Nat
    /\ ctxt \in [Procs -> {"none", "ready", "gone"}]
    /\ \A p \in Clients : Handles(p, "wPING") /\ ~DistEnv => wpc[p] = "none"

\* A message of the program that satisfies P is on its way.
AppOnItsWay(P(_)) ==
    LET app(m) == m.k = "app" /\ P(m) IN
    \E p \in Procs :
        \/ app(hand[p])
        \/ \E q \in Procs : \E n \in DOMAIN chan[p][q] : app(chan[p][q][n])

Any(m) == TRUE
Quiescent == (\A p \in Procs : steps[p] = 0) /\ ~AppOnItsWay(Any)

\* cnc.h:561: wait() returns when "all the steps prescribed by this context have
\* completed execution", on every process: no step runs anywhere and no message
\* that could start one is on its way. (When every process runs main, a client may
\* report on a wait_all that ended before its main put the next tag.)
WaitIsGlobal == wpc[Host] = "done" /\ ~DistEnv => Quiescent

\* scheduler_i.cpp:460 asserts it: when the host's wait loop ends the waiter is
\* the only thing in flight on the host.
OnlyWaiterInFlight == wpc[Host] = "done" => inFlight[Host] = 1

\* distributor.h:135: flush "will not return until all channels have been flushed":
\* a message of the program that was sent, by anybody, before the flush began has
\* been received and handled when the flush ends.
FlushFlushes ==
    LET early(m) == m.n = 1
    IN  wpc[Host] = "sync" /\ sync >= NumProcs - 1 => ~AppOnItsWay(early)

\* The constant of the loop condition in wait_loop is exact: no round has fewer
\* messages than the 2 * numProcs - 2 of the scheduler, so none of these can
\* make up for one of the program.
QuietRoundIsMinimal ==
    wpc[Host] = "sync" /\ sync >= NumProcs - 1 => nMsgsRecvd[Host] >= 2 * NumProcs - 2

\* distributor.cpp:297 asserts it: no message reaches a process that has no clone
\* of the context (yet), or not any more.
NoOrphanMessage ==
    \A p \in Procs :
        hand[p].k \in {"app", "wPING", "wPONG", "DONE", "CLEANUP", "UN_CTXT"} => ctxt[p] = "ready"

\* In a distributed environment a client comes out of its wait only after the host
\* has come out of the same one, however the PINGs, the reports and the end of the
\* client's own wait_all are ordered.
HostLeavesFirst ==
    \A p \in Clients : wpc[p] \in {"leave", "cleanup", "end"} =>
        loop[Host] > loop[p] \/ (loop[Host] = loop[p] /\ wpc[Host] \in {"leave", "cleanup", "end"})

\* Once the host has come out of its wait nobody is left behind: the DONE of both
\* wait loops reaches every client in the loop it is meant for.
EveryoneFollows == (wpc[Host] = "end") ~> Finished

\* The wait of the host ends, and with it those of all other processes. (With more
\* clients the PONGs of a flush that a slow send thread has not written yet count
\* as messages and cause another round, as often as that happens.)
WaitReturns == ~DistEnv /\ NumProcs = 2 => <>Finished

\* distributor.cpp and scheduler_i.cpp:457: flush returns when what was sent before
\* it has been received, and a round without messages of the program has just
\* the number of messages that the scheduler takes for granted.
FlushExact == FlushFlushes /\ QuietRoundIsMinimal
=============================================================================
