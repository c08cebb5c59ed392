---------------------------- MODULE CommShutdown ----------------------------
(***************************************************************************)
(* The end of the communicator (GenericCommunicator.cpp,                   *)
(* ThreadExecuter.cpp, ChannelInterface.cpp): the host calls fini, host    *)
(* and clients exchange termination requests, the receive threads leave    *)
(* their loops, the send threads are stopped and the channels are closed.  *)
(* A termination request is a message without a body.                      *)
(*                                                                         *)
(* In a distributed environment main of a client calls fini as well; in    *)
(* the other case main of a client runs the receive loop itself and calls  *)
(* fini after it.                                                          *)
(***************************************************************************)
EXTENDS Integers, Sequences

CONSTANTS
    numProcs,   \* ChannelInterface::numProcs()
    distEnv,    \* GenericCommunicator::isDistributed()
    Queued      \* bound: the messages between the host and each client that
                \* are still queued, in both directions, when fini is called

Procs == 0 .. numProcs - 1
Host == 0
Clients == Procs \ {Host}

VARIABLES
    mainPc,      \* where main is in init (clients) and fini
    recvPc,      \* the receive loop: "loop", "final" (host only), "ended"
    requests,    \* nTerminationRequests
    iClient,     \* the client the host sends its final request to
    indicator,   \* myIndicator of the blocking send
    sendQueue,   \* m_sendQueue
    sending,     \* the item the send thread has popped
    sendPc,      \* the send loop: "loop", "ended"
    active,      \* active[p]: the peers p has not deactivated
    chan         \* chan[p][q]: written by p, not yet read by q

threadVars == <<mainPc, recvPc, sendPc>>
recvVars == <<requests, iClient, indicator>>
commVars == <<sendQueue, sending, active, chan>>
vars == <<threadVars, recvVars, commVars>>

\* SendItem: a message, a termination request (with m_indicator or without),
\* or the local request to stop
Item(k, q) == [k |-> k, to |-> q]
Stop == Item("stop", -1)
Nothing == Item("nothing", -1)

Repeat(x, n) == [i \in 1 .. n |-> x]

Init ==
    /\ mainPc = [p \in Procs |-> IF p = Host \/ distEnv THEN "run" ELSE "joinRecv"]
    /\ recvPc = [p \in Procs |-> "loop"]
    /\ requests = [p \in Procs |-> 0]
    /\ iClient = 1
    /\ indicator = FALSE
    /\ sendQueue = [p \in Procs |->
         IF p = Host
         THEN [n \in 1 .. Queued * (numProcs - 1) |-> Item("msg", 1 + ((n - 1) % (numProcs - 1)))]
         ELSE Repeat(Item("msg", Host), Queued)]
    /\ sending = [p \in Procs |-> Nothing]
    /\ sendPc = [p \in Procs |-> "loop"]
    /\ active = [p \in Procs |-> Procs \ {p}]
    /\ chan = [p \in Procs |-> [q \in Procs |-> <<>>]]

-----------------------------------------------------------------------------
(* fini *)

Push(p, items) == sendQueue' = [sendQueue EXCEPT ![p] = @ \o items]

\* The host asks every client to terminate.
Fini(p) ==
    /\ mainPc[p] = "run"
    /\ IF p = Host
       THEN Push(p, [n \in 1 .. numProcs - 1 |-> Item("term", n)])
       ELSE UNCHANGED sendQueue
    /\ mainPc' = [mainPc EXCEPT ![p] = "joinRecv"]
    /\ UNCHANGED <<recvPc, sendPc, recvVars, sending, active, chan>>

\* m_recvThread->stop() has joined, SendThread::stop() asks the other to stop.
JoinRecv(p) ==
    /\ mainPc[p] = "joinRecv"
    /\ recvPc[p] = "ended"
    /\ Push(p, <<Stop>>)
    /\ mainPc' = [mainPc EXCEPT ![p] = "joinSend"]
    /\ UNCHANGED <<recvPc, sendPc, recvVars, sending, active, chan>>

\* Joined; the channel is deleted and its sockets are closed.
JoinSend(p) ==
    /\ mainPc[p] = "joinSend"
    /\ sendPc[p] = "ended"
    /\ mainPc' = [mainPc EXCEPT ![p] = "closed"]
    /\ UNCHANGED <<recvPc, sendPc, recvVars, commVars>>

-----------------------------------------------------------------------------
(* SendThread::runEventLoop *)

SendPop(p) ==
    /\ sendPc[p] = "loop"
    /\ sending[p] = Nothing
    /\ sendQueue[p] # <<>>
    /\ sendQueue' = [sendQueue EXCEPT ![p] = Tail(@)]
    /\ IF Head(sendQueue[p]) = Stop
       THEN sendPc' = [sendPc EXCEPT ![p] = "ended"] /\ UNCHANGED sending
       ELSE sending' = [sending EXCEPT ![p] = Head(sendQueue[p])] /\ UNCHANGED sendPc
    /\ UNCHANGED <<mainPc, recvPc, recvVars, active, chan>>

\* send and sendTerminationRequest, which sets the indicator if it has one
SendWrite(p) ==
    /\ sending[p] # Nothing
    /\ chan' = [chan EXCEPT ![p][sending[p].to] =
                  Append(@, IF sending[p].k = "msg" THEN "msg" ELSE "term")]
    /\ indicator' = (indicator \/ sending[p].k = "final")
    /\ sending' = [sending EXCEPT ![p] = Nothing]
    /\ UNCHANGED <<threadVars, requests, iClient, sendQueue, active>>

-----------------------------------------------------------------------------
(* RecvThread::runEventLoop *)

\* waitForAnyClient looks at the active channels only.
Arrived(p, q, m) ==
    /\ recvPc[p] = "loop"
    /\ q \in active[p]
    /\ chan[q][p] # <<>> /\ Head(chan[q][p]) = m
    /\ chan' = [chan EXCEPT ![q][p] = Tail(@)]

RecvMessage(p, q) ==
    /\ Arrived(p, q, "msg")
    /\ UNCHANGED <<threadVars, recvVars, sendQueue, sending, active>>

\* runRecvEventLoopHost: one request from each client
HostRecvRequest(q) ==
    /\ Arrived(Host, q, "term")
    /\ requests' = [requests EXCEPT ![Host] = @ + 1]
    /\ recvPc' = [recvPc EXCEPT ![Host] = IF requests[Host] + 1 = numProcs - 1 THEN "final" ELSE @]
    /\ UNCHANGED <<mainPc, sendPc, iClient, indicator, sendQueue, sending, active>>

\* The final request is a blocking send: push it ...
HostFinalRequest ==
    /\ recvPc[Host] = "final"
    /\ Push(Host, <<Item("final", iClient)>>)
    /\ recvPc' = [recvPc EXCEPT ![Host] = "blocked"]
    /\ UNCHANGED <<mainPc, sendPc, recvVars, sending, active, chan>>

\* ... and spin until the send thread has sent it, then disable the channel.
HostAwaits_Not == TRUE
HostAwaits == indicator

LastClient_OffByOne == iClient = numProcs
LastClient == iClient = numProcs - 1

HostDeactivate ==
    /\ recvPc[Host] = "blocked"
    /\ HostAwaits
    /\ indicator' = FALSE
    /\ active' = [active EXCEPT ![Host] = @ \ {iClient}]
    /\ iClient' = iClient + 1
    /\ recvPc' = [recvPc EXCEPT ![Host] = IF LastClient THEN "ended" ELSE "final"]
    /\ UNCHANGED <<mainPc, sendPc, requests, sendQueue, sending, chan>>

\* runRecvEventLoopClients: two requests from the host, the first is answered
RequestsExpected_One == 1
RequestsExpected_Three == 3
RequestsExpected == 2

ClientRecvRequest(p, q) ==
    /\ p # Host
    /\ Arrived(p, q, "term")
    /\ requests' = [requests EXCEPT ![p] = @ + 1]
    /\ IF requests[p] = 0 THEN Push(p, <<Item("term", Host)>>) ELSE UNCHANGED sendQueue
    /\ recvPc' = [recvPc EXCEPT ![p] = IF requests[p] + 1 = RequestsExpected THEN "ended" ELSE @]
    /\ active' = [active EXCEPT ![p] = @ \ Clients]
    /\ UNCHANGED <<mainPc, sendPc, iClient, indicator, sending>>

-----------------------------------------------------------------------------
MainThread(p) == Fini(p) \/ JoinRecv(p) \/ JoinSend(p)
SendThread(p) == SendPop(p) \/ SendWrite(p)
RecvThread(p) ==
    \/ \E q \in Procs : RecvMessage(p, q) \/ ClientRecvRequest(p, q)
    \/ p = Host /\ (HostFinalRequest \/ HostDeactivate \/ \E q \in Clients : HostRecvRequest(q))

AllClosed == \A p \in Procs : mainPc[p] = "closed"
Terminated == AllClosed /\ UNCHANGED vars

Next ==
    \/ \E p \in Procs : MainThread(p) \/ SendThread(p) \/ RecvThread(p)
    \/ Terminated

Spec == Init /\ [][Next]_vars

FairSpec ==
    /\ Spec
    /\ \A p \in Procs : WF_vars(MainThread(p)) /\ WF_vars(SendThread(p)) /\ WF_vars(RecvThread(p))

-----------------------------------------------------------------------------
(* Properties *)

\* The shapes of the declarations. The send thread is given a process that exists
\* (GenericCommunicator.cpp:514 and :577 assert it), and clients get requests from the
\* host only, which runRecvEventLoopClients asserts.
TypeOK ==
    /\ mainPc \in [Procs -> {"run", "joinRecv", "joinSend", "closed"}]
    /\ recvPc \in [Procs -> {"loop", "final", "blocked", "ended"}]
    /\ sendPc \in [Procs -> {"loop", "ended"}]
    /\ requests \in [Procs -> 0 .. numProcs + 1]
    /\ iClient \in 1 .. numProcs /\ indicator \in BOOLEAN
    /\ active \in [Procs -> SUBSET Procs]
    /\ \A p \in Procs : sending[p].to \in Procs \cup {Nothing.to}
    /\ \A p, q \in Clients : chan[p][q] = <<>>

\* GenericCommunicator.cpp:578 and :515 assert it: the send thread never writes to a
\* channel that the receive thread has deactivated in the meantime.
NoWriteToInactive == \A p \in Procs : sending[p] # Nothing => sending[p].to \in active[p]

\* A channel is closed only when both ends are done with it: nobody is about to
\* write to, and nothing unread is left for, a process that has closed its sockets.
CloseIsClean ==
    \A p \in Procs : mainPc[p] = "closed" =>
        \A q \in Procs : /\ chan[q][p] = <<>>
                         /\ sending[q].to # p
                         /\ \A n \in DOMAIN sendQueue[q] : sendQueue[q][n].to # p

\* Why the clients expect two requests: none of them leaves its receive loop
\* before all of them have answered the first.
ClientsEndTogether ==
    \A p \in Clients : recvPc[p] = "ended" => \A q \in Clients : requests[q] >= 1

\* Shut-down of the channels is clean on both ends.
ClosesDown == TypeOK /\ NoWriteToInactive /\ CloseIsClean /\ ClientsEndTogether

\* Every process gets out of fini: nobody joins a thread that never ends.
EveryoneCloses == <>AllClosed
=============================================================================
