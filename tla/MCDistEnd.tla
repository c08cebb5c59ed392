------------------------------ MODULE MCDistEnd ------------------------------
(***************************************************************************)
(* The communicator's life: the processes connect, wait for each other,    *)
(* and shut the communicator down.  The start leaves nothing behind but    *)
(* the sockets, and the shut-down finds the queues in any state they may   *)
(* be in, so a behaviour is about one of the three.                        *)
(***************************************************************************)
EXTENDS CommShutdown

CONSTANTS StartProcs

ASSUME EndConstants ==
  /\ StartProcs \in Nat \ {0, 1} /\ numProcs \in Nat \ {0, 1}
  /\ Queued \in Nat

VARIABLES phase
VARIABLES inOrder, named, hostPc, client, nConn, nextId, started, pc, localId, expected, peer,
          sendSocket, recvSocket, backlog, sent, back
VARIABLES mode, steps, budget, inFlight, barrier, wpc, loop, leaving, flushCount, nMsgsRecvd, sync,
          ctxt, readies, waitQueue, waitSending, waitChan, hand

Start == INSTANCE CommStart WITH NumProcs <- StartProcs

\* One client, main on the host only; the MPI build, main runs on both processes.
TwoProcs == [procs |-> 2, distEnv |-> FALSE, preSend |-> FALSE, work |-> 3, prompt |-> TRUE]
BothMains == [procs |-> 2, distEnv |-> TRUE, preSend |-> TRUE, work |-> 1, prompt |-> FALSE]
Wait == INSTANCE DistWait WITH
  MaxProcs <- 2, Modes <- {TwoProcs, BothMains},
  sendQueue <- waitQueue, sending <- waitSending, chan <- waitChan

startVars == <<inOrder, named, hostPc, client, nConn, nextId, started, pc, localId, expected, peer,
               sendSocket, recvSocket, backlog, sent, back>>
waitVars == <<mode, steps, budget, inFlight, barrier, wpc, loop, leaving, flushCount, nMsgsRecvd, sync,
              ctxt, readies, waitQueue, waitSending, waitChan, hand>>
endVars == <<phase, vars, startVars, waitVars>>

EndInit ==
  /\ phase \in {"start", "wait", "fini"}
  /\ Init /\ Start!Init /\ Wait!Init
  /\ phase # "wait" => mode = TwoProcs
  /\ phase # "start" => inOrder /\ named

Starts(A) == phase = "start" /\ A /\ UNCHANGED <<phase, vars, waitVars>>
Waits(A) == phase = "wait" /\ A /\ UNCHANGED <<phase, vars, startVars>>
Finishes(A) == phase = "fini" /\ A /\ UNCHANGED <<phase, startVars, waitVars>>
EndNext == Starts(Start!Next) \/ Waits(Wait!Next) \/ Finishes(Next)

\* The fairness of the parts: every process and every thread goes on.
EndSpec ==
  /\ EndInit /\ [][EndNext]_endVars
  /\ WF_endVars(Starts(Start!HostStep))
  /\ \A c \in 1 .. StartProcs - 1 : WF_endVars(Starts(Start!ClientStep(c)))
  /\ \A p \in 0 .. 1 :
       /\ WF_endVars(Waits(Wait!SendThread(p) /\ UNCHANGED mode))
       /\ WF_endVars(Waits(Wait!RecvThread(p) /\ UNCHANGED mode))
       /\ WF_endVars(Waits(Wait!Waiter(p) /\ UNCHANGED mode))
       /\ WF_endVars(Waits(Wait!StepEnds(p) /\ UNCHANGED mode))
  /\ \A p \in Procs :
       /\ WF_endVars(Finishes(MainThread(p)))
       /\ WF_endVars(Finishes(SendThread(p)))
       /\ WF_endVars(Finishes(RecvThread(p)))

-----------------------------------------------------------------------------
\* What CommStart states of the start (see there), and that it comes to its end.
SocketsPaired == phase = "start" => Start!SocketsPaired
AllConnected == phase = "start" => Start!AllConnected
SocketsSetOnce == [][phase = "start" => Start!SetOnce]_endVars
EveryoneConnects == phase = "start" => <>Start!Ended

\* The host's wait ends, and everyone follows it out.
WaitEnds == phase = "wait" => Wait!WaitReturns
AllFollow == phase = "wait" => Wait!EveryoneFollows

\* Start-up: the two sockets of a connection belong to the same two processes, and
\* a process leaves the start-up connected to everybody.
Connected == SocketsPaired /\ AllConnected

\* No socket is replaced by another, and every process gets through the start-up.
StartsUp == SocketsSetOnce /\ EveryoneConnects

\* Every process gets out of wait, and every process out of fini.
AllLeave == WaitEnds /\ AllFollow /\ (phase = "fini" => EveryoneCloses)
=============================================================================
