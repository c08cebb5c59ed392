------------------------------ MODULE CommStart ------------------------------
(***************************************************************************)
(* How the processes of a socket program find each other                   *)
(* (SocketHostInitializer.cpp, SocketClientInitializer.cpp).  Every client *)
(* opens two connections to the host: one the host sends on, one the       *)
(* client sends on.  Then the host lets one client after the other listen, *)
(* and makes all later clients connect to it, twice each.                  *)
(*                                                                         *)
(* A process is known by the order in which it is started, its id is what  *)
(* the host gives it: with "+" the start-up script starts all clients at   *)
(* once, and a script may or may not choose the ids itself.  Clients that  *)
(* are started by hand are started one after the other, each when the host *)
(* has reported the one before.  A contact string is the process that      *)
(* listens.  connect is one step with the send that follows it.            *)
(***************************************************************************)
EXTENDS Integers, Sequences

CONSTANT NumProcs   \* 1 + nClientsExpected

Procs == 0 .. NumProcs - 1
Host == 0
Clients == Procs \ {Host}

VARIABLES
    inOrder,    \* startClientsInOrder
    named,      \* CNC_SOCKET_CLIENT_ID is set for the clients
    hostPc,     \* the host: "accept", "build", "contact", "okay", "end"
    client,     \* firstClient, later the client whose connections are built
    nConn,      \* connections accepted since the last client was started
    nextId,     \* nextClientId
    started,    \* the clients that run
    pc,         \* a client: "new", "id", "loop", "accept", "echo", "end"
    localId,    \* localId(), 0 as long as it is not known
    expected,   \* connections a listening client still waits for
    peer,       \* the client whose echo a client waits for
    sendSocket, \* sendSocket[p][id], m_sendSocket of p's m_socketCommData
    recvSocket, \* recvSocket[p][id], m_recvSocket
    backlog,    \* backlog[p]: connections p has not accepted yet
    sent,       \* sent[s]: bytes on socket s from the one who connected
    back        \* back[s]: bytes on socket s from the one who accepted

vars == <<inOrder, named, hostPc, client, nConn, nextId, started, pc, localId, expected, peer,
          sendSocket, recvSocket, backlog, sent, back>>

\* The nr-th connection that client c opens to process p.
Socket(c, p, nr) == [from |-> c, to |-> p, nr |-> nr]
Sockets == [from : Clients, to : Procs, nr : {1, 2}]
Invalid == Socket(0, 0, 0)   \* PAL_INVALID_SOCKET

Init ==
    /\ inOrder \in BOOLEAN /\ named \in BOOLEAN
    /\ hostPc = "accept" /\ client = 1 /\ nConn = 0 /\ nextId = 0
    /\ started = IF inOrder THEN {1} ELSE Clients
    /\ pc = [c \in Clients |-> "new"]
    /\ localId = [p \in Procs |-> 0]
    /\ expected = [c \in Clients |-> 0]
    /\ peer = [c \in Clients |-> 0]
    /\ sendSocket = [p \in Procs |-> [id \in Procs |-> Invalid]]
    /\ recvSocket = [p \in Procs |-> [id \in Procs |-> Invalid]]
    /\ backlog = [p \in Procs |-> <<>>]
    /\ sent = [s \in Sockets |-> <<>>]
    /\ back = [s \in Sockets |-> <<>>]

Write(chan, s, msg) == chan' = [chan EXCEPT ![s] = Append(@, msg)]
Read(chan, s) == chan' = [chan EXCEPT ![s] = Tail(@)]
Set(socks, p, id, s) == socks' = [socks EXCEPT ![p][id] = s]

\* PAL_Connect and the first PAL_Send on the new socket s.
Connect(s, msg) ==
    /\ backlog' = [backlog EXCEPT ![s.to] = Append(@, s)]
    /\ Write(sent, s, msg)

-----------------------------------------------------------------------------
(* The host *)

\* start_client_and_setup_connection[_impl]: the host accepts two connections of
\* each client it has started, in whatever order they come.  The last one lets
\* it start the next client, or go on.
NextId_OfRound == client
NextId == nextId + 1

FirstConnection(s, mode, given) ==
    LET id == IF mode = 0 THEN NextId ELSE given IN
    /\ nextId' = NextId
    /\ Write(back, s, id)
    /\ Set(sendSocket, Host, id, s)
    /\ UNCHANGED recvSocket

SecondConnection_LastId(s, id) ==
    /\ Set(recvSocket, Host, nextId, s)
    /\ UNCHANGED <<nextId, back, sendSocket>>

SecondConnection(s, id) ==
    /\ Set(recvSocket, Host, id, s)
    /\ UNCHANGED <<nextId, back, sendSocket>>

HostAccept ==
    /\ hostPc = "accept" /\ backlog[Host] # <<>>
    /\ LET s == Head(backlog[Host])
           msg == Head(sent[s])
           last == nConn + 1 = IF inOrder THEN 2 ELSE 2 * (NumProcs - 1)
           all == last /\ (inOrder => client = NumProcs - 1) IN
       /\ backlog' = [backlog EXCEPT ![Host] = Tail(@)]
       /\ Read(sent, s)
       /\ IF msg[1] = 2 THEN SecondConnection(s, msg[2]) ELSE FirstConnection(s, msg[1], msg[2])
       /\ nConn' = IF last THEN 0 ELSE nConn + 1
       /\ hostPc' = IF all THEN "build" ELSE "accept"
       /\ client' = IF all THEN 1 ELSE IF last THEN client + 1 ELSE client
       /\ started' = IF last /\ ~all THEN started \cup {client + 1} ELSE started
    /\ UNCHANGED <<inOrder, named, pc, localId, expected, peer>>

\* build_client_connections, up to the contact string: the number of later
\* clients, which are to connect to this one.
nClientsContacting == NumProcs - client - 1

Tell(id, msg) == Write(back, sendSocket[Host][id], msg)

AskForContact ==
    /\ hostPc = "build"
    /\ IF nClientsContacting > 0
       THEN Tell(client, <<"send", nClientsContacting>>) /\ hostPc' = "contact"
       ELSE Tell(client, <<"done">>) /\ hostPc' = "okay"
    /\ UNCHANGED <<inOrder, named, client, nConn, nextId, started, pc, localId, expected, peer,
                   sendSocket, recvSocket, backlog, sent>>

\* The contact string goes to all later clients, and the client is told that
\* this was all.
PassContact ==
    LET s == recvSocket[Host][client] IN
    /\ hostPc = "contact" /\ sent[s] # <<>>
    /\ back' = [t \in Sockets |->
         back[t] \o (IF \E id \in client + 1 .. NumProcs - 1 : sendSocket[Host][id] = t
                     THEN << <<"recv", client, Head(sent[s])>> >>
                     ELSE IF t = sendSocket[Host][client] THEN << <<"done">> >> ELSE <<>>)]
    /\ Read(sent, s)
    /\ hostPc' = "okay"
    /\ UNCHANGED <<inOrder, named, client, nConn, nextId, started, pc, localId, expected, peer,
                   sendSocket, recvSocket, backlog>>

\* The okay of the client ends its round.
AwaitOkay ==
    LET s == recvSocket[Host][client] IN
    /\ hostPc = "okay" /\ sent[s] # <<>>
    /\ Read(sent, s)
    /\ IF client = NumProcs - 1
       THEN hostPc' = "end" /\ UNCHANGED client
       ELSE hostPc' = "build" /\ client' = client + 1
    /\ UNCHANGED <<inOrder, named, nConn, nextId, started, pc, localId, expected, peer,
                   sendSocket, recvSocket, backlog, back>>

HostStep == HostAccept \/ AskForContact \/ PassContact \/ AwaitOkay

-----------------------------------------------------------------------------
(* The clients *)

hostVars == <<inOrder, named, hostPc, client, nConn, nextId, started>>
Become(c, where) == pc' = [pc EXCEPT ![c] = where]

\* The sockets of client c to the host: the host sends on the first.
FromHost(c) == Socket(c, Host, 1)
ToHost(c) == Socket(c, Host, 2)

\* init_socket_comm: the first connection asks for an id or brings one, ...
ConnectToHost(c) ==
    /\ c \in started /\ pc[c] = "new"
    /\ Connect(FromHost(c), IF named THEN <<1, c>> ELSE <<0, -1>>)
    /\ Become(c, "id")
    /\ UNCHANGED <<hostVars, localId, expected, peer, sendSocket, recvSocket, back>>

\* ... and the answer is followed by the second.
LearnId(c) ==
    /\ pc[c] = "id" /\ back[FromHost(c)] # <<>>
    /\ LET id == Head(back[FromHost(c)]) IN
       /\ localId' = [localId EXCEPT ![c] = id]
       /\ Connect(ToHost(c), <<2, id>>)
    /\ Read(back, FromHost(c))
    /\ Set(recvSocket, c, Host, FromHost(c))
    /\ Set(sendSocket, c, Host, ToHost(c))
    /\ Become(c, "loop")
    /\ UNCHANGED <<hostVars, expected, peer>>

\* build_client_connections reads what the host wants next.
Order(c) == Head(back[FromHost(c)])
ReadsOrder(c, what) ==
    /\ pc[c] = "loop" /\ back[FromHost(c)] # <<>> /\ Order(c)[1] = what
    /\ Read(back, FromHost(c))

\* accept_client_connections: listen, and say where.
ConnectionsExpected_One(n) == n
ConnectionsExpected_More(n) == 2 * n + 1
ConnectionsExpected(n) == 2 * n

StartListening(c) ==
    /\ ReadsOrder(c, "send")
    /\ expected' = [expected EXCEPT ![c] = ConnectionsExpected(Order(c)[2])]
    /\ Write(sent, ToHost(c), c)
    /\ Become(c, "accept")
    /\ UNCHANGED <<hostVars, localId, peer, sendSocket, recvSocket, backlog>>

\* A negative id: the other one will receive here, and wants an echo.
AcceptClient(c) ==
    /\ pc[c] = "accept" /\ backlog[c] # <<>>
    /\ LET s == Head(backlog[c])
           remoteClientId == Head(sent[s]) IN
       /\ backlog' = [backlog EXCEPT ![c] = Tail(@)]
       /\ Read(sent, s)
       /\ IF remoteClientId < 0
          THEN /\ Write(back, s, -remoteClientId)
               /\ Set(sendSocket, c, -remoteClientId, s)
               /\ UNCHANGED recvSocket
          ELSE /\ Set(recvSocket, c, remoteClientId, s)
               /\ UNCHANGED <<back, sendSocket>>
    /\ expected' = [expected EXCEPT ![c] = @ - 1]
    /\ Become(c, IF expected[c] = 1 THEN "loop" ELSE "accept")
    /\ UNCHANGED <<hostVars, localId, peer>>

\* connect_to_other_client: the socket to receive on, ...
ConnectToClient(c) ==
    /\ ReadsOrder(c, "recv")
    /\ LET clientId == Order(c)[2]
           s == Socket(c, Order(c)[3], 1) IN
       /\ Connect(s, -localId[c])
       /\ Set(recvSocket, c, clientId, s)
       /\ peer' = [peer EXCEPT ![c] = clientId]
    /\ Become(c, "echo")
    /\ UNCHANGED <<hostVars, localId, expected, sendSocket>>

\* ... and after the echo the one to send on.
ConnectAgain(c) ==
    LET s == recvSocket[c][peer[c]]
        t == [s EXCEPT !.nr = 2] IN
    /\ pc[c] = "echo" /\ back[s] # <<>>
    /\ Read(back, s)
    /\ Connect(t, localId[c])
    /\ Set(sendSocket, c, peer[c], t)
    /\ Become(c, "loop")
    /\ UNCHANGED <<hostVars, localId, expected, peer, recvSocket>>

SayOkay(c) ==
    /\ ReadsOrder(c, "done")
    /\ Write(sent, ToHost(c), 1)
    /\ Become(c, "end")
    /\ UNCHANGED <<hostVars, localId, expected, peer, sendSocket, recvSocket, backlog>>

ClientStep(c) ==
    \/ ConnectToHost(c) \/ LearnId(c) \/ StartListening(c) \/ AcceptClient(c)
    \/ ConnectToClient(c) \/ ConnectAgain(c) \/ SayOkay(c)

Ended == hostPc = "end" /\ \A c \in Clients : pc[c] = "end"
Terminated == Ended /\ UNCHANGED vars

Next == HostStep \/ (\E c \in Clients : ClientStep(c)) \/ Terminated

-----------------------------------------------------------------------------
\* Whoever p sends to receives from p on that very socket: no two processes
\* take the same id for themselves, and the two connections of a pair are not
\* mixed up, however the clients overtake each other.
Ready(p) == p = Host \/ localId[p] # 0
SocketsPaired ==
    \A p, q \in Procs : p # q /\ Ready(p) /\ Ready(q) =>
      LET s == sendSocket[p][localId[q]]
          r == recvSocket[q][localId[p]] IN
      s # Invalid /\ r # Invalid => s = r

\* A process that is done is connected to all others, both ways: the assertions
\* at the end of SocketClientInitializer::build_client_connections.
AllConnected ==
    \A p \in Procs : (IF p = Host THEN hostPc = "end" ELSE pc[p] = "end") =>
      \A id \in Procs \ {localId[p]} : sendSocket[p][id] # Invalid /\ recvSocket[p][id] # Invalid

\* No socket is replaced by another one: the assertions that a socket is still
\* invalid when it is set, and that an id is new.
SetOnce ==
    \A p \in Procs, id \in Procs :
      /\ sendSocket[p][id] # Invalid => sendSocket'[p][id] = sendSocket[p][id]
      /\ recvSocket[p][id] # Invalid => recvSocket'[p][id] = recvSocket[p][id]
=============================================================================
