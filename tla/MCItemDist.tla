----------------------------- MODULE MCItemDist -----------------------------
(***************************************************************************)
(* Programs for ItemDist on three processes, and messages for Messages.    *)
(* The one is about which messages are sent, the other about how a message *)
(* gets from one process to another, so a behaviour is about one of them.  *)
(***************************************************************************)
EXTENDS ItemDist, TLC

CONSTANTS x, y, g1, g2, g3

Scenario(putX, putY, consX, consY, prodY, cntX, cntY, gets, main) ==
    [putOn |-> x :> putX @@ y :> putY,
     consumedOn |-> x :> consX @@ y :> consY,
     producedOn |-> x :> PRODUCER_UNKNOWN @@ y :> prodY,
     getCount |-> x :> cntX @@ y :> cntY,
     getter |-> g1 :> gets[1] @@ g2 :> gets[2] @@ g3 :> gets[3],
     main |-> main]

\* x is asked for by everybody, y at the process that is known to produce it.
Unknown == Scenario(1, 2, <<>>, <<>>, 2, 2, NO_GET_COUNT,
                    <<<<0, x>>, <<2, x>>, <<1, y>>>>, <<<<"wait">>, <<"get", y>>, <<"reset">>>>)

\* x is sent to all, y to one process.
Pushed == Scenario(1, 1, <<CONSUMER_ALL>>, <<2>>, PRODUCER_UNKNOWN, 2, NO_GET_COUNT,
                   <<<<2, x>>, <<0, x>>, <<2, y>>>>, <<<<"get", y>>, <<"wait">>>>)

\* x is owned by the first of a list that its producer is not in; y is local.
Listed == Scenario(0, 2, <<1, 2>>, <<CONSUMER_LOCAL>>, PRODUCER_UNKNOWN, 2, 1,
                   <<<<1, x>>, <<2, x>>, <<2, y>>>>, <<<<"wait">>, <<"get", y>>>>)

\* x goes to all but its producer; y is gathered.
Others == Scenario(2, 1, <<CONSUMER_ALL_OTHERS>>, <<CONSUMER_UNKNOWN>>, PRODUCER_LOCAL, 2, NO_GET_COUNT,
                   <<<<0, x>>, <<1, x>>, <<1, y>>>>, <<<<"wait">>, <<"gather">>>>)

AllScenarios == {Unknown, Pushed, Listed, Others}

-----------------------------------------------------------------------------
VARIABLES layer, channel, nSent, bodyLeft, wire, sers, request, handed, got, over, prevClient, passed

\* In bytes with the header, the large messages are one below BUFF_SIZE, BUFF_SIZE,
\* and more than the buffer that the receiver has posted.
INT == 2
CHAR == 1
Large(n) == <<"pair", <<<<"bits", INT>>, <<"array", <<"bits", CHAR>>, n>>>>>>
Letters(n) == [k \in 1..n |-> k]
TalkTypes(p) ==
  IF p = 1 THEN <<Large(48), <<"pair", <<<<"bits", INT>>, <<"counted", <<"string">>>>>>>>, Large(53)>>
  ELSE <<Large(47), <<"vector", <<"pointer", <<"shared", <<"bits", CHAR>>>>>>>>, <<"counted", <<"bits", INT>>>>>>
TalkValues(p) ==
  IF p = 1 THEN <<<<7, Letters(48)>>, <<8, <<<<5>>, <<>>, <<6, 7>>>>>>, <<9, Letters(53)>>>>
  ELSE <<<<3, Letters(47)>>, <<<<>>, <<<<4>>>>>>, <<1, 2, 3, 4, 5, 6, 7, 8, 9>>>>

Talk == INSTANCE Messages WITH Types <- TalkTypes, Values <- TalkValues

talkVars == <<channel, nSent, bodyLeft, wire, sers, request, handed, got, over, prevClient, passed>>
allVars == <<layer, vars, talkVars>>

NoTalk ==
  /\ channel = "none" /\ nSent = 0 /\ bodyLeft = 0 /\ wire = 0 /\ sers = 0 /\ request = 0 /\ handed = 0
  /\ got = 0 /\ over = {} /\ prevClient = 0 /\ passed = 0

LayersInit ==
  /\ layer \in {"items", "messages"}
  /\ Init
  /\ IF layer = "messages" THEN sc = Pushed /\ Talk!Init ELSE NoTalk

Protocol(A) == layer = "items" /\ A /\ UNCHANGED <<layer, talkVars>>
Talks(A) == layer = "messages" /\ A /\ UNCHANGED <<layer, vars>>

\* MPI and the threads of the communicator go on; for the protocol see ItemDist.
LayersSpec ==
  /\ LayersInit /\ [][Protocol(Next) \/ Talks(Talk!Next)]_allVars
  /\ \A t \in Tags : WF_allVars(Protocol(Put(t)))
  /\ \A g \in Getters : WF_allVars(Protocol(Get(g) \/ Finish(g)))
  /\ \A p, q \in Procs : WF_allVars(Protocol(Receive(p, q)))
  /\ \A p \in Procs : WF_allVars(Protocol(AnswerRequest(p))) /\ WF_allVars(Protocol(Task(p)))
  /\ WF_allVars(Protocol(EnvStep)) /\ WF_allVars(Protocol(EnvPoll)) /\ SF_allVars(Protocol(EnvGivesUp))
  /\ WF_allVars(Talks(Talk!RecvThread))
  /\ \A p \in 1 .. NumProcs - 1 : WF_allVars(Talks(Talk!SendThread(p))) /\ WF_allVars(Talks(Talk!Arrive(p)))

\* Every getter gets its item in the end, and the environment comes to its end.
ItemsGotten == layer = "items" => GettersFinish
EnvGetsThrough == layer = "items" => EnvEnds

\* What Messages states of the packing and framing of messages (see there), and
\* that all of them are received.
InBounds == layer = "messages" => Talk!InBounds
FitsPosted == layer = "messages" => Talk!FitsPosted
AsSent == layer = "messages" => Talk!AsSent
NotPassedOver == layer = "messages" => Talk!NotPassedOver
AllArrives == layer = "messages" => <>Talk!Ended

\* Items between processes: all copies agree on the owner, an item stays while a
\* reader needs it, and no part of a get count is lost or counted twice.
ItemsConserved == TypeOK /\ CopiesAgreeOnOwner /\ NeededItemKept /\ CountsConserved


\* What holds when gather and when wait return.
AfterWait == GatherComplete /\ CollectedAfterWait

\* A message is written and read within its buffers and arrives as it was sent,
\* and no sender is passed over.
MessagesIntact == InBounds /\ FitsPosted /\ AsSent /\ NotPassedOver

\* Every get is served, by whatever messages it takes, and every message arrives.
AllServed == ItemsGotten /\ EnvGetsThrough /\ AllArrives
=============================================================================
