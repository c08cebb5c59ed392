------------------------- MODULE CommShutdownProofs -------------------------
(***************************************************************************)
(* Proof that the shut-down of the communicator is clean (ClosesDown), for *)
(* any number of processes, of queued messages, and whether or not main    *)
(* runs on the clients.                                                    *)
(*                                                                         *)
(* The argument follows the requests.  What a process sends to another     *)
(* passes through its queue, the hands of the send thread and the channel, *)
(* in this order, and a request is behind all messages.  So where a        *)
(* request has passed nothing else is left: a client that has received two *)
(* requests has received everything, and so has the host when it has       *)
(* received one from every client.                                         *)
(***************************************************************************)
EXTENDS CommShutdown, FiniteSets, FiniteSetTheorems, SequenceTheorems, TLAPS

HostItems == [k : {"msg", "term", "final"}, to : Clients]
ClientItems == [k : {"msg", "term"}, to : {Host}]
ItemsOf(p) == IF p = Host THEN HostItems ELSE ClientItems
Requests == [k : {"term", "final"}, to : Procs]

Shape ==
    /\ mainPc \in [Procs -> {"run", "joinRecv", "joinSend", "closed"}]
    /\ recvPc \in [Procs -> {"loop", "final", "blocked", "ended"}]
    /\ sendPc \in [Procs -> {"loop", "ended"}]
    /\ requests \in [Procs -> Nat]
    /\ iClient \in 1 .. numProcs /\ indicator \in BOOLEAN
    /\ active \in [Procs -> SUBSET Procs]
    /\ sendQueue \in [Procs -> Seq(HostItems \cup ClientItems \cup {Stop})]
    /\ sending \in [Procs -> HostItems \cup ClientItems \cup {Nothing}]
    /\ chan \in [Procs -> [Procs -> Seq({"msg", "term"})]]

\* Every process writes to the host or, if it is the host, to the clients.
Routes ==
    /\ \A p \in Procs : /\ sendQueue[p] \in Seq(ItemsOf(p) \cup {Stop})
                        /\ sending[p] \in ItemsOf(p) \cup {Nothing}
    /\ chan[Host][Host] = <<>> /\ \A c, d \in Clients : chan[c][d] = <<>>

-----------------------------------------------------------------------------
(* A queue q and the item h in the hands of its send thread *)

InQueue(q, x) == \E n \in 1 .. Len(q) : q[n] = x

\* x has still to be written.
Pending(q, h, x) == h = x \/ InQueue(q, x)

\* No request has been queued yet.
OnlyMessages(q, h) ==
    /\ \A n \in 1 .. Len(q) : q[n].k = "msg"
    /\ h.k \in {"msg", "nothing"}

Once(q, h, x) ==
    /\ \A n, m \in 1 .. Len(q) : q[n] = x /\ q[m] = x => n = m
    /\ h = x => ~InQueue(q, x)

\* Request x is behind all messages.
Behind(q, h, x) ==
    /\ \A m \in 1 .. Len(q) : q[m].k = "msg" => \E n \in 1 .. Len(q) : n > m /\ q[n] = x
    /\ h.k = "msg" => InQueue(q, x)

\* The channel ch ends in j requests, before them are messages.
EndsIn(ch, j) ==
    /\ j >= 0 /\ Len(ch) >= j
    /\ \A n \in 1 .. Len(ch) : ch[n] = IF n > Len(ch) - j THEN "term" ELSE "msg"

-----------------------------------------------------------------------------
(* The inductive invariant *)

Ask(c) == Item("term", c)      \* the first request the host sends to c
Last(c) == Item("final", c)    \* its last
Reply == Item("term", Host)    \* a client's answer

InOrder ==
    /\ mainPc[Host] = "run" => OnlyMessages(sendQueue[Host], sending[Host])
    /\ mainPc[Host] # "run" =>
          \A c \in Clients : /\ Once(sendQueue[Host], sending[Host], Ask(c))
                             /\ Behind(sendQueue[Host], sending[Host], Ask(c))
    /\ \A c \in Clients :
          /\ requests[c] = 0 => OnlyMessages(sendQueue[c], sending[c])
          /\ requests[c] > 0 => /\ Once(sendQueue[c], sending[c], Reply)
                                /\ Behind(sendQueue[c], sending[c], Reply)

Asked(c) == mainPc[Host] # "run" /\ ~Pending(sendQueue[Host], sending[Host], Ask(c))
Dismissed(c) == c < iClient \/ (c = iClient /\ indicator)

\* The requests to c that are in the channel.
OnTheWay(c) == (IF Asked(c) THEN 1 ELSE 0) + (IF Dismissed(c) THEN 1 ELSE 0) - requests[c]

\* The channel to a client ends in the requests it has not received.
ToClient(c) ==
    /\ EndsIn(chan[Host][c], OnTheWay(c))
    /\ requests[c] > 0 => Asked(c) /\ Len(chan[Host][c]) = OnTheWay(c)

\* The client's answer is still to be written, or not yet due.
Unanswered(c) == requests[c] = 0 \/ Pending(sendQueue[c], sending[c], Reply)

\* The channel from a client ends in its answer, once it is written.
FromClient(c) ==
    IF Unanswered(c) THEN EndsIn(chan[c][Host], 0)
    ELSE chan[c][Host] = <<>> \/ EndsIn(chan[c][Host], 1)

\* The host has received the answer of c.
Replied(c) == ~Unanswered(c) /\ chan[c][Host] = <<>>
AllReplied == \A c \in Clients : Replied(c)

HostPhase ==
    /\ recvPc[Host] = "loop" => iClient = 1
    /\ recvPc[Host] # "loop" => AllReplied
    /\ recvPc[Host] \in {"final", "blocked"} => iClient < numProcs
    /\ recvPc[Host] = "ended" => iClient = numProcs
    /\ indicator => recvPc[Host] = "blocked"
    /\ active[Host] = {c \in Clients : c >= iClient}

LastOnce ==
    \A c \in Clients :
        /\ Once(sendQueue[Host], sending[Host], Last(c))
        /\ Pending(sendQueue[Host], sending[Host], Last(c)) =>
              recvPc[Host] = "blocked" /\ c = iClient /\ ~indicator

RepliesCounted == requests[Host] = Cardinality({c \in Clients : Replied(c)})

ClientPhase ==
    \A c \in Clients :
        /\ recvPc[c] = IF requests[c] = 2 THEN "ended" ELSE "loop"
        /\ active[c] = IF requests[c] = 0 THEN Procs \ {c} ELSE {Host}

MainPhase == \A p \in Procs : mainPc[p] \in {"joinSend", "closed"} => recvPc[p] = "ended"

Inv ==
    /\ Shape /\ Routes /\ InOrder
    /\ (\A c \in Clients : ToClient(c)) /\ (\A c \in Clients : FromClient(c))
    /\ HostPhase /\ LastOnce /\ RepliesCounted /\ ClientPhase /\ MainPhase

-----------------------------------------------------------------------------
(* Facts about sequences *)

\* What Head and Tail of a sequence are.
LEMMA TailIs ==
    ASSUME NEW S, NEW s \in Seq(S), s # <<>>
    PROVE  /\ Len(s) \in Nat /\ Len(s) >= 1 /\ Head(s) = s[1] /\ Head(s) \in S
           /\ Tail(s) \in Seq(S) /\ Len(Tail(s)) = Len(s) - 1
           /\ \A n \in 1 .. Len(s) - 1 : Tail(s)[n] = s[n + 1]
BY HeadTailProperties, LenProperties

\* What Append adds.
LEMMA AppendIs ==
    ASSUME NEW S, NEW s \in Seq(S), NEW e \in S
    PROVE  /\ Len(s) \in Nat /\ Append(s, e) \in Seq(S) /\ Len(Append(s, e)) = Len(s) + 1
           /\ \A n \in 1 .. Len(s) : Append(s, e)[n] = s[n]
           /\ Append(s, e)[Len(s) + 1] = e
BY AppendProperties, LenProperties

\* What concatenation adds.
LEMMA ConcatIs ==
    ASSUME NEW S, NEW s \in Seq(S), NEW t \in Seq(S)
    PROVE  /\ Len(s) \in Nat /\ Len(t) \in Nat /\ s \o t \in Seq(S) /\ Len(s \o t) = Len(s) + Len(t)
           /\ \A n \in 1 .. Len(s) : (s \o t)[n] = s[n]
           /\ \A n \in 1 .. Len(t) : (s \o t)[Len(s) + n] = t[n]
BY ConcatProperties, LenProperties

\* A channel that ends in j requests, one longer.
LEMMA EndsAppend ==
    ASSUME NEW ch \in Seq({"msg", "term"}), NEW j \in Int, EndsIn(ch, j)
    PROVE  /\ EndsIn(Append(ch, "term"), j + 1)
           /\ j = 0 => EndsIn(Append(ch, "msg"), 0)
<1>1. ASSUME NEW e \in {"msg", "term"}
      PROVE  /\ Len(ch) \in Nat /\ Len(Append(ch, e)) = Len(ch) + 1
             /\ \A n \in 1 .. Len(ch) : Append(ch, e)[n] = ch[n]
             /\ Append(ch, e)[Len(ch) + 1] = e
  BY AppendIs
<1>2. EndsIn(Append(ch, "term"), j + 1)
  BY <1>1 DEF EndsIn
<1>3. j = 0 => EndsIn(Append(ch, "msg"), 0)
  BY <1>1 DEF EndsIn
<1> QED BY <1>2, <1>3

\* The first of it is taken.
LEMMA EndsTail ==
    ASSUME NEW ch \in Seq({"msg", "term"}), NEW j \in Int, EndsIn(ch, j), ch # <<>>
    PROVE  /\ Head(ch) = "msg" => EndsIn(Tail(ch), j) /\ Len(ch) > j
           /\ Head(ch) = "term" => j >= 1 /\ Len(ch) = j /\ EndsIn(Tail(ch), j - 1)
<1>1. /\ Len(ch) \in Nat /\ Len(ch) >= 1 /\ Head(ch) = ch[1] /\ Len(Tail(ch)) = Len(ch) - 1
      /\ \A n \in 1 .. Len(ch) - 1 : Tail(ch)[n] = ch[n + 1]
  BY TailIs
<1>2. ch[1] = IF 1 > Len(ch) - j THEN "term" ELSE "msg"
  BY <1>1 DEF EndsIn
<1>3. Head(ch) = "msg" => EndsIn(Tail(ch), j) /\ Len(ch) > j
  BY <1>1, <1>2 DEF EndsIn
<1>4. Head(ch) = "term" => j >= 1 /\ Len(ch) = j /\ EndsIn(Tail(ch), j - 1)
  <2> SUFFICES ASSUME Head(ch) = "term"
               PROVE  j >= 1 /\ Len(ch) = j /\ EndsIn(Tail(ch), j - 1)
    OBVIOUS
  <2>0. 1 > Len(ch) - j
    BY <1>1, <1>2
  <2>1. j >= 1 /\ Len(ch) = j
    <3>1. Len(ch) >= j
      BY DEF EndsIn
    <3>2. Len(ch) \in Nat /\ Len(ch) >= 1 /\ j \in Int
      BY <1>1
    <3> QED BY <2>0, <3>1, <3>2, SMT
  <2>2. \A n \in 1 .. Len(ch) : ch[n] = "term"
    BY <1>1, <2>1 DEF EndsIn
  <2>3. \A n \in 1 .. Len(Tail(ch)) : Tail(ch)[n] = "term"
    BY <1>1, <2>2
  <2> QED BY <1>1, <2>1, <2>3 DEF EndsIn
<1> QED BY <1>3, <1>4

\* The request is the last one.
LEMMA EndsOne ==
    ASSUME NEW ch \in Seq({"msg", "term"}), EndsIn(ch, 1), ch # <<>>
    PROVE  /\ Head(ch) = "msg" => EndsIn(Tail(ch), 1) /\ Tail(ch) # <<>>
           /\ Head(ch) = "term" => Tail(ch) = <<>>
<1>1. Tail(ch) \in Seq({"msg", "term"}) /\ Len(ch) \in Nat /\ Len(Tail(ch)) = Len(ch) - 1
  BY TailIs
<1>2. 1 \in Int
  OBVIOUS
<1>3. /\ Head(ch) = "msg" => EndsIn(Tail(ch), 1) /\ Len(ch) > 1
      /\ Head(ch) = "term" => Len(ch) = 1
  BY <1>2, EndsTail
<1>4. ASSUME Len(ch) > 1 PROVE Tail(ch) # <<>>
  <2>1. Len(Tail(ch)) # 0
    BY <1>1, <1>4, SMT
  <2>2. Len(<<>>) = 0
    OBVIOUS
  <2> QED BY <2>1, <2>2
<1>5. ASSUME Len(ch) = 1 PROVE Tail(ch) = <<>>
  <2>1. Len(Tail(ch)) = 0
    BY <1>1, <1>5, SMT
  <2> QED BY <1>1, <2>1, EmptySeq
<1> QED BY <1>3, <1>4, <1>5

\* The send thread takes the first item of its queue into its hands.
LEMMA Popped ==
    ASSUME NEW S, NEW q \in Seq(S), q # <<>>, NEW h, h = Nothing,
           NEW g, g = IF Head(q) = Stop THEN Nothing ELSE Head(q),
           NEW x \in Requests
    PROVE  /\ Pending(Tail(q), g, x) <=> Pending(q, h, x)
           /\ Once(q, h, x) => Once(Tail(q), g, x)
           /\ Behind(q, h, x) => Behind(Tail(q), g, x)
           /\ OnlyMessages(q, h) => OnlyMessages(Tail(q), g)
<1>1. /\ Len(q) \in Nat /\ Len(q) >= 1 /\ Head(q) = q[1] /\ Len(Tail(q)) = Len(q) - 1
      /\ \A n \in 1 .. Len(q) - 1 : Tail(q)[n] = q[n + 1]
  BY TailIs
<1>2. x # Stop /\ x # Nothing /\ x.k # "msg" /\ Nothing.k = "nothing" /\ Stop.k = "stop"
  BY DEF Requests, Stop, Nothing, Item
<1>a. \A n \in 2 .. Len(q) : n - 1 \in 1 .. Len(q) - 1 /\ Tail(q)[n - 1] = q[n]
  BY <1>1
<1>3. InQueue(q, x) <=> q[1] = x \/ InQueue(Tail(q), x)
  <2>1. InQueue(q, x) => q[1] = x \/ InQueue(Tail(q), x)
    BY <1>1, <1>a DEF InQueue
  <2>2. InQueue(Tail(q), x) => InQueue(q, x)
    BY <1>1 DEF InQueue
  <2> QED BY <1>1, <2>1, <2>2 DEF InQueue
<1>4. Pending(Tail(q), g, x) <=> Pending(q, h, x)
  BY <1>1, <1>2, <1>3 DEF Pending
<1>5. Once(q, h, x) => Once(Tail(q), g, x)
  <2> SUFFICES ASSUME Once(q, h, x) PROVE Once(Tail(q), g, x)
    OBVIOUS
  <2>1. \A n, m \in 1 .. Len(Tail(q)) : Tail(q)[n] = x /\ Tail(q)[m] = x => n = m
    BY <1>1 DEF Once
  <2>2. g = x => ~InQueue(Tail(q), x)
    <3> SUFFICES ASSUME g = x, NEW n \in 1 .. Len(Tail(q)), Tail(q)[n] = x PROVE FALSE
      BY DEF InQueue
    <3>1. q[1] = x /\ q[n + 1] = x /\ n + 1 \in 1 .. Len(q) /\ n + 1 # 1
      BY <1>1, <1>2
    <3> QED BY <3>1, <1>1 DEF Once
  <2> QED BY <2>1, <2>2 DEF Once
<1>6. Behind(q, h, x) => Behind(Tail(q), g, x)
  <2> SUFFICES ASSUME Behind(q, h, x) PROVE Behind(Tail(q), g, x)
    OBVIOUS
  <2>1. ASSUME NEW m \in 1 .. Len(Tail(q)), Tail(q)[m].k = "msg"
        PROVE  \E n \in 1 .. Len(Tail(q)) : n > m /\ Tail(q)[n] = x
    <3>1. m + 1 \in 1 .. Len(q) /\ q[m + 1].k = "msg"
      BY <1>1, <2>1
    <3>2. PICK n \in 1 .. Len(q) : n > m + 1 /\ q[n] = x
      BY <3>1 DEF Behind
    <3>3. n - 1 \in 1 .. Len(Tail(q)) /\ n - 1 > m /\ Tail(q)[n - 1] = x
      BY <1>1, <1>a, <2>1, <3>2
    <3> QED BY <3>3
  <2>2. g.k = "msg" => InQueue(Tail(q), x)
    <3> SUFFICES ASSUME g.k = "msg" PROVE InQueue(Tail(q), x)
      OBVIOUS
    <3>1. q[1].k = "msg" /\ 1 \in 1 .. Len(q)
      BY <1>1, <1>2
    <3>2. PICK n \in 1 .. Len(q) : n > 1 /\ q[n] = x
      BY <3>1 DEF Behind
    <3>3. n - 1 \in 1 .. Len(Tail(q)) /\ Tail(q)[n - 1] = x
      BY <1>1, <1>a, <3>2
    <3> QED BY <3>3 DEF InQueue
  <2> QED BY <2>1, <2>2 DEF Behind
<1>7. OnlyMessages(q, h) => OnlyMessages(Tail(q), g)
  BY <1>1, <1>2 DEF OnlyMessages
<1> QED BY <1>4, <1>5, <1>6, <1>7

\* Items are pushed behind the others.
LEMMA Pushed ==
    ASSUME NEW S, NEW q \in Seq(S), NEW t \in Seq(S), NEW h, NEW x \in Requests,
           \A n \in 1 .. Len(t) : t[n].k # "msg"
    PROVE  /\ Pending(q \o t, h, x) <=> Pending(q, h, x) \/ InQueue(t, x)
           /\ Once(q, h, x) /\ ~InQueue(t, x) => Once(q \o t, h, x)
           /\ Behind(q, h, x) => Behind(q \o t, h, x)
<1>1. /\ Len(q) \in Nat /\ Len(t) \in Nat /\ Len(q \o t) = Len(q) + Len(t)
      /\ \A n \in 1 .. Len(q) : (q \o t)[n] = q[n]
      /\ \A n \in 1 .. Len(t) : (q \o t)[Len(q) + n] = t[n]
  BY ConcatIs
<1>2. \A n \in 1 .. Len(q \o t) : n > Len(q) => /\ n - Len(q) \in 1 .. Len(t)
                                               /\ (q \o t)[n] = t[n - Len(q)]
  BY <1>1
<1>3. InQueue(q \o t, x) <=> InQueue(q, x) \/ InQueue(t, x)
  <2>1. InQueue(q \o t, x) => InQueue(q, x) \/ InQueue(t, x)
    BY <1>1, <1>2 DEF InQueue
  <2>2. InQueue(q, x) => InQueue(q \o t, x)
    BY <1>1 DEF InQueue
  <2>3. InQueue(t, x) => InQueue(q \o t, x)
    <3> SUFFICES ASSUME NEW n \in 1 .. Len(t), t[n] = x PROVE InQueue(q \o t, x)
      BY DEF InQueue
    <3>1. Len(q) + n \in 1 .. Len(q \o t) /\ (q \o t)[Len(q) + n] = x
      BY <1>1
    <3> QED BY <3>1 DEF InQueue
  <2> QED BY <2>1, <2>2, <2>3
<1>4. Once(q, h, x) /\ ~InQueue(t, x) => Once(q \o t, h, x)
  <2> SUFFICES ASSUME Once(q, h, x), ~InQueue(t, x) PROVE Once(q \o t, h, x)
    OBVIOUS
  <2>1. \A n \in 1 .. Len(q \o t) : (q \o t)[n] = x => n \in 1 .. Len(q) /\ q[n] = x
    BY <1>1, <1>2 DEF InQueue
  <2> QED BY <1>3, <2>1 DEF Once
<1>5. Behind(q, h, x) => Behind(q \o t, h, x)
  <2> SUFFICES ASSUME Behind(q, h, x) PROVE Behind(q \o t, h, x)
    OBVIOUS
  <2>1. ASSUME NEW m \in 1 .. Len(q \o t), (q \o t)[m].k = "msg"
        PROVE  \E n \in 1 .. Len(q \o t) : n > m /\ (q \o t)[n] = x
    <3>1. m \in 1 .. Len(q) /\ q[m].k = "msg"
      BY <1>1, <1>2, <2>1
    <3>2. PICK n \in 1 .. Len(q) : n > m /\ q[n] = x
      BY <3>1 DEF Behind
    <3> QED BY <1>1, <3>2
  <2> QED BY <1>3, <2>1 DEF Behind
<1> QED BY <1>3, <1>4, <1>5 DEF Pending

\* The send thread has written what it had in its hands.
LEMMA Wrote ==
    ASSUME NEW q, NEW h, NEW x \in Requests
    PROVE  /\ Pending(q, Nothing, x) => Pending(q, h, x)
           /\ h # x => (Pending(q, Nothing, x) <=> Pending(q, h, x))
           /\ h = x /\ Once(q, h, x) => ~Pending(q, Nothing, x)
           /\ Once(q, h, x) => Once(q, Nothing, x)
           /\ Behind(q, h, x) => Behind(q, Nothing, x)
           /\ OnlyMessages(q, h) => OnlyMessages(q, Nothing)
<1>1. x # Nothing /\ Nothing.k = "nothing"
  BY DEF Requests, Nothing, Item
<1> QED BY <1>1 DEF Pending, Once, Behind, OnlyMessages

\* The first request x that is pushed behind messages.
LEMMA FirstRequest ==
    ASSUME NEW S, NEW q \in Seq(S), NEW t \in Seq(S), NEW h, NEW x \in Requests,
           NEW i \in 1 .. Len(t), t[i] = x, \A n \in 1 .. Len(t) : t[n] = x => n = i,
           ~Pending(q, h, x)
    PROVE  /\ Pending(q \o t, h, x) /\ Once(q \o t, h, x)
           /\ (\A n \in 1 .. Len(t) : t[n].k # "msg") => Behind(q \o t, h, x)
<1>1. /\ Len(q) \in Nat /\ Len(t) \in Nat /\ Len(q \o t) = Len(q) + Len(t)
      /\ \A n \in 1 .. Len(q) : (q \o t)[n] = q[n]
      /\ \A n \in 1 .. Len(t) : (q \o t)[Len(q) + n] = t[n]
  BY ConcatIs
<1>2. \A n \in 1 .. Len(q \o t) : n > Len(q) => /\ n - Len(q) \in 1 .. Len(t)
                                               /\ (q \o t)[n] = t[n - Len(q)]
  BY <1>1
<1>3. Len(q) + i \in 1 .. Len(q \o t) /\ (q \o t)[Len(q) + i] = x
  BY <1>1
<1>4. \A n \in 1 .. Len(q) : q[n] # x
  BY DEF Pending, InQueue
<1>5. InQueue(q \o t, x) /\ h # x
  BY <1>3 DEF Pending, InQueue
<1>6. \A n \in 1 .. Len(q \o t) : (q \o t)[n] = x => n = Len(q) + i
  <2> SUFFICES ASSUME NEW n \in 1 .. Len(q \o t), (q \o t)[n] = x PROVE n = Len(q) + i
    OBVIOUS
  <2>1. n > Len(q)
    BY <1>1, <1>4
  <2>2. n - Len(q) = i
    BY <1>2, <2>1
  <2> QED BY <1>1, <2>2
<1>7. Once(q \o t, h, x)
  BY <1>5, <1>6 DEF Once
<1>8. (\A n \in 1 .. Len(t) : t[n].k # "msg") => Behind(q \o t, h, x)
  <2> SUFFICES ASSUME \A n \in 1 .. Len(t) : t[n].k # "msg" PROVE Behind(q \o t, h, x)
    OBVIOUS
  <2>1. ASSUME NEW m \in 1 .. Len(q \o t), (q \o t)[m].k = "msg" PROVE Len(q) + i > m
    <3>1. m <= Len(q)
      BY <1>1, <1>2, <2>1
    <3> QED BY <1>1, <3>1
  <2> QED BY <1>3, <1>5, <2>1 DEF Behind
<1> QED BY <1>5, <1>7, <1>8 DEF Pending

\* Where there are only messages, no request is to be written.
LEMMA NoRequest ==
    ASSUME NEW q, NEW h, NEW x \in Requests, OnlyMessages(q, h)
    PROVE  ~Pending(q, h, x)
BY DEF OnlyMessages, Pending, InQueue, Requests

-----------------------------------------------------------------------------
(* The steps *)

\* There is a client, and a number of messages.
Setting == numProcs \in Nat \ {0, 1} /\ Queued \in Nat

\* The processes and the requests they exchange.
LEMMA Names ==
    ASSUME Setting
    PROVE  /\ Host \in Procs /\ Host \notin Clients /\ Clients \subseteq Procs /\ Host = 0
           /\ \A p \in Procs : p # Host => p \in Clients
           /\ \A c \in Clients : c \in Nat /\ 1 <= c /\ c < numProcs
           /\ \A c \in Nat : 1 <= c /\ c < numProcs => c \in Clients
           /\ Reply \in Requests /\ \A c \in Clients : Ask(c) \in Requests /\ Last(c) \in Requests
BY DEF Setting, Procs, Host, Clients, Requests, Reply, Ask, Last, Item

\* The requests differ from each other, from messages and from Stop.
LEMMA Differ ==
    /\ Stop.k = "stop" /\ Nothing.k = "nothing" /\ Stop \notin Requests /\ Nothing \notin Requests
    /\ Stop.to = -1 /\ Nothing.to = -1
    /\ \A c, d : Ask(c) # Last(d)
    /\ \A c, d : Ask(c) = Ask(d) => c = d
    /\ \A c, d : Last(c) = Last(d) => c = d
    /\ \A c : Ask(c).k = "term" /\ Ask(c).to = c /\ Last(c).k = "final" /\ Last(c).to = c
    /\ Reply.k = "term" /\ Reply.to = Host
BY DEF Stop, Nothing, Item, Requests, Ask, Last, Reply

\* What a process may have in its hands.
LEMMA InHands ==
    ASSUME Setting, Inv, NEW p \in Procs, sending[p] # Nothing
    PROVE  /\ p = Host => \E c \in Clients : /\ sending[p].to = c
                                             /\ \/ sending[p].k = "msg"
                                                \/ sending[p] = Ask(c)
                                                \/ sending[p] = Last(c)
           /\ p # Host => /\ sending[p].to = Host
                          /\ sending[p].k = "msg" \/ sending[p] = Reply
<1>1. sending[p] \in ItemsOf(p)
  BY DEF Inv, Routes
<1> QED BY <1>1 DEF ItemsOf, HostItems, ClientItems, Ask, Last, Reply, Item

\* No request gains or loses its place.
RequestsStay ==
    \A p \in Procs, x \in Requests :
        /\ Pending(sendQueue'[p], sending'[p], x) <=> Pending(sendQueue[p], sending[p], x)
        /\ Once(sendQueue[p], sending[p], x) => Once(sendQueue'[p], sending'[p], x)
        /\ Behind(sendQueue[p], sending[p], x) => Behind(sendQueue'[p], sending'[p], x)

\* Steps of main and of the send thread that write nothing.
LEMMA QuietStep ==
    ASSUME Setting, Inv, RequestsStay,
           UNCHANGED <<recvPc, requests, iClient, indicator, active, chan>>,
           mainPc'[Host] = "run" <=> mainPc[Host] = "run",
           mainPc'[Host] = "run" /\ OnlyMessages(sendQueue[Host], sending[Host])
              => OnlyMessages(sendQueue'[Host], sending'[Host]),
           \A c \in Clients : requests[c] = 0 /\ OnlyMessages(sendQueue[c], sending[c])
              => OnlyMessages(sendQueue'[c], sending'[c])
    PROVE  /\ InOrder' /\ (\A c \in Clients : ToClient(c)') /\ (\A c \in Clients : FromClient(c)')
           /\ HostPhase' /\ LastOnce' /\ RepliesCounted' /\ ClientPhase'
<1>a. /\ Host \in Procs /\ Clients \subseteq Procs
      /\ Reply \in Requests /\ \A c \in Clients : Ask(c) \in Requests /\ Last(c) \in Requests
  BY Names
<1>1. \A c \in Clients : /\ Asked(c)' <=> Asked(c)
                         /\ Unanswered(c)' <=> Unanswered(c)
                         /\ Replied(c)' <=> Replied(c)
  BY <1>a DEF RequestsStay, Asked, Unanswered, Replied
<1>2. InOrder'
  BY <1>a DEF InOrder, RequestsStay, Inv
<1>3. ASSUME NEW c \in Clients PROVE ToClient(c)' /\ FromClient(c)'
  <2>1. ToClient(c) /\ FromClient(c)
    BY DEF Inv
  <2>2. OnTheWay(c)' = OnTheWay(c)
    BY <1>1 DEF OnTheWay, Dismissed
  <2> QED BY <1>1, <2>1, <2>2 DEF ToClient, FromClient
<1>4. HostPhase' /\ ClientPhase'
  BY <1>1 DEF HostPhase, ClientPhase, AllReplied, Inv
<1>5. LastOnce'
  BY <1>a DEF LastOnce, RequestsStay, Inv
<1>6. RepliesCounted'
  <2>1. {c \in Clients : Replied(c)}' = {c \in Clients : Replied(c)}
    BY <1>1
  <2> QED BY <2>1 DEF RepliesCounted, Inv
<1> QED BY <1>2, <1>3, <1>4, <1>5, <1>6

\* Pushing items of its own kind keeps the queue of a process in shape.
LEMMA PushShape ==
    ASSUME Setting, Inv, NEW p \in Procs, NEW t \in Seq(ItemsOf(p) \cup {Stop}), Push(p, t)
    PROVE  /\ sendQueue' = [sendQueue EXCEPT ![p] = sendQueue[p] \o t]
           /\ sendQueue' \in [Procs -> Seq(HostItems \cup ClientItems \cup {Stop})]
           /\ \A u \in Procs : sendQueue'[u] \in Seq(ItemsOf(u) \cup {Stop})
           /\ sendQueue'[p] = sendQueue[p] \o t
           /\ \A u \in Procs : u # p => sendQueue'[u] = sendQueue[u]
<1>1. sendQueue' = [sendQueue EXCEPT ![p] = sendQueue[p] \o t]
  BY DEF Push
<1>2. sendQueue[p] \o t \in Seq(ItemsOf(p) \cup {Stop})
  BY ConcatIs DEF Inv, Routes
<1>3. Seq(ItemsOf(p) \cup {Stop}) \subseteq Seq(HostItems \cup ClientItems \cup {Stop})
  BY DEF ItemsOf
<1>4. sendQueue[p] \o t \in Seq(HostItems \cup ClientItems \cup {Stop})
  BY <1>2, <1>3
<1> QED BY <1>1, <1>2, <1>4 DEF Inv, Shape, Routes

\* Main calls fini: only the host pushes something.
LEMMA FiniStep ==
    ASSUME Setting, Inv, NEW p \in Procs, Fini(p)
    PROVE  Inv'
<1>a. /\ Host \in Procs /\ Host \notin Clients /\ Clients \subseteq Procs /\ Host = 0
      /\ \A c \in Clients : c \in Nat /\ 1 <= c /\ c < numProcs
      /\ \A c \in Nat : 1 <= c /\ c < numProcs => c \in Clients
      /\ Reply \in Requests /\ \A c \in Clients : Ask(c) \in Requests /\ Last(c) \in Requests
  BY Names
<1>b. UNCHANGED <<recvPc, sendPc, requests, iClient, indicator, sending, active, chan>>
  BY DEF Fini, recvVars
<1>c. mainPc' = [mainPc EXCEPT ![p] = "joinRecv"] /\ mainPc[p] = "run"
  BY DEF Fini
<1>1. MainPhase'
  BY <1>b, <1>c DEF MainPhase, Inv, Shape
<1>2. CASE p # Host
  <2>1. sendQueue' = sendQueue
    BY <1>2 DEF Fini
  <2>2. RequestsStay
    BY <1>b, <2>1 DEF RequestsStay
  <2>3. mainPc'[Host] = mainPc[Host]
    BY <1>2, <1>a, <1>c DEF Inv, Shape
  <2>4. Shape' /\ Routes'
    BY <1>b, <1>c, <2>1 DEF Inv, Shape, Routes
  <2> QED BY <1>1, <1>b, <2>1, <2>2, <2>3, <2>4, QuietStep DEF Inv
<1>3. CASE p = Host
  <2> DEFINE t == [n \in 1 .. numProcs - 1 |-> Ask(n)]
             S == HostItems \cup ClientItems \cup {Stop}
             q == sendQueue[Host]
             h == sending[Host]
  <2>1. /\ t \in Seq(ItemsOf(Host) \cup {Stop}) /\ Len(t) = numProcs - 1
        /\ \A n \in 1 .. Len(t) : t[n] = Ask(n) /\ n \in Clients
    <3>1. \A n \in 1 .. numProcs - 1 : n \in Clients /\ Ask(n) \in ItemsOf(Host) \cup {Stop}
      BY <1>a DEF Setting, ItemsOf, HostItems, Ask, Item
    <3>2. numProcs - 1 \in Nat
      BY DEF Setting
    <3> QED BY <3>1, <3>2
  <2>2. Push(Host, t)
    BY <1>3 DEF Fini, Ask
  <2> HIDE DEF t
  <2>3. /\ sendQueue' \in [Procs -> Seq(S)]
        /\ \A u \in Procs : sendQueue'[u] \in Seq(ItemsOf(u) \cup {Stop})
        /\ sendQueue'[Host] = q \o t
        /\ \A u \in Procs : u # Host => sendQueue'[u] = sendQueue[u]
    BY <1>a, <2>1, <2>2, PushShape
  <2>4. Shape' /\ Routes'
    BY <1>b, <1>c, <2>3 DEF Inv, Shape, Routes
  <2>5. q \in Seq(ItemsOf(Host) \cup {Stop}) /\ OnlyMessages(q, h)
    BY <1>3, <1>a, <1>c DEF Inv, Routes, InOrder
  <2>6. \A x \in Requests : ~Pending(q, h, x)
    BY <2>5, NoRequest
  <2> HIDE DEF q, h
  <2>7. ASSUME NEW c \in Clients
        PROVE  Pending(q \o t, h, Ask(c)) /\ Once(q \o t, h, Ask(c)) /\ Behind(q \o t, h, Ask(c))
    <3>1. c \in 1 .. Len(t) /\ t[c] = Ask(c) /\ \A n \in 1 .. Len(t) : t[n] = Ask(c) => n = c
      BY <1>a, <2>1, Differ DEF Setting
    <3>2. \A n \in 1 .. Len(t) : t[n].k # "msg"
      BY <2>1, Differ
    <3> QED BY <1>a, <2>1, <2>5, <2>6, <3>1, <3>2, FirstRequest
  <2>8. ASSUME NEW c \in Clients
        PROVE  ~Pending(q \o t, h, Last(c)) /\ Once(q \o t, h, Last(c))
    <3>1. ~InQueue(t, Last(c))
      BY <2>1, Differ DEF InQueue
    <3>2. \A n \in 1 .. Len(t) : t[n].k # "msg"
      BY <2>1, Differ
    <3>3. Once(q, h, Last(c))
      BY <1>a DEF Inv, LastOnce, q, h
    <3> QED BY <1>a, <2>1, <2>5, <2>6, <3>1, <3>2, <3>3, Pushed
  <2>9. mainPc[Host] = "run" /\ mainPc'[Host] # "run"
    BY <1>3, <1>a, <1>c DEF Inv, Shape
  <2>10. sendQueue'[Host] = q \o t /\ sending'[Host] = h
    BY <1>b, <2>3 DEF h
  <2>11. InOrder'
    BY <1>a, <1>b, <2>3, <2>7, <2>9, <2>10 DEF InOrder, Inv
  <2>12. \A c \in Clients : /\ ~Asked(c) /\ ~Asked(c)'
                            /\ Unanswered(c)' <=> Unanswered(c)
                            /\ Replied(c)' <=> Replied(c)
    BY <1>a, <1>b, <2>3, <2>7, <2>9, <2>10 DEF Asked, Unanswered, Replied
  <2>13. ASSUME NEW c \in Clients PROVE ToClient(c)' /\ FromClient(c)'
    <3>1. ToClient(c) /\ FromClient(c)
      BY DEF Inv
    <3>2. OnTheWay(c)' = OnTheWay(c)
      BY <1>b, <2>12 DEF OnTheWay, Dismissed
    <3> QED BY <1>b, <2>12, <3>1, <3>2 DEF ToClient, FromClient
  <2>14. HostPhase' /\ ClientPhase'
    BY <1>b, <2>12 DEF HostPhase, ClientPhase, AllReplied, Inv
  <2>15. LastOnce'
    BY <2>8, <2>10 DEF LastOnce
  <2>16. RepliesCounted'
    <3>1. {c \in Clients : Replied(c)}' = {c \in Clients : Replied(c)}
      BY <2>12
    <3> QED BY <1>b, <3>1 DEF RepliesCounted, Inv
  <2> QED BY <1>1, <2>4, <2>11, <2>13, <2>14, <2>15, <2>16 DEF Inv
<1> QED BY <1>2, <1>3

\* Main has joined the receive thread and asks the send thread to stop.
LEMMA JoinRecvStep ==
    ASSUME Setting, Inv, NEW p \in Procs, JoinRecv(p)
    PROVE  Inv'
<1> DEFINE t == <<Stop>>
<1>a. Host \in Procs /\ Clients \subseteq Procs
  BY Names
<1>b. UNCHANGED <<recvPc, sendPc, requests, iClient, indicator, sending, active, chan>>
  BY DEF JoinRecv, recvVars
<1>c. /\ mainPc' = [mainPc EXCEPT ![p] = "joinSend"] /\ mainPc[p] = "joinRecv"
      /\ recvPc[p] = "ended" /\ Push(p, t)
  BY DEF JoinRecv
<1>d. /\ t \in Seq(ItemsOf(p) \cup {Stop}) /\ Len(t) = 1
      /\ \A n \in 1 .. Len(t) : t[n] = Stop
  OBVIOUS
<1> HIDE DEF t
<1>1. /\ sendQueue' \in [Procs -> Seq(HostItems \cup ClientItems \cup {Stop})]
      /\ \A u \in Procs : sendQueue'[u] \in Seq(ItemsOf(u) \cup {Stop})
      /\ sendQueue'[p] = sendQueue[p] \o t
      /\ \A u \in Procs : u # p => sendQueue'[u] = sendQueue[u]
  BY <1>c, <1>d, PushShape
<1>2. Shape' /\ Routes'
  BY <1>b, <1>c, <1>1 DEF Inv, Shape, Routes
<1>3. MainPhase'
  BY <1>b, <1>c DEF MainPhase, Inv, Shape
<1>4. RequestsStay
  <2> SUFFICES ASSUME NEW x \in Requests
               PROVE  /\ Pending(sendQueue'[p], sending[p], x) <=> Pending(sendQueue[p], sending[p], x)
                      /\ Once(sendQueue[p], sending[p], x) => Once(sendQueue'[p], sending[p], x)
                      /\ Behind(sendQueue[p], sending[p], x) => Behind(sendQueue'[p], sending[p], x)
    BY <1>b, <1>1 DEF RequestsStay
  <2>1. ~InQueue(t, x) /\ \A n \in 1 .. Len(t) : t[n].k # "msg"
    BY <1>d, Differ DEF InQueue
  <2>2. sendQueue[p] \in Seq(ItemsOf(p) \cup {Stop})
    BY DEF Inv, Routes
  <2> QED BY <1>1, <1>d, <2>1, <2>2, Pushed
<1>5. mainPc'[Host] = "run" <=> mainPc[Host] = "run"
  BY <1>a, <1>c DEF Inv, Shape
<1>6. mainPc'[Host] = "run" => p # Host
  BY <1>a, <1>c DEF Inv, Shape
<1>7. \A c \in Clients : requests[c] = 0 => p # c
  <2>1. \A c \in Clients : requests[c] = 0 => recvPc[c] = "loop"
    <3>1. \A c \in Clients : recvPc[c] = IF requests[c] = 2 THEN "ended" ELSE "loop"
      BY DEF Inv, ClientPhase
    <3>2. ASSUME NEW c \in Clients, requests[c] = 0 PROVE requests[c] # 2
      BY <3>2
    <3> QED BY <3>1, <3>2
  <2> QED BY <1>c, <2>1
<1> QED BY <1>a, <1>b, <1>1, <1>2, <1>3, <1>4, <1>5, <1>6, <1>7, QuietStep DEF Inv

\* Main has joined the send thread.
LEMMA JoinSendStep ==
    ASSUME Setting, Inv, NEW p \in Procs, JoinSend(p)
    PROVE  Inv'
<1>a. Host \in Procs /\ Clients \subseteq Procs
  BY Names
<1>b. UNCHANGED <<recvPc, sendPc, requests, iClient, indicator, sendQueue, sending, active, chan>>
  BY DEF JoinSend, recvVars, commVars
<1>c. mainPc' = [mainPc EXCEPT ![p] = "closed"] /\ mainPc[p] = "joinSend"
  BY DEF JoinSend
<1>1. Shape' /\ Routes' /\ MainPhase'
  BY <1>b, <1>c DEF Inv, Shape, Routes, MainPhase
<1>2. RequestsStay
  BY <1>b DEF RequestsStay
<1>3. mainPc'[Host] = "run" <=> mainPc[Host] = "run"
  BY <1>a, <1>c DEF Inv, Shape
<1> QED BY <1>b, <1>1, <1>2, <1>3, QuietStep DEF Inv

\* The send thread takes the next item from its queue.
LEMMA SendPopStep ==
    ASSUME Setting, Inv, NEW p \in Procs, SendPop(p)
    PROVE  Inv'
<1>a. Host \in Procs /\ Clients \subseteq Procs
  BY Names
<1> DEFINE q == sendQueue[p]
           g == IF Head(q) = Stop THEN Nothing ELSE Head(q)
<1>b. UNCHANGED <<mainPc, recvPc, requests, iClient, indicator, active, chan>>
  BY DEF SendPop, recvVars
<1>c. /\ q # <<>> /\ sending[p] = Nothing
      /\ sendQueue' = [sendQueue EXCEPT ![p] = Tail(q)]
  BY DEF SendPop
<1>1. q \in Seq(ItemsOf(p) \cup {Stop}) /\ sendQueue \in [Procs -> Seq(HostItems \cup ClientItems \cup {Stop})]
  BY DEF Inv, Shape, Routes
<1>2. /\ Tail(q) \in Seq(ItemsOf(p) \cup {Stop}) /\ Head(q) \in ItemsOf(p) \cup {Stop}
      /\ Tail(q) \in Seq(HostItems \cup ClientItems \cup {Stop})
  BY <1>1, <1>c, TailIs
<1>3. sending' = [sending EXCEPT ![p] = g] /\ sendPc' \in [Procs -> {"loop", "ended"}]
  BY <1>c DEF SendPop, Inv, Shape
<1>4. g \in ItemsOf(p) \cup {Nothing} /\ ItemsOf(p) \subseteq HostItems \cup ClientItems
  BY <1>2 DEF ItemsOf
<1>5. Shape' /\ Routes' /\ MainPhase'
  BY <1>b, <1>c, <1>1, <1>2, <1>3, <1>4 DEF Inv, Shape, Routes, MainPhase
<1>6. /\ sendQueue'[p] = Tail(q) /\ sending'[p] = g
      /\ \A u \in Procs : u # p => sendQueue'[u] = sendQueue[u] /\ sending'[u] = sending[u]
  BY <1>1, <1>c, <1>3 DEF Inv, Shape
<1>7. \A x \in Requests :
        /\ Pending(Tail(q), g, x) <=> Pending(q, sending[p], x)
        /\ Once(q, sending[p], x) => Once(Tail(q), g, x)
        /\ Behind(q, sending[p], x) => Behind(Tail(q), g, x)
        /\ OnlyMessages(q, sending[p]) => OnlyMessages(Tail(q), g)
  BY <1>1, <1>c, Popped
<1> HIDE DEF g
<1>8. RequestsStay
  BY <1>6, <1>7 DEF RequestsStay
<1>9. OnlyMessages(q, sending[p]) => OnlyMessages(sendQueue'[p], sending'[p])
  BY <1>6, <1>7, Names
<1>10. \A u \in Procs : OnlyMessages(sendQueue[u], sending[u]) => OnlyMessages(sendQueue'[u], sending'[u])
  BY <1>6, <1>9
<1> QED BY <1>a, <1>b, <1>5, <1>8, <1>10, QuietStep DEF Inv

\* The host dismisses a client only when it has got its answer.
LEMMA DismissedLate ==
    ASSUME Setting, Inv, NEW c \in Clients, Dismissed(c)
    PROVE  requests[c] # 0 /\ recvPc[Host] # "loop" /\ AllReplied
<1>1. c \in Nat /\ c >= 1
  BY Names
<1>2. /\ recvPc[Host] = "loop" => iClient = 1
      /\ recvPc[Host] # "loop" => AllReplied
      /\ indicator => recvPc[Host] = "blocked"
  BY DEF Inv, HostPhase
<1>3. recvPc[Host] # "loop"
  BY <1>1, <1>2 DEF Dismissed
<1> QED BY <1>2, <1>3 DEF AllReplied, Replied, Unanswered

\* The host's send thread writes to client c.
LEMMA HostWriteStep ==
    ASSUME Setting, Inv, SendWrite(Host)
    PROVE  Inv'
<1>a. /\ Host \in Procs /\ Host \notin Clients /\ Clients \subseteq Procs
      /\ \A c \in Clients : c \in Nat
      /\ Reply \in Requests /\ \A c \in Clients : Ask(c) \in Requests /\ Last(c) \in Requests
  BY Names
<1> DEFINE q == sendQueue[Host]
           h == sending[Host]
           m == IF h.k = "msg" THEN "msg" ELSE "term"
<1>b. UNCHANGED <<mainPc, recvPc, sendPc, requests, iClient, sendQueue, active>>
  BY DEF SendWrite, threadVars
<1>1. PICK c \in Clients : h.to = c /\ (h.k = "msg" \/ h = Ask(c) \/ h = Last(c))
  BY <1>a, InHands DEF SendWrite
<1>c. /\ chan' = [chan EXCEPT ![Host][c] = Append(chan[Host][c], m)]
      /\ indicator' = (indicator \/ h.k = "final")
      /\ sending' = [sending EXCEPT ![Host] = Nothing]
  BY <1>1 DEF SendWrite
<1>d. /\ chan \in [Procs -> [Procs -> Seq({"msg", "term"})]] /\ chan[Host][c] \in Seq({"msg", "term"})
      /\ m \in {"msg", "term"} /\ requests \in [Procs -> Nat] /\ iClient \in Nat
      /\ sending \in [Procs -> HostItems \cup ClientItems \cup {Nothing}]
  BY <1>a DEF Inv, Shape
<1>2. Append(chan[Host][c], m) \in Seq({"msg", "term"})
  BY <1>d, AppendIs
<1>3. Shape' /\ Routes' /\ MainPhase'
  <2>1. indicator' \in BOOLEAN
    BY <1>c DEF Inv, Shape
  <2> QED BY <1>a, <1>b, <1>c, <1>d, <1>2, <2>1 DEF Inv, Shape, Routes, MainPhase
<1>4. /\ sendQueue'[Host] = q /\ sending'[Host] = Nothing
      /\ \A u \in Clients : sendQueue'[u] = sendQueue[u] /\ sending'[u] = sending[u]
      /\ chan'[Host][c] = Append(chan[Host][c], m)
      /\ \A u \in Clients : u # c => chan'[Host][u] = chan[Host][u]
      /\ \A u \in Clients : chan'[u][Host] = chan[u][Host]
  BY <1>a, <1>b, <1>c, <1>d
<1>5. \A x \in Requests :
        /\ Pending(q, Nothing, x) => Pending(q, h, x)
        /\ h # x => (Pending(q, Nothing, x) <=> Pending(q, h, x))
        /\ h = x /\ Once(q, h, x) => ~Pending(q, Nothing, x)
        /\ Once(q, h, x) => Once(q, Nothing, x)
        /\ Behind(q, h, x) => Behind(q, Nothing, x)
        /\ OnlyMessages(q, h) => OnlyMessages(q, Nothing)
  BY Wrote
<1>6. InOrder'
  BY <1>a, <1>b, <1>4, <1>5 DEF InOrder, Inv
<1>7. \A u \in Clients : /\ Unanswered(u)' <=> Unanswered(u)
                         /\ Replied(u)' <=> Replied(u)
  BY <1>b, <1>4 DEF Unanswered, Replied
<1>8. \A u \in Clients : FromClient(u)'
  BY <1>4, <1>7 DEF FromClient, Inv
<1>9. RepliesCounted' /\ ClientPhase'
  <2>1. {u \in Clients : Replied(u)}' = {u \in Clients : Replied(u)}
    BY <1>7
  <2> QED BY <1>b, <2>1 DEF RepliesCounted, ClientPhase, Inv
<1>10. h = Last(c) => recvPc[Host] = "blocked" /\ c = iClient /\ ~indicator
  BY DEF Inv, LastOnce, Pending
<1>11. h.k = "final" <=> h = Last(c)
  BY <1>1, Differ
<1>12. HostPhase'
  BY <1>b, <1>c, <1>7, <1>10, <1>11 DEF HostPhase, AllReplied, Inv
<1>13. LastOnce'
  <2> SUFFICES ASSUME NEW u \in Clients
               PROVE  /\ Once(q, Nothing, Last(u))
                      /\ Pending(q, Nothing, Last(u)) =>
                            recvPc[Host] = "blocked" /\ u = iClient /\ ~indicator'
    BY <1>b, <1>4 DEF LastOnce
  <2>1. /\ Once(q, h, Last(u))
        /\ Pending(q, h, Last(u)) => recvPc[Host] = "blocked" /\ u = iClient /\ ~indicator
    BY DEF Inv, LastOnce
  <2>2. ~(h = Last(c) /\ Pending(q, Nothing, Last(u)))
    BY <1>a, <1>5, <1>10, <2>1
  <2> QED BY <1>a, <1>c, <1>5, <1>11, <2>1, <2>2
<1>14. ASSUME NEW u \in Clients, u # c PROVE ToClient(u)'
  <2>1. h # Ask(u)
    BY <1>1, <1>14, Differ
  <2>2. Asked(u)' <=> Asked(u)
    BY <1>a, <1>b, <1>4, <1>5, <2>1 DEF Asked
  <2>3. Dismissed(u)' <=> Dismissed(u)
    BY <1>b, <1>c, <1>10, <1>11, <1>14 DEF Dismissed
  <2>4. OnTheWay(u)' = OnTheWay(u)
    BY <1>b, <2>2, <2>3 DEF OnTheWay
  <2> QED BY <1>b, <1>4, <1>14, <2>2, <2>4 DEF ToClient, Inv
<1>15. ToClient(c)'
  <2>0. ToClient(c) /\ requests[c] \in Nat
    BY <1>a, <1>d DEF Inv
  <2>a. requests[c] = 0 => ~Dismissed(c)
    BY DismissedLate
  <2>1. CASE h.k = "msg"
    <3>1. ~Asked(c) /\ h # Ask(c) /\ h # Last(c)
      <4>1. h # Ask(c) /\ h # Last(c)
        BY <2>1, Differ
      <4>2. mainPc[Host] # "run" => InQueue(q, Ask(c))
        BY <2>1 DEF Inv, InOrder, Behind
      <4> QED BY <4>1, <4>2 DEF Asked, Pending
    <3>2. requests[c] = 0 /\ ~Dismissed(c)
      BY <2>0, <2>a, <3>1 DEF ToClient
    <3>3. OnTheWay(c) = 0
      BY <3>1, <3>2 DEF OnTheWay
    <3>4. ~Asked(c)'
      BY <1>a, <1>b, <1>4, <1>5, <3>1 DEF Asked
    <3>5. Dismissed(c)' <=> Dismissed(c)
      BY <1>b, <1>c, <1>11, <3>1 DEF Dismissed
    <3>6. OnTheWay(c)' = 0
      BY <1>b, <3>2, <3>4, <3>5 DEF OnTheWay
    <3>7. EndsIn(Append(chan[Host][c], "msg"), 0)
      BY <1>d, <2>0, <3>3, EndsAppend DEF ToClient
    <3> QED BY <1>b, <1>4, <2>1, <3>2, <3>6, <3>7 DEF ToClient
  <2>2. CASE h # Ask(c) /\ h = Last(c)
    <3>1. m = "term" /\ h.k = "final"
      BY <2>2, Differ
    <3>2. Asked(c)' <=> Asked(c)
      BY <1>a, <1>b, <1>4, <1>5, <2>2 DEF Asked
    <3>3. ~Dismissed(c) /\ Dismissed(c)'
      <4>1. c = iClient /\ ~indicator /\ indicator' /\ iClient' = iClient
        BY <1>b, <1>c, <1>10, <2>2, <3>1
      <4> QED BY <1>d, <4>1 DEF Dismissed
    <3>4. OnTheWay(c)' = OnTheWay(c) + 1 /\ OnTheWay(c) \in Int
      BY <1>b, <2>0, <3>2, <3>3 DEF OnTheWay
    <3>5. EndsIn(Append(chan[Host][c], "term"), OnTheWay(c) + 1)
      BY <1>d, <2>0, <3>4, EndsAppend DEF ToClient
    <3>6. Len(Append(chan[Host][c], "term")) = Len(chan[Host][c]) + 1
      BY <1>d, AppendIs
    <3> QED BY <1>b, <1>4, <2>0, <3>1, <3>2, <3>4, <3>5, <3>6 DEF ToClient
  <2>3. CASE h = Ask(c)
    <3>1. m = "term" /\ h.k # "final"
      BY <2>3, Differ
    <3>2. ~Asked(c) /\ Once(q, h, Ask(c)) /\ mainPc[Host] # "run"
      <4>1. Pending(q, h, Ask(c))
        BY <2>3 DEF Pending
      <4>2. mainPc[Host] # "run"
        BY <1>a, <4>1, NoRequest DEF Inv, InOrder
      <4> QED BY <4>1, <4>2 DEF Inv, InOrder, Asked
    <3>3. Asked(c)'
      BY <1>a, <1>b, <1>4, <1>5, <2>3, <3>2 DEF Asked
    <3>4. requests[c] = 0 /\ ~Dismissed(c)
      BY <2>0, <2>a, <3>2 DEF ToClient
    <3>5. ~Dismissed(c)'
      BY <1>b, <1>c, <3>1, <3>4 DEF Dismissed
    <3>6. OnTheWay(c)' = 1 /\ OnTheWay(c) = 0
      BY <1>b, <3>2, <3>3, <3>4, <3>5 DEF OnTheWay
    <3>7. EndsIn(Append(chan[Host][c], "term"), 0 + 1)
      BY <1>d, <2>0, <3>6, EndsAppend DEF ToClient
    <3> QED BY <1>b, <1>4, <3>1, <3>4, <3>6, <3>7 DEF ToClient
  <2> QED BY <1>1, <2>1, <2>2, <2>3
<1> QED BY <1>3, <1>6, <1>8, <1>9, <1>12, <1>13, <1>14, <1>15 DEF Inv

\* A client's send thread writes to the host.
LEMMA ClientWriteStep ==
    ASSUME Setting, Inv, NEW c \in Clients, SendWrite(c)
    PROVE  Inv'
<1>a. /\ Host \in Procs /\ Host \notin Clients /\ Clients \subseteq Procs /\ c # Host
      /\ Reply \in Requests /\ \A u \in Clients : Ask(u) \in Requests /\ Last(u) \in Requests
  BY Names
<1> DEFINE q == sendQueue[c]
           h == sending[c]
           m == IF h.k = "msg" THEN "msg" ELSE "term"
<1>b. UNCHANGED <<mainPc, recvPc, sendPc, requests, iClient, sendQueue, active>>
  BY DEF SendWrite, threadVars
<1>1. h.to = Host /\ (h.k = "msg" \/ h = Reply)
  BY <1>a, InHands DEF SendWrite
<1>c. /\ chan' = [chan EXCEPT ![c][Host] = Append(chan[c][Host], m)]
      /\ indicator' = indicator
      /\ sending' = [sending EXCEPT ![c] = Nothing]
  <2>1. h.k # "final"
    BY <1>1, Differ
  <2> QED BY <1>1, <2>1 DEF SendWrite, Inv, Shape
<1>d. /\ chan \in [Procs -> [Procs -> Seq({"msg", "term"})]] /\ chan[c][Host] \in Seq({"msg", "term"})
      /\ m \in {"msg", "term"} /\ requests \in [Procs -> Nat]
      /\ sending \in [Procs -> HostItems \cup ClientItems \cup {Nothing}]
  BY <1>a DEF Inv, Shape
<1>2. Append(chan[c][Host], m) \in Seq({"msg", "term"}) /\ Append(chan[c][Host], m) # <<>>
  BY SMTT(20), <1>d, AppendIs
<1>3. Shape' /\ Routes' /\ MainPhase'
  BY <1>a, <1>b, <1>c, <1>d, <1>2 DEF Inv, Shape, Routes, MainPhase
<1>4. /\ sendQueue'[c] = q /\ sending'[c] = Nothing
      /\ \A u \in Procs : u # c => sendQueue'[u] = sendQueue[u] /\ sending'[u] = sending[u]
      /\ chan'[c][Host] = Append(chan[c][Host], m)
      /\ \A u \in Clients : u # c => chan'[u][Host] = chan[u][Host]
      /\ \A u \in Clients : chan'[Host][u] = chan[Host][u]
  BY <1>a, <1>b, <1>c, <1>d
<1>5. /\ h # Reply => (Pending(q, Nothing, Reply) <=> Pending(q, h, Reply))
      /\ h = Reply /\ Once(q, h, Reply) => ~Pending(q, Nothing, Reply)
      /\ Once(q, h, Reply) => Once(q, Nothing, Reply)
      /\ Behind(q, h, Reply) => Behind(q, Nothing, Reply)
      /\ OnlyMessages(q, h) => OnlyMessages(q, Nothing)
  BY <1>a, Wrote
<1>6. InOrder'
  BY <1>a, <1>b, <1>4, <1>5 DEF InOrder, Inv
<1>7. \A u \in Clients : u # c => /\ Unanswered(u)' <=> Unanswered(u)
                                  /\ Replied(u)' <=> Replied(u)
                                  /\ FromClient(u)'
  BY <1>a, <1>b, <1>4 DEF Unanswered, Replied, FromClient, Inv
<1>8. ASSUME NEW u \in Clients PROVE ToClient(u)'
  <2>1. Asked(u)' <=> Asked(u)
    BY <1>a, <1>b, <1>4 DEF Asked
  <2>2. OnTheWay(u)' = OnTheWay(u)
    BY <1>b, <1>c, <2>1 DEF OnTheWay, Dismissed
  <2> QED BY <1>b, <1>4, <2>1, <2>2 DEF ToClient, Inv
<1>9. Unanswered(c) /\ EndsIn(chan[c][Host], 0)
  <2>1. Unanswered(c)
    <3>1. h.k = "msg" /\ requests[c] > 0 => InQueue(q, Reply)
      BY DEF Inv, InOrder, Behind
    <3> QED BY <1>1, <1>a, <1>d, <3>1 DEF Unanswered, Pending
  <2> QED BY <2>1 DEF FromClient, Inv
<1>10. FromClient(c)'
  <2>1. CASE h.k = "msg"
    <3>1. h # Reply
      BY <2>1, Differ
    <3>2. Unanswered(c)'
      BY <1>b, <1>4, <1>5, <1>9, <3>1 DEF Unanswered
    <3>3. EndsIn(Append(chan[c][Host], "msg"), 0)
      BY <1>d, <1>9, EndsAppend
    <3> QED BY <1>4, <2>1, <3>2, <3>3 DEF FromClient
  <2>2. CASE h = Reply
    <3>1. m = "term" /\ requests[c] > 0
      <4>1. Pending(q, h, Reply)
        BY <2>2 DEF Pending
      <4>2. requests[c] # 0
        BY <1>a, <4>1, NoRequest DEF Inv, InOrder
      <4> QED BY <1>a, <1>d, <2>2, <4>2, Differ
    <3>2. ~Unanswered(c)'
      <4>1. Once(q, h, Reply)
        BY <3>1 DEF Inv, InOrder
      <4> QED BY <1>a, <1>d, <1>b, <1>4, <1>5, <2>2, <3>1, <4>1 DEF Unanswered
    <3>3. EndsIn(Append(chan[c][Host], "term"), 0 + 1)
      BY <1>d, <1>9, EndsAppend
    <3> QED BY <1>4, <3>1, <3>2, <3>3 DEF FromClient
  <2> QED BY <1>1, <2>1, <2>2
<1>11. ~Replied(c) /\ ~Replied(c)'
  BY <1>2, <1>4, <1>9 DEF Replied
<1>12. RepliesCounted'
  <2>1. {u \in Clients : Replied(u)}' = {u \in Clients : Replied(u)}
    BY <1>7, <1>11
  <2> QED BY <1>b, <2>1 DEF RepliesCounted, Inv
<1>13. HostPhase' /\ ClientPhase'
  BY <1>b, <1>c, <1>11 DEF HostPhase, ClientPhase, AllReplied, Inv
<1>14. LastOnce'
  BY <1>a, <1>b, <1>c, <1>4 DEF LastOnce, Inv
<1>15. \A u \in Clients : FromClient(u)'
  BY <1>7, <1>10
<1> QED BY <1>3, <1>6, <1>8, <1>12, <1>13, <1>14, <1>15 DEF Inv

\* What the receive thread of p takes from a channel comes from the host, if p
\* is a client, and from a client, if p is the host.
LEMMA Arrival ==
    ASSUME Setting, Inv, NEW p \in Procs, NEW q \in Procs, NEW m, Arrived(p, q, m)
    PROVE  /\ p = Host => q \in Clients
           /\ p # Host => q = Host /\ p \in Clients
           /\ recvPc[p] = "loop" /\ chan[q][p] # <<>> /\ Head(chan[q][p]) = m
           /\ chan[q][p] \in Seq({"msg", "term"}) /\ Tail(chan[q][p]) \in Seq({"msg", "term"})
           /\ chan' \in [Procs -> [Procs -> Seq({"msg", "term"})]]
           /\ chan'[q][p] = Tail(chan[q][p])
           /\ \A u, v \in Procs : u # q \/ v # p => chan'[u][v] = chan[u][v]
           /\ chan'[Host][Host] = <<>> /\ \A c, d \in Clients : chan'[c][d] = <<>>
<1>a. /\ Host \in Procs /\ Host \notin Clients /\ Clients \subseteq Procs
      /\ \A u \in Procs : u # Host => u \in Clients
  BY Names
<1>1. /\ recvPc[p] = "loop" /\ chan[q][p] # <<>> /\ Head(chan[q][p]) = m /\ q \in active[p]
      /\ chan' = [chan EXCEPT ![q][p] = Tail(chan[q][p])]
  BY DEF Arrived
<1>2. /\ chan \in [Procs -> [Procs -> Seq({"msg", "term"})]]
      /\ chan[Host][Host] = <<>> /\ \A c, d \in Clients : chan[c][d] = <<>>
  BY DEF Inv, Shape, Routes
<1>3. chan[q][p] \in Seq({"msg", "term"}) /\ Tail(chan[q][p]) \in Seq({"msg", "term"})
  BY <1>1, <1>2, TailIs
<1>4. (p = Host => q \in Clients) /\ (p # Host => q = Host /\ p \in Clients)
  BY <1>a, <1>1, <1>2
<1>5. /\ chan' \in [Procs -> [Procs -> Seq({"msg", "term"})]]
      /\ chan'[q][p] = Tail(chan[q][p])
      /\ \A u, v \in Procs : u # q \/ v # p => chan'[u][v] = chan[u][v]
  BY <1>1, <1>2, <1>3
<1>6. chan'[Host][Host] = <<>> /\ \A c, d \in Clients : chan'[c][d] = <<>>
  <2>1. Host # q \/ Host # p
    BY <1>a, <1>4
  <2>2. \A c, d \in Clients : c \in Procs /\ d \in Procs /\ (c # q \/ d # p)
    BY <1>a, <1>4
  <2>3. chan'[Host][Host] = chan[Host][Host]
    BY <1>a, <1>5, <2>1
  <2>4. \A c, d \in Clients : chan'[c][d] = chan[c][d]
    BY <1>5, <2>2
  <2> QED BY <1>2, <2>3, <2>4
<1> QED BY <1>1, <1>3, <1>4, <1>5, <1>6

\* A message is received: the requests behind it stay.
LEMMA RecvMessageStep ==
    ASSUME Setting, Inv, NEW p \in Procs, NEW q \in Procs, RecvMessage(p, q)
    PROVE  Inv'
<1>a. /\ Host \in Procs /\ Host \notin Clients /\ Clients \subseteq Procs
      /\ \A u \in Procs : u # Host => u \in Clients
  BY Names
<1>b. UNCHANGED <<mainPc, recvPc, sendPc, requests, iClient, indicator, sendQueue, sending, active>>
  BY DEF RecvMessage, threadVars, recvVars
<1>1. /\ p = Host => q \in Clients
      /\ p # Host => q = Host /\ p \in Clients
      /\ chan[q][p] # <<>> /\ Head(chan[q][p]) = "msg"
      /\ chan[q][p] \in Seq({"msg", "term"})
      /\ chan' \in [Procs -> [Procs -> Seq({"msg", "term"})]]
      /\ chan'[q][p] = Tail(chan[q][p])
      /\ \A u, v \in Procs : u # q \/ v # p => chan'[u][v] = chan[u][v]
      /\ chan'[Host][Host] = <<>> /\ \A c, d \in Clients : chan'[c][d] = <<>>
  BY Arrival DEF RecvMessage
<1>2. Shape' /\ Routes' /\ MainPhase'
  BY <1>b, <1>1 DEF Inv, Shape, Routes, MainPhase
<1>3. InOrder' /\ LastOnce' /\ ClientPhase'
  BY <1>b DEF InOrder, LastOnce, ClientPhase, Inv
<1>4. \A c \in Clients : /\ Asked(c)' <=> Asked(c)
                         /\ Unanswered(c)' <=> Unanswered(c)
                         /\ OnTheWay(c)' = OnTheWay(c)
  BY <1>b DEF Asked, Unanswered, OnTheWay, Dismissed
<1>5. ASSUME NEW c \in Clients PROVE ToClient(c)'
  <2>a. requests[c] \in Nat
    BY <1>a DEF Inv, Shape
  <2>b. OnTheWay(c) \in Int
    BY <2>a DEF OnTheWay
  <2>0. ToClient(c) /\ OnTheWay(c) \in Int
    BY <2>b DEF Inv
  <2>1. CASE c = p
    <3>1. q = Host
      BY <1>1, <1>a, <2>1
    <3>2. EndsIn(Tail(chan[Host][c]), OnTheWay(c)) /\ Len(chan[Host][c]) > OnTheWay(c)
      BY <1>1, <2>0, <2>1, <3>1, EndsTail DEF ToClient
    <3>3. ~(requests[c] > 0)
      BY <2>0, <3>2 DEF ToClient
    <3> QED BY <1>b, <1>1, <1>4, <2>1, <3>1, <3>2, <3>3 DEF ToClient
  <2>2. CASE c # p
    <3>1. chan'[Host][c] = chan[Host][c]
      BY <1>a, <1>1, <2>2
    <3> QED BY <1>b, <1>4, <2>0, <3>1 DEF ToClient
  <2> QED BY <2>1, <2>2
<1>6. ASSUME NEW c \in Clients PROVE FromClient(c)' /\ (Replied(c)' <=> Replied(c))
  <2>0. FromClient(c)
    BY DEF Inv
  <2>1. CASE c = q /\ p = Host
    <3>1. EndsIn(chan[c][Host], 0) => EndsIn(Tail(chan[c][Host]), 0)
      BY <1>1, <2>1, EndsTail
    <3>2. EndsIn(chan[c][Host], 1) => /\ EndsIn(Tail(chan[c][Host]), 1)
                                      /\ Tail(chan[c][Host]) # <<>>
      BY <1>1, <2>1, EndsOne
    <3> QED BY <1>1, <1>4, <2>0, <2>1, <3>1, <3>2 DEF FromClient, Replied
  <2>2. CASE ~(c = q /\ p = Host)
    <3>1. chan'[c][Host] = chan[c][Host]
      BY <1>a, <1>1, <2>2
    <3> QED BY <1>4, <2>0, <3>1 DEF FromClient, Replied
  <2> QED BY <2>1, <2>2
<1>7. HostPhase'
  BY <1>b, <1>6 DEF HostPhase, AllReplied, Inv
<1>8. RepliesCounted'
  <2>1. {c \in Clients : Replied(c)}' = {c \in Clients : Replied(c)}
    BY <1>6
  <2> QED BY <1>b, <2>1 DEF RepliesCounted, Inv
<1> QED BY <1>2, <1>3, <1>5, <1>6, <1>7, <1>8 DEF Inv

\* The clients, counted.
LEMMA CountClients ==
    ASSUME Setting
    PROVE  IsFiniteSet(Clients) /\ Cardinality(Clients) = numProcs - 1
<1>1. Clients = 1 .. numProcs - 1
  BY DEF Setting, Clients, Procs, Host
<1>2. numProcs - 1 \in Int /\ 1 \in Int /\ numProcs - 1 >= 1
  BY DEF Setting
<1> QED BY <1>1, <1>2, FS_Interval

\* The host receives the answer of client q.
LEMMA HostRecvRequestStep ==
    ASSUME Setting, Inv, NEW q \in Clients, HostRecvRequest(q)
    PROVE  Inv'
<1>a. Host \in Procs /\ Host \notin Clients /\ Clients \subseteq Procs /\ q # Host
  BY Names
<1>b. UNCHANGED <<mainPc, sendPc, iClient, indicator, sendQueue, sending, active>>
  BY DEF HostRecvRequest
<1>c. /\ requests' = [requests EXCEPT ![Host] = requests[Host] + 1]
      /\ recvPc' = [recvPc EXCEPT ![Host] =
                      IF requests[Host] + 1 = numProcs - 1 THEN "final" ELSE recvPc[Host]]
  BY DEF HostRecvRequest
<1>d. requests \in [Procs -> Nat] /\ recvPc \in [Procs -> {"loop", "final", "blocked", "ended"}]
  BY DEF Inv, Shape
<1>1. /\ recvPc[Host] = "loop"
      /\ chan[q][Host] # <<>> /\ Head(chan[q][Host]) = "term"
      /\ chan[q][Host] \in Seq({"msg", "term"})
      /\ chan' \in [Procs -> [Procs -> Seq({"msg", "term"})]]
      /\ chan'[q][Host] = Tail(chan[q][Host])
      /\ \A u, v \in Procs : u # q \/ v # Host => chan'[u][v] = chan[u][v]
      /\ chan'[Host][Host] = <<>> /\ \A c, d \in Clients : chan'[c][d] = <<>>
  BY <1>a, Arrival DEF HostRecvRequest
<1>e. \A c \in Clients : requests'[c] = requests[c] /\ recvPc'[c] = recvPc[c]
  BY <1>a, <1>c, <1>d
<1>2. Shape' /\ Routes'
  <2>1. /\ requests' \in [Procs -> Nat]
        /\ recvPc' \in [Procs -> {"loop", "final", "blocked", "ended"}]
    BY <1>a, <1>c, <1>d
  <2>2. Shape'
    BY <1>b, <1>1, <2>1 DEF Inv, Shape
  <2> QED BY <1>b, <1>1, <2>2 DEF Inv, Routes
<1>3. InOrder' /\ ClientPhase'
  BY <1>b, <1>e DEF InOrder, ClientPhase, Inv
<1>4. MainPhase'
  BY <1>a, <1>b, <1>c, <1>d, <1>1 DEF MainPhase, Inv
<1>5. LastOnce'
  BY <1>a, <1>b, <1>1 DEF LastOnce, Inv
<1>6. \A c \in Clients : /\ Asked(c)' <=> Asked(c)
                         /\ Unanswered(c)' <=> Unanswered(c)
                         /\ OnTheWay(c)' = OnTheWay(c)
  BY <1>b, <1>e DEF Asked, Unanswered, OnTheWay, Dismissed
<1>7. ASSUME NEW c \in Clients PROVE ToClient(c)'
  <2>1. chan'[Host][c] = chan[Host][c]
    BY <1>a, <1>1
  <2> QED BY <1>e, <1>6, <2>1 DEF ToClient, Inv
<1>8. ~Unanswered(q) /\ chan'[q][Host] = <<>>
  <2>0. FromClient(q) /\ ~EndsIn(chan[q][Host], 0)
    BY <1>1, EndsTail DEF Inv
  <2>1. ~Unanswered(q) /\ EndsIn(chan[q][Host], 1)
    BY <1>1, <2>0 DEF FromClient
  <2> QED BY <1>1, <2>1, EndsOne
<1>9. ~Replied(q) /\ Replied(q)' /\ FromClient(q)'
  BY <1>1, <1>6, <1>8 DEF Replied, FromClient
<1>10. ASSUME NEW c \in Clients, c # q PROVE FromClient(c)' /\ (Replied(c)' <=> Replied(c))
  <2>1. chan'[c][Host] = chan[c][Host]
    BY <1>a, <1>1, <1>10
  <2> QED BY <1>6, <2>1 DEF FromClient, Replied, Inv
<1>11. \A c \in Clients : FromClient(c)'
  BY <1>9, <1>10
<1> DEFINE R == {c \in Clients : Replied(c)}
<1>12. R' = R \cup {q} /\ q \notin R
  BY <1>9, <1>10
<1>13. IsFiniteSet(R) /\ Cardinality(R) \in Nat
  BY CountClients, FS_Subset, FS_CardinalityType
<1>14. Cardinality(R \cup {q}) = Cardinality(R) + 1
  BY <1>12, <1>13, FS_AddElement
<1>15. requests[Host] = Cardinality(R)
  BY DEF Inv, RepliesCounted
<1>16. RepliesCounted'
  BY <1>a, <1>c, <1>d, <1>12, <1>14, <1>15 DEF RepliesCounted
<1>17. requests[Host] + 1 = numProcs - 1 => AllReplied'
  <2> SUFFICES ASSUME requests[Host] + 1 = numProcs - 1 PROVE AllReplied'
    OBVIOUS
  <2>1. Cardinality(R \cup {q}) = Cardinality(Clients) /\ R \cup {q} \subseteq Clients
    BY <1>14, <1>15, CountClients
  <2>2. R \cup {q} = Clients
    BY <2>1, CountClients, FS_Subset
  <2>3. R' = Clients
    BY <1>12, <2>2
  <2> QED BY <2>3 DEF AllReplied
<1>18. HostPhase'
  <2>1. iClient = 1 /\ ~indicator /\ active[Host] = {c \in Clients : c >= iClient}
    BY <1>1 DEF HostPhase, Inv
  <2>2. recvPc'[Host] = IF requests[Host] + 1 = numProcs - 1 THEN "final" ELSE "loop"
    BY <1>a, <1>c, <1>d, <1>1
  <2> QED BY <1>b, <1>17, <2>1, <2>2 DEF HostPhase, Setting
<1> QED BY <1>2, <1>3, <1>4, <1>5, <1>7, <1>11, <1>16, <1>18 DEF Inv

\* The host pushes its last request to client iClient.
LEMMA HostFinalRequestStep ==
    ASSUME Setting, Inv, HostFinalRequest
    PROVE  Inv'
<1>a. /\ Host \in Procs /\ Host \notin Clients /\ Clients \subseteq Procs
      /\ \A c \in Nat : 1 <= c /\ c < numProcs => c \in Clients
      /\ Reply \in Requests /\ \A c \in Clients : Ask(c) \in Requests /\ Last(c) \in Requests
  BY Names
<1>b. UNCHANGED <<mainPc, sendPc, requests, iClient, indicator, sending, active, chan>>
  BY DEF HostFinalRequest, recvVars
<1>c. recvPc[Host] = "final" /\ recvPc' = [recvPc EXCEPT ![Host] = "blocked"]
  BY DEF HostFinalRequest
<1>d. recvPc \in [Procs -> {"loop", "final", "blocked", "ended"}] /\ iClient \in 1 .. numProcs
  BY DEF Inv, Shape
<1>1. AllReplied /\ ~indicator /\ iClient \in Clients
  BY <1>a, <1>c, <1>d DEF Inv, HostPhase, Setting
<1> DEFINE t == <<Last(iClient)>>
           q == sendQueue[Host]
           h == sending[Host]
<1>2. /\ t \in Seq(ItemsOf(Host) \cup {Stop}) /\ Len(t) = 1
      /\ \A n \in 1 .. Len(t) : t[n] = Last(iClient)
  BY <1>1 DEF ItemsOf, HostItems, Last, Item
<1>3. Push(Host, t)
  BY DEF HostFinalRequest, Last
<1> HIDE DEF t
<1>4. /\ sendQueue' \in [Procs -> Seq(HostItems \cup ClientItems \cup {Stop})]
      /\ \A u \in Procs : sendQueue'[u] \in Seq(ItemsOf(u) \cup {Stop})
      /\ sendQueue'[Host] = q \o t
      /\ \A u \in Procs : u # Host => sendQueue'[u] = sendQueue[u]
  BY <1>a, <1>2, <1>3, PushShape
<1>5. Shape' /\ Routes' /\ MainPhase'
  BY <1>a, <1>b, <1>c, <1>d, <1>4 DEF Inv, Shape, Routes, MainPhase
<1>6. q \in Seq(ItemsOf(Host) \cup {Stop}) /\ \A n \in 1 .. Len(t) : t[n].k # "msg"
  BY <1>a, <1>2, Differ DEF Inv, Routes
<1>7. \A c \in Clients : ~InQueue(t, Ask(c)) /\ (c # iClient => ~InQueue(t, Last(c)))
  BY <1>2, Differ DEF InQueue
<1>8. ASSUME NEW c \in Clients
      PROVE  /\ Pending(q \o t, h, Ask(c)) <=> Pending(q, h, Ask(c))
             /\ Once(q, h, Ask(c)) => Once(q \o t, h, Ask(c))
             /\ Behind(q, h, Ask(c)) => Behind(q \o t, h, Ask(c))
  BY <1>a, <1>2, <1>6, <1>7, Pushed
<1>9. ~Pending(q, h, Last(iClient)) /\ \A c \in Clients : Once(q, h, Last(c)) /\ ~Pending(q, h, Last(c))
  BY <1>1, <1>c DEF Inv, LastOnce
<1>10. ASSUME NEW c \in Clients
       PROVE  /\ Once(q \o t, h, Last(c))
              /\ c # iClient => ~Pending(q \o t, h, Last(c))
  <2>1. CASE c = iClient
    <3>1. 1 \in 1 .. Len(t) /\ t[1] = Last(c) /\ \A n \in 1 .. Len(t) : t[n] = Last(c) => n = 1
      BY <1>2, <2>1
    <3> QED BY <1>a, <1>2, <1>6, <1>9, <2>1, <3>1, FirstRequest
  <2>2. CASE c # iClient
    BY <1>a, <1>2, <1>6, <1>7, <1>9, <2>2, Pushed
  <2> QED BY <2>1, <2>2
<1>e. sending'[Host] = h
  BY <1>b
<1>11. mainPc[Host] # "run"
  <2>1. Asked(iClient)
    <3>1. requests[iClient] # 0 /\ requests[iClient] \in Nat
      BY <1>1, <1>a DEF AllReplied, Replied, Unanswered, Inv, Shape
    <3> QED BY <1>1, <3>1 DEF Inv, ToClient
  <2> QED BY <2>1 DEF Asked
<1>12. InOrder'
  BY <1>a, <1>b, <1>e, <1>4, <1>8, <1>11 DEF InOrder, Inv
<1>13. LastOnce'
  BY <1>a, <1>b, <1>c, <1>d, <1>e, <1>1, <1>4, <1>10 DEF LastOnce
<1>14. \A c \in Clients : /\ Asked(c)' <=> Asked(c)
                          /\ Unanswered(c)' <=> Unanswered(c)
                          /\ Replied(c)' <=> Replied(c)
  BY <1>a, <1>b, <1>e, <1>4, <1>8 DEF Asked, Unanswered, Replied
<1>15. ASSUME NEW c \in Clients PROVE ToClient(c)' /\ FromClient(c)'
  <2>1. OnTheWay(c)' = OnTheWay(c)
    BY <1>b, <1>14 DEF OnTheWay, Dismissed
  <2> QED BY <1>b, <1>14, <2>1 DEF ToClient, FromClient, Inv
<1>16. RepliesCounted'
  <2>1. {c \in Clients : Replied(c)}' = {c \in Clients : Replied(c)}
    BY <1>14
  <2> QED BY <1>b, <2>1 DEF RepliesCounted, Inv
<1>17. HostPhase'
  BY <1>a, <1>b, <1>c, <1>d, <1>1, <1>14 DEF HostPhase, AllReplied, Inv
<1>18. ClientPhase'
  BY <1>a, <1>b, <1>c, <1>d DEF ClientPhase, Inv
<1> QED BY <1>5, <1>12, <1>13, <1>15, <1>16, <1>17, <1>18 DEF Inv

\* The host goes on to the next client.
LEMMA HostDeactivateStep ==
    ASSUME Setting, Inv, HostDeactivate
    PROVE  Inv'
<1>a. /\ Host \in Procs /\ Host \notin Clients /\ Clients \subseteq Procs
      /\ \A c \in Clients : c \in Nat /\ 1 <= c /\ c < numProcs
  BY Names
<1>b. UNCHANGED <<mainPc, sendPc, requests, sendQueue, sending, chan>>
  BY DEF HostDeactivate
<1>c. /\ recvPc[Host] = "blocked" /\ indicator /\ indicator' = FALSE /\ iClient' = iClient + 1
      /\ active' = [active EXCEPT ![Host] = active[Host] \ {iClient}]
      /\ recvPc' = [recvPc EXCEPT ![Host] = IF iClient = numProcs - 1 THEN "ended" ELSE "final"]
  BY DEF HostDeactivate, HostAwaits, LastClient
<1>d. /\ recvPc \in [Procs -> {"loop", "final", "blocked", "ended"}] /\ iClient \in 1 .. numProcs
      /\ active \in [Procs -> SUBSET Procs] /\ numProcs \in Nat
  BY DEF Inv, Shape, Setting
<1>1. AllReplied /\ iClient < numProcs /\ active[Host] = {c \in Clients : c >= iClient}
  BY <1>c DEF Inv, HostPhase
<1>2. Shape' /\ Routes'
  <2>1. /\ iClient' \in 1 .. numProcs /\ indicator' \in BOOLEAN
        /\ active' \in [Procs -> SUBSET Procs]
        /\ recvPc' \in [Procs -> {"loop", "final", "blocked", "ended"}]
    <3>1. iClient + 1 \in 1 .. numProcs
      BY <1>d, <1>1
    <3> QED BY <1>a, <1>c, <1>d, <3>1
  <2>2. Shape'
    BY <1>b, <2>1 DEF Inv, Shape
  <2> QED BY <1>b, <2>2 DEF Inv, Routes
<1>3. MainPhase'
  BY <1>a, <1>b, <1>c, <1>d DEF Inv, MainPhase
<1>4. InOrder'
  BY <1>b DEF InOrder, Inv
<1>5. LastOnce'
  BY <1>b, <1>c DEF LastOnce, Inv
<1>6. \A c \in Clients : /\ Asked(c)' <=> Asked(c)
                         /\ Unanswered(c)' <=> Unanswered(c)
                         /\ Replied(c)' <=> Replied(c)
                         /\ Dismissed(c)' <=> Dismissed(c)
  BY <1>a, <1>b, <1>c, <1>d DEF Asked, Unanswered, Replied, Dismissed
<1>7. ASSUME NEW c \in Clients PROVE ToClient(c)' /\ FromClient(c)'
  <2>1. OnTheWay(c)' = OnTheWay(c)
    BY <1>b, <1>6 DEF OnTheWay
  <2> QED BY <1>b, <1>6, <2>1 DEF ToClient, FromClient, Inv
<1>8. RepliesCounted'
  <2>1. {c \in Clients : Replied(c)}' = {c \in Clients : Replied(c)}
    BY <1>6
  <2> QED BY <1>b, <2>1 DEF RepliesCounted, Inv
<1>9. HostPhase'
  <2>1. active'[Host] = {c \in Clients : c >= iClient'}
    BY <1>a, <1>c, <1>d, <1>1
  <2>2. AllReplied'
    BY <1>1, <1>6 DEF AllReplied
  <2>3. recvPc'[Host] = IF iClient = numProcs - 1 THEN "ended" ELSE "final"
    BY <1>a, <1>c, <1>d
  <2> QED BY <1>c, <1>d, <1>1, <2>1, <2>2, <2>3 DEF HostPhase
<1>10. ClientPhase'
  BY <1>a, <1>b, <1>c, <1>d DEF ClientPhase, Inv
<1> QED BY <1>2, <1>3, <1>4, <1>5, <1>7, <1>8, <1>9, <1>10 DEF Inv

\* A client receives a request of the host, and answers the first.
LEMMA ClientRecvRequestStep ==
    ASSUME Setting, Inv, NEW p \in Procs, NEW r \in Procs, ClientRecvRequest(p, r)
    PROVE  Inv'
<1>a. /\ Host \in Procs /\ Host \notin Clients /\ Clients \subseteq Procs
      /\ \A u \in Procs : u # Host => u \in Clients
      /\ Reply \in Requests /\ Procs \ Clients = {Host}
  BY Names
<1>b. UNCHANGED <<mainPc, sendPc, iClient, indicator, sending>>
  BY DEF ClientRecvRequest
<1>0. p \in Clients /\ p # Host /\ r = Host
  BY <1>a, Arrival DEF ClientRecvRequest
<1>c. /\ requests' = [requests EXCEPT ![p] = requests[p] + 1]
      /\ recvPc' = [recvPc EXCEPT ![p] = IF requests[p] + 1 = 2 THEN "ended" ELSE recvPc[p]]
      /\ active' = [active EXCEPT ![p] = active[p] \ Clients]
      /\ requests[p] # 0 => sendQueue' = sendQueue
      /\ requests[p] = 0 => Push(p, <<Reply>>)
  BY DEF ClientRecvRequest, RequestsExpected, Reply
<1>d. /\ recvPc \in [Procs -> {"loop", "final", "blocked", "ended"}]
      /\ active \in [Procs -> SUBSET Procs] /\ requests \in [Procs -> Nat]
  BY DEF Inv, Shape
<1>1. /\ recvPc[p] = "loop"
      /\ chan[Host][p] # <<>> /\ Head(chan[Host][p]) = "term"
      /\ chan[Host][p] \in Seq({"msg", "term"})
      /\ chan' \in [Procs -> [Procs -> Seq({"msg", "term"})]]
      /\ chan'[Host][p] = Tail(chan[Host][p])
      /\ \A u, v \in Procs : u # Host \/ v # p => chan'[u][v] = chan[u][v]
      /\ chan'[Host][Host] = <<>> /\ \A c, d \in Clients : chan'[c][d] = <<>>
  BY <1>0, <1>a, Arrival DEF ClientRecvRequest
<1>2. requests[p] \in {0, 1} /\ Asked(p) /\ EndsIn(Tail(chan[Host][p]), OnTheWay(p) - 1)
      /\ Len(Tail(chan[Host][p])) = OnTheWay(p) - 1 /\ OnTheWay(p) \in Int
  <2>0. OnTheWay(p) \in Int /\ requests[p] \in Nat
    BY <1>d DEF OnTheWay
  <2>1. OnTheWay(p) >= 1 /\ Len(chan[Host][p]) = OnTheWay(p) /\ EndsIn(Tail(chan[Host][p]), OnTheWay(p) - 1)
    BY <1>0, <1>1, <2>0, EndsTail DEF Inv, ToClient
  <2>2. Len(Tail(chan[Host][p])) = OnTheWay(p) - 1
    BY <1>1, <2>1, TailIs
  <2>3. requests[p] < 2
    BY <2>0, <2>1 DEF OnTheWay
  <2>4. requests[p] = 0 => ~Dismissed(p)
    BY <1>0, DismissedLate
  <2>5. Asked(p)
    <3>1. requests[p] > 0 => Asked(p)
      BY <1>0 DEF Inv, ToClient
    <3>2. requests[p] = 0 => Asked(p)
      BY <2>1, <2>4 DEF OnTheWay
    <3> QED BY <2>0, <3>1, <3>2
  <2> QED BY <2>0, <2>1, <2>2, <2>3, <2>5
<1> DEFINE t == <<Reply>>
           q == sendQueue[p]
           h == sending[p]
<1>3. /\ t \in Seq(ItemsOf(p) \cup {Stop}) /\ Len(t) = 1 /\ \A n \in 1 .. Len(t) : t[n] = Reply
  BY <1>0 DEF ItemsOf, ClientItems, Reply, Item
<1>4. requests[p] = 0 => Push(p, t)
  BY <1>c
<1> HIDE DEF t
<1>5. /\ sendQueue' \in [Procs -> Seq(HostItems \cup ClientItems \cup {Stop})]
      /\ \A u \in Procs : sendQueue'[u] \in Seq(ItemsOf(u) \cup {Stop})
      /\ sendQueue'[p] = IF requests[p] = 0 THEN q \o t ELSE q
      /\ \A u \in Procs : u # p => sendQueue'[u] = sendQueue[u]
  <2>1. CASE requests[p] = 0
    BY <1>3, <1>4, <2>1, PushShape
  <2>2. CASE requests[p] # 0
    BY <1>c, <2>2 DEF Inv, Shape, Routes
  <2> QED BY <2>1, <2>2
<1>6. Shape' /\ Routes'
  <2>1. /\ requests' \in [Procs -> Nat] /\ active' \in [Procs -> SUBSET Procs]
        /\ recvPc' \in [Procs -> {"loop", "final", "blocked", "ended"}]
    BY <1>c, <1>d
  <2>2. Shape'
    BY <1>b, <1>1, <1>5, <2>1 DEF Inv, Shape
  <2> QED BY <1>b, <1>1, <1>5, <2>2 DEF Inv, Routes
<1>7. MainPhase'
  BY <1>b, <1>c, <1>d, <1>1 DEF Inv, MainPhase
<1>8. requests[p] = 0 => Pending(q \o t, h, Reply) /\ Once(q \o t, h, Reply) /\ Behind(q \o t, h, Reply)
  <2> SUFFICES ASSUME requests[p] = 0
               PROVE  Pending(q \o t, h, Reply) /\ Once(q \o t, h, Reply) /\ Behind(q \o t, h, Reply)
    OBVIOUS
  <2>1. q \in Seq(ItemsOf(p) \cup {Stop}) /\ OnlyMessages(q, h)
    BY <1>0 DEF Inv, Routes, InOrder
  <2>2. ~Pending(q, h, Reply)
    BY <1>a, <2>1, NoRequest
  <2>3. /\ 1 \in 1 .. Len(t) /\ t[1] = Reply /\ \A n \in 1 .. Len(t) : t[n] = Reply => n = 1
        /\ \A n \in 1 .. Len(t) : t[n].k # "msg"
    BY <1>3, Differ
  <2> QED BY <1>a, <1>3, <2>1, <2>2, <2>3, FirstRequest
<1>9. /\ requests'[p] = requests[p] + 1 /\ \A u \in Procs : u # p => requests'[u] = requests[u]
      /\ sending'[p] = h
      /\ \A u \in Procs : u # p => recvPc'[u] = recvPc[u] /\ active'[u] = active[u]
  BY <1>b, <1>c, <1>d
<1>10. InOrder'
  <2>1. \A c \in Clients : c # p =>
          /\ requests'[c] = 0 => OnlyMessages(sendQueue'[c], sending'[c])
          /\ requests'[c] > 0 => /\ Once(sendQueue'[c], sending'[c], Reply)
                                 /\ Behind(sendQueue'[c], sending'[c], Reply)
    BY <1>a, <1>b, <1>5, <1>9 DEF Inv, InOrder
  <2>2. requests'[p] # 0 /\ Once(sendQueue'[p], sending'[p], Reply)
                         /\ Behind(sendQueue'[p], sending'[p], Reply)
    <3>1. requests'[p] # 0
      BY <1>2, <1>9
    <3>2. CASE requests[p] = 0
      BY <1>5, <1>8, <1>9, <3>1, <3>2
    <3>3. CASE requests[p] = 1
      <4>1. sendQueue'[p] = q
        BY <1>5, <3>3
      <4>2. Once(q, h, Reply) /\ Behind(q, h, Reply)
        BY <1>0, <3>3 DEF Inv, InOrder
      <4> QED BY <1>9, <3>1, <4>1, <4>2
    <3> QED BY <1>2, <3>2, <3>3
  <2>3. sendQueue'[Host] = sendQueue[Host] /\ sending'[Host] = sending[Host]
    BY <1>a, <1>b, <1>0, <1>5
  <2> QED BY <1>b, <2>1, <2>2, <2>3 DEF Inv, InOrder
<1>11. LastOnce'
  BY <1>a, <1>b, <1>0, <1>5, <1>9 DEF LastOnce, Inv
<1>12. \A c \in Clients : Asked(c)' <=> Asked(c)
  BY <1>a, <1>b, <1>0, <1>5 DEF Asked
<1>13. \A c \in Clients : Unanswered(c)' <=> Unanswered(c)
  <2>1. \A c \in Clients : c # p => (Unanswered(c)' <=> Unanswered(c))
    BY <1>a, <1>b, <1>5, <1>9 DEF Unanswered
  <2>2. CASE requests[p] = 0
    BY <1>5, <1>8, <1>9, <2>1, <2>2 DEF Unanswered
  <2>3. CASE requests[p] = 1
    <3>1. requests[p] # 0 /\ requests'[p] # 0
      BY <1>9, <2>3
    <3> QED BY <1>5, <1>9, <2>1, <3>1 DEF Unanswered
  <2> QED BY <1>2, <2>2, <2>3
<1>14. \A c \in Clients : FromClient(c)' /\ (Replied(c)' <=> Replied(c))
  <2>1. \A c \in Clients : chan'[c][Host] = chan[c][Host]
    BY <1>a, <1>1
  <2> QED BY <1>13, <2>1 DEF FromClient, Replied, Inv
<1>15. ASSUME NEW c \in Clients PROVE ToClient(c)'
  <2>1. Dismissed(c)' <=> Dismissed(c)
    BY <1>b DEF Dismissed
  <2>2. CASE c # p
    <3>1. chan'[Host][c] = chan[Host][c] /\ requests'[c] = requests[c]
      BY <1>a, <1>1, <1>9, <2>2
    <3>2. OnTheWay(c)' = OnTheWay(c)
      BY <1>12, <2>1, <3>1 DEF OnTheWay
    <3> QED BY <1>12, <3>1, <3>2 DEF ToClient, Inv
  <2>3. CASE c = p
    <3>1. OnTheWay(c)' = OnTheWay(c) - 1
      BY <1>2, <1>9, <1>12, <2>1, <2>3 DEF OnTheWay
    <3> QED BY <1>1, <1>2, <1>12, <2>3, <3>1 DEF ToClient
  <2> QED BY <2>2, <2>3
<1>16. RepliesCounted'
  <2>1. {c \in Clients : Replied(c)}' = {c \in Clients : Replied(c)}
    BY <1>14
  <2> QED BY <1>a, <1>0, <1>9, <2>1 DEF RepliesCounted, Inv
<1>17. HostPhase'
  BY <1>a, <1>b, <1>0, <1>9, <1>14 DEF HostPhase, AllReplied, Inv
<1>18. ClientPhase'
  <2>1. \A c \in Clients : /\ recvPc[c] = IF requests[c] = 2 THEN "ended" ELSE "loop"
                           /\ active[c] = IF requests[c] = 0 THEN Procs \ {c} ELSE {Host}
    BY DEF Inv, ClientPhase
  <2>2. active'[p] = {Host}
    <3>1. active[p] \ Clients = {Host}
      BY <1>a, <1>0, <2>1
    <3> QED BY <1>c, <1>d, <3>1
  <2>3. recvPc'[p] = IF requests'[p] = 2 THEN "ended" ELSE "loop"
    BY <1>c, <1>d, <1>1, <1>9
  <2>4. requests'[p] # 0
    BY <1>2, <1>9
  <2> QED BY SMTT(20), <1>a, <1>9, <2>1, <2>2, <2>3, <2>4 DEF ClientPhase
<1> QED BY <1>6, <1>7, <1>10, <1>11, <1>14, <1>15, <1>16, <1>17, <1>18 DEF Inv

-----------------------------------------------------------------------------
(* The theorem *)

\* When fini is called there are messages only, and all of them in the queues.
LEMMA InitInv ==
    ASSUME Setting, Init
    PROVE  Inv
<1>a. /\ Host \in Procs /\ Host \notin Clients /\ Clients \subseteq Procs
      /\ \A p \in Procs : p # Host => p \in Clients
      /\ \A c \in Clients : c \in Nat /\ 1 <= c /\ c < numProcs
      /\ \A c \in Nat : 1 <= c /\ c < numProcs => c \in Clients
      /\ Reply \in Requests /\ \A c \in Clients : Ask(c) \in Requests /\ Last(c) \in Requests
  BY Names
<1> DEFINE N == Queued * (numProcs - 1)
           qh == [n \in 1 .. N |-> Item("msg", 1 + ((n - 1) % (numProcs - 1)))]
           qc == Repeat(Item("msg", Host), Queued)
<1>b. /\ mainPc = [p \in Procs |-> IF p = Host \/ distEnv THEN "run" ELSE "joinRecv"]
      /\ recvPc = [p \in Procs |-> "loop"] /\ requests = [p \in Procs |-> 0]
      /\ iClient = 1 /\ indicator = FALSE
      /\ sendQueue = [p \in Procs |-> IF p = Host THEN qh ELSE qc]
      /\ sending = [p \in Procs |-> Nothing] /\ sendPc = [p \in Procs |-> "loop"]
      /\ active = [p \in Procs |-> Procs \ {p}]
      /\ chan = [p \in Procs |-> [q \in Procs |-> <<>>]]
  BY DEF Init
<1>1. N \in Nat
  BY DEF Setting
<1>2. ASSUME NEW n \in 1 .. N PROVE qh[n] \in HostItems /\ qh[n].k = "msg"
  <2>1. (n - 1) % (numProcs - 1) \in 0 .. numProcs - 2
    BY <1>1 DEF Setting
  <2>2. 1 + ((n - 1) % (numProcs - 1)) \in Clients
    BY <1>a, <2>1 DEF Setting
  <2> QED BY <2>2 DEF HostItems, Item
<1>3. qh \in Seq(HostItems) /\ Len(qh) = N
  <2>1. qh \in [1 .. N -> HostItems]
    BY <1>2
  <2> HIDE DEF qh
  <2> QED BY <1>1, <2>1
<1>4. qc \in Seq(ClientItems) /\ \A n \in 1 .. Len(qc) : qc[n].k = "msg"
  <2>1. Item("msg", Host) \in ClientItems /\ Item("msg", Host).k = "msg"
    BY DEF ClientItems, Item
  <2>2. /\ qc \in [1 .. Queued -> ClientItems]
        /\ \A n \in 1 .. Queued : qc[n].k = "msg"
    BY <2>1 DEF Repeat
  <2> HIDE DEF qc
  <2>3. qc \in Seq(ClientItems) /\ Len(qc) = Queued
    BY <2>2 DEF Setting
  <2> QED BY <2>2, <2>3
<1>5. \A n \in 1 .. Len(qh) : qh[n].k = "msg"
  BY <1>2, <1>3
<1> HIDE DEF qh, qc, N
<1>6. \A p \in Procs : sendQueue[p] \in Seq(ItemsOf(p) \cup {Stop})
  <2>1. qh \in Seq(HostItems \cup {Stop}) /\ qc \in Seq(ClientItems \cup {Stop})
    BY <1>3, <1>4
  <2> QED BY <1>b, <2>1 DEF ItemsOf
<1>7. sendQueue \in [Procs -> Seq(HostItems \cup ClientItems \cup {Stop})]
  <2>1. /\ qh \in Seq(HostItems \cup ClientItems \cup {Stop})
        /\ qc \in Seq(HostItems \cup ClientItems \cup {Stop})
    BY <1>3, <1>4
  <2> QED BY <1>b, <2>1
<1>8. Shape
  <2>1. iClient \in 1 .. numProcs
    BY <1>b DEF Setting
  <2>2. chan \in [Procs -> [Procs -> Seq({"msg", "term"})]]
    BY <1>b
  <2>3. active \in [Procs -> SUBSET Procs]
    BY <1>b
  <2>4. requests \in [Procs -> Nat]
    BY <1>b
  <2> QED BY <1>b, <1>7, <2>1, <2>2, <2>3, <2>4 DEF Shape
<1>9. Routes
  BY <1>a, <1>b, <1>6 DEF Routes
<1>10. \A p \in Procs : OnlyMessages(sendQueue[p], sending[p])
  BY <1>b, <1>4, <1>5, Differ DEF OnlyMessages
<1>11. InOrder
  BY <1>a, <1>b, <1>10 DEF InOrder
<1>12. EndsIn(<<>>, 0)
  BY DEF EndsIn
<1>13. \A c \in Clients : ToClient(c)
  <2> SUFFICES ASSUME NEW c \in Clients PROVE ToClient(c)
    OBVIOUS
  <2>1. ~Asked(c)
    BY <1>a, <1>b DEF Asked
  <2>2. ~Dismissed(c)
    BY <1>a, <1>b DEF Dismissed
  <2>3. requests[c] = 0 /\ chan[Host][c] = <<>>
    BY <1>a, <1>b
  <2>4. OnTheWay(c) = 0
    BY <2>1, <2>2, <2>3 DEF OnTheWay
  <2> QED BY <1>12, <2>3, <2>4 DEF ToClient
<1>14. \A c \in Clients : Unanswered(c)
  BY <1>a, <1>b DEF Unanswered
<1>15. \A c \in Clients : FromClient(c)
  BY <1>a, <1>b, <1>12, <1>14 DEF FromClient
<1>16. HostPhase
  <2>1. Procs \ {Host} = {c \in Clients : c >= 1}
    BY <1>a
  <2> QED BY <1>a, <1>b, <2>1 DEF HostPhase
<1>17. LastOnce
  <2> SUFFICES ASSUME NEW c \in Clients
               PROVE  /\ Once(sendQueue[Host], sending[Host], Last(c))
                      /\ ~Pending(sendQueue[Host], sending[Host], Last(c))
    BY DEF LastOnce
  <2>1. ~Pending(sendQueue[Host], sending[Host], Last(c))
    BY <1>a, <1>10, NoRequest
  <2> QED BY <2>1 DEF Pending, InQueue, Once
<1>18. RepliesCounted
  <2>1. {c \in Clients : Replied(c)} = {}
    BY <1>14 DEF Replied
  <2> QED BY <1>a, <1>b, <2>1, FS_EmptySet DEF RepliesCounted
<1>19. ClientPhase /\ MainPhase
  BY <1>a, <1>b DEF ClientPhase, MainPhase
<1> QED BY <1>8, <1>9, <1>11, <1>13, <1>15, <1>16, <1>17, <1>18, <1>19 DEF Inv

\* Every step of every thread keeps the invariant.
LEMMA NextInv ==
    ASSUME Setting, Inv, [Next]_vars
    PROVE  Inv'
<1>a. \A p \in Procs : p # Host => p \in Clients
  BY Names
<1>1. CASE UNCHANGED vars
  <2>1. UNCHANGED <<mainPc, recvPc, sendPc, requests, iClient, indicator, sendQueue, sending,
                    active, chan>>
    BY <1>1 DEF vars, threadVars, recvVars, commVars
  <2>2. Shape' /\ Routes' /\ MainPhase'
    BY <2>1 DEF Inv, Shape, Routes, MainPhase
  <2>3. RequestsStay
    BY <2>1 DEF RequestsStay
  <2>4. /\ InOrder' /\ (\A c \in Clients : ToClient(c)') /\ (\A c \in Clients : FromClient(c)')
        /\ HostPhase' /\ LastOnce' /\ RepliesCounted' /\ ClientPhase'
    BY <2>1, <2>3, QuietStep
  <2> QED BY <2>2, <2>4 DEF Inv
<1>2. ASSUME NEW p \in Procs, MainThread(p) PROVE Inv'
  BY <1>2, FiniStep, JoinRecvStep, JoinSendStep DEF MainThread
<1>3. ASSUME NEW p \in Procs, SendThread(p) PROVE Inv'
  BY <1>a, <1>3, SendPopStep, HostWriteStep, ClientWriteStep DEF SendThread
<1>4. ASSUME NEW p \in Procs, RecvThread(p) PROVE Inv'
  BY <1>4, RecvMessageStep, ClientRecvRequestStep, HostFinalRequestStep, HostDeactivateStep,
     HostRecvRequestStep DEF RecvThread
<1> QED BY <1>1, <1>2, <1>3, <1>4 DEF Next, Terminated

\* What the queue and the hands of process p hold.
LEMMA Entries ==
    ASSUME Setting, Inv, NEW p \in Procs
    PROVE  /\ sending[p] \in ItemsOf(p) \cup {Stop, Nothing}
           /\ \A n \in 1 .. Len(sendQueue[p]) : sendQueue[p][n] \in ItemsOf(p) \cup {Stop, Nothing}
<1>1. sendQueue[p] \in Seq(ItemsOf(p) \cup {Stop}) /\ sending[p] \in ItemsOf(p) \cup {Nothing}
  BY DEF Inv, Routes
<1>2. \A n \in 1 .. Len(sendQueue[p]) : sendQueue[p][n] \in ItemsOf(p) \cup {Stop}
  BY <1>1, ElementOfSeq
<1> QED BY <1>1, <1>2

\* A client has left its receive loop: it has been asked and dismissed, nothing
\* is on its way to it and nothing will be.
LEMMA ClientDone ==
    ASSUME Setting, Inv, NEW c \in Clients, recvPc[c] = "ended"
    PROVE  /\ AllReplied /\ chan[Host][c] = <<>>
           /\ sending[Host].to # c
           /\ \A n \in 1 .. Len(sendQueue[Host]) : sendQueue[Host][n].to # c
<1>a. /\ Host \in Procs /\ Clients \subseteq Procs
      /\ c \in Nat /\ 1 <= c
      /\ Ask(c) \in Requests /\ Last(c) \in Requests
  BY Names
<1>1. requests[c] = 2
  BY DEF Inv, ClientPhase
<1>2. EndsIn(chan[Host][c], OnTheWay(c)) /\ Asked(c) /\ Len(chan[Host][c]) = OnTheWay(c)
  BY <1>1 DEF Inv, ToClient
<1>3. OnTheWay(c) >= 0
  BY <1>2 DEF EndsIn
<1>4. Dismissed(c)
  BY <1>1, <1>3 DEF OnTheWay
<1>5. OnTheWay(c) = 0
  BY <1>1, <1>2, <1>4 DEF OnTheWay
<1>6. AllReplied
  BY <1>4, DismissedLate
<1>7. chan[Host][c] = <<>>
  BY <1>a, <1>2, <1>5, EmptySeq DEF Inv, Shape
<1>8. /\ ~Pending(sendQueue[Host], sending[Host], Ask(c)) /\ mainPc[Host] # "run"
  BY <1>2 DEF Asked
<1>9. ~Pending(sendQueue[Host], sending[Host], Last(c))
  BY <1>4, <1>a DEF Inv, LastOnce, Dismissed
<1>10. Behind(sendQueue[Host], sending[Host], Ask(c))
  BY <1>8 DEF Inv, InOrder
<1>11. /\ \A n \in 1 .. Len(sendQueue[Host]) : sendQueue[Host][n].k # "msg"
       /\ sending[Host].k # "msg"
  BY <1>8, <1>10 DEF Behind, Pending, InQueue
<1>12. ASSUME NEW x \in HostItems \cup {Stop, Nothing}, x # Ask(c), x # Last(c), x.k # "msg"
       PROVE  x.to # c
  BY <1>a, <1>12, Differ DEF HostItems, Ask, Last, Item
<1>13. /\ sending[Host] \in HostItems \cup {Stop, Nothing}
       /\ \A n \in 1 .. Len(sendQueue[Host]) : sendQueue[Host][n] \in HostItems \cup {Stop, Nothing}
  BY <1>a, Entries DEF ItemsOf
<1>14. sending[Host].to # c
  BY <1>8, <1>9, <1>11, <1>12, <1>13 DEF Pending
<1>15. \A n \in 1 .. Len(sendQueue[Host]) : sendQueue[Host][n].to # c
  BY <1>8, <1>9, <1>11, <1>12, <1>13 DEF Pending, InQueue
<1> QED BY <1>6, <1>7, <1>14, <1>15

\* All clients have answered: nothing of theirs is left.
LEMMA HostDone ==
    ASSUME Setting, Inv, AllReplied, NEW c \in Clients
    PROVE  /\ requests[c] # 0 /\ chan[c][Host] = <<>>
           /\ sending[c].to # Host
           /\ \A n \in 1 .. Len(sendQueue[c]) : sendQueue[c][n].to # Host
<1>a. Host \in Procs /\ Host \notin Clients /\ Clients \subseteq Procs /\ Host = 0
  BY Names
<1>1. /\ requests[c] # 0 /\ chan[c][Host] = <<>>
      /\ ~Pending(sendQueue[c], sending[c], Reply)
  BY DEF AllReplied, Replied, Unanswered
<1>2. requests[c] > 0
  BY <1>a, <1>1 DEF Inv, Shape
<1>3. Behind(sendQueue[c], sending[c], Reply)
  BY <1>2 DEF Inv, InOrder
<1>4. /\ \A n \in 1 .. Len(sendQueue[c]) : sendQueue[c][n].k # "msg"
      /\ sending[c].k # "msg"
  BY <1>1, <1>3 DEF Behind, Pending, InQueue
<1>5. ASSUME NEW x \in ClientItems \cup {Stop, Nothing}, x # Reply, x.k # "msg"
      PROVE  x.to # Host
  BY <1>a, <1>5, Differ DEF ClientItems, Reply, Item
<1>6. /\ sending[c] \in ClientItems \cup {Stop, Nothing}
      /\ \A n \in 1 .. Len(sendQueue[c]) : sendQueue[c][n] \in ClientItems \cup {Stop, Nothing}
  BY <1>a, Entries DEF ItemsOf
<1>7. sending[c].to # Host
  BY <1>1, <1>4, <1>5, <1>6 DEF Pending
<1>8. \A n \in 1 .. Len(sendQueue[c]) : sendQueue[c][n].to # Host
  BY <1>1, <1>4, <1>5, <1>6 DEF Pending, InQueue
<1> QED BY <1>1, <1>7, <1>8

\* A queue of process p holds nothing for p or, if p is a client, for a client.
LEMMA NotToItself ==
    ASSUME Setting, Inv, NEW p \in Procs, NEW q \in Procs, p = q \/ (p # Host /\ q # Host)
    PROVE  /\ chan[q][p] = <<>> /\ sending[q].to # p
           /\ \A n \in 1 .. Len(sendQueue[q]) : sendQueue[q][n].to # p
<1>a. /\ Host \in Procs /\ Host \notin Clients /\ Clients \subseteq Procs /\ Host = 0
      /\ \A u \in Procs : u # Host => u \in Clients
      /\ p \in Nat
  BY Names DEF Procs
<1>1. chan[q][p] = <<>>
  BY <1>a DEF Inv, Routes
<1>2. ASSUME NEW x \in ItemsOf(q) \cup {Stop, Nothing} PROVE x.to # p
  BY <1>a, <1>2, Differ DEF ItemsOf, HostItems, ClientItems
<1>3. /\ sending[q] \in ItemsOf(q) \cup {Stop, Nothing}
      /\ \A n \in 1 .. Len(sendQueue[q]) : sendQueue[q][n] \in ItemsOf(q) \cup {Stop, Nothing}
  BY Entries
<1> QED BY <1>1, <1>2, <1>3

\* The invariant gives the property.
LEMMA InvCloses ==
    ASSUME Setting, Inv
    PROVE  ClosesDown
<1>a. /\ Host \in Procs /\ Host \notin Clients /\ Clients \subseteq Procs
      /\ \A p \in Procs : p # Host => p \in Clients
      /\ \A c \in Clients : c \in Nat /\ 1 <= c /\ c < numProcs
  BY Names
<1>1. TypeOK
  <2>1. requests[Host] <= numProcs - 1
    <3>1. {c \in Clients : Replied(c)} \subseteq Clients
      OBVIOUS
    <3>2. Cardinality({c \in Clients : Replied(c)}) <= numProcs - 1
      BY <3>1, CountClients, FS_Subset
    <3> QED BY <3>2 DEF Inv, RepliesCounted
  <2>2. ASSUME NEW c \in Clients PROVE requests[c] <= 2
    <3>1. EndsIn(chan[Host][c], OnTheWay(c))
      BY DEF Inv, ToClient
    <3>2. OnTheWay(c) >= 0
      BY <3>1 DEF EndsIn
    <3>3. requests[c] \in Nat
      BY <1>a DEF Inv, Shape
    <3> QED BY <3>2, <3>3 DEF OnTheWay
  <2>3. requests \in [Procs -> 0 .. numProcs + 1]
    <3>1. requests \in [Procs -> Nat]
      BY DEF Inv, Shape
    <3>2. \A p \in Procs : requests[p] <= numProcs + 1
      BY <1>a, <2>1, <2>2, <3>1 DEF Setting
    <3> QED BY <3>1, <3>2 DEF Setting
  <2>4. \A p \in Procs : sending[p].to \in Procs \cup {Nothing.to}
    BY <1>a DEF Inv, Routes, ItemsOf, HostItems, ClientItems
  <2> QED BY <2>3, <2>4 DEF Inv, Shape, Routes, TypeOK
<1>2. NoWriteToInactive
  <2> SUFFICES ASSUME NEW p \in Procs, sending[p] # Nothing PROVE sending[p].to \in active[p]
    BY DEF NoWriteToInactive
  <2>1. CASE p # Host
    <3>1. sending[p].to = Host
      BY <2>1, InHands
    <3>2. active[p] = IF requests[p] = 0 THEN Procs \ {p} ELSE {Host}
      BY <1>a, <2>1 DEF Inv, ClientPhase
    <3> QED BY <1>a, <2>1, <3>1, <3>2
  <2>2. CASE p = Host
    <3>1. PICK c \in Clients : /\ sending[Host].to = c
                               /\ \/ sending[Host].k = "msg"
                                  \/ sending[Host] = Ask(c)
                                  \/ sending[Host] = Last(c)
      BY <2>2, InHands
    <3>2. active[Host] = {d \in Clients : d >= iClient} /\ (recvPc[Host] = "loop" => iClient = 1)
      BY DEF Inv, HostPhase
    <3>3. CASE recvPc[Host] = "loop"
      BY <1>a, <2>2, <3>1, <3>2, <3>3
    <3>4. CASE recvPc[Host] # "loop"
      <4>1. requests[c] # 0
        BY <3>4 DEF Inv, HostPhase, AllReplied, Replied, Unanswered
      <4>2. requests[c] > 0
        BY <1>a, <4>1 DEF Inv, Shape
      <4>3. Asked(c)
        BY <4>2 DEF Inv, ToClient
      <4>4. ~Pending(sendQueue[Host], sending[Host], Ask(c)) /\ mainPc[Host] # "run"
        BY <4>3 DEF Asked
      <4>5. Behind(sendQueue[Host], sending[Host], Ask(c))
        BY <4>4 DEF Inv, InOrder
      <4>6. sending[Host].k # "msg" /\ sending[Host] # Ask(c)
        BY <4>4, <4>5 DEF Behind, Pending
      <4>7. Pending(sendQueue[Host], sending[Host], Last(c))
        BY <3>1, <4>6 DEF Pending
      <4>8. c = iClient
        BY <4>7 DEF Inv, LastOnce
      <4> QED BY <1>a, <2>2, <3>1, <3>2, <4>8
    <3> QED BY <3>3, <3>4
  <2> QED BY <2>1, <2>2
<1>3. \A p \in Procs : \A n : n \in DOMAIN sendQueue[p] => n \in 1 .. Len(sendQueue[p])
  BY DEF Inv, Shape
<1>4. CloseIsClean
  <2> SUFFICES ASSUME NEW p \in Procs, mainPc[p] = "closed", NEW q \in Procs
               PROVE  /\ chan[q][p] = <<>> /\ sending[q].to # p
                      /\ \A n \in 1 .. Len(sendQueue[q]) : sendQueue[q][n].to # p
    BY <1>3 DEF CloseIsClean
  <2>1. recvPc[p] = "ended"
    BY DEF Inv, MainPhase
  <2>2. CASE p = q \/ (p # Host /\ q # Host)
    BY <2>2, NotToItself
  <2>3. CASE p = Host /\ q # Host
    <3>1. AllReplied
      BY <2>1, <2>3 DEF Inv, HostPhase
    <3> QED BY <1>a, <2>3, <3>1, HostDone
  <2>4. CASE p # Host /\ q = Host
    BY <1>a, <2>1, <2>4, ClientDone
  <2> QED BY <2>2, <2>3, <2>4
<1>5. ClientsEndTogether
  <2> SUFFICES ASSUME NEW p \in Clients, recvPc[p] = "ended", NEW q \in Clients
               PROVE  requests[q] >= 1
    BY DEF ClientsEndTogether
  <2>1. requests[q] # 0
    BY ClientDone, HostDone
  <2> QED BY <1>a, <2>1 DEF Inv, Shape
<1> QED BY <1>1, <1>2, <1>4, <1>5 DEF ClosesDown

\* GenericCommunicator::fini with any number of processes and of messages that are
\* still queued: no write to a deactivated channel, nothing unread and nobody about
\* to write when a process closes its sockets, and no client leaves its receive loop
\* before all have answered.
THEOREM ShutDownIsClean ==
    ASSUME Setting
    PROVE  Spec => []ClosesDown
<1>1. Init => Inv
  BY InitInv
<1>2. Inv /\ [Next]_vars => Inv'
  BY NextInv
<1>3. Inv => ClosesDown
  BY InvCloses
<1> QED BY <1>1, <1>2, <1>3, PTL DEF Spec
=============================================================================
