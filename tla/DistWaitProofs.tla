--------------------------- MODULE DistWaitProofs ---------------------------
(***************************************************************************)
(* The flush of the distributor and the rounds of wait_loop, for any       *)
(* number of processes, in every build and environment.                    *)
(*                                                                         *)
(* The inductive invariants come first: where the messages of a round of   *)
(* wait_loop are, how far the flush has come on every process, where the   *)
(* messages sent before the flush may still be, and how much every counter *)
(* has counted at least.                                                   *)
(***************************************************************************)
EXTENDS DistWait, FiniteSetTheorems, TLAPS

Msgs(K) == [k : K, n : Nat]

\* What a receive thread has still to do of a message it has begun to handle.
Handler == {"none", "pongOthers", "countDown", "pongHost"}

\* What a client may send to the host: its PONG of a flush is never 0.
Reports == Msgs({"app", "wPONG", "READY"}) \cup [k : {"fPONG"}, n : Nat \ {0}]

\* What the pipe from p to q may hold, and what the receive thread of p may handle.
PipeMsgs(p, q) ==
    IF p = q THEN {}
    ELSE IF p = Host THEN Msgs(Kinds \ {"wPONG", "READY", "fPONG"})
    ELSE IF q = Host THEN Reports
    ELSE Msgs({"app", "fPONG"})

HandMsgs(p) == IF p = Host THEN Reports \cup Msgs({"none"})
               ELSE Msgs((Kinds \ {"wPONG", "READY"}) \cup Handler)

\* Where the wait of p may be.
ClientMain == {"main", "init", "waiting", "idle", "fini", "leave", "cleanup", "end"}
WaitPhases(p) ==
    IF p = Host THEN Phases \ {"spawned"}
    ELSE IF DistEnv THEN ClientMain
    ELSE {"none", "spawned", "waiting", "idle", "fini"}

One(b) == IF b THEN 1 ELSE 0

\* The phases in which the waiter is counted in m_userStepsInFlight.
InFlightPhases == {"init", "waiting", "idle", "fini", "flush", "sync", "done", "leave"}

AppShape ==
    /\ steps \in [Procs -> Nat] /\ budget \in 0 .. mode.work
    /\ leaving \in [Procs -> Nat] /\ loop \in [Procs -> {1, 2}]
    /\ wpc \in [Procs -> Phases] /\ \A p \in Procs : wpc[p] \in WaitPhases(p)
    /\ inFlight \in [Procs -> Nat]
    /\ \A p \in Procs : inFlight[p] = steps[p] + leaving[p] + One(wpc[p] \in InFlightPhases)

CountShape ==
    /\ barrier \in [Procs -> Seq({0, 1})]
    /\ flushCount \in [Procs -> Int] /\ flushCount[Host] = 0
    /\ nMsgsRecvd \in [Procs -> Nat] /\ sync \in Nat /\ readies \in Nat
    /\ ctxt \in [Procs -> {"none", "ready", "gone"}]

QueueShape == sendQueue \in [Procs -> Seq(SUBSET Procs)]

ChanShape ==
    /\ chan \in [Procs -> [Procs -> Seq(Msgs(Kinds))]]
    /\ \A p, q \in Procs : chan[p][q] \in Seq(PipeMsgs(p, q))

HandShape ==
    /\ hand \in [Procs -> Msgs(Kinds \cup Handler)]
    /\ \A p \in Procs : hand[p] \in HandMsgs(p)

Shape == mode \in Modes /\ AppShape /\ CountShape /\ QueueShape /\ ChanShape /\ HandShape

-----------------------------------------------------------------------------
(* Sequences of messages *)

Has(s, k) == \E n \in DOMAIN s : s[n].k = k
Early(m) == m.k = "app" /\ m.n = 1
HasEarly(s) == \E n \in DOMAIN s : Early(s[n])

\* One message at most of every kind that is waited for.
Once(s) == \A i, j \in DOMAIN s :
    s[i].k = s[j].k /\ s[i].k \in {"wPING", "wPONG", "fPING", "fPONG"} => i = j

\* What was sent before the flush is in front of the flush's own messages.
NoneBehind(s) == \A i, j \in DOMAIN s : s[i].k \in {"fPING", "fPONG"} /\ Early(s[j]) => j < i

Pipes == \A p, q \in Procs : Once(chan[p][q]) /\ NoneBehind(chan[p][q])

-----------------------------------------------------------------------------
(* A round of wait_loop: PING, the wait of the client, PONG *)

InRound == wpc[Host] \in {"waiting", "idle", "fini"}

PingOut(c) == Has(chan[Host][c], "wPING") \/ hand[c].k = "wPING"
Zero(b) == \E n \in DOMAIN b : b[n] = 0
OneZero(b) == \A i, j \in DOMAIN b : b[i] = 0 /\ b[j] = 0 => i = j
InWait(c) == IF DistEnv THEN Zero(barrier[c]) ELSE wpc[c] # "none"
PongOut(c) == Has(chan[c][Host], "wPONG")
Ponged(c) == ~PingOut(c) /\ ~InWait(c) /\ ~PongOut(c)
Answers == {c \in Clients : Ponged(c)}

\* A client is at one place of the round ...
OnePlace(c) ==
    /\ ~(PingOut(c) /\ InWait(c)) /\ ~(PingOut(c) /\ PongOut(c)) /\ ~(InWait(c) /\ PongOut(c))
    /\ ~(Has(chan[Host][c], "wPING") /\ hand[c].k = "wPING")
    /\ DistEnv => OneZero(barrier[c])

\* ... and the host's barrier holds the answers it has handled.
Round ==
    /\ \A c \in Clients : OnePlace(c)
    /\ ~InRound => Answers = Clients /\ barrier[Host] = <<>> /\ hand[Host].k # "wPONG"
    /\ InRound => Len(barrier[Host]) + One(hand[Host].k = "wPONG") = Cardinality(Answers)

-----------------------------------------------------------------------------
(* The flush *)

InSync == wpc[Host] = "sync"

\* c has told the other clients that it has seen the PING.
Flushed(c) ==
    InSync /\ ~Has(chan[Host][c], "fPING") /\ hand[c].k \notin {"fPING", "pongOthers"}

\* The clients whose PONG has come to c.
Got(c) == {d \in Clients \ {c} : Flushed(d) /\ ~Has(chan[d][c], "fPONG")}

Reported(c) == Flushed(c) /\ flushCount[c] = 0 /\ hand[c].k # "pongHost"
Arrived(c) == Reported(c) /\ ~Has(chan[c][Host], "fPONG")
Arrivals == {c \in Clients : Arrived(c)}

FlushAt(c) ==
    /\ flushCount[c] = (IF Flushed(c) THEN NumProcs - 2 ELSE 0) - Cardinality(Got(c))
                         + One(hand[c].k \in {"fPONG", "countDown"})
    /\ hand[c].k = "fPONG" => Got(c) # {}
    /\ hand[c].k = "countDown" => flushCount[c] = 1
    /\ hand[c].k = "pongHost" => flushCount[c] = 0
    /\ hand[c].k \in {"fPING", "pongOthers", "countDown", "pongHost"} =>
            InSync /\ ~Has(chan[Host][c], "fPING")
    /\ Has(chan[c][Host], "fPONG") => Reported(c)
    /\ \A d \in Clients \ {c} : Has(chan[c][d], "fPONG") => Flushed(c)

Flush ==
    /\ \A c \in Clients : FlushAt(c)
    /\ sync + One(hand[Host].k = "fPONG") = Cardinality(Arrivals)
    /\ ~InSync => \A c \in Clients : ~Has(chan[Host][c], "fPING")

-----------------------------------------------------------------------------
(* Where the messages that were sent before the flush may be *)

EarlyAt(c) ==
    /\ InSync /\ ~Has(chan[Host][c], "fPING") => ~HasEarly(chan[Host][c])
    /\ \A d \in Clients \ {c} : Flushed(c) /\ ~Has(chan[c][d], "fPONG") => ~HasEarly(chan[c][d])
    /\ Arrived(c) => ~HasEarly(chan[c][Host])
    /\ Early(hand[c]) => ~Reported(c)

Earlier ==
    /\ \A c \in Clients : EarlyAt(c)
    /\ Early(hand[Host]) => Arrivals # Clients
    /\ ~InSync => \A p, q \in Procs : ~HasEarly(chan[p][q]) /\ ~Early(hand[p])

-----------------------------------------------------------------------------
(* What the counters have counted at least *)

PingCounted(c) ==
    \/ InRound /\ ~Has(chan[Host][c], "wPING")
    \/ wpc[Host] = "flush"
    \/ InSync /\ ~Reported(c)

Counts ==
    /\ \A c \in Clients : PingCounted(c) => nMsgsRecvd[c] >= 1
    /\ InRound => nMsgsRecvd[Host] >= Cardinality(Answers)
    /\ wpc[Host] = "flush" => nMsgsRecvd[Host] >= NumProcs - 1
    /\ InSync => nMsgsRecvd[Host] >= NumProcs - 1 + sync

DWInv == Shape /\ Pipes /\ Round /\ Flush /\ Earlier /\ Counts

-----------------------------------------------------------------------------
(***************************************************************************)
(* When main runs on the host only: a message of the program that is       *)
(* handled in a round has been counted beyond the messages of the          *)
(* scheduler, and the surplus reaches the host's counter before the flush  *)
(* ends. Without a surplus a process that has found itself idle stays so.  *)
(***************************************************************************)

HostOnly == ~DistEnv /\ mode.prompt

\* What the host's counter has counted of the scheduler and of the reports at least.
HostMin ==
    IF InRound THEN Cardinality(Answers)
    ELSE IF wpc[Host] = "flush" THEN NumProcs - 1
    ELSE IF InSync THEN NumProcs - 1 + sync
    ELSE 0

\* There is a surplus: in the counter of a client that has not reported yet, in a
\* report on its way, or in the counter of the host.
Busy(c) == ~Reported(c) /\ nMsgsRecvd[c] > One(PingCounted(c))
BigPong(m) == m.k = "fPONG" /\ m.n > 1
BigReport(s) == \E n \in DOMAIN s : BigPong(s[n])

Dirty ==
    \/ \E c \in Clients : Busy(c) \/ BigReport(chan[c][Host])
    \/ BigPong(hand[Host])
    \/ nMsgsRecvd[Host] > HostMin

\* The cleanup between the two loops is started before the next PING.
CleanupFirst(s) == \A i, j \in DOMAIN s : s[i].k = "wPING" /\ s[j].k = "CLEANUP" => j < i

CleanupAt(c) ==
    /\ CleanupFirst(chan[Host][c])
    /\ Has(chan[Host][c], "CLEANUP") \/ hand[c].k = "CLEANUP" =>
            wpc[Host] = "init" \/ Has(chan[Host][c], "wPING")

\* What starts a step has been counted before it is handled.
Starting == {"app", "CLEANUP"}
HandCounted ==
    /\ \A c \in Clients : hand[c].k \in Starting => nMsgsRecvd[c] > One(PingCounted(c))
    /\ hand[Host].k \in Starting => nMsgsRecvd[Host] > HostMin

\* The processes that have found themselves idle in this round.
Checked(p) ==
    IF p = Host THEN wpc[Host] \in {"idle", "fini", "flush", "sync"}
    ELSE \/ wpc[p] \in {"idle", "fini"}
         \/ InRound /\ ~PingOut(p) /\ ~InWait(p)
         \/ wpc[Host] \in {"flush", "sync"}

\* Nothing of the program was sent since the flush began.
NoneLater(s) == \A n \in DOMAIN s : s[n].k = "app" => Early(s[n])

Calm ==
    /\ \A p \in Procs : Checked(p) => steps[p] = 0
    /\ InSync => \A p, q \in Procs : hand[p].k # "app" /\ NoneLater(chan[p][q])

Ended == wpc[Host] = "done" => Quiescent

Global == (\A c \in Clients : CleanupAt(c)) /\ HandCounted /\ (Dirty \/ Calm) /\ Ended

GlobalInv == HostOnly => Global

-----------------------------------------------------------------------------
(* The processes *)

\* The host is process 0 and there are NumProcs - 1 clients.
LEMMA ProcsFacts ==
  ASSUME mode \in Modes
  PROVE  /\ NumProcs \in Nat /\ NumProcs >= 2
         /\ Host \in Procs /\ Clients \subseteq Procs
         /\ \A p \in Procs : p \in Clients <=> p # Host
         /\ Host \notin Clients
         /\ IsFiniteSet(Clients) /\ Cardinality(Clients) = NumProcs - 1
         /\ DistEnv \in BOOLEAN
<1>1. mode \in [procs : 2 .. MaxProcs, distEnv : BOOLEAN, preSend : BOOLEAN, work : Nat,
                prompt : BOOLEAN] /\ MaxProcs \in Nat
  BY DistWaitConstants
<1>2. NumProcs \in Nat /\ NumProcs >= 2 /\ DistEnv \in BOOLEAN
  BY <1>1 DEF NumProcs, DistEnv
<1>3. Clients = 1 .. NumProcs - 1
  BY <1>2 DEF Clients, Procs, Host
<1>4. IsFiniteSet(Clients) /\ Cardinality(Clients) = NumProcs - 1
  BY <1>2, <1>3, FS_Interval
<1> QED
  BY <1>2, <1>4 DEF Clients, Procs, Host

\* The build and the environment stay, so the processes do.
LEMMA SameMode ==
  ASSUME mode' = mode
  PROVE  /\ NumProcs' = NumProcs /\ Procs' = Procs /\ Clients' = Clients
         /\ DistEnv' = DistEnv /\ PreSend' = PreSend
         /\ \A p : WaitPhases(p)' = WaitPhases(p)
BY DEF NumProcs, Procs, Clients, DistEnv, PreSend, WaitPhases

-----------------------------------------------------------------------------
(* Sequences of messages *)

\* A pipe that gets a message behind its others.
LEMMA AppendFacts ==
  ASSUME NEW K, NEW s \in Seq(Msgs(K)), NEW m \in Msgs(K)
  PROVE  /\ \A k : Has(Append(s, m), k) <=> Has(s, k) \/ m.k = k
         /\ HasEarly(Append(s, m)) <=> HasEarly(s) \/ Early(m)
         /\ Once(s) /\ (m.k \in {"wPING", "wPONG", "fPING", "fPONG"} => ~Has(s, m.k))
              => Once(Append(s, m))
         /\ NoneBehind(s) /\ ~Early(m) => NoneBehind(Append(s, m))
<1> DEFINE t == Append(s, m)
<1>1. /\ Len(s) \in Nat /\ Len(t) = Len(s) + 1
      /\ DOMAIN s = 1 .. Len(s) /\ DOMAIN t = 1 .. Len(s) + 1
      /\ \A n \in 1 .. Len(s) : t[n] = s[n]
      /\ t[Len(s) + 1] = m
  OBVIOUS
<1> HIDE DEF t
<1>2. \A k : Has(t, k) <=> Has(s, k) \/ m.k = k
  BY <1>1 DEF Has
<1>3. HasEarly(t) <=> HasEarly(s) \/ Early(m)
  BY <1>1 DEF HasEarly
<1>4. Once(s) /\ (m.k \in {"wPING", "wPONG", "fPING", "fPONG"} => ~Has(s, m.k)) => Once(t)
  BY <1>1 DEF Once, Has
<1>5. NoneBehind(s) /\ ~Early(m) => NoneBehind(t)
  BY <1>1 DEF NoneBehind
<1> QED
  BY <1>2, <1>3, <1>4, <1>5 DEF t

\* A pipe whose first message is read.
LEMMA TailFacts ==
  ASSUME NEW K, NEW s \in Seq(Msgs(K)), s # <<>>
  PROVE  /\ \A k : Has(s, k) <=> Has(Tail(s), k) \/ Head(s).k = k
         /\ HasEarly(s) <=> HasEarly(Tail(s)) \/ Early(Head(s))
         /\ Once(s) => /\ Once(Tail(s))
                       /\ Head(s).k \in {"wPING", "wPONG", "fPING", "fPONG"} =>
                            ~Has(Tail(s), Head(s).k)
         /\ NoneBehind(s) => /\ NoneBehind(Tail(s))
                             /\ Head(s).k \in {"fPING", "fPONG"} => ~HasEarly(s)
<1> DEFINE t == Tail(s)
           h == Head(s)
<1>1. /\ Len(s) \in Nat /\ Len(s) >= 1
      /\ DOMAIN s = 1 .. Len(s) /\ DOMAIN t = 1 .. Len(s) - 1
      /\ \A n \in 1 .. Len(s) - 1 : t[n] = s[n + 1]
      /\ s[1] = h
  OBVIOUS
<1>2. \A n \in 2 .. Len(s) : n - 1 \in 1 .. Len(s) - 1 /\ t[n - 1] = s[n]
  BY <1>1
<1> HIDE DEF t, h
<1>3. \A k : Has(s, k) <=> Has(t, k) \/ h.k = k
  <2> TAKE k
  <2>1. ASSUME Has(s, k), h.k # k PROVE Has(t, k)
    <3>1. PICK n \in DOMAIN s : s[n].k = k
      BY <2>1 DEF Has
    <3>2. n \in 2 .. Len(s)
      BY <1>1, <2>1, <3>1
    <3> QED
      BY <1>1, <1>2, <3>1, <3>2 DEF Has
  <2>2. ASSUME Has(t, k) PROVE Has(s, k)
    <3>1. PICK n \in DOMAIN t : t[n].k = k
      BY <2>2 DEF Has
    <3>2. n + 1 \in DOMAIN s /\ s[n + 1].k = k
      BY <1>1, <3>1
    <3> QED
      BY <3>2 DEF Has
  <2>3. h.k = k => Has(s, k)
    BY <1>1 DEF Has
  <2> QED
    BY <2>1, <2>2, <2>3
<1>4. HasEarly(s) <=> HasEarly(t) \/ Early(h)
  <2>1. ASSUME HasEarly(s), ~Early(h) PROVE HasEarly(t)
    <3>1. PICK n \in DOMAIN s : Early(s[n])
      BY <2>1 DEF HasEarly
    <3>2. n \in 2 .. Len(s)
      BY <1>1, <2>1, <3>1
    <3> QED
      BY <1>1, <1>2, <3>1, <3>2 DEF HasEarly
  <2>2. ASSUME HasEarly(t) PROVE HasEarly(s)
    <3>1. PICK n \in DOMAIN t : Early(t[n])
      BY <2>2 DEF HasEarly
    <3>2. n + 1 \in DOMAIN s /\ Early(s[n + 1])
      BY <1>1, <3>1
    <3> QED
      BY <3>2 DEF HasEarly
  <2>3. Early(h) => HasEarly(s)
    BY <1>1 DEF HasEarly
  <2> QED
    BY <2>1, <2>2, <2>3
<1>5. ASSUME Once(s) PROVE Once(t)
  <2> SUFFICES ASSUME NEW i \in DOMAIN t, NEW j \in DOMAIN t, t[i].k = t[j].k,
                      t[i].k \in {"wPING", "wPONG", "fPING", "fPONG"}
               PROVE  i = j
    BY DEF Once
  <2>1. i + 1 \in DOMAIN s /\ j + 1 \in DOMAIN s /\ t[i] = s[i + 1] /\ t[j] = s[j + 1]
    BY <1>1
  <2>2. i + 1 = j + 1
    BY <1>5, <2>1 DEF Once
  <2> QED
    BY <1>1, <2>2
<1>6. ASSUME Once(s), h.k \in {"wPING", "wPONG", "fPING", "fPONG"}, Has(t, h.k) PROVE FALSE
  <2>1. PICK n \in DOMAIN t : t[n].k = h.k
    BY <1>6 DEF Has
  <2>2. n + 1 \in DOMAIN s /\ 1 \in DOMAIN s /\ s[n + 1].k = s[1].k /\ n + 1 # 1
    BY <1>1, <2>1
  <2> QED
    BY <1>1, <1>6, <2>2 DEF Once
<1>7. ASSUME NoneBehind(s) PROVE NoneBehind(t)
  <2> SUFFICES ASSUME NEW i \in DOMAIN t, NEW j \in DOMAIN t, t[i].k \in {"fPING", "fPONG"},
                      Early(t[j])
               PROVE  j < i
    BY DEF NoneBehind
  <2>1. i + 1 \in DOMAIN s /\ j + 1 \in DOMAIN s /\ t[i] = s[i + 1] /\ t[j] = s[j + 1]
    BY <1>1
  <2>2. j + 1 < i + 1
    BY <1>7, <2>1 DEF NoneBehind
  <2> QED
    BY <1>1, <2>2
<1>8. ASSUME NoneBehind(s), h.k \in {"fPING", "fPONG"}, HasEarly(s) PROVE FALSE
  <2>1. PICK n \in DOMAIN s : Early(s[n])
    BY <1>8 DEF HasEarly
  <2>2. n < 1
    BY <1>1, <1>8, <2>1 DEF NoneBehind
  <2> QED
    BY <1>1, <2>1, <2>2
<1> QED
  BY <1>3, <1>4, <1>5, <1>6, <1>7, <1>8 DEF t, h

\* Marking the messages that are sent before the flush.
LEMMA MarkFacts ==
  ASSUME NEW K, NEW s \in Seq(Msgs(K))
  PROVE  /\ MarkAll(s) \in Seq(Msgs(K))
         /\ \A k : Has(MarkAll(s), k) <=> Has(s, k)
         /\ Once(s) => Once(MarkAll(s))
         /\ ~Has(s, "fPING") /\ ~Has(s, "fPONG") => NoneBehind(MarkAll(s))
<1> DEFINE t == MarkAll(s)
<1>1. Len(s) \in Nat /\ DOMAIN s = 1 .. Len(s) /\ \A n \in DOMAIN s : s[n] \in Msgs(K)
  OBVIOUS
<1>2. \A m \in Msgs(K) : Mark(m) \in Msgs(K) /\ Mark(m).k = m.k
  BY DEF Mark, Message, Msgs
<1>3. DOMAIN t = DOMAIN s /\ \A n \in DOMAIN s : t[n] \in Msgs(K) /\ t[n].k = s[n].k
  BY <1>1, <1>2 DEF MarkAll
<1>4. t \in [1 .. Len(s) -> Msgs(K)]
  BY <1>1, <1>2 DEF MarkAll
<1>5. t \in Seq(Msgs(K))
  BY <1>1, <1>4
<1> HIDE DEF t
<1>6. \A k : Has(t, k) <=> Has(s, k)
  BY <1>3 DEF Has
<1>7. Once(s) => Once(t)
  BY <1>3 DEF Once
<1>8. ~Has(s, "fPING") /\ ~Has(s, "fPONG") => NoneBehind(t)
  BY <1>3 DEF Has, NoneBehind
<1> QED
  BY <1>5, <1>6, <1>7, <1>8 DEF t

\* What a pipe holds stays of the kinds of the pipe.
LEMMA MarkPipe ==
  ASSUME NEW p \in Procs, NEW q \in Procs, NEW s \in Seq(PipeMsgs(p, q))
  PROVE  MarkAll(s) \in Seq(PipeMsgs(p, q))
<1>1. Len(s) \in Nat /\ DOMAIN s = 1 .. Len(s) /\ \A n \in DOMAIN s : s[n] \in PipeMsgs(p, q)
  OBVIOUS
<1>2. \A m \in PipeMsgs(p, q) : Mark(m) \in PipeMsgs(p, q)
  BY DEF PipeMsgs, Reports, Msgs, Mark, Message, Kinds
<1>3. MarkAll(s) \in [1 .. Len(s) -> PipeMsgs(p, q)]
  BY <1>1, <1>2 DEF MarkAll
<1> QED
  BY <1>1, <1>3

-----------------------------------------------------------------------------
(* Pushing and reading a message *)

Counting == {"wPING", "wPONG", "fPING", "fPONG"}

\* Push puts one message at the end of the pipes to its receivers.
LEMMA PushFacts ==
  ASSUME Shape, mode' = mode, NEW p \in Procs, NEW S \in SUBSET Procs, NEW m \in Msgs(Kinds),
         \A q \in S : m \in PipeMsgs(p, q), Push(p, m, S)
  PROVE  /\ QueueShape' /\ ChanShape'
         /\ \A r, q \in Procs : chan'[r][q] = IF r = p /\ q \in S THEN Append(chan[r][q], m)
                                              ELSE chan[r][q]
<1> USE SameMode
<1>1. Procs' = Procs
  OBVIOUS
<1>2. QueueShape'
  BY <1>1 DEF Shape, QueueShape, Push, Unsent
<1>3. \A r, q \in Procs : chan'[r][q] = IF r = p /\ q \in S THEN Append(chan[r][q], m)
                                        ELSE chan[r][q]
  BY DEF Shape, ChanShape, Push
<1>4. chan' \in [Procs -> [Procs -> Seq(Msgs(Kinds))]]
  BY DEF Shape, ChanShape, Push
<1>5. ASSUME NEW r \in Procs, NEW q \in Procs PROVE chan'[r][q] \in Seq(PipeMsgs(r, q))
  <2>1. chan[r][q] \in Seq(PipeMsgs(r, q))
    BY DEF Shape, ChanShape
  <2>2. CASE r = p /\ q \in S
    <3>1. m \in PipeMsgs(r, q) /\ chan'[r][q] = Append(chan[r][q], m)
      BY <1>3, <2>2
    <3> QED
      BY <2>1, <3>1
  <2>3. CASE ~(r = p /\ q \in S)
    BY <1>3, <2>1, <2>3
  <2> QED
    BY <2>2, <2>3
<1>6. ChanShape'
  BY <1>1, <1>4, <1>5 DEF ChanShape
<1> QED
  BY <1>2, <1>3, <1>6

\* What that means for the questions the invariant asks of a pipe.
LEMMA PushHas ==
  ASSUME Shape, Pipes, mode' = mode, NEW p \in Procs, NEW S \in SUBSET Procs,
         NEW m \in Msgs(Kinds), ~Early(m),
         \A q \in S : m \in PipeMsgs(p, q), Push(p, m, S),
         m.k \in Counting => \A q \in S : ~Has(chan[p][q], m.k)
  PROVE  /\ Pipes'
         /\ \A r, q \in Procs : \A k : Has(chan'[r][q], k) <=>
                Has(chan[r][q], k) \/ (r = p /\ q \in S /\ m.k = k)
         /\ \A r, q \in Procs : HasEarly(chan'[r][q]) <=> HasEarly(chan[r][q])
<1> USE SameMode
<1>1. \A r, q \in Procs : chan'[r][q] = IF r = p /\ q \in S THEN Append(chan[r][q], m)
                                        ELSE chan[r][q]
  BY PushFacts
<1>2. \A r, q \in Procs : chan[r][q] \in Seq(Msgs(Kinds))
  BY DEF Shape, ChanShape
<1>3. ASSUME NEW r \in Procs, NEW q \in Procs
      PROVE  /\ \A k : Has(chan'[r][q], k) <=> Has(chan[r][q], k) \/ (r = p /\ q \in S /\ m.k = k)
             /\ HasEarly(chan'[r][q]) <=> HasEarly(chan[r][q])
             /\ Once(chan'[r][q]) /\ NoneBehind(chan'[r][q])
  <2>1. Once(chan[r][q]) /\ NoneBehind(chan[r][q])
    BY DEF Pipes
  <2>2. CASE r = p /\ q \in S
    <3> DEFINE s == chan[r][q]
    <3>1. s \in Seq(Msgs(Kinds)) /\ chan'[r][q] = Append(s, m)
      BY <1>1, <1>2, <2>2
    <3>2. m.k \in Counting => ~Has(s, m.k)
      BY <2>2
    <3> HIDE DEF s
    <3>3. /\ \A k : Has(Append(s, m), k) <=> Has(s, k) \/ m.k = k
          /\ HasEarly(Append(s, m)) <=> HasEarly(s) \/ Early(m)
          /\ Once(s) => Once(Append(s, m))
          /\ NoneBehind(s) => NoneBehind(Append(s, m))
      BY <3>1, <3>2, AppendFacts DEF Counting
    <3> QED
      BY <2>1, <2>2, <3>1, <3>3 DEF s
  <2>3. CASE ~(r = p /\ q \in S)
    BY <1>1, <2>1, <2>3
  <2> QED
    BY <2>2, <2>3
<1>4. Pipes'
  BY <1>3 DEF Pipes
<1> QED
  BY <1>3, <1>4

\* Something is in the pipe when the receive thread reads.
LEMMA ReadFacts ==
  ASSUME Shape, mode' = mode, NEW p \in Procs, NEW q \in Procs, p # q, RecvThreadRead(p, q)
  PROVE  /\ chan[q][p] # <<>> /\ hand[p].k = "none"
         /\ Head(chan[q][p]) \in PipeMsgs(q, p)
         /\ hand'[p] = Head(chan[q][p]) /\ \A r \in Procs \ {p} : hand'[r] = hand[r]
         /\ chan'[q][p] = Tail(chan[q][p])
         /\ \A r, t \in Procs : ~(r = q /\ t = p) => chan'[r][t] = chan[r][t]
         /\ ChanShape' /\ HandShape'
<1> USE SameMode
<1>1. Unwritten(q, p) \in Nat
  <2> DEFINE A == {n \in DOMAIN sendQueue[q] : p \in sendQueue[q][n]}
  <2>1. sendQueue[q] \in Seq(SUBSET Procs)
    BY DEF Shape, QueueShape
  <2>2. Len(sendQueue[q]) \in Nat /\ DOMAIN sendQueue[q] = 1 .. Len(sendQueue[q])
    BY <2>1
  <2>3. IsFiniteSet(1 .. Len(sendQueue[q]))
    BY <2>2, FS_Interval
  <2>4. A \subseteq 1 .. Len(sendQueue[q])
    BY <2>2
  <2>5. IsFiniteSet(A)
    BY <2>3, <2>4, FS_Subset
  <2>6. Cardinality(A) \in Nat
    BY <2>5, FS_CardinalityType
  <2> QED
    BY <2>6 DEF Unwritten
<1>2. chan[q][p] \in Seq(PipeMsgs(q, p)) /\ Len(chan[q][p]) > Unwritten(q, p)
  BY DEF Shape, ChanShape, RecvThreadRead
<1>3. chan[q][p] # <<>>
  BY <1>1, <1>2
<1>4. Head(chan[q][p]) \in PipeMsgs(q, p) /\ Tail(chan[q][p]) \in Seq(PipeMsgs(q, p))
  BY <1>2, <1>3
<1>5. Head(chan[q][p]) \in Msgs(Kinds) /\ Tail(chan[q][p]) \in Seq(Msgs(Kinds))
  BY <1>3 DEF Shape, ChanShape
<1>6. hand[p].k = "none"
  BY DEF RecvThreadRead, None, Message
<1>7. hand'[p] = Head(chan[q][p]) /\ \A r \in Procs \ {p} : hand'[r] = hand[r]
  BY DEF RecvThreadRead, Shape, HandShape
<1>8. /\ chan'[q][p] = Tail(chan[q][p])
      /\ \A r, t \in Procs : ~(r = q /\ t = p) => chan'[r][t] = chan[r][t]
  BY DEF RecvThreadRead, Shape, ChanShape
<1>9. chan' \in [Procs -> [Procs -> Seq(Msgs(Kinds))]]
  BY <1>5 DEF RecvThreadRead, Shape, ChanShape
<1>10. \A r, t \in Procs : chan'[r][t] \in Seq(PipeMsgs(r, t))
  BY <1>4, <1>8 DEF Shape, ChanShape
<1>11. ChanShape'
  BY <1>9, <1>10 DEF ChanShape
<1>12. Head(chan[q][p]) \in HandMsgs(p)
  BY <1>4 DEF PipeMsgs, HandMsgs, Reports, Msgs, Kinds, Handler
<1>13. Head(chan[q][p]) \in Msgs(Kinds \cup Handler)
  BY <1>5 DEF Msgs
<1>14. hand' \in [Procs -> Msgs(Kinds \cup Handler)]
  BY <1>13 DEF RecvThreadRead, Shape, HandShape
<1>15. HandShape'
  BY <1>7, <1>12, <1>14 DEF Shape, HandShape
<1> QED
  BY <1>3, <1>4, <1>6, <1>7, <1>8, <1>11, <1>15

\* What that means for the questions the invariant asks of a pipe.
LEMMA ReadHas ==
  ASSUME Shape, Pipes, mode' = mode, NEW p \in Procs, NEW q \in Procs, p # q,
         RecvThreadRead(p, q), NEW m, m = Head(chan[q][p])
  PROVE  /\ Pipes'
         /\ \A k : Has(chan[q][p], k) <=> Has(chan'[q][p], k) \/ m.k = k
         /\ m.k \in Counting => ~Has(chan'[q][p], m.k)
         /\ HasEarly(chan[q][p]) <=> HasEarly(chan'[q][p]) \/ Early(m)
         /\ m.k \in {"fPING", "fPONG"} => ~HasEarly(chan[q][p])
<1> USE SameMode
<1>1. /\ chan[q][p] # <<>> /\ chan'[q][p] = Tail(chan[q][p])
      /\ \A r, t \in Procs : ~(r = q /\ t = p) => chan'[r][t] = chan[r][t]
  BY ReadFacts
<1>2. \A r, t \in Procs : Once(chan[r][t]) /\ NoneBehind(chan[r][t])
  BY DEF Pipes
<1> DEFINE s == chan[q][p]
<1>3. s \in Seq(Msgs(Kinds)) /\ s # <<>> /\ chan'[q][p] = Tail(s) /\ m = Head(s)
      /\ Once(s) /\ NoneBehind(s)
  BY <1>1, <1>2 DEF Shape, ChanShape
<1> HIDE DEF s
<1>4. /\ \A k : Has(s, k) <=> Has(Tail(s), k) \/ Head(s).k = k
      /\ HasEarly(s) <=> HasEarly(Tail(s)) \/ Early(Head(s))
      /\ Once(Tail(s))
      /\ Head(s).k \in Counting => ~Has(Tail(s), Head(s).k)
      /\ NoneBehind(Tail(s))
      /\ Head(s).k \in {"fPING", "fPONG"} => ~HasEarly(s)
  BY <1>3, TailFacts DEF Counting
<1>5. Pipes'
  BY <1>1, <1>2, <1>3, <1>4 DEF Pipes
<1> QED
  BY <1>3, <1>4, <1>5 DEF s

-----------------------------------------------------------------------------
(* What leaves the parts of the invariant alone *)

SameInPipes(K) == \A p, q \in Procs : \A k \in K : Has(chan'[p][q], k) <=> Has(chan[p][q], k)
SameInHands(K) == \A p \in Procs : \A k \in K : hand'[p].k = k <=> hand[p].k = k
NoNewEarly ==
    /\ \A p, q \in Procs : HasEarly(chan'[p][q]) => HasEarly(chan[p][q])
    /\ \A p \in Procs : Early(hand'[p]) => Early(hand[p])

FlushHands == {"fPING", "fPONG", "pongOthers", "countDown", "pongHost"}

\* A step that neither sends nor handles a message of the flush.
LEMMA FlushFrame ==
  ASSUME mode \in Modes, mode' = mode, InSync' <=> InSync, flushCount' = flushCount, sync' = sync,
         SameInPipes({"fPING", "fPONG"}), SameInHands(FlushHands)
  PROVE  /\ \A c \in Clients : /\ (Flushed(c)' <=> Flushed(c)) /\ (Reported(c)' <=> Reported(c))
                                /\ (Arrived(c)' <=> Arrived(c)) /\ Got(c)' = Got(c)
         /\ Arrivals' = Arrivals
         /\ Flush => Flush'
         /\ Earlier /\ NoNewEarly => Earlier'
<1> USE SameMode, ProcsFacts
<1>1. \A c \in Clients : /\ Has(chan'[Host][c], "fPING") <=> Has(chan[Host][c], "fPING")
                         /\ Has(chan'[c][Host], "fPONG") <=> Has(chan[c][Host], "fPONG")
                         /\ \A d \in Clients : Has(chan'[c][d], "fPONG") <=>
                                 Has(chan[c][d], "fPONG")
  BY DEF SameInPipes
<1>2. \A p \in Procs : \A k \in FlushHands : hand'[p].k = k <=> hand[p].k = k
  BY DEF SameInHands
<1>3. \A c \in Clients : Flushed(c)' <=> Flushed(c)
  BY <1>1, <1>2 DEF Flushed, FlushHands, Host
<1>4. \A c \in Clients : Got(c)' = Got(c)
  BY <1>1, <1>3 DEF Got
<1>5. \A c \in Clients : Reported(c)' <=> Reported(c)
  BY <1>2, <1>3 DEF Reported, FlushHands
<1>6. \A c \in Clients : Arrived(c)' <=> Arrived(c)
  BY <1>1, <1>5 DEF Arrived, Host
<1>7. Arrivals' = Arrivals
  BY <1>6 DEF Arrivals
<1>8. ASSUME Flush PROVE Flush'
  <2>1. ASSUME NEW c \in Clients PROVE FlushAt(c)'
    <3>1. FlushAt(c)
      BY <1>8 DEF Flush
    <3>2. /\ hand'[c].k \in {"fPONG", "countDown"} <=> hand[c].k \in {"fPONG", "countDown"}
          /\ \A k \in FlushHands : hand'[c].k = k <=> hand[c].k = k
      BY <1>2 DEF FlushHands
    <3> QED
      BY <1>1, <1>3, <1>4, <1>5, <3>1, <3>2 DEF FlushAt, FlushHands, Host
  <2>2. One(hand'[Host].k = "fPONG") = One(hand[Host].k = "fPONG")
    BY <1>2 DEF FlushHands
  <2> QED
    BY <1>1, <1>7, <1>8, <2>1, <2>2 DEF Flush, Host
<1>9. ASSUME Earlier, NoNewEarly PROVE Earlier'
  <2>1. /\ \A p, q \in Procs : HasEarly(chan'[p][q]) => HasEarly(chan[p][q])
        /\ \A p \in Procs : Early(hand'[p]) => Early(hand[p])
    BY <1>9 DEF NoNewEarly
  <2>2. ASSUME NEW c \in Clients PROVE EarlyAt(c)'
    <3>1. EarlyAt(c)
      BY <1>9 DEF Earlier
    <3> QED
      BY <1>1, <1>3, <1>5, <1>6, <2>1, <3>1 DEF EarlyAt, Host
  <2> QED
    BY <1>7, <1>9, <2>1, <2>2 DEF Earlier, Host
<1> QED
  BY <1>3, <1>4, <1>5, <1>6, <1>7, <1>8, <1>9

\* A step that leaves every client at its place of the round.
LEMMA RoundFrame ==
  ASSUME mode \in Modes, mode' = mode, InRound' <=> InRound, barrier' = barrier,
         \A c \in Clients : InWait(c)' <=> InWait(c),
         SameInPipes({"wPING", "wPONG"}), SameInHands({"wPING", "wPONG"})
  PROVE  Answers' = Answers /\ (Round => Round')
<1> USE SameMode, ProcsFacts
<1>1. \A c \in Clients : /\ Has(chan'[Host][c], "wPING") <=> Has(chan[Host][c], "wPING")
                         /\ Has(chan'[c][Host], "wPONG") <=> Has(chan[c][Host], "wPONG")
  BY DEF SameInPipes
<1>2. \A p \in Procs : /\ hand'[p].k = "wPING" <=> hand[p].k = "wPING"
                       /\ hand'[p].k = "wPONG" <=> hand[p].k = "wPONG"
  BY DEF SameInHands
<1>3. \A c \in Clients : (PingOut(c)' <=> PingOut(c)) /\ (PongOut(c)' <=> PongOut(c))
  BY <1>1, <1>2 DEF PingOut, PongOut, Host
<1>4. \A c \in Clients : Ponged(c)' <=> Ponged(c)
  BY <1>3 DEF Ponged
<1>5. Answers' = Answers
  BY <1>4 DEF Answers
<1>6. ASSUME Round PROVE Round'
  <2>1. ASSUME NEW c \in Clients PROVE OnePlace(c)'
    <3>1. OnePlace(c)
      BY <1>6 DEF Round
    <3> QED
      BY <1>1, <1>2, <1>3, <3>1 DEF OnePlace, Host
  <2>2. One(hand'[Host].k = "wPONG") = One(hand[Host].k = "wPONG")
    BY <1>2
  <2> QED
    BY <1>2, <1>5, <1>6, <2>1, <2>2 DEF Round, Host
<1> QED
  BY <1>5, <1>6

\* The lower bounds of the counters stay what they are, and no counter goes down.
SameCounts ==
    /\ (InRound' <=> InRound) /\ (InSync' <=> InSync)
    /\ (wpc'[Host] = "flush" <=> wpc[Host] = "flush")
    /\ sync' = sync /\ Answers' = Answers
    /\ \A p \in Procs : nMsgsRecvd'[p] >= nMsgsRecvd[p]
    /\ \A c \in Clients : Reported(c)' <=> Reported(c)
    /\ \A c \in Clients : PingCounted(c)' <=> PingCounted(c)

\* A step that counts nothing down and starts nothing new.
LEMMA CountsFrame ==
  ASSUME Shape, CountShape', mode' = mode, InRound' <=> InRound, InSync' <=> InSync,
         wpc'[Host] = "flush" <=> wpc[Host] = "flush", sync' = sync, Answers' = Answers,
         \A p \in Procs : nMsgsRecvd'[p] >= nMsgsRecvd[p],
         \A c \in Clients : Reported(c)' <=> Reported(c),
         SameInPipes({"wPING"}), Counts
  PROVE  Counts' /\ SameCounts
<1> USE SameMode, ProcsFacts DEF Shape
<1>1. \A c \in Clients : PingCounted(c)' <=> PingCounted(c)
  BY DEF PingCounted, SameInPipes, Host
<1>2. \A p \in Procs : nMsgsRecvd[p] \in Nat /\ nMsgsRecvd'[p] \in Nat /\ sync \in Nat
  BY DEF CountShape
<1>3. Cardinality(Answers) \in Nat
  <2>1. Answers \subseteq Clients
    BY DEF Answers
  <2> QED
    BY <2>1, FS_Subset, FS_CardinalityType
<1>4. SameCounts
  BY <1>1 DEF SameCounts
<1> QED
  BY <1>1, <1>2, <1>3, <1>4 DEF Counts, Host

\* The parts of the type invariant that a step does not touch.
LEMMA SameShape ==
  ASSUME Shape, mode' = mode
  PROVE  /\ UNCHANGED <<steps, budget, leaving, loop, wpc, inFlight>> => AppShape'
         /\ UNCHANGED <<barrier, flushCount, nMsgsRecvd, sync, readies, ctxt>> => CountShape'
         /\ UNCHANGED sendQueue => QueueShape'
         /\ UNCHANGED chan => ChanShape'
         /\ UNCHANGED hand => HandShape'
<1> USE SameMode DEF Shape
<1>1. UNCHANGED <<steps, budget, leaving, loop, wpc, inFlight>> => AppShape'
  BY DEF AppShape
<1>2. UNCHANGED <<barrier, flushCount, nMsgsRecvd, sync, readies, ctxt>> => CountShape'
  BY DEF CountShape, Host
<1>3. UNCHANGED sendQueue => QueueShape'
  BY DEF QueueShape
<1>4. UNCHANGED chan => ChanShape'
  BY DEF ChanShape
<1>5. UNCHANGED hand => HandShape'
  BY DEF HandShape
<1> QED
  BY <1>1, <1>2, <1>3, <1>4, <1>5

\* The kinds of messages whose coming and going the invariant follows.
Followed == FlushHands \cup {"wPING", "wPONG"}

SamePipes == Pipes' /\ SameInPipes(Counting) /\
             \A p, q \in Procs : HasEarly(chan'[p][q]) => HasEarly(chan[p][q])
SameHands == SameInHands(Followed) /\ \A p \in Procs : Early(hand'[p]) => Early(hand[p])

\* A push of any other message, or none.
LEMMA QuietPush ==
  ASSUME DWInv, mode' = mode
  PROVE  /\ UNCHANGED chan => SamePipes
         /\ \A p \in Procs : \A S \in SUBSET Procs : \A m \in Msgs(Kinds) :
               m.k \notin Counting /\ ~Early(m) /\ Push(p, m, S)
                  /\ (\A q \in S : m \in PipeMsgs(p, q))
                   => SamePipes /\ QueueShape' /\ ChanShape'
<1> USE SameMode DEF DWInv
<1>1. UNCHANGED chan => SamePipes
  BY DEF SamePipes, Pipes, SameInPipes
<1>2. ASSUME NEW p \in Procs, NEW S \in SUBSET Procs, NEW m \in Msgs(Kinds), m.k \notin Counting,
             ~Early(m), Push(p, m, S), \A q \in S : m \in PipeMsgs(p, q)
      PROVE  SamePipes /\ QueueShape' /\ ChanShape'
  <2>1. QueueShape' /\ ChanShape'
    BY <1>2, PushFacts
  <2>2. /\ Pipes'
        /\ \A r, q \in Procs : \A k : Has(chan'[r][q], k) <=>
                Has(chan[r][q], k) \/ (r = p /\ q \in S /\ m.k = k)
        /\ \A r, q \in Procs : HasEarly(chan'[r][q]) <=> HasEarly(chan[r][q])
    BY <1>2, PushHas
  <2> QED
    BY <1>2, <2>1, <2>2 DEF SamePipes, SameInPipes
<1> QED
  BY <1>1, <1>2

\* A handler of any other message returns, or no handler does.
LEMMA QuietHand ==
  ASSUME DWInv, mode' = mode
  PROVE  /\ UNCHANGED hand => SameHands
         /\ \A p \in Procs : hand[p].k \notin Followed /\ HandlerReturns(p) => SameHands
         /\ \A p \in Procs : HandlerReturns(p) => HandShape'
<1> USE SameMode DEF DWInv, Shape
<1>1. UNCHANGED hand => SameHands
  BY DEF SameHands, SameInHands
<1>2. ASSUME NEW p \in Procs, HandlerReturns(p) PROVE HandShape'
  <2>1. None \in Msgs(Kinds \cup Handler) /\ None \in HandMsgs(p)
    BY DEF None, Message, Msgs, Handler, HandMsgs
  <2> QED
    BY <1>2, <2>1 DEF HandlerReturns, HandShape
<1>3. ASSUME NEW p \in Procs, hand[p].k \notin Followed, HandlerReturns(p) PROVE SameHands
  <2>1. hand'[p] = None /\ \A r \in Procs \ {p} : hand'[r] = hand[r]
    BY <1>3 DEF HandlerReturns, HandShape
  <2>2. None.k = "none" /\ ~Early(None)
    BY DEF None, Message, Early
  <2> QED
    BY <1>3, <2>1, <2>2 DEF SameHands, SameInHands, Followed, FlushHands
<1> QED
  BY <1>1, <1>2, <1>3

\* Together: a step that is not part of a round or a flush.
LEMMA QuietStep ==
  ASSUME DWInv, mode' = mode, AppShape', CountShape', QueueShape', ChanShape', HandShape',
         InRound' <=> InRound, InSync' <=> InSync,
         wpc'[Host] = "flush" <=> wpc[Host] = "flush",
         \A c \in Clients : InWait(c)' <=> InWait(c),
         UNCHANGED <<barrier, flushCount, sync, nMsgsRecvd>>, SamePipes, SameHands
  PROVE  DWInv' /\ SameCounts
<1> USE SameMode DEF DWInv
<1>1. Shape' /\ mode \in Modes
  BY DEF Shape
<1>2. /\ SameInPipes({"fPING", "fPONG"}) /\ SameInPipes({"wPING", "wPONG"})
      /\ SameInPipes({"wPING"})
  BY DEF SamePipes, SameInPipes, Counting
<1>3. SameInHands(FlushHands) /\ SameInHands({"wPING", "wPONG"})
  BY DEF SameHands, SameInHands, Followed
<1>4. NoNewEarly
  BY DEF SamePipes, SameHands, NoNewEarly
<1>5. Flush' /\ Earlier' /\ \A c \in Clients : Reported(c)' <=> Reported(c)
  BY <1>1, <1>2, <1>3, <1>4, FlushFrame
<1>6. Answers' = Answers /\ Round'
  BY <1>1, <1>2, <1>3, RoundFrame
<1>7. \A p \in Procs : nMsgsRecvd'[p] >= nMsgsRecvd[p]
  BY DEF Shape, CountShape
<1>8. Counts' /\ SameCounts
  BY <1>2, <1>5, <1>6, <1>7, CountsFrame
<1> QED
  BY <1>1, <1>5, <1>6, <1>8 DEF SamePipes

-----------------------------------------------------------------------------
(* The steps that are not part of a round or a flush *)

\* The send thread pops an item.
LEMMA KeepsSendThreadPop ==
  ASSUME DWInv, mode' = mode, NEW p \in Procs, SendThreadPop(p) PROVE DWInv' /\ SameCounts
<1> USE SameMode DEF DWInv
<1>0. Shape /\ mode \in Modes /\ AppShape /\ HandShape /\ CountShape
  BY DEF Shape
<1>1. AppShape'
  BY <1>0, SameShape DEF SendThreadPop, appVars, waitVars
<1>2. CountShape' /\ UNCHANGED <<barrier, flushCount, sync, nMsgsRecvd>>
  BY <1>0, SameShape DEF SendThreadPop, flushVars, ctxtVars, waitVars
<1>3. SamePipes /\ QueueShape' /\ ChanShape'
  <2>1. sendQueue[p] \in Seq(SUBSET Procs) /\ sendQueue[p] # <<>>
    BY DEF Shape, QueueShape, SendThreadPop, HasPending
  <2>2. Tail(sendQueue[p]) \in Seq(SUBSET Procs)
    BY <2>1
  <2>3. QueueShape'
    BY <2>2 DEF Shape, QueueShape, SendThreadPop
  <2> QED
    BY <1>0, <2>3, SameShape, QuietPush DEF SendThreadPop
<1>4. SameHands /\ HandShape'
  BY <1>0, SameShape, QuietHand DEF SendThreadPop
<1>5. /\ InRound' <=> InRound
      /\ InSync' <=> InSync
      /\ wpc'[Host] = "flush" <=> wpc[Host] = "flush"
      /\ \A c \in Clients : InWait(c)' <=> InWait(c)
  BY DEF SendThreadPop, waitVars, InRound, InSync, InWait
<1> QED
  BY <1>1, <1>2, <1>3, <1>4, <1>5, QuietStep

\* The send thread writes to the next receiver.
LEMMA KeepsSendThreadWrite ==
  ASSUME DWInv, mode' = mode, NEW p \in Procs, SendThreadWrite(p) PROVE DWInv' /\ SameCounts
<1> USE SameMode DEF DWInv
<1>0. Shape /\ mode \in Modes /\ AppShape /\ HandShape /\ CountShape
  BY DEF Shape
<1>1. AppShape'
  BY <1>0, SameShape DEF SendThreadWrite, appVars, waitVars
<1>2. CountShape' /\ UNCHANGED <<barrier, flushCount, sync, nMsgsRecvd>>
  BY <1>0, SameShape DEF SendThreadWrite, flushVars, ctxtVars, waitVars
<1>3. SamePipes /\ QueueShape' /\ ChanShape'
  BY <1>0, SameShape, QuietPush DEF SendThreadWrite
<1>4. SameHands /\ HandShape'
  BY <1>0, SameShape, QuietHand DEF SendThreadWrite
<1>5. /\ InRound' <=> InRound
      /\ InSync' <=> InSync
      /\ wpc'[Host] = "flush" <=> wpc[Host] = "flush"
      /\ \A c \in Clients : InWait(c)' <=> InWait(c)
  BY DEF SendThreadWrite, waitVars, InRound, InSync, InWait
<1> QED
  BY <1>1, <1>2, <1>3, <1>4, <1>5, QuietStep

\* main puts a tag.
LEMMA KeepsEnvPutsTag ==
  ASSUME DWInv, mode' = mode, NEW p \in Procs, EnvPutsTag(p) PROVE DWInv' /\ SameCounts
<1> USE SameMode DEF DWInv
<1>0. Shape /\ mode \in Modes /\ AppShape /\ HandShape /\ CountShape
  BY DEF Shape
<1>1. AppShape'
  <2>1. mode.work \in Nat
    BY <1>0, DistWaitConstants
  <2>2. budget' \in 0 .. mode.work
    BY <1>0, <2>1 DEF AppShape, Spend, EnvPutsTag, StartStep, appVars
  <2> QED
    BY <1>0, <2>2, ProcsFacts
       DEF EnvPutsTag, StartStep, appVars, waitVars, AppShape, WaitPhases, ClientMain, Phases,
         InFlightPhases, One
<1>2. CountShape' /\ UNCHANGED <<barrier, flushCount, sync, nMsgsRecvd>>
  BY <1>0, SameShape DEF EnvPutsTag, flushVars, ctxtVars, waitVars
<1>3. SamePipes /\ QueueShape' /\ ChanShape'
  <2>1. Message("app", 0) \in Msgs(Kinds) /\ ~Early(Message("app", 0))
        /\ Message("app", 0).k \notin Counting
    BY DEF Message, Msgs, Kinds, Early, Counting
  <2>2. ASSUME NEW q \in Procs \ {p}, Send(p, Message("app", 0), q)
        PROVE  SamePipes /\ QueueShape' /\ ChanShape'
    <3>1. \A r \in {q} : Message("app", 0) \in PipeMsgs(p, r)
      BY DEF PipeMsgs, Reports, Msgs, Kinds, Message
    <3>2. Push(p, Message("app", 0), {q}) /\ {q} \in SUBSET Procs
      BY <2>2 DEF Send
    <3> QED
      BY <2>1, <3>1, <3>2, QuietPush
  <2> QED
    BY <1>0, <2>2, SameShape, QuietPush DEF EnvPutsTag
<1>4. SameHands /\ HandShape'
  BY <1>0, SameShape, QuietHand DEF EnvPutsTag
<1>5. /\ InRound' <=> InRound
      /\ InSync' <=> InSync
      /\ wpc'[Host] = "flush" <=> wpc[Host] = "flush"
      /\ \A c \in Clients : InWait(c)' <=> InWait(c)
  BY DEF EnvPutsTag, waitVars, InRound, InSync, InWait
<1> QED
  BY <1>1, <1>2, <1>3, <1>4, <1>5, QuietStep

\* A step sends a message.
LEMMA KeepsStepSends ==
  ASSUME DWInv, mode' = mode, NEW p \in Procs, StepSends(p) PROVE DWInv' /\ SameCounts
<1> USE SameMode DEF DWInv
<1>0. Shape /\ mode \in Modes /\ AppShape /\ HandShape /\ CountShape
  BY DEF Shape
<1>1. AppShape'
  <2>1. mode.work \in Nat
    BY <1>0, DistWaitConstants
  <2>2. budget' \in 0 .. mode.work
    BY <1>0, <2>1 DEF AppShape, Spend, StepSends, appVars
  <2> QED
    BY <1>0, <2>2, ProcsFacts
       DEF StepSends, appVars, waitVars, AppShape, WaitPhases, ClientMain, Phases, InFlightPhases,
         One
<1>2. CountShape' /\ UNCHANGED <<barrier, flushCount, sync, nMsgsRecvd>>
  BY <1>0, SameShape DEF StepSends, flushVars, ctxtVars, waitVars
<1>3. SamePipes /\ QueueShape' /\ ChanShape'
  <2>1. Message("app", 0) \in Msgs(Kinds) /\ ~Early(Message("app", 0))
        /\ Message("app", 0).k \notin Counting
    BY DEF Message, Msgs, Kinds, Early, Counting
  <2>2. ASSUME NEW q \in Procs \ {p}, Send(p, Message("app", 0), q)
        PROVE  SamePipes /\ QueueShape' /\ ChanShape'
    <3>1. \A r \in {q} : Message("app", 0) \in PipeMsgs(p, r)
      BY DEF PipeMsgs, Reports, Msgs, Kinds, Message
    <3>2. Push(p, Message("app", 0), {q}) /\ {q} \in SUBSET Procs
      BY <2>2 DEF Send
    <3> QED
      BY <2>1, <3>1, <3>2, QuietPush
  <2> QED
    BY <1>0, <2>2, SameShape, QuietPush DEF StepSends
<1>4. SameHands /\ HandShape'
  BY <1>0, SameShape, QuietHand DEF StepSends
<1>5. /\ InRound' <=> InRound
      /\ InSync' <=> InSync
      /\ wpc'[Host] = "flush" <=> wpc[Host] = "flush"
      /\ \A c \in Clients : InWait(c)' <=> InWait(c)
  BY DEF StepSends, waitVars, InRound, InSync, InWait
<1> QED
  BY <1>1, <1>2, <1>3, <1>4, <1>5, QuietStep

\* A step ends.
LEMMA KeepsStepEnds ==
  ASSUME DWInv, mode' = mode, NEW p \in Procs, StepEnds(p) PROVE DWInv' /\ SameCounts
<1> USE SameMode DEF DWInv
<1>0. Shape /\ mode \in Modes /\ AppShape /\ HandShape /\ CountShape
  BY DEF Shape
<1>1. AppShape'
  BY <1>0, ProcsFacts
     DEF StepEnds, appVars, waitVars, AppShape, WaitPhases, ClientMain, Phases, InFlightPhases, One
<1>2. CountShape' /\ UNCHANGED <<barrier, flushCount, sync, nMsgsRecvd>>
  BY <1>0, SameShape DEF StepEnds, flushVars, ctxtVars, waitVars
<1>3. SamePipes /\ QueueShape' /\ ChanShape'
  BY <1>0, SameShape, QuietPush DEF StepEnds
<1>4. SameHands /\ HandShape'
  BY <1>0, SameShape, QuietHand DEF StepEnds
<1>5. /\ InRound' <=> InRound
      /\ InSync' <=> InSync
      /\ wpc'[Host] = "flush" <=> wpc[Host] = "flush"
      /\ \A c \in Clients : InWait(c)' <=> InWait(c)
  BY DEF StepEnds, waitVars, InRound, InSync, InWait
<1> QED
  BY <1>1, <1>2, <1>3, <1>4, <1>5, QuietStep

\* A collection handles a message.
LEMMA KeepsHandleApp ==
  ASSUME DWInv, mode' = mode, NEW p \in Procs, HandleApp(p) PROVE DWInv' /\ SameCounts
<1> USE SameMode DEF DWInv
<1>0. Shape /\ mode \in Modes /\ AppShape /\ HandShape /\ CountShape
  BY DEF Shape
<1>1. AppShape'
  <2>1. mode.work \in Nat
    BY <1>0, DistWaitConstants
  <2>2. budget' \in 0 .. mode.work
    BY <1>0, <2>1 DEF AppShape, Spend, HandleApp, appVars
  <2>3. UNCHANGED <<wpc, leaving, loop>>
    BY DEF HandleApp, waitVars
  <2>4. CASE StartStep(p)
    BY <1>0, <2>2, <2>3, <2>4, ProcsFacts DEF StartStep, AppShape, One
  <2>5. CASE UNCHANGED <<steps, inFlight>>
    BY <1>0, <2>2, <2>3, <2>5 DEF AppShape
  <2> QED
    BY <2>4, <2>5 DEF HandleApp, appVars
<1>2. CountShape' /\ UNCHANGED <<barrier, flushCount, sync, nMsgsRecvd>>
  BY <1>0, SameShape DEF HandleApp, flushVars, ctxtVars, waitVars
<1>3. SamePipes /\ QueueShape' /\ ChanShape'
  <2>1. Message("app", 0) \in Msgs(Kinds) /\ ~Early(Message("app", 0))
        /\ Message("app", 0).k \notin Counting
    BY DEF Message, Msgs, Kinds, Early, Counting
  <2>2. ASSUME NEW q \in Procs \ {p}, Send(p, Message("app", 0), q)
        PROVE  SamePipes /\ QueueShape' /\ ChanShape'
    <3>1. \A r \in {q} : Message("app", 0) \in PipeMsgs(p, r)
      BY DEF PipeMsgs, Reports, Msgs, Kinds, Message
    <3>2. Push(p, Message("app", 0), {q}) /\ {q} \in SUBSET Procs
      BY <2>2 DEF Send
    <3> QED
      BY <2>1, <3>1, <3>2, QuietPush
  <2> QED
    BY <1>0, <2>2, SameShape, QuietPush DEF HandleApp
<1>4. SameHands /\ HandShape'
  BY <1>0, QuietHand DEF HandleApp, Handles, Followed, FlushHands
<1>5. /\ InRound' <=> InRound
      /\ InSync' <=> InSync
      /\ wpc'[Host] = "flush" <=> wpc[Host] = "flush"
      /\ \A c \in Clients : InWait(c)' <=> InWait(c)
  BY DEF HandleApp, waitVars, InRound, InSync, InWait
<1> QED
  BY <1>1, <1>2, <1>3, <1>4, <1>5, QuietStep

\* The host clones the context.
LEMMA KeepsDistribute ==
  ASSUME DWInv, mode' = mode, Distribute PROVE DWInv' /\ SameCounts
<1> USE SameMode DEF DWInv
<1>0. Shape /\ mode \in Modes /\ AppShape /\ HandShape /\ CountShape
  BY DEF Shape
<1>1. AppShape'
  BY <1>0, ProcsFacts
     DEF Distribute, appVars, waitVars, AppShape, WaitPhases, ClientMain, Phases, InFlightPhases,
       One
<1>2. CountShape' /\ UNCHANGED <<barrier, flushCount, sync, nMsgsRecvd>>
  BY <1>0, SameShape DEF Distribute, flushVars, ctxtVars, waitVars
<1>3. SamePipes /\ QueueShape' /\ ChanShape'
  <2>1. Message("DIS_CTXT", 0) \in Msgs(Kinds) /\ ~Early(Message("DIS_CTXT", 0))
        /\ Message("DIS_CTXT", 0).k \notin Counting
    BY DEF Message, Msgs, Kinds, Early, Counting
  <2>2. \A q \in Procs \ {Host} : Message("DIS_CTXT", 0) \in PipeMsgs(Host, q)
    BY <1>0, ProcsFacts DEF PipeMsgs, Reports, Msgs, Kinds, Message
  <2>3. Push(Host, Message("DIS_CTXT", 0), Procs \ {Host}) /\ Procs \ {Host} \in SUBSET Procs
        /\ Host \in Procs
    BY <1>0, ProcsFacts DEF Distribute, Send, Bcast
  <2> QED
    BY <2>1, <2>2, <2>3, QuietPush
<1>4. SameHands /\ HandShape'
  BY <1>0, SameShape, QuietHand DEF Distribute
<1>5. /\ InRound' <=> InRound
      /\ InSync' <=> InSync
      /\ wpc'[Host] = "flush" <=> wpc[Host] = "flush"
      /\ \A c \in Clients : InWait(c)' <=> InWait(c)
  BY <1>0, ProcsFacts
     DEF Distribute, waitVars, InRound, InSync, InWait, AppShape, WaitPhases, ClientMain
<1> QED
  BY <1>1, <1>2, <1>3, <1>4, <1>5, QuietStep

\* A client creates its clone.
LEMMA KeepsHandleDistribute ==
  ASSUME DWInv, mode' = mode, NEW p \in Procs, HandleDistribute(p) PROVE DWInv' /\ SameCounts
<1> USE SameMode DEF DWInv
<1>0. Shape /\ mode \in Modes /\ AppShape /\ HandShape /\ CountShape
  BY DEF Shape
<1>h. p # Host
  BY <1>0 DEF HandleDistribute, Handles, HandShape, HandMsgs, Reports, Msgs
<1>1. AppShape'
  BY <1>0, SameShape DEF HandleDistribute, appVars, waitVars
<1>2. CountShape' /\ UNCHANGED <<barrier, flushCount, sync, nMsgsRecvd>>
  BY <1>0, ProcsFacts DEF HandleDistribute, CountShape, flushVars, ctxtVars, waitVars, NumProcs
<1>3. SamePipes /\ QueueShape' /\ ChanShape'
  <2>1. Message("READY", 0) \in Msgs(Kinds) /\ ~Early(Message("READY", 0))
        /\ Message("READY", 0).k \notin Counting
    BY DEF Message, Msgs, Kinds, Early, Counting
  <2>2. \A q \in {Host} : Message("READY", 0) \in PipeMsgs(p, q)
    BY <1>0, <1>h, ProcsFacts DEF PipeMsgs, Reports, Msgs, Kinds, Message
  <2>3. Push(p, Message("READY", 0), {Host}) /\ {Host} \in SUBSET Procs /\ p \in Procs
    BY <1>0, <1>h, ProcsFacts DEF HandleDistribute, Send, Bcast
  <2> QED
    BY <2>1, <2>2, <2>3, QuietPush
<1>4. SameHands /\ HandShape'
  BY <1>0, QuietHand DEF HandleDistribute, Handles, Followed, FlushHands
<1>5. /\ InRound' <=> InRound
      /\ InSync' <=> InSync
      /\ wpc'[Host] = "flush" <=> wpc[Host] = "flush"
      /\ \A c \in Clients : InWait(c)' <=> InWait(c)
  BY DEF HandleDistribute, waitVars, InRound, InSync, InWait
<1> QED
  BY <1>1, <1>2, <1>3, <1>4, <1>5, QuietStep

\* The host counts a clone.
LEMMA KeepsHandleReady ==
  ASSUME DWInv, mode' = mode, HandleReady PROVE DWInv' /\ SameCounts
<1> USE SameMode DEF DWInv
<1>0. Shape /\ mode \in Modes /\ AppShape /\ HandShape /\ CountShape
  BY DEF Shape
<1>1. AppShape'
  BY <1>0, SameShape DEF HandleReady, appVars, waitVars
<1>2. CountShape' /\ UNCHANGED <<barrier, flushCount, sync, nMsgsRecvd>>
  BY <1>0, ProcsFacts DEF HandleReady, CountShape, flushVars, ctxtVars, waitVars, NumProcs
<1>3. SamePipes /\ QueueShape' /\ ChanShape'
  BY <1>0, SameShape, QuietPush DEF HandleReady
<1>4. SameHands /\ HandShape'
  BY <1>0, QuietHand, ProcsFacts DEF HandleReady, Handles, Followed, FlushHands
<1>5. /\ InRound' <=> InRound
      /\ InSync' <=> InSync
      /\ wpc'[Host] = "flush" <=> wpc[Host] = "flush"
      /\ \A c \in Clients : InWait(c)' <=> InWait(c)
  BY DEF HandleReady, waitVars, InRound, InSync, InWait
<1> QED
  BY <1>1, <1>2, <1>3, <1>4, <1>5, QuietStep

\* All clones are there.
LEMMA KeepsFiniDistReady ==
  ASSUME DWInv, mode' = mode, FiniDistReady PROVE DWInv' /\ SameCounts
<1> USE SameMode DEF DWInv
<1>0. Shape /\ mode \in Modes /\ AppShape /\ HandShape /\ CountShape
  BY DEF Shape
<1>1. AppShape'
  BY <1>0, ProcsFacts
     DEF FiniDistReady, appVars, waitVars, AppShape, WaitPhases, ClientMain, Phases,
       InFlightPhases, One
<1>2. CountShape' /\ UNCHANGED <<barrier, flushCount, sync, nMsgsRecvd>>
  BY <1>0, ProcsFacts
     DEF FiniDistReady, AllReady, CountShape, flushVars, ctxtVars, waitVars, NumProcs
<1>3. SamePipes /\ QueueShape' /\ ChanShape'
  BY <1>0, SameShape, QuietPush DEF FiniDistReady
<1>4. SameHands /\ HandShape'
  BY <1>0, SameShape, QuietHand DEF FiniDistReady
<1>5. /\ InRound' <=> InRound
      /\ InSync' <=> InSync
      /\ wpc'[Host] = "flush" <=> wpc[Host] = "flush"
      /\ \A c \in Clients : InWait(c)' <=> InWait(c)
  BY <1>0, ProcsFacts
     DEF FiniDistReady, waitVars, InRound, InSync, InWait, AppShape, WaitPhases, ClientMain
<1> QED
  BY <1>1, <1>2, <1>3, <1>4, <1>5, QuietStep

\* The host deletes the clones.
LEMMA KeepsUndistribute ==
  ASSUME DWInv, mode' = mode, Undistribute PROVE DWInv' /\ SameCounts
<1> USE SameMode DEF DWInv
<1>0. Shape /\ mode \in Modes /\ AppShape /\ HandShape /\ CountShape
  BY DEF Shape
<1>1. AppShape'
  BY <1>0, ProcsFacts
     DEF Undistribute, appVars, waitVars, AppShape, WaitPhases, ClientMain, Phases, InFlightPhases,
       One
<1>2. CountShape' /\ UNCHANGED <<barrier, flushCount, sync, nMsgsRecvd>>
  BY <1>0, ProcsFacts DEF Undistribute, CountShape, flushVars, ctxtVars, waitVars, NumProcs
<1>3. SamePipes /\ QueueShape' /\ ChanShape'
  <2>1. Message("UN_CTXT", 0) \in Msgs(Kinds) /\ ~Early(Message("UN_CTXT", 0))
        /\ Message("UN_CTXT", 0).k \notin Counting
    BY DEF Message, Msgs, Kinds, Early, Counting
  <2>2. \A q \in Procs \ {Host} : Message("UN_CTXT", 0) \in PipeMsgs(Host, q)
    BY <1>0, ProcsFacts DEF PipeMsgs, Reports, Msgs, Kinds, Message
  <2>3. Push(Host, Message("UN_CTXT", 0), Procs \ {Host}) /\ Procs \ {Host} \in SUBSET Procs
        /\ Host \in Procs
    BY <1>0, ProcsFacts DEF Undistribute, Send, Bcast
  <2> QED
    BY <2>1, <2>2, <2>3, QuietPush
<1>4. SameHands /\ HandShape'
  BY <1>0, SameShape, QuietHand DEF Undistribute
<1>5. /\ InRound' <=> InRound
      /\ InSync' <=> InSync
      /\ wpc'[Host] = "flush" <=> wpc[Host] = "flush"
      /\ \A c \in Clients : InWait(c)' <=> InWait(c)
  BY <1>0, ProcsFacts
     DEF Undistribute, waitVars, InRound, InSync, InWait, AppShape, WaitPhases, ClientMain
<1> QED
  BY <1>1, <1>2, <1>3, <1>4, <1>5, QuietStep

\* A client deletes its clone.
LEMMA KeepsHandleUndistribute ==
  ASSUME DWInv, mode' = mode, NEW p \in Procs, HandleUndistribute(p) PROVE DWInv' /\ SameCounts
<1> USE SameMode DEF DWInv
<1>0. Shape /\ mode \in Modes /\ AppShape /\ HandShape /\ CountShape
  BY DEF Shape
<1>1. AppShape'
  BY <1>0, SameShape DEF HandleUndistribute, appVars, waitVars
<1>2. CountShape' /\ UNCHANGED <<barrier, flushCount, sync, nMsgsRecvd>>
  BY <1>0, ProcsFacts DEF HandleUndistribute, CountShape, flushVars, ctxtVars, waitVars, NumProcs
<1>3. SamePipes /\ QueueShape' /\ ChanShape'
  BY <1>0, SameShape, QuietPush DEF HandleUndistribute
<1>4. SameHands /\ HandShape'
  BY <1>0, QuietHand DEF HandleUndistribute, Handles, Followed, FlushHands
<1>5. /\ InRound' <=> InRound
      /\ InSync' <=> InSync
      /\ wpc'[Host] = "flush" <=> wpc[Host] = "flush"
      /\ \A c \in Clients : InWait(c)' <=> InWait(c)
  BY DEF HandleUndistribute, waitVars, InRound, InSync, InWait
<1> QED
  BY <1>1, <1>2, <1>3, <1>4, <1>5, QuietStep

\* main calls wait.
LEMMA KeepsEnvWaits ==
  ASSUME DWInv, mode' = mode, NEW p \in Procs, EnvWaits(p) PROVE DWInv' /\ SameCounts
<1> USE SameMode DEF DWInv
<1>0. Shape /\ mode \in Modes /\ AppShape /\ HandShape /\ CountShape
  BY DEF Shape
<1>1. AppShape'
  BY <1>0, ProcsFacts
     DEF EnvWaits, appVars, waitVars, AppShape, WaitPhases, ClientMain, Phases, InFlightPhases, One
<1>2. CountShape' /\ UNCHANGED <<barrier, flushCount, sync, nMsgsRecvd>>
  BY <1>0, SameShape DEF EnvWaits, flushVars, ctxtVars, waitVars
<1>3. SamePipes /\ QueueShape' /\ ChanShape'
  BY <1>0, SameShape, QuietPush DEF EnvWaits
<1>4. SameHands /\ HandShape'
  BY <1>0, SameShape, QuietHand DEF EnvWaits
<1>5. /\ InRound' <=> InRound
      /\ InSync' <=> InSync
      /\ wpc'[Host] = "flush" <=> wpc[Host] = "flush"
      /\ \A c \in Clients : InWait(c)' <=> InWait(c)
  BY <1>0, ProcsFacts
     DEF EnvWaits, waitVars, InRound, InSync, InWait, AppShape, WaitPhases, ClientMain
<1> QED
  BY <1>1, <1>2, <1>3, <1>4, <1>5, QuietStep

\* The waiter of a client starts.
LEMMA KeepsWaiterStarts ==
  ASSUME DWInv, mode' = mode, NEW p \in Procs, WaiterStarts(p) PROVE DWInv' /\ SameCounts
<1> USE SameMode DEF DWInv
<1>0. Shape /\ mode \in Modes /\ AppShape /\ HandShape /\ CountShape
  BY DEF Shape
<1>1. AppShape'
  BY <1>0, ProcsFacts
     DEF WaiterStarts, appVars, waitVars, AppShape, WaitPhases, ClientMain, Phases, InFlightPhases,
       One
<1>2. CountShape' /\ UNCHANGED <<barrier, flushCount, sync, nMsgsRecvd>>
  BY <1>0, SameShape DEF WaiterStarts, flushVars, ctxtVars, waitVars
<1>3. SamePipes /\ QueueShape' /\ ChanShape'
  BY <1>0, SameShape, QuietPush DEF WaiterStarts
<1>4. SameHands /\ HandShape'
  BY <1>0, SameShape, QuietHand DEF WaiterStarts
<1>5. /\ InRound' <=> InRound
      /\ InSync' <=> InSync
      /\ wpc'[Host] = "flush" <=> wpc[Host] = "flush"
      /\ \A c \in Clients : InWait(c)' <=> InWait(c)
  BY <1>0, ProcsFacts
     DEF WaiterStarts, waitVars, InRound, InSync, InWait, AppShape, WaitPhases, ClientMain
<1> QED
  BY <1>1, <1>2, <1>3, <1>4, <1>5, QuietStep

\* wait_all returns.
LEMMA KeepsWaitAll ==
  ASSUME DWInv, mode' = mode, NEW p \in Procs, WaitAll(p) PROVE DWInv' /\ SameCounts
<1> USE SameMode DEF DWInv
<1>0. Shape /\ mode \in Modes /\ AppShape /\ HandShape /\ CountShape
  BY DEF Shape
<1>1. AppShape'
  BY <1>0, ProcsFacts
     DEF WaitAll, appVars, waitVars, AppShape, WaitPhases, ClientMain, Phases, InFlightPhases, One
<1>2. CountShape' /\ UNCHANGED <<barrier, flushCount, sync, nMsgsRecvd>>
  BY <1>0, SameShape DEF WaitAll, flushVars, ctxtVars, waitVars
<1>3. SamePipes /\ QueueShape' /\ ChanShape'
  BY <1>0, SameShape, QuietPush DEF WaitAll
<1>4. SameHands /\ HandShape'
  BY <1>0, SameShape, QuietHand DEF WaitAll
<1>5. /\ InRound' <=> InRound
      /\ InSync' <=> InSync
      /\ wpc'[Host] = "flush" <=> wpc[Host] = "flush"
      /\ \A c \in Clients : InWait(c)' <=> InWait(c)
  BY <1>0, ProcsFacts
     DEF WaitAll, waitVars, InRound, InSync, InWait, AppShape, WaitPhases, ClientMain
<1> QED
  BY <1>1, <1>2, <1>3, <1>4, <1>5, QuietStep

\* The waiter looks for pending messages.
LEMMA KeepsCheckPending ==
  ASSUME DWInv, mode' = mode, NEW p \in Procs, CheckPending(p) PROVE DWInv' /\ SameCounts
<1> USE SameMode DEF DWInv
<1>0. Shape /\ mode \in Modes /\ AppShape /\ HandShape /\ CountShape
  BY DEF Shape
<1>1. AppShape'
  BY <1>0, ProcsFacts
     DEF CheckPending, appVars, waitVars, AppShape, WaitPhases, ClientMain, Phases, InFlightPhases,
       One
<1>2. CountShape' /\ UNCHANGED <<barrier, flushCount, sync, nMsgsRecvd>>
  BY <1>0, SameShape DEF CheckPending, flushVars, ctxtVars, waitVars
<1>3. SamePipes /\ QueueShape' /\ ChanShape'
  BY <1>0, SameShape, QuietPush DEF CheckPending
<1>4. SameHands /\ HandShape'
  BY <1>0, SameShape, QuietHand DEF CheckPending
<1>5. /\ InRound' <=> InRound
      /\ InSync' <=> InSync
      /\ wpc'[Host] = "flush" <=> wpc[Host] = "flush"
      /\ \A c \in Clients : InWait(c)' <=> InWait(c)
  BY <1>0, ProcsFacts
     DEF CheckPending, waitVars, InRound, InSync, InWait, AppShape, WaitPhases, ClientMain
<1> QED
  BY <1>1, <1>2, <1>3, <1>4, <1>5, QuietStep

\* The waiter of a client returns.
LEMMA KeepsWaiterReturns ==
  ASSUME DWInv, mode' = mode, NEW p \in Procs, WaiterReturns(p) PROVE DWInv' /\ SameCounts
<1> USE SameMode DEF DWInv
<1>0. Shape /\ mode \in Modes /\ AppShape /\ HandShape /\ CountShape
  BY DEF Shape
<1>1. AppShape'
  BY <1>0, ProcsFacts
     DEF WaiterReturns, appVars, waitVars, AppShape, WaitPhases, ClientMain, Phases,
       InFlightPhases, One
<1>2. CountShape' /\ UNCHANGED <<barrier, flushCount, sync, nMsgsRecvd>>
  BY <1>0, SameShape DEF WaiterReturns, flushVars, ctxtVars, waitVars
<1>3. SamePipes /\ QueueShape' /\ ChanShape'
  BY <1>0, SameShape, QuietPush DEF WaiterReturns
<1>4. SameHands /\ HandShape'
  BY <1>0, SameShape, QuietHand DEF WaiterReturns
<1>5. /\ InRound' <=> InRound
      /\ InSync' <=> InSync
      /\ wpc'[Host] = "flush" <=> wpc[Host] = "flush"
      /\ \A c \in Clients : InWait(c)' <=> InWait(c)
  BY DEF WaiterReturns, waitVars, InRound, InSync, InWait
<1> QED
  BY <1>1, <1>2, <1>3, <1>4, <1>5, QuietStep

\* The host says DONE.
LEMMA KeepsBcastDone ==
  ASSUME DWInv, mode' = mode, BcastDone PROVE DWInv' /\ SameCounts
<1> USE SameMode DEF DWInv
<1>0. Shape /\ mode \in Modes /\ AppShape /\ HandShape /\ CountShape
  BY DEF Shape
<1>1. AppShape'
  BY <1>0, ProcsFacts
     DEF BcastDone, appVars, waitVars, AppShape, WaitPhases, ClientMain, Phases, InFlightPhases, One
<1>2. CountShape' /\ UNCHANGED <<barrier, flushCount, sync, nMsgsRecvd>>
  BY <1>0, SameShape DEF BcastDone, flushVars, ctxtVars, waitVars
<1>3. SamePipes /\ QueueShape' /\ ChanShape'
  <2>1. CASE DistEnv
    <3>1. Message("DONE", 0) \in Msgs(Kinds) /\ ~Early(Message("DONE", 0))
          /\ Message("DONE", 0).k \notin Counting
      BY DEF Message, Msgs, Kinds, Early, Counting
    <3>2. \A q \in Procs \ {Host} : Message("DONE", 0) \in PipeMsgs(Host, q)
      BY <1>0, <2>1, ProcsFacts DEF PipeMsgs, Reports, Msgs, Kinds, Message
    <3>3. Push(Host, Message("DONE", 0), Procs \ {Host}) /\ Procs \ {Host} \in SUBSET Procs
          /\ Host \in Procs
      BY <1>0, <2>1, ProcsFacts DEF BcastDone, Send, Bcast
    <3> QED
      BY <3>1, <3>2, <3>3, QuietPush
  <2>2. CASE ~(DistEnv)
    BY <1>0, <2>2, SameShape, QuietPush DEF BcastDone
  <2> QED
    BY <2>1, <2>2
<1>4. SameHands /\ HandShape'
  BY <1>0, SameShape, QuietHand DEF BcastDone
<1>5. /\ InRound' <=> InRound
      /\ InSync' <=> InSync
      /\ wpc'[Host] = "flush" <=> wpc[Host] = "flush"
      /\ \A c \in Clients : InWait(c)' <=> InWait(c)
  BY <1>0, ProcsFacts
     DEF BcastDone, waitVars, InRound, InSync, InWait, AppShape, WaitPhases, ClientMain
<1> QED
  BY <1>1, <1>2, <1>3, <1>4, <1>5, QuietStep

\* wait_loop returns.
LEMMA KeepsLeaveWaitLoop ==
  ASSUME DWInv, mode' = mode, NEW p \in Procs, LeaveWaitLoop(p) PROVE DWInv' /\ SameCounts
<1> USE SameMode DEF DWInv
<1>0. Shape /\ mode \in Modes /\ AppShape /\ HandShape /\ CountShape
  BY DEF Shape
<1>1. AppShape'
  BY <1>0, ProcsFacts
     DEF LeaveWaitLoop, appVars, waitVars, AppShape, WaitPhases, ClientMain, Phases,
       InFlightPhases, One
<1>2. CountShape' /\ UNCHANGED <<barrier, flushCount, sync, nMsgsRecvd>>
  BY <1>0, SameShape DEF LeaveWaitLoop, flushVars, ctxtVars, waitVars
<1>3. SamePipes /\ QueueShape' /\ ChanShape'
  BY <1>0, SameShape, QuietPush DEF LeaveWaitLoop
<1>4. SameHands /\ HandShape'
  BY <1>0, SameShape, QuietHand DEF LeaveWaitLoop
<1>5. /\ InRound' <=> InRound
      /\ InSync' <=> InSync
      /\ wpc'[Host] = "flush" <=> wpc[Host] = "flush"
      /\ \A c \in Clients : InWait(c)' <=> InWait(c)
  BY <1>0, ProcsFacts
     DEF LeaveWaitLoop, waitVars, InRound, InSync, InWait, AppShape, WaitPhases, ClientMain
<1> QED
  BY <1>1, <1>2, <1>3, <1>4, <1>5, QuietStep

\* context_base::wait cleans up and waits again.
LEMMA KeepsCleanup ==
  ASSUME DWInv, mode' = mode, NEW p \in Procs, Cleanup(p) PROVE DWInv' /\ SameCounts
<1> USE SameMode DEF DWInv
<1>0. Shape /\ mode \in Modes /\ AppShape /\ HandShape /\ CountShape
  BY DEF Shape
<1>1. AppShape'
  BY <1>0, ProcsFacts
     DEF Cleanup, appVars, waitVars, AppShape, WaitPhases, ClientMain, Phases, InFlightPhases, One
<1>2. CountShape' /\ UNCHANGED <<barrier, flushCount, sync, nMsgsRecvd>>
  BY <1>0, SameShape DEF Cleanup, flushVars, ctxtVars, waitVars
<1>3. SamePipes /\ QueueShape' /\ ChanShape'
  <2>1. CASE p = Host
    <3>1. Message("CLEANUP", 0) \in Msgs(Kinds) /\ ~Early(Message("CLEANUP", 0))
          /\ Message("CLEANUP", 0).k \notin Counting
      BY DEF Message, Msgs, Kinds, Early, Counting
    <3>2. \A q \in Procs \ {Host} : Message("CLEANUP", 0) \in PipeMsgs(Host, q)
      BY <1>0, <2>1, ProcsFacts DEF PipeMsgs, Reports, Msgs, Kinds, Message
    <3>3. Push(Host, Message("CLEANUP", 0), Procs \ {Host}) /\ Procs \ {Host} \in SUBSET Procs
          /\ Host \in Procs
      BY <1>0, <2>1, ProcsFacts DEF Cleanup, Send, Bcast
    <3> QED
      BY <3>1, <3>2, <3>3, QuietPush
  <2>2. CASE ~(p = Host)
    BY <1>0, <2>2, SameShape, QuietPush DEF Cleanup
  <2> QED
    BY <2>1, <2>2
<1>4. SameHands /\ HandShape'
  BY <1>0, SameShape, QuietHand DEF Cleanup
<1>5. /\ InRound' <=> InRound
      /\ InSync' <=> InSync
      /\ wpc'[Host] = "flush" <=> wpc[Host] = "flush"
      /\ \A c \in Clients : InWait(c)' <=> InWait(c)
  BY <1>0, ProcsFacts
     DEF Cleanup, waitVars, InRound, InSync, InWait, AppShape, WaitPhases, ClientMain
<1> QED
  BY <1>1, <1>2, <1>3, <1>4, <1>5, QuietStep

\* A client starts its cleanup.
LEMMA KeepsHandleCleanup ==
  ASSUME DWInv, mode' = mode, NEW p \in Procs, HandleCleanup(p) PROVE DWInv' /\ SameCounts
<1> USE SameMode DEF DWInv
<1>0. Shape /\ mode \in Modes /\ AppShape /\ HandShape /\ CountShape
  BY DEF Shape
<1>1. AppShape'
  BY <1>0, ProcsFacts
     DEF HandleCleanup, StartStep, appVars, waitVars, AppShape, WaitPhases, ClientMain, Phases,
       InFlightPhases, One
<1>2. CountShape' /\ UNCHANGED <<barrier, flushCount, sync, nMsgsRecvd>>
  BY <1>0, SameShape DEF HandleCleanup, flushVars, ctxtVars, waitVars
<1>3. SamePipes /\ QueueShape' /\ ChanShape'
  BY <1>0, SameShape, QuietPush DEF HandleCleanup
<1>4. SameHands /\ HandShape'
  BY <1>0, QuietHand DEF HandleCleanup, Handles, Followed, FlushHands
<1>5. /\ InRound' <=> InRound
      /\ InSync' <=> InSync
      /\ wpc'[Host] = "flush" <=> wpc[Host] = "flush"
      /\ \A c \in Clients : InWait(c)' <=> InWait(c)
  BY DEF HandleCleanup, waitVars, InRound, InSync, InWait
<1> QED
  BY <1>1, <1>2, <1>3, <1>4, <1>5, QuietStep

-----------------------------------------------------------------------------
(* The steps of a round of wait_loop *)

\* A barrier that gets a sign behind its others.
LEMMA BarrierAppend ==
  ASSUME NEW b \in Seq({0, 1}), NEW x \in {0, 1}
  PROVE  /\ Append(b, x) \in Seq({0, 1}) /\ Len(Append(b, x)) = Len(b) + 1 /\ Len(b) \in Nat
         /\ Zero(Append(b, x)) <=> Zero(b) \/ x = 0
         /\ OneZero(b) /\ (x = 0 => ~Zero(b)) => OneZero(Append(b, x))
<1> DEFINE t == Append(b, x)
<1>1. /\ Len(b) \in Nat /\ Len(t) = Len(b) + 1 /\ t \in Seq({0, 1})
      /\ DOMAIN b = 1 .. Len(b) /\ DOMAIN t = 1 .. Len(b) + 1
      /\ \A n \in 1 .. Len(b) : t[n] = b[n]
      /\ t[Len(b) + 1] = x
  OBVIOUS
<1> HIDE DEF t
<1>2. Zero(t) <=> Zero(b) \/ x = 0
  BY <1>1 DEF Zero
<1>3. OneZero(b) /\ (x = 0 => ~Zero(b)) => OneZero(t)
  BY <1>1 DEF OneZero, Zero
<1> QED
  BY <1>1, <1>2, <1>3 DEF t

\* A barrier whose first sign is taken.
LEMMA BarrierTail ==
  ASSUME NEW b \in Seq({0, 1}), b # <<>>
  PROVE  /\ Tail(b) \in Seq({0, 1}) /\ Head(b) \in {0, 1}
         /\ Zero(b) <=> Zero(Tail(b)) \/ Head(b) = 0
         /\ OneZero(b) => OneZero(Tail(b)) /\ (Head(b) = 0 => ~Zero(Tail(b)))
<1> DEFINE t == Tail(b)
           h == Head(b)
<1>1. /\ Len(b) \in Nat /\ Len(b) >= 1 /\ t \in Seq({0, 1}) /\ h \in {0, 1}
      /\ DOMAIN b = 1 .. Len(b) /\ DOMAIN t = 1 .. Len(b) - 1
      /\ \A n \in 1 .. Len(b) - 1 : t[n] = b[n + 1]
      /\ b[1] = h
  OBVIOUS
<1>2. \A n \in 2 .. Len(b) : n - 1 \in 1 .. Len(b) - 1 /\ t[n - 1] = b[n]
  BY <1>1
<1> HIDE DEF t, h
<1>3. Zero(b) <=> Zero(t) \/ h = 0
  <2>1. ASSUME Zero(b), h # 0 PROVE Zero(t)
    <3>1. PICK n \in DOMAIN b : b[n] = 0
      BY <2>1 DEF Zero
    <3>2. n \in 2 .. Len(b)
      BY <1>1, <2>1, <3>1
    <3> QED
      BY <1>1, <1>2, <3>1, <3>2 DEF Zero
  <2>2. ASSUME Zero(t) PROVE Zero(b)
    <3>1. PICK n \in DOMAIN t : t[n] = 0
      BY <2>2 DEF Zero
    <3>2. n + 1 \in DOMAIN b /\ b[n + 1] = 0
      BY <1>1, <3>1
    <3> QED
      BY <3>2 DEF Zero
  <2>3. h = 0 => Zero(b)
    BY <1>1 DEF Zero
  <2> QED
    BY <2>1, <2>2, <2>3
<1>4. ASSUME OneZero(b) PROVE OneZero(t)
  <2> SUFFICES ASSUME NEW i \in DOMAIN t, NEW j \in DOMAIN t, t[i] = 0, t[j] = 0 PROVE i = j
    BY DEF OneZero
  <2>1. i + 1 \in DOMAIN b /\ j + 1 \in DOMAIN b /\ b[i + 1] = 0 /\ b[j + 1] = 0
    BY <1>1
  <2>2. i + 1 = j + 1
    BY <1>4, <2>1 DEF OneZero
  <2> QED
    BY <1>1, <2>2
<1>5. ASSUME OneZero(b), h = 0, Zero(t) PROVE FALSE
  <2>1. PICK n \in DOMAIN t : t[n] = 0
    BY <1>5 DEF Zero
  <2>2. n + 1 \in DOMAIN b /\ 1 \in DOMAIN b /\ b[n + 1] = 0 /\ b[1] = 0 /\ n + 1 # 1
    BY <1>1, <1>5, <2>1
  <2> QED
    BY <1>5, <2>2 DEF OneZero
<1> QED
  BY <1>1, <1>3, <1>4, <1>5 DEF t, h

\* A step with which no client answers, and the host's barrier follows its hand.
LEMMA RoundSame ==
  ASSUME mode \in Modes, mode' = mode, Round, InRound' <=> InRound,
         \A c \in Clients : OnePlace(c)', \A c \in Clients : Ponged(c)' <=> Ponged(c),
         InRound => Len(barrier'[Host]) + One(hand'[Host].k = "wPONG")
                      = Len(barrier[Host]) + One(hand[Host].k = "wPONG"),
         ~InRound => barrier'[Host] = <<>> /\ hand'[Host].k # "wPONG"
  PROVE  Round' /\ Answers' = Answers
<1> USE SameMode
<1>1. Answers' = Answers
  BY DEF Answers
<1> QED
  BY <1>1 DEF Round, Host

\* Somebody is on his way only in a round.
LEMMA OutsideRound ==
  ASSUME Round, NEW c \in Clients, PingOut(c) \/ InWait(c) \/ PongOut(c)
  PROVE  InRound /\ ~Ponged(c) /\ c \notin Answers
BY DEF Round, Ponged, Answers

\* The number of answers is a number.
LEMMA AnswersFinite ==
  ASSUME mode \in Modes
  PROVE  /\ Answers \subseteq Clients /\ IsFiniteSet(Answers) /\ Cardinality(Answers) \in Nat
         /\ Cardinality(Answers) <= NumProcs - 1
         /\ Cardinality(Answers) = NumProcs - 1 => Answers = Clients
<1>1. Answers \subseteq Clients
  BY DEF Answers
<1> QED
  BY <1>1, ProcsFacts, FS_Subset, FS_CardinalityType

\* The parts of the flush when a step is one of the round.
LEMMA RoundStep ==
  ASSUME DWInv, mode' = mode, AppShape', CountShape', QueueShape', ChanShape', HandShape',
         InSync' <=> InSync, UNCHANGED <<flushCount, sync, nMsgsRecvd>>,
         Pipes', SameInPipes({"fPING", "fPONG"}), SameInHands(FlushHands), NoNewEarly
  PROVE  /\ Shape' /\ Flush' /\ Earlier'
         /\ \A c \in Clients : Reported(c)' <=> Reported(c)
         /\ Round' /\ Counts' => DWInv'
<1> USE SameMode DEF DWInv
<1>1. Shape' /\ mode \in Modes
  BY DEF Shape
<1>2. Flush' /\ Earlier' /\ \A c \in Clients : Reported(c)' <=> Reported(c)
  BY <1>1, FlushFrame
<1> QED
  BY <1>1, <1>2

\* A push of a message of a round or of a flush, into pipes that hold none of its kind.
LEMMA PushCounted ==
  ASSUME Shape, Pipes, mode' = mode, NEW p \in Procs, NEW S \in SUBSET Procs,
         NEW kind \in Counting, NEW i \in Nat, Push(p, Message(kind, i), S),
         \A q \in S : Message(kind, i) \in PipeMsgs(p, q) /\ ~Has(chan[p][q], kind)
  PROVE  /\ QueueShape' /\ ChanShape' /\ Pipes'
         /\ \A r, q \in Procs : \A k : Has(chan'[r][q], k) <=>
                Has(chan[r][q], k) \/ (r = p /\ q \in S /\ k = kind)
         /\ \A r, q \in Procs : HasEarly(chan'[r][q]) <=> HasEarly(chan[r][q])
<1> DEFINE m == Message(kind, i)
<1>1. m \in Msgs(Kinds) /\ ~Early(m) /\ m.k = kind
  BY DEF Message, Msgs, Kinds, Early, Counting
<1>2. Push(p, m, S) /\ \A q \in S : m \in PipeMsgs(p, q)
  OBVIOUS
<1> HIDE DEF m
<1>3. QueueShape' /\ ChanShape'
  BY <1>1, <1>2, PushFacts
<1>4. \A q \in S : ~Has(chan[p][q], m.k)
  BY <1>1
<1>5. /\ Pipes'
      /\ \A r, q \in Procs : \A k : Has(chan'[r][q], k) <=>
              Has(chan[r][q], k) \/ (r = p /\ q \in S /\ m.k = k)
      /\ \A r, q \in Procs : HasEarly(chan'[r][q]) <=> HasEarly(chan[r][q])
  BY <1>1, <1>2, <1>4, PushHas
<1> QED
  BY <1>1, <1>3, <1>5

\* init_wait
LEMMA KeepsInitWait ==
  ASSUME DWInv, mode' = mode, NEW p \in Procs, InitWait(p) PROVE DWInv'
<1> USE SameMode DEF DWInv
<1>0. Shape /\ mode \in Modes /\ AppShape /\ HandShape /\ CountShape
  BY DEF Shape
<1>1. AppShape'
  BY <1>0, ProcsFacts DEF InitWait, appVars, waitVars, AppShape, WaitPhases, ClientMain, Phases,
     InFlightPhases, One
<1>2. CountShape' /\ UNCHANGED <<barrier, flushCount, sync, nMsgsRecvd>>
  BY <1>0, SameShape DEF InitWait, flushVars, ctxtVars, waitVars
<1>3. SameHands /\ HandShape' /\ hand' = hand
  BY <1>0, SameShape, QuietHand DEF InitWait
<1>4. CASE p # Host
  <2>1. SamePipes /\ QueueShape' /\ ChanShape'
    BY <1>0, <1>4, SameShape, QuietPush DEF InitWait
  <2>2. /\ InRound' <=> InRound
        /\ InSync' <=> InSync
        /\ wpc'[Host] = "flush" <=> wpc[Host] = "flush"
        /\ \A c \in Clients : InWait(c)' <=> InWait(c)
    BY <1>0, <1>4, ProcsFacts DEF InitWait, waitVars, InRound, InSync, InWait, AppShape, WaitPhases,
       ClientMain
  <2> QED
    BY <1>1, <1>2, <1>3, <2>1, <2>2, QuietStep
<1>5. CASE p = Host
  <2>2. /\ Host \in Procs /\ Clients \in SUBSET Procs /\ "wPING" \in Counting
        /\ Push(Host, Message("wPING", 0), Clients)
    BY <1>0, <1>5, ProcsFacts DEF InitWait, Bcast, Clients, Counting
  <2>3. \A q \in Clients : Message("wPING", 0) \in PipeMsgs(Host, q)
    BY <1>0, ProcsFacts DEF PipeMsgs, Msgs, Kinds, Message
  <2>4. ~InRound /\ InRound' /\ ~InSync /\ ~InSync' /\ wpc'[Host] # "flush"
    BY <1>0, <1>5, ProcsFacts DEF InitWait, InRound, InSync, AppShape
  <2>5. \A c \in Clients : ~PingOut(c) /\ ~InWait(c) /\ ~PongOut(c)
    BY <2>4 DEF Round, Answers, Ponged
  <2>6. \A c \in Clients : ~Has(chan[Host][c], "wPING") /\ hand[c].k # "wPING"
                           /\ ~Has(chan[c][Host], "wPONG")
    BY <2>5 DEF PingOut, PongOut
  <2>8. /\ QueueShape' /\ ChanShape' /\ Pipes'
        /\ \A r, q \in Procs : \A k : Has(chan'[r][q], k) <=>
                Has(chan[r][q], k) \/ (r = Host /\ q \in Clients /\ k = "wPING")
        /\ \A r, q \in Procs : HasEarly(chan'[r][q]) <=> HasEarly(chan[r][q])
    BY <1>0, <2>2, <2>3, <2>6, PushCounted
  <2>9. SameInPipes({"fPING", "fPONG"}) /\ SameInHands(FlushHands) /\ NoNewEarly
    BY <1>3, <2>8 DEF SameInPipes, SameInHands, NoNewEarly
  <2>10. Round' /\ Counts' => DWInv'
    BY <1>1, <1>2, <1>3, <2>4, <2>8, <2>9, RoundStep
  <2>11. \A c \in Clients : Has(chan'[Host][c], "wPING") /\ ~Has(chan'[c][Host], "wPONG")
    BY <1>0, <2>6, <2>8, ProcsFacts
  <2>12. \A c \in Clients : InWait(c)' <=> InWait(c)
    BY <1>0, <1>2, <1>5, ProcsFacts DEF InitWait, InWait, AppShape
  <2>13. \A c \in Clients : OnePlace(c)' /\ ~Ponged(c)'
    <3> TAKE c \in Clients
    <3>1. PingOut(c)' /\ ~PongOut(c)' /\ ~InWait(c)'
      BY <2>5, <2>11, <2>12 DEF PingOut, PongOut
    <3>2. OnePlace(c)
      BY DEF Round
    <3> QED
      BY <1>2, <1>3, <2>6, <3>1, <3>2 DEF OnePlace, Ponged
  <2>14. Answers' = {}
    BY <2>13 DEF Answers
  <2>15. Len(barrier'[Host]) = 0 /\ hand'[Host].k # "wPONG"
    BY <1>2, <1>3, <2>4 DEF Round
  <2>16. Cardinality(Answers') = 0
    BY <2>14, FS_EmptySet
  <2>17. Round'
    BY <2>4, <2>13, <2>15, <2>16 DEF Round, One
  <2>18. nMsgsRecvd'[Host] \in Nat
    BY <1>0, <1>2, ProcsFacts DEF CountShape
  <2>19. \A c \in Clients : ~PingCounted(c)'
    BY <2>4, <2>11 DEF PingCounted
  <2>20. Counts'
    BY <2>4, <2>16, <2>18, <2>19 DEF Counts
  <2> QED
    BY <2>10, <2>17, <2>20
<1> QED
  BY <1>4, <1>5

\* A client that has waited sends its PONG.
LEMMA ClientAnswers ==
  ASSUME DWInv, mode' = mode, NEW p \in Clients, InWait(p), ~InWait(p)',
         \A c \in Clients \ {p} : InWait(c)' <=> InWait(c),
         \A c \in Clients : DistEnv => OneZero(barrier'[c]),
         barrier'[Host] = barrier[Host], wpc'[Host] = wpc[Host], hand' = hand,
         UNCHANGED <<flushCount, sync, nMsgsRecvd>>, AppShape', CountShape',
         Send(p, Message("wPONG", 0), Host)
  PROVE  DWInv' /\ SameCounts
<1> USE SameMode DEF DWInv
<1>0. Shape /\ mode \in Modes /\ CountShape
  BY DEF Shape
<1>1. /\ p \in Procs /\ p # Host /\ {Host} \in SUBSET Procs /\ "wPONG" \in Counting
         /\ Host \in Procs
      /\ Push(p, Message("wPONG", 0), {Host})
  BY <1>0, ProcsFacts DEF Send, Counting
<1>2. OnePlace(p) /\ InRound /\ ~PongOut(p) /\ ~PingOut(p) /\ ~Ponged(p)
  BY OutsideRound DEF Round, OnePlace
<1>3. \A q \in {Host} : Message("wPONG", 0) \in PipeMsgs(p, q) /\ ~Has(chan[p][q], "wPONG")
  BY <1>1, <1>2 DEF PipeMsgs, Reports, Msgs, Message, PongOut
<1>4. /\ QueueShape' /\ ChanShape' /\ Pipes'
      /\ \A r, q \in Procs : \A k : Has(chan'[r][q], k) <=>
              Has(chan[r][q], k) \/ (r = p /\ q \in {Host} /\ k = "wPONG")
      /\ \A r, q \in Procs : HasEarly(chan'[r][q]) <=> HasEarly(chan[r][q])
  BY <1>0, <1>1, <1>3, PushCounted
<1>5. SameInPipes({"fPING", "fPONG"}) /\ SameInPipes({"wPING"}) /\ SameInHands(FlushHands)
      /\ NoNewEarly
  BY <1>4 DEF SameInPipes, SameInHands, NoNewEarly
<1>6. /\ InSync' <=> InSync
      /\ InRound' <=> InRound
      /\ wpc'[Host] = "flush" <=> wpc[Host] = "flush"
  BY DEF InSync, InRound
<1>7. /\ \A c \in Clients : Reported(c)' <=> Reported(c)
      /\ Round' /\ Counts' => DWInv'
  <2>1. HandShape'
    BY <1>0, SameShape
  <2> QED
    BY <1>4, <1>5, <1>6, <2>1, RoundStep
<1>8. \A c \in Clients : OnePlace(c)' /\ (Ponged(c)' <=> Ponged(c))
  <2> TAKE c \in Clients
  <2>1. OnePlace(c) /\ c \in Procs
    BY <1>0, ProcsFacts DEF Round
  <2>2. PingOut(c)' <=> PingOut(c)
    BY <1>1, <1>4, <2>1 DEF PingOut
  <2>3. Has(chan'[Host][c], "wPING") <=> Has(chan[Host][c], "wPING")
    BY <1>1, <1>4, <2>1
  <2>4. CASE c = p
    <3>1. PongOut(c)'
      BY <1>1, <1>4, <2>4 DEF PongOut
    <3> QED
      BY <1>2, <2>1, <2>2, <2>3, <2>4, <3>1 DEF OnePlace, Ponged
  <2>5. CASE c # p
    <3>1. PongOut(c)' <=> PongOut(c)
      BY <1>1, <1>4, <2>1, <2>5 DEF PongOut
    <3>2. InWait(c)' <=> InWait(c)
      BY <2>5
    <3> QED
      BY <2>1, <2>2, <2>3, <3>1, <3>2 DEF OnePlace, Ponged
  <2> QED
    BY <2>4, <2>5
<1>9. Round' /\ Answers' = Answers
  BY <1>0, <1>2, <1>6, <1>8, RoundSame DEF Host
<1>10. \A q \in Procs : nMsgsRecvd'[q] >= nMsgsRecvd[q]
  BY <1>0 DEF CountShape
<1>11. Counts' /\ SameCounts
  BY <1>0, <1>5, <1>6, <1>7, <1>9, <1>10, CountsFrame
<1> QED
  BY <1>7, <1>9, <1>11

\* fini_wait of a client that has no environment
LEMMA KeepsFiniWaitClient ==
  ASSUME DWInv, mode' = mode, NEW p \in Procs, FiniWaitClient(p) PROVE DWInv' /\ SameCounts
<1> USE SameMode DEF DWInv
<1>0. Shape /\ mode \in Modes /\ AppShape /\ HandShape /\ CountShape
  BY DEF Shape
<1>1. p \in Clients /\ p # Host /\ ~DistEnv /\ Host \in Procs
  BY <1>0, ProcsFacts DEF FiniWaitClient
<1>2. AppShape'
  BY <1>0, <1>1 DEF FiniWaitClient, appVars, waitVars, AppShape, WaitPhases, ClientMain, Phases,
     InFlightPhases, One
<1>3. CountShape' /\ UNCHANGED <<barrier, flushCount, sync, nMsgsRecvd>> /\ hand' = hand
  BY <1>0, SameShape DEF FiniWaitClient, flushVars, ctxtVars
<1>4. InWait(p) /\ ~InWait(p)' /\ wpc'[Host] = wpc[Host]
  BY <1>0, <1>1 DEF FiniWaitClient, InWait, AppShape
<1>5. \A c \in Clients \ {p} : InWait(c)' <=> InWait(c)
  BY <1>0, <1>1, ProcsFacts DEF FiniWaitClient, InWait, AppShape
<1>6. Send(p, Message("wPONG", 0), Host)
  BY DEF FiniWaitClient
<1> QED
  BY <1>1, <1>2, <1>3, <1>4, <1>5, <1>6, ClientAnswers

\* fini_wait of a client with an environment
LEMMA KeepsFiniWaitDistEnv ==
  ASSUME DWInv, mode' = mode, NEW p \in Procs, FiniWaitDistEnv(p) PROVE DWInv' /\ SameCounts
<1> USE SameMode DEF DWInv
<1>0. Shape /\ mode \in Modes /\ AppShape /\ HandShape /\ CountShape
  BY DEF Shape
<1>1. p \in Clients /\ p # Host /\ DistEnv /\ Host \in Procs /\ Clients \subseteq Procs
  BY <1>0, ProcsFacts DEF FiniWaitDistEnv
<1>2. AppShape'
  BY <1>0, <1>1 DEF FiniWaitDistEnv, appVars, AppShape, WaitPhases, ClientMain, Phases,
     InFlightPhases, One
<1> DEFINE b == barrier[p]
<1>3. /\ b \in Seq({0, 1}) /\ b # <<>> /\ barrier' = [barrier EXCEPT ![p] = Tail(b)]
      /\ barrier \in [Procs -> Seq({0, 1})] /\ OneZero(b)
  BY <1>0, <1>1 DEF FiniWaitDistEnv, CountShape, Round, OnePlace
<1>4. /\ Tail(b) \in Seq({0, 1}) /\ Head(b) \in {0, 1} /\ OneZero(Tail(b))
      /\ Zero(b) <=> Zero(Tail(b)) \/ Head(b) = 0
      /\ Head(b) = 0 => ~Zero(Tail(b))
  BY <1>3, BarrierTail
<1>5. /\ barrier'[p] = Tail(b) /\ barrier'[Host] = barrier[Host]
      /\ \A c \in Clients \ {p} : barrier'[c] = barrier[c]
      /\ barrier' \in [Procs -> Seq({0, 1})]
  BY <1>1, <1>3, <1>4
<1>6. CountShape' /\ UNCHANGED <<flushCount, sync, nMsgsRecvd>> /\ hand' = hand
  BY <1>0, <1>5 DEF FiniWaitDistEnv, flushVars, ctxtVars, CountShape, Host
<1>7. \A c \in Clients : OneZero(barrier'[c])
  BY <1>1, <1>4, <1>5 DEF Round, OnePlace
<1>8. \A c \in Clients \ {p} : InWait(c)' <=> InWait(c)
  BY <1>1, <1>5 DEF InWait
<1>9. /\ InWait(p) <=> Zero(b)
      /\ InWait(p)' <=> Zero(Tail(b))
      /\ wpc'[Host] = wpc[Host]
  BY <1>0, <1>1, <1>5 DEF InWait, FiniWaitDistEnv, AppShape
<1>10. SaysDone(Head(b)) <=> Head(b) = 1
  BY DEF SaysDone
<1> HIDE DEF b
<1>11. CASE Head(b) = 0
  <2>1. Send(p, Message("wPONG", 0), Host)
    BY <1>10, <1>11 DEF FiniWaitDistEnv, b
  <2>2. InWait(p) /\ ~InWait(p)'
    BY <1>4, <1>9, <1>11
  <2> QED
    BY <1>1, <1>2, <1>5, <1>6, <1>7, <1>8, <1>9, <2>1, <2>2, ClientAnswers
<1>12. CASE Head(b) = 1
  <2>1. UNCHANGED <<sendQueue, chan>>
    BY <1>10, <1>12 DEF FiniWaitDistEnv, b
  <2>2. QueueShape' /\ ChanShape' /\ HandShape' /\ SamePipes /\ SameHands
    BY <1>0, <1>6, <2>1, SameShape, QuietPush, QuietHand
  <2>3. \A c \in Clients : InWait(c)' <=> InWait(c)
    BY <1>4, <1>8, <1>9, <1>12
  <2>4. SameInPipes({"fPING", "fPONG"}) /\ SameInPipes({"wPING"}) /\ SameInHands(FlushHands)
        /\ NoNewEarly /\ Pipes'
    BY <2>2 DEF SamePipes, SameHands, SameInPipes, SameInHands, NoNewEarly, Counting, Followed
  <2>5. /\ InSync' <=> InSync
        /\ InRound' <=> InRound
        /\ wpc'[Host] = "flush" <=> wpc[Host] = "flush"
    BY <1>9 DEF InSync, InRound
  <2>6. /\ \A c \in Clients : Reported(c)' <=> Reported(c)
        /\ Round' /\ Counts' => DWInv'
    BY <1>2, <1>6, <2>2, <2>4, <2>5, RoundStep
  <2>7. \A c \in Clients : OnePlace(c)' /\ (Ponged(c)' <=> Ponged(c))
    BY <1>6, <1>7, <2>1, <2>3 DEF Round, OnePlace, Ponged, PingOut, PongOut
  <2>8. Round' /\ Answers' = Answers
    BY <1>0, <1>5, <1>6, <2>5, <2>7, RoundSame DEF Round
  <2>9. \A q \in Procs : nMsgsRecvd'[q] >= nMsgsRecvd[q]
    BY <1>0, <1>6 DEF CountShape
  <2>10. Counts' /\ SameCounts
    BY <1>0, <1>6, <2>4, <2>5, <2>6, <2>8, <2>9, CountsFrame
  <2> QED
    BY <2>6, <2>8, <2>10
<1> QED
  BY <1>4, <1>11, <1>12

\* fini_wait of the host: every client has answered.
LEMMA KeepsFiniWaitHost ==
  ASSUME DWInv, mode' = mode, FiniWaitHost PROVE DWInv'
<1> USE SameMode DEF DWInv
<1>0. Shape /\ mode \in Modes /\ AppShape /\ HandShape /\ CountShape
  BY DEF Shape
<1>1. /\ Host \in Procs /\ NumProcs \in Nat /\ NumProcs >= 2
      /\ Clients \subseteq Procs /\ Host \notin Clients
  BY <1>0, ProcsFacts
<1>2. AppShape' /\ wpc[Host] = "fini" /\ wpc'[Host] = "flush"
  BY <1>0, <1>1, ProcsFacts DEF FiniWaitHost, appVars, AppShape, WaitPhases, ClientMain, Phases,
     InFlightPhases, One
<1> DEFINE b == barrier[Host]
<1>3. b \in Seq({0, 1}) /\ Len(b) \in Nat /\ Len(b) >= NumProcs - 1
      /\ barrier' = [barrier EXCEPT ![Host] = SubSeq(b, NumProcs, Len(b))]
  BY <1>0, <1>1 DEF FiniWaitHost, ClientsReported, CountShape
<1>4. InRound /\ ~InRound' /\ ~InSync /\ ~InSync'
  BY <1>2 DEF InRound, InSync
<1>5. Len(b) = NumProcs - 1 /\ Answers = Clients /\ hand[Host].k # "wPONG"
  <2>1. Len(b) + One(hand[Host].k = "wPONG") = Cardinality(Answers)
    BY <1>4 DEF Round
  <2>2. Cardinality(Answers) \in Nat /\ Cardinality(Answers) <= NumProcs - 1
        /\ (Cardinality(Answers) = NumProcs - 1 => Answers = Clients)
    BY <1>0, AnswersFinite
  <2> HIDE DEF b
  <2> QED
    BY <1>1, <1>3, <2>1, <2>2 DEF One
<1>6. SubSeq(b, NumProcs, Len(b)) = <<>>
  BY <1>1, <1>3, <1>5
<1>7. /\ barrier' \in [Procs -> Seq({0, 1})] /\ barrier'[Host] = <<>>
      /\ \A c \in Clients : barrier'[c] = barrier[c]
  BY <1>0, <1>1, <1>3, <1>6 DEF CountShape
<1>8. CountShape' /\ UNCHANGED <<flushCount, sync, nMsgsRecvd>>
      /\ UNCHANGED <<chan, sendQueue, hand>>
  BY <1>0, <1>7 DEF FiniWaitHost, flushVars, ctxtVars, CountShape, Host
<1>9. QueueShape' /\ ChanShape' /\ HandShape' /\ SamePipes /\ SameHands
  BY <1>0, <1>8, SameShape, QuietPush, QuietHand
<1>10. SameInPipes({"fPING", "fPONG"}) /\ SameInHands(FlushHands) /\ NoNewEarly /\ Pipes'
  BY <1>9 DEF SamePipes, SameHands, SameInPipes, SameInHands, NoNewEarly, Counting, Followed
<1>11. Round' /\ Counts' => DWInv'
  BY <1>2, <1>4, <1>8, <1>9, <1>10, RoundStep
<1>12. \A c \in Clients : InWait(c)' <=> InWait(c)
  BY <1>0, <1>1, <1>7 DEF FiniWaitHost, InWait, AppShape, Host
<1>13. \A c \in Clients : OnePlace(c)' /\ (Ponged(c)' <=> Ponged(c))
  BY <1>7, <1>8, <1>12 DEF Round, OnePlace, Ponged, PingOut, PongOut
<1>14. Answers' = Answers
  BY <1>13 DEF Answers
<1>15. Round'
  BY <1>4, <1>5, <1>7, <1>8, <1>13, <1>14 DEF Round, Host
<1>16. \A c \in Clients : PingCounted(c)
  BY <1>4, <1>5 DEF Answers, Ponged, PingOut, PingCounted
<1>17. nMsgsRecvd[Host] >= NumProcs - 1
  BY <1>0, <1>4, <1>5, ProcsFacts DEF Counts
<1>18. Counts'
  BY <1>2, <1>4, <1>8, <1>16, <1>17 DEF Counts, Host
<1> QED
  BY <1>11, <1>15, <1>18

\* The hands after a handler returned: the others are untouched.
LEMMA Returned ==
  ASSUME Shape, mode' = mode, NEW p \in Procs, HandlerReturns(p)
  PROVE  hand'[p].k = "none" /\ ~Early(hand'[p]) /\ \A r \in Procs \ {p} : hand'[r] = hand[r]
BY DEF HandlerReturns, None, Message, Early, Shape, HandShape

\* scheduler_i::recv_msg, PING
LEMMA KeepsHandleWaitPing ==
  ASSUME DWInv, mode' = mode, NEW p \in Procs, HandleWaitPing(p) PROVE DWInv' /\ SameCounts
<1> USE SameMode DEF DWInv
<1>0. Shape /\ mode \in Modes /\ AppShape /\ HandShape /\ CountShape
  BY DEF Shape
<1>1. p # Host /\ hand[p].k = "wPING"
  BY <1>0 DEF HandleWaitPing, Handles, HandShape, HandMsgs, Reports, Msgs
<1>2. p \in Clients /\ Host \in Procs /\ Clients \subseteq Procs
  BY <1>0, <1>1, ProcsFacts
<1>3. /\ OnePlace(p) /\ PingOut(p) /\ InRound /\ ~InWait(p) /\ ~PongOut(p)
      /\ ~Has(chan[Host][p], "wPING")
  BY <1>1, <1>2, OutsideRound DEF PingOut, Round, OnePlace
<1>4. AppShape' /\ wpc'[Host] = wpc[Host]
  <2>1. UNCHANGED <<steps, budget, leaving, loop, inFlight>>
    BY DEF HandleWaitPing, appVars
  <2>2. CASE DistEnv
    BY <1>0, <2>1, <2>2, SameShape DEF HandleWaitPing
  <2>3. CASE ~DistEnv
    <3>1. wpc[p] = "none" /\ wpc' = [wpc EXCEPT ![p] = "spawned"]
      BY <1>3, <2>3 DEF InWait, HandleWaitPing
    <3>2. "spawned" \in WaitPhases(p) /\ "spawned" \in Phases
      BY <1>1, <2>3 DEF WaitPhases, Phases
    <3> QED
      BY <1>0, <1>1, <1>2, <2>1, <3>1, <3>2 DEF AppShape, InFlightPhases
  <2> QED
    BY <2>2, <2>3
<1>5. /\ barrier' \in [Procs -> Seq({0, 1})] /\ barrier'[Host] = barrier[Host]
      /\ \A c \in Clients \ {p} : barrier'[c] = barrier[c]
      /\ DistEnv => OneZero(barrier'[p]) /\ Zero(barrier'[p])
  <2>1. CASE DistEnv
    <3> DEFINE b == barrier[p]
    <3>1. b \in Seq({0, 1}) /\ OneZero(b) /\ ~Zero(b)
      BY <1>0, <1>3, <2>1 DEF CountShape, OnePlace, InWait
    <3>2. barrier' = [barrier EXCEPT ![p] = Append(b, 0)]
      BY <2>1 DEF HandleWaitPing
    <3> HIDE DEF b
    <3>3. Append(b, 0) \in Seq({0, 1}) /\ OneZero(Append(b, 0)) /\ Zero(Append(b, 0))
      BY <3>1, BarrierAppend
    <3> QED
      BY <1>0, <1>1, <1>2, <3>2, <3>3 DEF CountShape
  <2>2. CASE ~DistEnv
    BY <1>0, <2>2 DEF HandleWaitPing, CountShape
  <2> QED
    BY <2>1, <2>2
<1>6. CountShape' /\ UNCHANGED <<flushCount, sync, nMsgsRecvd>> /\ UNCHANGED <<chan, sendQueue>>
  BY <1>0, <1>5 DEF HandleWaitPing, flushVars, ctxtVars, CountShape, Host
<1>7. /\ hand'[p].k = "none" /\ ~Early(hand'[p]) /\ \A r \in Procs \ {p} : hand'[r] = hand[r]
      /\ HandShape'
  BY <1>0, Returned, QuietHand DEF HandleWaitPing
<1>8. QueueShape' /\ ChanShape' /\ SamePipes
  BY <1>0, <1>6, SameShape, QuietPush
<1>9. SameInPipes({"fPING", "fPONG"}) /\ SameInPipes({"wPING"}) /\ SameInHands(FlushHands)
      /\ NoNewEarly /\ Pipes'
  BY <1>1, <1>7, <1>8 DEF SamePipes, SameInPipes, SameInHands, NoNewEarly, Counting, FlushHands
<1>10. /\ InSync' <=> InSync
       /\ InRound' <=> InRound
       /\ wpc'[Host] = "flush" <=> wpc[Host] = "flush"
  BY <1>4 DEF InSync, InRound
<1>11. /\ \A c \in Clients : Reported(c)' <=> Reported(c)
       /\ Round' /\ Counts' => DWInv'
  BY <1>4, <1>6, <1>7, <1>8, <1>9, <1>10, RoundStep
<1>12. InWait(p)' /\ \A c \in Clients \ {p} : InWait(c)' <=> InWait(c)
  BY SMTT(20), <1>0, <1>2, <1>5 DEF HandleWaitPing, InWait, AppShape
<1>13. \A c \in Clients : OnePlace(c)' /\ (Ponged(c)' <=> Ponged(c))
  <2> TAKE c \in Clients
  <2>1. OnePlace(c) /\ c \in Procs
    BY <1>2 DEF Round
  <2>2. CASE c = p
    <3>1. ~PingOut(c)' /\ ~PongOut(c)' /\ InWait(c)' /\ ~Ponged(c)
      BY <1>3, <1>6, <1>7, <1>12, <2>2 DEF PingOut, PongOut, Ponged
    <3> QED
      BY <1>5, <1>7, <2>2, <3>1 DEF OnePlace, Ponged
  <2>3. CASE c # p
    BY <1>5, <1>6, <1>7, <1>12, <2>1, <2>3 DEF OnePlace, Ponged, PingOut, PongOut
  <2> QED
    BY <2>2, <2>3
<1>14. hand'[Host] = hand[Host]
  BY <1>1, <1>2, <1>7
<1>15. Round' /\ Answers' = Answers
  BY <1>0, <1>3, <1>5, <1>10, <1>13, <1>14, RoundSame
<1>16. \A q \in Procs : nMsgsRecvd'[q] >= nMsgsRecvd[q]
  BY <1>0, <1>6 DEF CountShape
<1>17. Counts' /\ SameCounts
  BY <1>0, <1>6, <1>9, <1>10, <1>11, <1>15, <1>16, CountsFrame
<1> QED
  BY <1>11, <1>15, <1>17

\* scheduler_i::recv_msg, PONG and DONE
LEMMA KeepsHandleWaitPong ==
  ASSUME DWInv, mode' = mode, NEW p \in Procs, HandleWaitPong(p) PROVE DWInv' /\ SameCounts
<1> USE SameMode DEF DWInv
<1>0. Shape /\ mode \in Modes /\ AppShape /\ HandShape /\ CountShape
  BY DEF Shape
<1>1. Host \in Procs /\ Clients \subseteq Procs /\ Host \notin Clients
  BY <1>0, ProcsFacts
<1>2. hand[p].k = IF p = Host THEN "wPONG" ELSE "DONE"
  <2>1. hand[p] \in HandMsgs(p) /\ (hand[p].k = "wPONG" \/ hand[p].k = "DONE")
    BY <1>0 DEF HandleWaitPong, Handles, HandShape
  <2>2. CASE p = Host
    BY <2>1, <2>2 DEF HandMsgs, Reports, Msgs
  <2>3. CASE p # Host
    BY <2>1, <2>3 DEF HandMsgs, Msgs, Handler, Kinds
  <2> QED
    BY <2>2, <2>3
<1>3. AppShape' /\ wpc' = wpc
  BY <1>0, SameShape DEF HandleWaitPong, appVars, AppShape
<1> DEFINE b == barrier[p]
<1>4. b \in Seq({0, 1}) /\ barrier' = [barrier EXCEPT ![p] = Append(b, 1)]
  BY <1>0 DEF HandleWaitPong, CountShape
<1>5. /\ Append(b, 1) \in Seq({0, 1}) /\ Len(Append(b, 1)) = Len(b) + 1 /\ Len(b) \in Nat
      /\ Zero(Append(b, 1)) <=> Zero(b)
      /\ OneZero(b) => OneZero(Append(b, 1))
  BY <1>4, BarrierAppend
<1>6. /\ barrier' \in [Procs -> Seq({0, 1})] /\ barrier'[p] = Append(b, 1)
      /\ \A q \in Procs \ {p} : barrier'[q] = barrier[q]
  BY <1>0, <1>4, <1>5 DEF CountShape
<1>7. CountShape' /\ UNCHANGED <<flushCount, sync, nMsgsRecvd>> /\ UNCHANGED <<chan, sendQueue>>
  BY <1>0, <1>6 DEF HandleWaitPong, flushVars, ctxtVars, CountShape, Host
<1>8. /\ hand'[p].k = "none" /\ ~Early(hand'[p]) /\ \A r \in Procs \ {p} : hand'[r] = hand[r]
      /\ HandShape'
  BY <1>0, Returned, QuietHand DEF HandleWaitPong
<1>9. QueueShape' /\ ChanShape' /\ SamePipes
  BY <1>0, <1>7, SameShape, QuietPush
<1>10. SameInPipes({"fPING", "fPONG"}) /\ SameInPipes({"wPING"}) /\ SameInHands(FlushHands)
       /\ NoNewEarly /\ Pipes'
  BY <1>2, <1>8, <1>9 DEF SamePipes, SameInPipes, SameInHands, NoNewEarly, Counting, FlushHands
<1>11. /\ InSync' <=> InSync
       /\ InRound' <=> InRound
       /\ wpc'[Host] = "flush" <=> wpc[Host] = "flush"
  BY <1>3 DEF InSync, InRound
<1>12. /\ \A c \in Clients : Reported(c)' <=> Reported(c)
       /\ Round' /\ Counts' => DWInv'
  BY <1>3, <1>7, <1>8, <1>9, <1>10, <1>11, RoundStep
<1>13. \A c \in Clients : /\ InWait(c)' <=> InWait(c)
                          /\ DistEnv => OneZero(barrier'[c])
  <2> TAKE c \in Clients
  <2> HIDE DEF b
  <2>1. DistEnv => OneZero(barrier[c])
    BY DEF Round, OnePlace
  <2>2. CASE c = p
    <3>1. barrier[c] = b /\ barrier'[c] = Append(b, 1)
      BY <1>6, <2>2 DEF b
    <3> QED
      BY <1>3, <1>5, <2>1, <3>1 DEF InWait
  <2>3. CASE c # p
    BY <1>1, <1>3, <1>6, <2>1, <2>3 DEF InWait
  <2> QED
    BY <2>2, <2>3
<1>14. \A c \in Clients : hand'[c].k = "wPING" <=> hand[c].k = "wPING"
  BY <1>1, <1>2, <1>8
<1>15. \A c \in Clients : OnePlace(c)' /\ (Ponged(c)' <=> Ponged(c))
  BY <1>7, <1>13, <1>14 DEF Round, OnePlace, Ponged, PingOut, PongOut
<1>16. CASE p = Host
  <2>1. InRound /\ hand[Host].k = "wPONG" /\ hand'[Host].k # "wPONG"
    BY <1>2, <1>8, <1>16 DEF Round
  <2>2. Len(barrier'[Host]) = Len(barrier[Host]) + 1 /\ Len(barrier[Host]) \in Nat
    BY <1>5, <1>6, <1>16
  <2>3. Len(barrier'[Host]) + One(hand'[Host].k = "wPONG")
          = Len(barrier[Host]) + One(hand[Host].k = "wPONG")
    BY <2>1, <2>2 DEF One
  <2> QED
    <3>1. Round' /\ Answers' = Answers
      BY <1>0, <1>11, <1>15, <2>1, <2>3, RoundSame
    <3>2. \A q \in Procs : nMsgsRecvd'[q] >= nMsgsRecvd[q]
      BY <1>0, <1>7 DEF CountShape
    <3>3. Counts' /\ SameCounts
      BY <1>0, <1>7, <1>10, <1>11, <1>12, <3>1, <3>2, CountsFrame
    <3> QED
      BY <1>12, <3>1, <3>3
<1>17. CASE p # Host
  <2>1. barrier'[Host] = barrier[Host] /\ hand'[Host] = hand[Host]
    BY <1>1, <1>6, <1>8, <1>17
  <2>2. Round' /\ Answers' = Answers
    BY <1>0, <1>11, <1>15, <2>1, RoundSame DEF Round
  <2>3. \A q \in Procs : nMsgsRecvd'[q] >= nMsgsRecvd[q]
    BY <1>0, <1>7 DEF CountShape
  <2>4. Counts' /\ SameCounts
    BY <1>0, <1>7, <1>10, <1>11, <1>12, <2>2, <2>3, CountsFrame
  <2> QED
    BY <1>12, <2>2, <2>4
<1> QED
  BY <1>16, <1>17

-----------------------------------------------------------------------------
(* The steps of the flush *)

\* The number of clients in a set of clients.
LEMMA SomeClients ==
  ASSUME mode \in Modes, NEW G \in SUBSET Clients
  PROVE  /\ IsFiniteSet(G) /\ Cardinality(G) \in Nat /\ Cardinality(G) <= NumProcs - 1
         /\ Cardinality(G) = NumProcs - 1 => G = Clients
         /\ Cardinality(G) = 0 <=> G = {}
<1>1. IsFiniteSet(Clients) /\ Cardinality(Clients) = NumProcs - 1 /\ NumProcs \in Nat
  BY ProcsFacts
<1>2. IsFiniteSet(G) /\ Cardinality(G) \in Nat /\ Cardinality(G) <= NumProcs - 1
  BY <1>1, FS_Subset, FS_CardinalityType
<1>3. Cardinality(G) = NumProcs - 1 => G = Clients
  BY <1>1, FS_Subset
<1>4. Cardinality(G) = 0 <=> G = {}
  BY <1>2, FS_EmptySet
<1> QED
  BY <1>2, <1>3, <1>4

\* One client more.
LEMMA OneClientMore ==
  ASSUME mode \in Modes, NEW G \in SUBSET Clients, NEW c \in Clients \ G
  PROVE  /\ Cardinality(G \cup {c}) = Cardinality(G) + 1
         /\ Cardinality(G) <= NumProcs - 2
         /\ Cardinality(G) = NumProcs - 2 => G = Clients \ {c}
<1>1. IsFiniteSet(Clients) /\ Cardinality(Clients) = NumProcs - 1 /\ NumProcs \in Nat
  BY ProcsFacts
<1>2. IsFiniteSet(G)
  BY SomeClients
<1>3. Cardinality(G \cup {c}) = Cardinality(G) + 1
  BY <1>2, FS_AddElement
<1>4. IsFiniteSet(Clients \ {c}) /\ Cardinality(Clients \ {c}) = NumProcs - 2
  BY <1>1, FS_RemoveElement
<1>5. G \subseteq Clients \ {c}
  OBVIOUS
<1>6. Cardinality(G) <= Cardinality(Clients \ {c})
      /\ (Cardinality(G) = Cardinality(Clients \ {c}) => G = Clients \ {c})
  BY <1>4, <1>5, FS_Subset
<1> QED
  BY <1>3, <1>4, <1>6

\* How many PONGs a client may have got.
LEMMA GotFinite ==
  ASSUME mode \in Modes, NEW c \in Clients
  PROVE  /\ Cardinality(Got(c)) \in Nat /\ Cardinality(Got(c)) <= NumProcs - 2
         /\ Cardinality(Got(c)) = NumProcs - 2 => Got(c) = Clients \ {c}
         /\ Cardinality(Got(c)) = 0 <=> Got(c) = {}
<1>1. Got(c) \in SUBSET Clients /\ c \in Clients \ Got(c)
  BY DEF Got
<1>2. Cardinality(Got(c)) \in Nat /\ (Cardinality(Got(c)) = 0 <=> Got(c) = {})
  BY <1>1, SomeClients
<1>3. /\ Cardinality(Got(c)) <= NumProcs - 2
      /\ Cardinality(Got(c)) = NumProcs - 2 => Got(c) = Clients \ {c}
  BY <1>1, OneClientMore
<1> QED
  BY <1>2, <1>3

\* A flush step leaves the round alone.
LEMMA FlushStep ==
  ASSUME DWInv, mode' = mode, UNCHANGED <<barrier, loop>>,
         InRound' <=> InRound,
         \A c \in Clients : wpc'[c] = wpc[c],
         SameInPipes({"wPING", "wPONG"}), SameInHands({"wPING", "wPONG"})
  PROVE  /\ Answers' = Answers /\ Round'
         /\ \A c \in Clients : InWait(c)' <=> InWait(c)
<1> USE SameMode DEF DWInv
<1>1. \A c \in Clients : InWait(c)' <=> InWait(c)
  BY DEF InWait
<1>2. mode \in Modes
  BY DEF Shape
<1> QED
  BY <1>1, <1>2, RoundFrame

\* A client that does not report to the host with this step goes on with its flush.
LEMMA FlushClient ==
  ASSUME DWInv, mode' = mode, Shape', Pipes', NEW p \in Clients, InSync, wpc' = wpc,
         UNCHANGED <<barrier, loop, sync>>,
         SameInPipes({"wPING", "wPONG"}), SameInPipes({"fPING"}), SameInHands({"wPING", "wPONG"}),
         \A c \in Procs \ {p} : hand'[c] = hand[c],
         \A c \in Clients \ {p} : flushCount'[c] = flushCount[c],
         NoNewEarly,
         \A c \in Clients : Has(chan'[c][Host], "fPONG") <=> Has(chan[c][Host], "fPONG"),
         \A c \in Clients : \A d \in Clients \ {c} :
            /\ Flushed(c)' /\ ~Has(chan'[c][d], "fPONG") <=> Flushed(c) /\ ~Has(chan[c][d], "fPONG")
            /\ Has(chan'[c][d], "fPONG") => Flushed(c)',
         ~Reported(p), ~Reported(p)', FlushAt(p)',
         \A q \in Procs : nMsgsRecvd'[q] >= nMsgsRecvd[q]
  PROVE  DWInv' /\ SameCounts
<1> USE SameMode DEF DWInv
<1>0. /\ mode \in Modes /\ CountShape'
      /\ Host \in Procs /\ Host \notin Clients /\ Clients \subseteq Procs
  BY ProcsFacts DEF Shape
<1>1. InSync' /\ (InRound' <=> InRound) /\ (wpc'[Host] = "flush" <=> wpc[Host] = "flush")
  BY DEF InSync, InRound
<1>2. \A c \in Clients : Has(chan'[Host][c], "fPING") <=> Has(chan[Host][c], "fPING")
  BY <1>0 DEF SameInPipes
<1>3. \A c \in Clients \ {p} : Flushed(c)' <=> Flushed(c)
  BY <1>0, <1>1, <1>2 DEF Flushed
<1>4. \A c \in Clients : Got(c)' = Got(c)
  BY DEF Got
<1>5. \A c \in Clients : Reported(c)' <=> Reported(c)
  <2> TAKE c \in Clients
  <2>1. CASE c = p
    BY <2>1
  <2>2. CASE c # p
    BY <1>0, <1>3, <2>2 DEF Reported
  <2> QED
    BY <2>1, <2>2
<1>6. \A c \in Clients : Arrived(c)' <=> Arrived(c)
  BY <1>5 DEF Arrived
<1>7. Arrivals' = Arrivals
  BY <1>6 DEF Arrivals
<1>8. \A c \in Clients : FlushAt(c)'
  <2> TAKE c \in Clients
  <2>1. FlushAt(c)
    BY DEF Flush
  <2>2. CASE c = p
    BY <2>2
  <2>3. CASE c # p
    <3>1. hand'[c] = hand[c] /\ flushCount'[c] = flushCount[c]
      BY <1>0, <2>3
    <3> QED
      BY <1>1, <1>2, <1>3, <1>4, <1>5, <2>1, <2>3, <3>1 DEF FlushAt
  <2> QED
    BY <2>2, <2>3
<1>9. Flush'
  BY <1>0, <1>1, <1>7, <1>8 DEF Flush
<1>10. /\ \A q, r \in Procs : HasEarly(chan'[q][r]) => HasEarly(chan[q][r])
       /\ \A q \in Procs : Early(hand'[q]) => Early(hand[q])
  BY DEF NoNewEarly
<1>11. \A c \in Clients : EarlyAt(c)'
  <2> TAKE c \in Clients
  <2>1. EarlyAt(c)
    BY DEF Earlier
  <2>2. (InSync /\ ~Has(chan[Host][c], "fPING") => ~HasEarly(chan[Host][c]))'
    BY <1>0, <1>1, <1>2, <1>10, <2>1 DEF EarlyAt
  <2>3. \A d \in Clients \ {c} : (Flushed(c) /\ ~Has(chan[c][d], "fPONG") => ~HasEarly(chan[c][d]))'
    BY <1>0, <1>10, <2>1 DEF EarlyAt
  <2>4. (Arrived(c) => ~HasEarly(chan[c][Host]))' /\ (Early(hand[c]) => ~Reported(c))'
    BY <1>0, <1>5, <1>6, <1>10, <2>1 DEF EarlyAt
  <2> QED
    BY <2>2, <2>3, <2>4 DEF EarlyAt
<1>12. Earlier'
  BY <1>0, <1>1, <1>7, <1>10, <1>11 DEF Earlier
<1>13. Round' /\ Answers' = Answers
  BY <1>1, FlushStep
<1>14. SameInPipes({"wPING"})
  BY DEF SameInPipes
<1>15. Counts' /\ SameCounts
  BY <1>0, <1>1, <1>5, <1>13, <1>14, CountsFrame
<1> QED
  BY <1>9, <1>12, <1>13, <1>15

\* The hands after a handler went on: the others are untouched.
LEMMA WentOn ==
  ASSUME Shape, mode' = mode, NEW p \in Procs, NEW m \in Msgs(Handler), p # Host, GoOnWith(p, m)
  PROVE  hand'[p] = m /\ ~Early(m) /\ HandShape' /\ \A r \in Procs \ {p} : hand'[r] = hand[r]
<1> USE SameMode
<1>1. m \in Msgs(Kinds \cup Handler) /\ m \in HandMsgs(p)
  BY DEF Msgs, HandMsgs
<1>2. ~Early(m)
  BY DEF Msgs, Handler, Early
<1>3. hand'[p] = m /\ \A r \in Procs \ {p} : hand'[r] = hand[r]
  BY DEF GoOnWith, Shape, HandShape
<1>4. hand' \in [Procs -> Msgs(Kinds \cup Handler)]
  BY <1>1 DEF GoOnWith, Shape, HandShape
<1>5. HandShape'
  BY <1>1, <1>3, <1>4 DEF Shape, HandShape
<1> QED
  BY <1>2, <1>3, <1>5

\* What a client does when it has seen the host's PING, and when it has not.
LEMMA PingSeen ==
  ASSUME DWInv, NEW c \in Clients
  PROVE  /\ hand[c].k \in {"fPING", "pongOthers"} =>
              /\ InSync /\ ~Has(chan[Host][c], "fPING") /\ ~Flushed(c) /\ ~Reported(c)
              /\ ~Has(chan[c][Host], "fPONG")
              /\ \A d \in Clients \ {c} : ~Has(chan[c][d], "fPONG")
              /\ flushCount[c] = - Cardinality(Got(c))
         /\ hand[c].k \in {"countDown", "pongHost"} => Flushed(c)
         /\ hand[c].k = "fPONG" /\ flushCount[c] = 1 => Flushed(c)
         /\ hand[c].k \in {"fPONG", "countDown"} =>
              InSync /\ ~Reported(c) /\ (Flushed(c) => flushCount[c] >= 1)
<1> USE DEF DWInv
<1>0. mode \in Modes /\ c \in Procs /\ flushCount[c] \in Int /\ NumProcs \in Nat /\ NumProcs >= 2
  BY ProcsFacts DEF Shape, CountShape
<1>1. FlushAt(c)
  BY DEF Flush
<1>2. Cardinality(Got(c)) \in Nat /\ Cardinality(Got(c)) <= NumProcs - 2
      /\ (Cardinality(Got(c)) = 0 <=> Got(c) = {})
  BY <1>0, GotFinite
<1>3. ASSUME hand[c].k \in {"fPING", "pongOthers"}
      PROVE  /\ InSync /\ ~Has(chan[Host][c], "fPING") /\ ~Flushed(c) /\ ~Reported(c)
             /\ ~Has(chan[c][Host], "fPONG")
             /\ \A d \in Clients \ {c} : ~Has(chan[c][d], "fPONG")
             /\ flushCount[c] = - Cardinality(Got(c))
  <2>1. ~Flushed(c) /\ ~Reported(c)
    BY <1>3 DEF Flushed, Reported
  <2> QED
    BY <1>0, <1>1, <1>2, <1>3, <2>1 DEF FlushAt, One
<1>4. hand[c].k \in {"countDown", "pongHost"} => Flushed(c)
  BY <1>1 DEF FlushAt, Flushed
<1>5. ASSUME hand[c].k = "fPONG", flushCount[c] = 1 PROVE Flushed(c)
  BY <1>0, <1>1, <1>2, <1>5 DEF FlushAt, One
<1>6. ASSUME hand[c].k \in {"fPONG", "countDown"}
      PROVE  InSync /\ ~Reported(c) /\ (Flushed(c) => flushCount[c] >= 1)
  <2>1. Flushed(c) => flushCount[c] >= 1
    BY <1>0, <1>1, <1>2, <1>6 DEF FlushAt, One
  <2>2. ~Reported(c)
    BY <1>0, <2>1 DEF Reported
  <2>3. InSync
    BY <1>1, <1>6 DEF FlushAt, Got, Flushed
  <2> QED
    BY <2>1, <2>2, <2>3
<1> QED
  BY <1>3, <1>4, <1>5, <1>6

\* Messages that are still to be sent count as received.
LEMMA CountedUp ==
  ASSUME CountShape, NEW p \in Procs, CountPending(p)
  PROVE  nMsgsRecvd' \in [Procs -> Nat] /\ \A q \in Procs : nMsgsRecvd'[q] >= nMsgsRecvd[q]
BY DEF CountShape, CountPending

\* distributor::recv_msg, PING
LEMMA KeepsHandleFlushPing ==
  ASSUME DWInv, mode' = mode, NEW p \in Procs, HandleFlushPing(p) PROVE DWInv' /\ SameCounts
<1> USE SameMode DEF DWInv
<1>0. Shape /\ mode \in Modes /\ AppShape /\ HandShape /\ CountShape
  BY DEF Shape
<1>1. p # Host /\ hand[p].k = "fPING"
  BY <1>0 DEF HandleFlushPing, Handles, HandShape, HandMsgs, Reports, Msgs
<1>2. /\ p \in Clients /\ Host \in Procs /\ Clients \subseteq Procs /\ Host \notin Clients
      /\ NumProcs \in Nat /\ NumProcs >= 2
  BY <1>0, <1>1, ProcsFacts
<1>3. /\ InSync /\ ~Has(chan[Host][p], "fPING") /\ ~Flushed(p) /\ ~Reported(p)
      /\ ~Has(chan[p][Host], "fPONG")
      /\ \A d \in Clients \ {p} : ~Has(chan[p][d], "fPONG")
      /\ flushCount[p] = - Cardinality(Got(p))
  BY <1>1, <1>2, PingSeen
<1>4. UNCHANGED <<steps, budget, leaving, loop, wpc, inFlight, barrier, sync, readies, ctxt, chan,
                  sendQueue>>
  BY DEF HandleFlushPing, appVars, waitVars, ctxtVars
<1>5. AppShape' /\ QueueShape' /\ ChanShape' /\ SamePipes
  BY <1>0, <1>4, SameShape, QuietPush
<1>6. /\ HandShape' /\ \A r \in Procs \ {p} : hand'[r] = hand[r]
      /\ hand'[p] = (IF NumProcs = 2 THEN CountDown ELSE PongOthers) /\ ~Early(hand'[p])
  <2>1. CountDown \in Msgs(Handler) /\ PongOthers \in Msgs(Handler)
    BY DEF CountDown, PongOthers, Message, Msgs, Handler
  <2> QED
    BY <1>0, <1>1, <2>1, WentOn DEF HandleFlushPing
<1>7. hand'[p].k = IF NumProcs = 2 THEN "countDown" ELSE "pongOthers"
  BY <1>6 DEF CountDown, PongOthers, Message
<1>8. /\ nMsgsRecvd' \in [Procs -> Nat] /\ \A q \in Procs : nMsgsRecvd'[q] >= nMsgsRecvd[q]
      /\ flushCount' \in [Procs -> Int] /\ \A q \in Procs \ {p} : flushCount'[q] = flushCount[q]
      /\ flushCount'[p] = IF NumProcs = 2 THEN 1 ELSE flushCount[p]
  <2>1. /\ nMsgsRecvd' \in [Procs -> Nat] /\ \A q \in Procs : nMsgsRecvd'[q] >= nMsgsRecvd[q]
    BY <1>0, CountedUp DEF HandleFlushPing, CountShape
  <2>2. CASE NumProcs = 2
    BY <1>0, <2>1, <2>2 DEF HandleFlushPing, CountShape
  <2>3. CASE NumProcs # 2
    BY <1>0, <2>1, <2>3 DEF HandleFlushPing, CountShape
  <2> QED
    BY <2>2, <2>3
<1>9. CountShape'
  BY <1>0, <1>1, <1>2, <1>4, <1>8 DEF CountShape
<1>10. Shape' /\ Pipes'
  BY <1>0, <1>5, <1>6, <1>9 DEF Shape, SamePipes
<1>11. SameInPipes({"wPING", "wPONG"}) /\ SameInPipes({"fPING"}) /\ SameInHands({"wPING", "wPONG"})
       /\ NoNewEarly
  BY <1>1, <1>4, <1>6, <1>7 DEF SameInPipes, SameInHands, NoNewEarly
<1>12. InSync' /\ Got(p)' = Got(p) /\ ~Reported(p)' /\ (Flushed(p)' => NumProcs = 2)
       /\ \A c \in Clients \ {p} : Flushed(c)' <=> Flushed(c)
  <2>1. InSync' <=> InSync
    BY <1>4 DEF InSync
  <2>2. \A c \in Clients \ {p} : Flushed(c)' <=> Flushed(c)
    BY <1>2, <1>4, <1>6, <2>1 DEF Flushed
  <2>3. Got(p)' = Got(p)
    BY <1>4, <2>2 DEF Got
  <2>4. Flushed(p)' => NumProcs = 2
    BY <1>7 DEF Flushed
  <2>5. ~Reported(p)'
    BY <1>8, <2>4 DEF Reported
  <2> QED
    BY <1>3, <2>1, <2>2, <2>3, <2>4, <2>5
<1>13. NumProcs = 2 => Clients \ {p} = {} /\ Got(p) = {}
  BY <1>1, <1>2 DEF Clients, Procs, Host, Got
<1>14. \A c \in Clients : \A d \in Clients \ {c} :
            /\ Flushed(c)' /\ ~Has(chan'[c][d], "fPONG") <=> Flushed(c) /\ ~Has(chan[c][d], "fPONG")
            /\ Has(chan'[c][d], "fPONG") => Flushed(c)'
  <2> TAKE c \in Clients
  <2> TAKE d \in Clients \ {c}
  <2>1. FlushAt(c)
    BY DEF Flush
  <2>2. CASE c = p
    <3>1. NumProcs # 2
      BY <1>13, <2>2
    <3> QED
      BY <1>3, <1>4, <1>12, <2>2, <3>1
  <2>3. CASE c # p
    BY <1>4, <1>12, <2>1, <2>3 DEF FlushAt
  <2> QED
    BY <2>2, <2>3
<1>15. FlushAt(p)'
  <2>1. Cardinality(Got(p)) \in Nat
    BY <1>0, <1>2, GotFinite
  <2>2. CASE NumProcs = 2
    <3>1. Cardinality(Got(p)) = 0
      BY <1>13, <2>2, FS_EmptySet
    <3>2. Flushed(p)'
      BY <1>3, <1>4, <1>7, <1>12, <2>2 DEF Flushed
    <3> QED
      BY <1>3, <1>4, <1>7, <1>8, <1>12, <1>13, <2>2, <3>1, <3>2 DEF FlushAt, One
  <2>3. CASE NumProcs # 2
    BY <1>3, <1>4, <1>7, <1>8, <1>12, <2>1, <2>3 DEF FlushAt, One
  <2> QED
    BY <2>2, <2>3
<1>16. /\ \A c \in Clients : Has(chan'[c][Host], "fPONG") <=> Has(chan[c][Host], "fPONG")
       /\ \A c \in Clients \ {p} : flushCount'[c] = flushCount[c]
  BY <1>2, <1>4, <1>8
<1> QED
  BY <1>2, <1>3, <1>4, <1>6, <1>8, <1>10, <1>11, <1>12, <1>14, <1>15, <1>16, FlushClient

\* The client tells the others that it has seen the PING.
LEMMA KeepsFlushPongOthers ==
  ASSUME DWInv, mode' = mode, NEW p \in Procs, FlushPongOthers(p) PROVE DWInv' /\ SameCounts
<1> USE SameMode DEF DWInv
<1>0. Shape /\ mode \in Modes /\ AppShape /\ HandShape /\ CountShape
  BY DEF Shape
<1>1. p # Host /\ hand[p].k = "pongOthers"
  <2>1. hand[p].k = "pongOthers"
    BY DEF FlushPongOthers, PongOthers, Message
  <2> QED
    BY <1>0, <2>1 DEF HandShape, HandMsgs, Reports, Msgs
<1>2. /\ p \in Clients /\ Host \in Procs /\ Clients \subseteq Procs /\ Host \notin Clients
      /\ NumProcs \in Nat /\ NumProcs >= 2
  BY <1>0, <1>1, ProcsFacts
<1>3. /\ InSync /\ ~Has(chan[Host][p], "fPING") /\ ~Flushed(p) /\ ~Reported(p)
      /\ ~Has(chan[p][Host], "fPONG")
      /\ \A d \in Clients \ {p} : ~Has(chan[p][d], "fPONG")
      /\ flushCount[p] = - Cardinality(Got(p))
  BY <1>1, <1>2, PingSeen
<1>4. UNCHANGED <<steps, budget, leaving, loop, wpc, inFlight, barrier, sync, readies, ctxt,
                  nMsgsRecvd>>
  BY DEF FlushPongOthers, appVars, waitVars, ctxtVars
<1>5. /\ QueueShape' /\ ChanShape' /\ Pipes'
      /\ \A r, q \in Procs : \A k : Has(chan'[r][q], k) <=>
              Has(chan[r][q], k) \/ (r = p /\ q \in Clients \ {p} /\ k = "fPONG")
      /\ \A r, q \in Procs : HasEarly(chan'[r][q]) <=> HasEarly(chan[r][q])
  <2>1. "fPONG" \in Counting /\ Clients \ {p} \in SUBSET Procs
        /\ Push(p, Message("fPONG", 0), Clients \ {p})
    BY <1>2 DEF Counting, FlushPongOthers
  <2>2. \A q \in Clients \ {p} : Message("fPONG", 0) \in PipeMsgs(p, q)
    BY <1>1, <1>2 DEF PipeMsgs, Msgs, Message
  <2> QED
    BY <1>0, <1>3, <2>1, <2>2, PushCounted
<1> DEFINE came == PongsCameFirst(p)
<1>6. /\ HandShape' /\ \A r \in Procs \ {p} : hand'[r] = hand[r]
      /\ hand'[p].k = (IF came THEN "countDown" ELSE "none") /\ ~Early(hand'[p])
  <2>1. CountDown \in Msgs(Handler) /\ CountDown.k = "countDown"
    BY DEF CountDown, Message, Msgs, Handler
  <2>2. CASE came
    <3>1. GoOnWith(p, CountDown)
      BY <2>2 DEF FlushPongOthers
    <3> QED
      BY <1>0, <1>1, <2>1, <2>2, <3>1, WentOn
  <2>3. CASE ~came
    <3>1. HandlerReturns(p)
      BY <2>3 DEF FlushPongOthers
    <3> QED
      BY <1>0, <2>3, <3>1, Returned, QuietHand
  <2> QED
    BY <2>2, <2>3
<1>7. Cardinality(Got(p)) \in Nat /\ Cardinality(Got(p)) <= NumProcs - 2
  BY <1>0, <1>2, GotFinite
<1>8. came <=> Cardinality(Got(p)) = NumProcs - 2
  BY <1>2, <1>3, <1>7 DEF PongsCameFirst
<1>9. /\ flushCount' \in [Procs -> Int] /\ \A q \in Procs \ {p} : flushCount'[q] = flushCount[q]
      /\ flushCount'[p] = NumProcs - 2 - Cardinality(Got(p)) + One(came)
  <2>1. flushCount \in [Procs -> Int]
    BY <1>0 DEF CountShape
  <2>2. CASE came
    <3>1. flushCount' = [flushCount EXCEPT ![p] = 1]
      BY <2>2 DEF FlushPongOthers
    <3> QED
      BY <1>2, <1>7, <1>8, <2>1, <2>2, <3>1 DEF One
  <2>3. CASE ~came
    <3>1. flushCount' = [flushCount EXCEPT ![p] = flushCount[p] + NumProcs - 2]
      BY <2>3 DEF FlushPongOthers
    <3>2. flushCount[p] + NumProcs - 2 \in Int
          /\ flushCount[p] + NumProcs - 2 = NumProcs - 2 - Cardinality(Got(p))
      BY <1>2, <1>3, <1>7
    <3> QED
      BY <1>2, <1>7, <2>1, <2>3, <3>1, <3>2 DEF One
  <2> QED
    BY <2>2, <2>3
<1> HIDE DEF came
<1>10. flushCount'[p] # 0 /\ (came => flushCount'[p] = 1)
  BY <1>2, <1>7, <1>8, <1>9 DEF One
<1>11. AppShape' /\ CountShape'
  BY <1>0, <1>1, <1>2, <1>4, <1>9, SameShape DEF CountShape
<1>12. Shape'
  BY <1>0, <1>5, <1>6, <1>11 DEF Shape
<1>13. SameInPipes({"wPING", "wPONG"}) /\ SameInPipes({"fPING"}) /\ SameInHands({"wPING", "wPONG"})
       /\ NoNewEarly
  BY <1>1, <1>5, <1>6 DEF SameInPipes, SameInHands, NoNewEarly
<1>14. /\ InSync' /\ Flushed(p)' /\ ~Reported(p)'
       /\ \A c \in Clients \ {p} : Flushed(c)' <=> Flushed(c)
  <2>1. InSync' <=> InSync
    BY <1>4 DEF InSync
  <2>2. \A c \in Clients \ {p} : Flushed(c)' <=> Flushed(c)
    BY <1>2, <1>5, <1>6, <2>1 DEF Flushed
  <2>3. Flushed(p)'
    BY <1>2, <1>3, <1>5, <1>6, <2>1 DEF Flushed
  <2>4. ~Reported(p)'
    BY <1>10 DEF Reported
  <2> QED
    BY <1>3, <2>1, <2>2, <2>3, <2>4
<1>15. \A c \in Clients : \A d \in Clients \ {c} :
            /\ Flushed(c)' /\ ~Has(chan'[c][d], "fPONG") <=> Flushed(c) /\ ~Has(chan[c][d], "fPONG")
            /\ Has(chan'[c][d], "fPONG") => Flushed(c)'
  <2> TAKE c \in Clients
  <2> TAKE d \in Clients \ {c}
  <2>1. FlushAt(c) /\ c \in Procs /\ d \in Procs
    BY <1>2 DEF Flush
  <2>2. CASE c = p
    BY <1>3, <1>5, <1>14, <2>1, <2>2
  <2>3. CASE c # p
    BY <1>5, <1>14, <2>1, <2>3 DEF FlushAt
  <2> QED
    BY <2>2, <2>3
<1>16. \A c \in Clients : Has(chan'[c][Host], "fPONG") <=> Has(chan[c][Host], "fPONG")
  BY <1>2, <1>5
<1>17. Got(p)' = Got(p)
  BY <1>2, <1>15 DEF Got
<1>18. ~Has(chan'[Host][p], "fPING") /\ ~Has(chan'[p][Host], "fPONG")
  BY <1>2, <1>3, <1>5
<1>19. FlushAt(p)'
  BY <1>6, <1>9, <1>10, <1>14, <1>15, <1>17, <1>18 DEF FlushAt, One
<1>20. /\ \A c \in Clients \ {p} : flushCount'[c] = flushCount[c]
       /\ \A q \in Procs : nMsgsRecvd'[q] >= nMsgsRecvd[q]
  BY <1>0, <1>2, <1>4, <1>9 DEF CountShape
<1> QED
  BY <1>2, <1>3, <1>4, <1>5, <1>6, <1>12, <1>13, <1>14, <1>15, <1>16, <1>19, <1>20, FlushClient

\* distributor::recv_msg, PONG on a client
LEMMA KeepsHandleFlushPongClient ==
  ASSUME DWInv, mode' = mode, NEW p \in Procs, HandleFlushPongClient(p) PROVE DWInv' /\ SameCounts
<1> USE SameMode DEF DWInv
<1>0. Shape /\ mode \in Modes /\ AppShape /\ HandShape /\ CountShape
  BY DEF Shape
<1>1. p # Host /\ hand[p].k \in {"fPONG", "countDown"}
  BY DEF HandleFlushPongClient, Handles, CountDown, Message
<1>2. /\ p \in Clients /\ Host \in Procs /\ Clients \subseteq Procs /\ Host \notin Clients
      /\ NumProcs \in Nat /\ NumProcs >= 2
  BY <1>0, <1>1, ProcsFacts
<1>3. /\ InSync /\ ~Reported(p) /\ (Flushed(p) => flushCount[p] >= 1)
      /\ flushCount[p] = 1 => Flushed(p)
      /\ hand[p].k = "countDown" => flushCount[p] = 1
      /\ FlushAt(p)
  BY <1>1, <1>2, PingSeen DEF Flush, FlushAt
<1>4. UNCHANGED <<steps, budget, leaving, loop, wpc, inFlight, barrier, sync, readies, ctxt, chan,
                  sendQueue>>
  BY DEF HandleFlushPongClient, appVars, waitVars, ctxtVars
<1>5. AppShape' /\ QueueShape' /\ ChanShape' /\ SamePipes
  BY <1>0, <1>4, SameShape, QuietPush
<1> DEFINE last == flushCount[p] = 1
<1>6. /\ HandShape' /\ \A r \in Procs \ {p} : hand'[r] = hand[r]
      /\ hand'[p].k = (IF last THEN "pongHost" ELSE "none") /\ ~Early(hand'[p])
  <2>1. PongHost \in Msgs(Handler) /\ PongHost.k = "pongHost"
    BY DEF PongHost, Message, Msgs, Handler
  <2>2. CASE last
    <3>1. GoOnWith(p, PongHost)
      BY <2>2 DEF HandleFlushPongClient, LastPong
    <3> QED
      BY <1>0, <1>1, <2>1, <2>2, <3>1, WentOn
  <2>3. CASE ~last
    <3>1. HandlerReturns(p)
      BY <2>3 DEF HandleFlushPongClient, LastPong
    <3> QED
      BY <1>0, <2>3, <3>1, Returned, QuietHand
  <2> QED
    BY <2>2, <2>3
<1>7. /\ flushCount[p] \in Int
      /\ flushCount' \in [Procs -> Int] /\ \A q \in Procs \ {p} : flushCount'[q] = flushCount[q]
      /\ flushCount'[p] = flushCount[p] - 1
  BY <1>0 DEF HandleFlushPongClient, CountShape
<1>8. nMsgsRecvd' \in [Procs -> Nat] /\ \A q \in Procs : nMsgsRecvd'[q] >= nMsgsRecvd[q]
  BY <1>0, CountedUp DEF HandleFlushPongClient, CountShape
<1>9. CountShape'
  BY <1>0, <1>1, <1>2, <1>4, <1>7, <1>8 DEF CountShape
<1>10. Shape' /\ Pipes'
  BY <1>0, <1>5, <1>6, <1>9 DEF Shape, SamePipes
<1>11. SameInPipes({"wPING", "wPONG"}) /\ SameInPipes({"fPING"}) /\ SameInHands({"wPING", "wPONG"})
       /\ NoNewEarly
  BY <1>1, <1>4, <1>6 DEF SameInPipes, SameInHands, NoNewEarly
<1>12. /\ InSync' /\ (\A c \in Clients : Flushed(c)' <=> Flushed(c)) /\ Got(p)' = Got(p)
  <2>1. InSync' <=> InSync
    BY <1>4 DEF InSync
  <2>2. \A c \in Clients : /\ hand'[c].k = "fPING" <=> hand[c].k = "fPING"
                           /\ hand'[c].k = "pongOthers" <=> hand[c].k = "pongOthers"
    BY <1>1, <1>2, <1>6
  <2>3. \A c \in Clients : Flushed(c)' <=> Flushed(c)
    BY <1>4, <2>1, <2>2 DEF Flushed
  <2>4. Got(p)' = Got(p)
    BY <1>4, <2>3 DEF Got
  <2> QED
    BY <1>3, <2>1, <2>3, <2>4
<1>13. ~Reported(p)'
  BY <1>2, <1>3, <1>6, <1>7, <1>12 DEF Reported
<1>14. ~Has(chan'[p][Host], "fPONG")
  BY <1>3, <1>4 DEF FlushAt
<1>15. FlushAt(p)'
  <2>1. Cardinality(Got(p)) \in Nat
    BY <1>0, <1>2, GotFinite
  <2>2. last => ~Has(chan'[Host][p], "fPING")
    BY <1>3, <1>4 DEF Flushed
  <2> QED
    BY <1>1, <1>2, <1>3, <1>4, <1>6, <1>7, <1>12, <1>14, <2>1, <2>2 DEF FlushAt, One
<1>16. \A c \in Clients : \A d \in Clients \ {c} :
            /\ Flushed(c)' /\ ~Has(chan'[c][d], "fPONG") <=> Flushed(c) /\ ~Has(chan[c][d], "fPONG")
            /\ Has(chan'[c][d], "fPONG") => Flushed(c)'
  BY <1>4, <1>12 DEF Flush, FlushAt
<1>17. /\ \A c \in Clients : Has(chan'[c][Host], "fPONG") <=> Has(chan[c][Host], "fPONG")
       /\ \A c \in Clients \ {p} : flushCount'[c] = flushCount[c]
  BY <1>2, <1>4, <1>7
<1> QED
  BY <1>2, <1>3, <1>4, <1>6, <1>8, <1>10, <1>11, <1>12, <1>13, <1>15, <1>16, <1>17, FlushClient

\* The client reports to the host.
LEMMA KeepsFlushPongHost ==
  ASSUME DWInv, mode' = mode, NEW p \in Procs, FlushPongHost(p) PROVE DWInv'
<1> USE SameMode DEF DWInv
<1>0. Shape /\ mode \in Modes /\ AppShape /\ HandShape /\ CountShape
  BY DEF Shape
<1>1. p # Host /\ hand[p].k = "pongHost"
  <2>1. hand[p].k = "pongHost"
    BY DEF FlushPongHost, PongHost, Message
  <2> QED
    BY <1>0, <2>1 DEF HandShape, HandMsgs, Reports, Msgs
<1>2. /\ p \in Clients /\ Host \in Procs /\ Clients \subseteq Procs /\ Host \notin Clients
      /\ NumProcs \in Nat /\ NumProcs >= 2
  BY <1>0, <1>1, ProcsFacts
<1>3. InSync /\ Flushed(p) /\ ~Reported(p) /\ FlushAt(p) /\ flushCount[p] = 0
      /\ ~Has(chan[p][Host], "fPONG")
  BY <1>1, <1>2, PingSeen DEF Flush, FlushAt, Reported
<1>4. UNCHANGED <<steps, budget, leaving, loop, wpc, inFlight, barrier, sync, readies, ctxt,
                  flushCount>>
  BY DEF FlushPongHost, appVars, waitVars, ctxtVars
<1>5. nMsgsRecvd[p] \in Nat /\ nMsgsRecvd[p] >= 1
  BY <1>0, <1>2, <1>3 DEF Counts, PingCounted, CountShape
<1>6. /\ QueueShape' /\ ChanShape' /\ Pipes'
      /\ \A r, q \in Procs : \A k : Has(chan'[r][q], k) <=>
              Has(chan[r][q], k) \/ (r = p /\ q \in {Host} /\ k = "fPONG")
      /\ \A r, q \in Procs : HasEarly(chan'[r][q]) <=> HasEarly(chan[r][q])
  <2> DEFINE n == nMsgsRecvd[p]
  <2>1. "fPONG" \in Counting /\ {Host} \in SUBSET Procs /\ n \in Nat /\ n >= 1
        /\ Push(p, Message("fPONG", n), {Host})
    BY <1>2, <1>5 DEF Counting, FlushPongHost, Send
  <2> HIDE DEF n
  <2>2. Message("fPONG", n) \in PipeMsgs(p, Host)
    BY <1>1, <2>1 DEF PipeMsgs, Reports, Message
  <2> QED
    BY <1>0, <1>3, <2>1, <2>2, PushCounted
<1>7. /\ hand'[p].k = "none" /\ ~Early(hand'[p]) /\ \A r \in Procs \ {p} : hand'[r] = hand[r]
      /\ HandShape'
  BY <1>0, Returned, QuietHand DEF FlushPongHost
<1>8. /\ nMsgsRecvd' \in [Procs -> Nat] /\ nMsgsRecvd'[p] = 0
      /\ \A q \in Procs \ {p} : nMsgsRecvd'[q] = nMsgsRecvd[q]
  BY <1>0 DEF FlushPongHost, CountShape
<1>9. AppShape' /\ CountShape'
  BY <1>0, <1>4, <1>8, SameShape DEF CountShape
<1>10. Shape'
  BY <1>0, <1>6, <1>7, <1>9 DEF Shape
<1>11. SameInPipes({"wPING", "wPONG"}) /\ SameInHands({"wPING", "wPONG"})
  BY <1>1, <1>6, <1>7 DEF SameInPipes, SameInHands
<1>12. InSync' /\ (InRound' <=> InRound)
  BY <1>3, <1>4 DEF InSync, InRound
<1>13. \A c \in Clients : /\ Has(chan'[Host][c], "fPING") <=> Has(chan[Host][c], "fPING")
                          /\ c # p => (Has(chan'[c][Host], "fPONG") <=> Has(chan[c][Host], "fPONG"))
                          /\ \A d \in Clients : Has(chan'[c][d], "fPONG") <=>
                                  Has(chan[c][d], "fPONG")
  BY <1>2, <1>6
<1>14. Has(chan'[p][Host], "fPONG")
  BY <1>2, <1>6
<1>15. \A c \in Clients : Flushed(c)' <=> Flushed(c)
  <2>1. \A c \in Clients : /\ hand'[c].k = "fPING" <=> hand[c].k = "fPING"
                           /\ hand'[c].k = "pongOthers" <=> hand[c].k = "pongOthers"
    BY <1>1, <1>2, <1>7
  <2> QED
    BY <1>3, <1>12, <1>13, <2>1 DEF Flushed
<1>16. \A c \in Clients : Got(c)' = Got(c)
  BY <1>13, <1>15 DEF Got
<1>17. Reported(p)' /\ ~Arrived(p)' /\ ~Arrived(p)
  BY <1>2, <1>3, <1>4, <1>7, <1>14, <1>15 DEF Reported, Arrived
<1>18. \A c \in Clients \ {p} : (Reported(c)' <=> Reported(c)) /\ (Arrived(c)' <=> Arrived(c))
  BY <1>2, <1>4, <1>7, <1>13, <1>15 DEF Reported, Arrived
<1>19. Arrivals' = Arrivals
  BY <1>17, <1>18 DEF Arrivals
<1>20. \A c \in Clients : FlushAt(c)'
  <2> TAKE c \in Clients
  <2>1. FlushAt(c)
    BY DEF Flush
  <2>2. CASE c = p
    BY <1>1, <1>3, <1>4, <1>7, <1>13, <1>15, <1>16, <1>17, <2>1, <2>2 DEF FlushAt, One
  <2>3. CASE c # p
    <3>1. hand'[c] = hand[c] /\ flushCount'[c] = flushCount[c]
      BY <1>2, <1>4, <1>7, <2>3
    <3> QED
      BY <1>3, <1>12, <1>13, <1>15, <1>16, <1>18, <2>1, <2>3, <3>1 DEF FlushAt
  <2> QED
    BY <2>2, <2>3
<1>21. Flush'
  BY <1>2, <1>4, <1>7, <1>12, <1>19, <1>20 DEF Flush
<1>22. \A c \in Clients : EarlyAt(c)'
  <2> TAKE c \in Clients
  <2>1. EarlyAt(c) /\ c \in Procs
    BY <1>2 DEF Earlier
  <2>2. (InSync /\ ~Has(chan[Host][c], "fPING") => ~HasEarly(chan[Host][c]))'
    BY <1>2, <1>3, <1>6, <1>12, <1>13, <2>1 DEF EarlyAt
  <2>3. \A d \in Clients \ {c} : (Flushed(c) /\ ~Has(chan[c][d], "fPONG") => ~HasEarly(chan[c][d]))'
    BY <1>2, <1>6, <1>13, <1>15, <2>1 DEF EarlyAt
  <2>4. (Arrived(c) => ~HasEarly(chan[c][Host]))' /\ (Early(hand[c]) => ~Reported(c))'
    BY <1>2, <1>6, <1>7, <1>17, <1>18, <2>1 DEF EarlyAt
  <2> QED
    BY <2>2, <2>3, <2>4 DEF EarlyAt
<1>23. Earlier'
  BY <1>2, <1>7, <1>12, <1>19, <1>22 DEF Earlier
<1>24. Round' /\ Answers' = Answers
  BY <1>4, <1>11, <1>12, FlushStep
<1>25. \A c \in Clients : PingCounted(c)' => c # p /\ PingCounted(c)
  <2>1. ~InRound' /\ wpc'[Host] # "flush"
    BY <1>12 DEF InSync, InRound
  <2> QED
    BY <1>3, <1>17, <1>18, <2>1 DEF PingCounted
<1>26. Counts'
  <2>1. ~InRound' /\ wpc'[Host] # "flush"
    BY <1>12 DEF InSync, InRound
  <2>2. nMsgsRecvd'[Host] = nMsgsRecvd[Host]
    BY <1>1, <1>2, <1>8
  <2> QED
    BY <1>2, <1>3, <1>4, <1>8, <1>25, <2>1, <2>2 DEF Counts
<1> QED
  BY <1>6, <1>10, <1>21, <1>23, <1>24, <1>26

\* distributor::recv_msg, PONG on the host
LEMMA KeepsHandleFlushPongHost ==
  ASSUME DWInv, mode' = mode, HandleFlushPongHost PROVE DWInv'
<1> USE SameMode DEF DWInv
<1>0. Shape /\ mode \in Modes /\ AppShape /\ HandShape /\ CountShape
  BY DEF Shape
<1>1. /\ Host \in Procs /\ Clients \subseteq Procs /\ Host \notin Clients
      /\ NumProcs \in Nat /\ NumProcs >= 2
  BY <1>0, ProcsFacts
<1>2. hand[Host].k = "fPONG" /\ hand[Host].n \in Nat /\ hand[Host].n >= 1
  <2>1. hand[Host].k = "fPONG" /\ hand[Host] \in HandMsgs(Host)
    BY <1>0, <1>1 DEF HandleFlushPongHost, Handles, HandShape
  <2>2. hand[Host] \in [k : {"fPONG"}, n : Nat \ {0}]
    BY <2>1 DEF HandMsgs, Reports, Msgs
  <2> QED
    BY <2>1, <2>2
<1>3. UNCHANGED <<steps, budget, leaving, loop, wpc, inFlight, barrier, readies, ctxt, chan,
                  sendQueue, flushCount>>
  BY DEF HandleFlushPongHost, appVars, waitVars, ctxtVars
<1>4. /\ hand'[Host].k = "none" /\ ~Early(hand'[Host])
      /\ \A r \in Procs \ {Host} : hand'[r] = hand[r]
      /\ HandShape'
  BY <1>0, <1>1, Returned, QuietHand DEF HandleFlushPongHost
<1>5. /\ nMsgsRecvd' \in [Procs -> Nat] /\ nMsgsRecvd'[Host] = nMsgsRecvd[Host] + hand[Host].n
      /\ \A q \in Procs \ {Host} : nMsgsRecvd'[q] = nMsgsRecvd[q]
      /\ sync' = sync + 1 /\ sync \in Nat /\ nMsgsRecvd[Host] \in Nat
  BY <1>0, <1>1, <1>2 DEF HandleFlushPongHost, CountShape
<1>6. AppShape' /\ CountShape' /\ QueueShape' /\ ChanShape' /\ SamePipes
  BY <1>0, <1>3, <1>5, SameShape, QuietPush DEF CountShape
<1>7. Shape' /\ Pipes'
  BY <1>0, <1>4, <1>6 DEF Shape, SamePipes
<1>8. \A c \in Clients : hand'[c] = hand[c]
  BY <1>1, <1>4
<1>9. /\ InSync' <=> InSync
      /\ InRound' <=> InRound
      /\ wpc'[Host] = "flush" <=> wpc[Host] = "flush"
  BY <1>3 DEF InSync, InRound
<1>10. \A c \in Clients : Flushed(c)' <=> Flushed(c)
  BY <1>3, <1>8, <1>9 DEF Flushed
<1>11. \A c \in Clients : /\ Got(c)' = Got(c)
                          /\ (Reported(c)' <=> Reported(c))
                          /\ (Arrived(c)' <=> Arrived(c))
  BY <1>3, <1>8, <1>10 DEF Got, Reported, Arrived
<1>12. Arrivals' = Arrivals
  BY <1>11 DEF Arrivals
<1>13. \A c \in Clients : FlushAt(c)'
  BY <1>3, <1>8, <1>9, <1>10, <1>11 DEF Flush, FlushAt
<1>14. sync' + One(hand'[Host].k = "fPONG") = sync + One(hand[Host].k = "fPONG")
  BY <1>2, <1>4, <1>5 DEF One
<1>15. Flush'
  BY <1>3, <1>9, <1>12, <1>13, <1>14 DEF Flush
<1>16. Earlier'
  BY <1>1, <1>3, <1>4, <1>8, <1>9, <1>10, <1>11, <1>12 DEF Earlier, EarlyAt
<1>17. SameInPipes({"wPING", "wPONG"}) /\ SameInHands({"wPING", "wPONG"})
  BY <1>2, <1>3, <1>4 DEF SameInPipes, SameInHands
<1>18. Round' /\ Answers' = Answers
  BY <1>3, <1>9, <1>17, FlushStep
<1>19. InSync
  <2>1. Cardinality(Arrivals) # 0
    BY <1>2, <1>5 DEF Flush, One
  <2>2. Arrivals # {}
    BY <2>1, FS_EmptySet
  <2> QED
    BY <2>2 DEF Arrivals, Arrived, Reported, Flushed
<1>20. ~InRound /\ wpc[Host] # "flush"
  BY <1>19 DEF InSync, InRound
<1>21. \A c \in Clients : PingCounted(c)' <=> PingCounted(c)
  BY <1>3, <1>9, <1>11 DEF PingCounted
<1>22. Counts'
  BY <1>1, <1>2, <1>5, <1>9, <1>19, <1>20, <1>21 DEF Counts
<1> QED
  BY <1>7, <1>15, <1>16, <1>18, <1>22

\* distributor::flush begins: what is on its way is marked, and the PING goes out.
LEMMA KeepsFlushBegin ==
  ASSUME DWInv, mode' = mode, FlushBegin PROVE DWInv'
<1> USE SameMode DEF DWInv
<1>0. Shape /\ mode \in Modes /\ AppShape /\ HandShape /\ CountShape
  BY DEF Shape
<1>1. /\ Host \in Procs /\ Clients \subseteq Procs /\ Host \notin Clients
      /\ \A q \in Procs : q \in Clients <=> q # Host
      /\ NumProcs \in Nat /\ NumProcs >= 2
  BY <1>0, ProcsFacts
<1>2. wpc[Host] = "flush" /\ ~InSync /\ ~InRound /\ InSync' /\ ~InRound' /\ wpc'[Host] = "sync"
      /\ \A c \in Clients : wpc'[c] = wpc[c]
  BY <1>0, <1>1 DEF FlushBegin, InSync, InRound, AppShape
<1>3. UNCHANGED <<steps, budget, leaving, loop, inFlight, barrier, readies, ctxt, flushCount,
                  nMsgsRecvd, sync>>
  BY DEF FlushBegin, appVars, flushVars, ctxtVars
<1>4. AppShape' /\ CountShape' /\ QueueShape'
  <2>1. AppShape'
    BY <1>0, <1>1, <1>3 DEF FlushBegin, AppShape, WaitPhases, Phases, InFlightPhases, One
  <2>2. QueueShape'
    <3>1. sendQueue \in [Procs -> Seq(SUBSET Procs)] /\ Unsent(Clients) \in SUBSET Procs
      BY <1>1 DEF Shape, QueueShape, Unsent
    <3>2. sendQueue' = [sendQueue EXCEPT ![Host] = Append(sendQueue[Host], Unsent(Clients))]
      BY DEF FlushBegin
    <3> QED
      BY <1>1, <3>1, <3>2 DEF QueueShape
  <2> QED
    BY <1>0, <1>3, <2>1, <2>2, SameShape
\* nothing of a flush is anywhere
<1>5. \A c \in Clients : ~Flushed(c) /\ ~Reported(c) /\ Got(c) = {}
  BY <1>2 DEF Flushed, Reported, Got
<1>6. \A c \in Clients : /\ ~Has(chan[Host][c], "fPING") /\ ~Has(chan[c][Host], "fPONG")
                         /\ \A d \in Clients \ {c} : ~Has(chan[c][d], "fPONG")
                         /\ hand[c].k \notin FlushHands
                         /\ flushCount[c] = 0
  <2> TAKE c \in Clients
  <2>1. FlushAt(c) /\ ~Has(chan[Host][c], "fPING")
    BY <1>2 DEF Flush
  <2>2. hand[c].k \notin FlushHands
    BY <1>2, <1>5, <2>1 DEF FlushAt, FlushHands
  <2>3. flushCount[c] = 0
    BY <1>5, <2>1, <2>2, FS_EmptySet DEF FlushAt, FlushHands, One
  <2> QED
    BY <1>5, <2>1, <2>2, <2>3 DEF FlushAt
<1>7. \A r, q \in Procs : ~Has(chan[r][q], "fPING") /\ ~Has(chan[r][q], "fPONG")
  <2> TAKE r, q \in Procs
  <2>1. chan[r][q] \in Seq(PipeMsgs(r, q))
    BY DEF Shape, ChanShape
  <2>2. \A n \in DOMAIN chan[r][q] : chan[r][q][n] \in PipeMsgs(r, q)
    BY <2>1
  <2>3. CASE r = q
    BY <2>2, <2>3 DEF PipeMsgs, Has
  <2>4. CASE r = Host /\ q # Host
    <3>1. ~Has(chan[r][q], "fPONG")
      BY <2>2, <2>4 DEF PipeMsgs, Has, Msgs, Kinds
    <3> QED
      BY <1>1, <1>6, <2>4, <3>1
  <2>5. CASE r # Host /\ r # q
    <3>1. ~Has(chan[r][q], "fPING")
      BY <2>2, <2>5 DEF PipeMsgs, Has, Msgs, Reports
    <3> QED
      BY <1>1, <1>6, <2>5, <3>1
  <2> QED
    BY <2>3, <2>4, <2>5
<1>8. ASSUME NEW r \in Procs, NEW q \in Procs
      PROVE  /\ chan'[r][q] \in Seq(Msgs(Kinds)) /\ chan'[r][q] \in Seq(PipeMsgs(r, q))
             /\ \A k : Has(chan'[r][q], k) <=>
                    Has(chan[r][q], k) \/ (r = Host /\ q \in Clients /\ k = "fPING")
             /\ Once(chan'[r][q]) /\ NoneBehind(chan'[r][q])
  <2> DEFINE s == chan[r][q]
             t == MarkAll(s)
             m == Message("fPING", 0)
  <2>1. s \in Seq(Msgs(Kinds)) /\ s \in Seq(PipeMsgs(r, q)) /\ Once(s)
    BY DEF Shape, ChanShape, Pipes
  <2>2. ~Has(s, "fPING") /\ ~Has(s, "fPONG")
    BY <1>7
  <2>3. chan'[r][q] = IF r = Host /\ q # Host THEN Append(t, m) ELSE t
    BY DEF FlushBegin
  <2>4. m \in Msgs(Kinds) /\ ~Early(m) /\ m.k = "fPING"
    BY DEF Message, Msgs, Kinds, Early
  <2> HIDE DEF s
  <2>5. /\ t \in Seq(Msgs(Kinds)) /\ t \in Seq(PipeMsgs(r, q))
        /\ \A k : Has(t, k) <=> Has(s, k)
        /\ Once(t) /\ NoneBehind(t)
    BY <2>1, <2>2, MarkFacts, MarkPipe
  <2> HIDE DEF t, m
  <2>6. CASE r = Host /\ q # Host
    <3>1. /\ \A k : Has(Append(t, m), k) <=> Has(t, k) \/ m.k = k
          /\ Once(Append(t, m)) /\ NoneBehind(Append(t, m))
      BY <2>2, <2>4, <2>5, AppendFacts
    <3>2. m \in PipeMsgs(r, q)
      BY <2>6 DEF m, Message, PipeMsgs, Msgs, Kinds
    <3>3. Append(t, m) \in Seq(Msgs(Kinds)) /\ Append(t, m) \in Seq(PipeMsgs(r, q))
      BY <2>4, <2>5, <3>2
    <3> QED
      BY <1>1, <2>3, <2>4, <2>5, <2>6, <3>1, <3>3 DEF s
  <2>7. CASE ~(r = Host /\ q # Host)
    BY <1>1, <2>3, <2>5, <2>7 DEF s
  <2> QED
    BY <2>6, <2>7
<1>9. ChanShape' /\ Pipes'
  <2>1. chan' \in [Procs -> [Procs -> Seq(Msgs(Kinds))]]
    <3> DEFINE f(r, q) == IF r = Host /\ q # Host
                          THEN Append(MarkAll(chan[r][q]), Message("fPING", 0))
                          ELSE MarkAll(chan[r][q])
    <3>1. chan' = [r \in Procs |-> [q \in Procs |-> f(r, q)]]
      BY DEF FlushBegin
    <3> HIDE DEF f
    <3>2. \A r, q \in Procs : f(r, q) = chan'[r][q]
      BY <3>1
    <3>3. \A r, q \in Procs : f(r, q) \in Seq(Msgs(Kinds))
      BY <1>8, <3>2
    <3> QED
      BY <3>1, <3>3
  <2> QED
    BY <1>8, <2>1 DEF ChanShape, Pipes
<1>10. \A r \in Procs : hand'[r].k = hand[r].k /\ hand'[r] \in HandMsgs(r)
                        /\ hand'[r] \in Msgs(Kinds \cup Handler)
  <2> TAKE r \in Procs
  <2>1. hand[r] \in Msgs(Kinds \cup Handler) /\ hand[r] \in HandMsgs(r) /\ hand'[r] = Mark(hand[r])
    BY <1>0 DEF FlushBegin, HandShape
  <2>2. CASE hand[r].k = "app"
    <3>1. hand'[r] = Message("app", 1)
      BY <2>1, <2>2 DEF Mark
    <3>2. hand'[r] \in Msgs({"app"}) /\ hand'[r].k = "app"
      BY <3>1 DEF Message, Msgs
    <3>3. hand'[r] \in HandMsgs(r)
      <4>1. CASE r = Host
        BY <3>2, <4>1 DEF HandMsgs, Reports, Msgs
      <4>2. CASE r # Host
        BY <3>2, <4>2 DEF HandMsgs, Msgs, Kinds
      <4> QED
        BY <4>1, <4>2
    <3>4. hand'[r] \in Msgs(Kinds \cup Handler)
      BY <3>2 DEF Msgs, Kinds
    <3> QED
      BY <2>2, <3>2, <3>3, <3>4
  <2>3. CASE hand[r].k # "app"
    BY <2>1, <2>3 DEF Mark
  <2> QED
    BY <2>2, <2>3
<1>11. HandShape'
  <2>1. hand' = [r \in Procs |-> hand'[r]]
    BY DEF FlushBegin
  <2> QED
    BY <1>10, <2>1 DEF HandShape
<1>12. Shape'
  BY <1>0, <1>4, <1>9, <1>11 DEF Shape
<1>13. SameInPipes({"wPING", "wPONG"}) /\ SameInHands({"wPING", "wPONG"})
  BY <1>8, <1>10 DEF SameInPipes, SameInHands
<1>14. Round' /\ Answers' = Answers
  BY <1>2, <1>3, <1>13, FlushStep
<1>15. \A c \in Clients : Has(chan'[Host][c], "fPING") /\ ~Has(chan'[c][Host], "fPONG")
                          /\ \A d \in Clients : ~Has(chan'[c][d], "fPONG")
  BY <1>1, <1>7, <1>8
<1>16. \A c \in Clients : ~Flushed(c)' /\ ~Reported(c)' /\ ~Arrived(c)' /\ Got(c)' = {}
  BY <1>15 DEF Flushed, Reported, Arrived, Got
<1>17. Arrivals' = {} /\ Arrivals = {}
  BY <1>5, <1>16 DEF Arrivals, Arrived
<1>18. \A c \in Clients : FlushAt(c)'
  <2> TAKE c \in Clients
  <2>1. hand'[c].k \notin FlushHands /\ flushCount'[c] = 0
    BY <1>1, <1>3, <1>6, <1>10
  <2> QED
    BY <1>15, <1>16, <2>1, FS_EmptySet DEF FlushAt, FlushHands, One
<1>19. Flush'
  BY <1>1, <1>2, <1>3, <1>10, <1>17, <1>18 DEF Flush
<1>20. Earlier'
  <2>1. \A c \in Clients : EarlyAt(c)'
    BY <1>15, <1>16 DEF EarlyAt
  <2>2. Arrivals' # Clients
    <3>1. 1 \in Clients
      BY <1>1 DEF Clients, Procs, Host
    <3> QED
      BY <1>17, <3>1
  <2> QED
    BY <1>2, <2>1, <2>2 DEF Earlier
<1>21. Counts'
  <2>1. sync = 0
    BY <1>0, <1>17, FS_EmptySet DEF Flush, One, CountShape
  <2>2. \A c \in Clients : nMsgsRecvd[c] >= 1
    BY <1>2 DEF Counts, PingCounted
  <2> QED
    BY <1>1, <1>2, <1>3, <2>1, <2>2 DEF Counts
<1> QED
  BY <1>9, <1>12, <1>14, <1>19, <1>20, <1>21

\* When all clients have reported, nothing of the flush and nothing older is left.
LEMMA AllArrived ==
  ASSUME DWInv, sync >= NumProcs - 1
  PROVE  /\ InSync /\ sync = NumProcs - 1 /\ Arrivals = Clients /\ hand[Host].k # "fPONG"
         /\ \A c \in Clients : /\ hand[c].k \notin FlushHands /\ flushCount[c] = 0
                               /\ ~Has(chan[Host][c], "fPING") /\ ~Has(chan[c][Host], "fPONG")
                               /\ \A d \in Clients \ {c} : ~Has(chan[c][d], "fPONG")
         /\ \A p, q \in Procs : ~HasEarly(chan[p][q]) /\ ~Early(hand[p])
<1> USE DEF DWInv
<1>0. mode \in Modes /\ sync \in Nat /\ Shape
  BY DEF Shape, CountShape
<1>1. /\ Host \in Procs /\ Clients \subseteq Procs /\ Host \notin Clients
      /\ \A q \in Procs : q \in Clients <=> q # Host
      /\ NumProcs \in Nat /\ NumProcs >= 2
  BY <1>0, ProcsFacts
<1>2. sync = NumProcs - 1 /\ Arrivals = Clients /\ hand[Host].k # "fPONG"
  <2>1. sync + One(hand[Host].k = "fPONG") = Cardinality(Arrivals)
    BY DEF Flush
  <2>2. Arrivals \in SUBSET Clients
    BY DEF Arrivals
  <2>3. /\ Cardinality(Arrivals) \in Nat /\ Cardinality(Arrivals) <= NumProcs - 1
        /\ Cardinality(Arrivals) = NumProcs - 1 => Arrivals = Clients
    BY <1>0, <2>2, SomeClients
  <2> QED
    BY <1>0, <1>1, <2>1, <2>3 DEF One
<1>3. \A c \in Clients : Arrived(c) /\ Reported(c) /\ Flushed(c) /\ flushCount[c] = 0
  BY <1>2 DEF Arrivals, Arrived, Reported
<1>4. InSync
  <2>1. 1 \in Clients
    BY <1>1 DEF Clients, Procs, Host
  <2> QED
    BY <1>3, <2>1 DEF Flushed
<1>5. \A c \in Clients : hand[c].k \notin FlushHands /\ Got(c) = Clients \ {c}
  <2> TAKE c \in Clients
  <2>1. FlushAt(c)
    BY DEF Flush
  <2>2. /\ Cardinality(Got(c)) \in Nat /\ Cardinality(Got(c)) <= NumProcs - 2
        /\ Cardinality(Got(c)) = NumProcs - 2 => Got(c) = Clients \ {c}
    BY <1>0, GotFinite
  <2>3. hand[c].k \notin {"fPONG", "countDown"} /\ Cardinality(Got(c)) = NumProcs - 2
    BY <1>1, <1>3, <2>1, <2>2 DEF FlushAt, One
  <2>4. hand[c].k \notin {"fPING", "pongOthers", "pongHost"}
    BY <1>3 DEF Flushed, Reported
  <2> QED
    BY <2>2, <2>3, <2>4 DEF FlushHands
<1>6. \A c \in Clients : /\ ~Has(chan[Host][c], "fPING") /\ ~Has(chan[c][Host], "fPONG")
                         /\ \A d \in Clients \ {c} : ~Has(chan[c][d], "fPONG")
  <2> TAKE c \in Clients
  <2>1. ~Has(chan[Host][c], "fPING") /\ ~Has(chan[c][Host], "fPONG")
    BY <1>3 DEF Flushed, Arrived
  <2>2. ASSUME NEW d \in Clients \ {c} PROVE ~Has(chan[c][d], "fPONG")
    <3>1. c \in Got(d)
      BY <1>5
    <3> QED
      BY <3>1 DEF Got
  <2> QED
    BY <2>1, <2>2
<1>7. \A p \in Procs : ~Early(hand[p])
  BY <1>1, <1>2, <1>3 DEF Earlier, EarlyAt
<1>8. \A p, q \in Procs : ~HasEarly(chan[p][q])
  <2> TAKE p, q \in Procs
  <2>1. CASE p = q
    <3>1. chan[p][q] \in Seq({})
      BY <2>1 DEF Shape, ChanShape, PipeMsgs
    <3>2. \A n \in DOMAIN chan[p][q] : chan[p][q][n] \in {}
      BY <3>1
    <3> QED
      BY <3>2 DEF HasEarly
  <2>2. CASE p = Host /\ q # Host
    BY <1>1, <1>4, <1>6, <2>2 DEF Earlier, EarlyAt
  <2>3. CASE p # Host /\ p # q
    <3>1. p \in Clients /\ EarlyAt(p)
      BY <1>1, <2>3 DEF Earlier
    <3> QED
      BY <1>1, <1>3, <1>6, <2>3, <3>1 DEF EarlyAt
  <2> QED
    BY <2>1, <2>2, <2>3
<1> QED
  BY <1>2, <1>3, <1>4, <1>5, <1>6, <1>7, <1>8

\* distributor::flush ends.
LEMMA KeepsFlushEnd ==
  ASSUME DWInv, mode' = mode, FlushEnd PROVE DWInv'
<1> USE SameMode DEF DWInv
<1>0. Shape /\ mode \in Modes /\ AppShape /\ HandShape /\ CountShape
  BY DEF Shape
<1>1. /\ Host \in Procs /\ Clients \subseteq Procs /\ Host \notin Clients
      /\ NumProcs \in Nat /\ NumProcs >= 2
  BY <1>0, ProcsFacts
<1>2. /\ InSync /\ sync = NumProcs - 1 /\ Arrivals = Clients /\ hand[Host].k # "fPONG"
      /\ \A c \in Clients : /\ hand[c].k \notin FlushHands /\ flushCount[c] = 0
                            /\ ~Has(chan[Host][c], "fPING") /\ ~Has(chan[c][Host], "fPONG")
                            /\ \A d \in Clients \ {c} : ~Has(chan[c][d], "fPONG")
      /\ \A p, q \in Procs : ~HasEarly(chan[p][q]) /\ ~Early(hand[p])
  BY AllArrived DEF FlushEnd
<1>3. /\ wpc[Host] = "sync" /\ wpc'[Host] \in {"done", "init"}
      /\ \A c \in Clients : wpc'[c] = wpc[c]
      /\ ~InSync' /\ ~InRound /\ ~InRound' /\ wpc'[Host] # "flush"
  BY <1>0, <1>1 DEF FlushEnd, AppShape, InSync, InRound
<1>4. UNCHANGED <<steps, budget, leaving, loop, inFlight, barrier, readies, ctxt, flushCount,
                  chan, hand, sendQueue>>
  BY DEF FlushEnd, appVars, ctxtVars
<1>5. /\ nMsgsRecvd' \in [Procs -> Nat] /\ sync' = 0
  BY <1>0, <1>1, <1>2 DEF FlushEnd, CountShape
<1>6. AppShape'
  <2>1. wpc' \in [Procs -> Phases] /\ \A p \in Procs \ {Host} : wpc'[p] = wpc[p]
    BY <1>0, <1>1 DEF FlushEnd, AppShape, Phases
  <2>2. \A p \in Procs : wpc'[p] \in WaitPhases(p)
    BY <1>0, <1>1, <1>3, <2>1 DEF AppShape, WaitPhases, Phases
  <2>3. \A p \in Procs : wpc'[p] \in InFlightPhases <=> wpc[p] \in InFlightPhases
    BY <1>1, <1>3, <2>1 DEF InFlightPhases
  <2> QED
    BY <1>0, <1>4, <2>1, <2>2, <2>3 DEF AppShape
<1>7. CountShape' /\ QueueShape' /\ ChanShape' /\ HandShape' /\ SamePipes
  BY <1>0, <1>4, <1>5, SameShape, QuietPush DEF CountShape
<1>8. Shape' /\ Pipes'
  BY <1>0, <1>6, <1>7 DEF Shape, SamePipes
<1>9. SameInPipes({"wPING", "wPONG"}) /\ SameInHands({"wPING", "wPONG"})
  BY <1>4 DEF SameInPipes, SameInHands
<1>10. Round'
  BY <1>3, <1>4, <1>9, FlushStep
<1>11. \A c \in Clients : ~Flushed(c)' /\ ~Reported(c)' /\ ~Arrived(c)' /\ Got(c)' = {}
  BY <1>3 DEF Flushed, Reported, Arrived, Got
<1>12. Arrivals' = {}
  BY <1>11 DEF Arrivals
<1>13. \A c \in Clients : FlushAt(c)'
  <2> TAKE c \in Clients
  <2>1. hand'[c] = hand[c] /\ flushCount'[c] = 0 /\ chan' = chan
    BY <1>2, <1>4
  <2>2. Cardinality(Got(c)') = 0
    BY <1>11, FS_EmptySet
  <2> QED
    BY <1>2, <1>11, <2>1, <2>2 DEF FlushAt, FlushHands, One
<1>14. Flush'
  BY <1>2, <1>4, <1>5, <1>12, <1>13, FS_EmptySet DEF Flush, One
<1>15. Earlier'
  BY <1>1, <1>2, <1>3, <1>4, <1>11 DEF Earlier, EarlyAt
<1>16. Counts'
  BY <1>3 DEF Counts, PingCounted
<1> QED
  BY <1>8, <1>10, <1>14, <1>15, <1>16

\* What the receive thread changes when it reads m.
LEMMA ReadStep ==
  ASSUME DWInv, mode' = mode, NEW p \in Procs, NEW q \in Procs, p # q, RecvThreadRead(p, q),
         NEW m, m = Head(chan[q][p])
  PROVE  /\ Shape' /\ Pipes'
         /\ UNCHANGED <<wpc, barrier, loop, flushCount, sync>>
         /\ (InSync' <=> InSync) /\ (InRound' <=> InRound)
         /\ wpc'[Host] = "flush" <=> wpc[Host] = "flush"
         /\ \A c \in Clients : InWait(c)' <=> InWait(c)
         /\ m \in PipeMsgs(q, p) /\ hand[p].k = "none" /\ ~Early(hand[p]) /\ hand'[p] = m
         /\ \A r \in Procs \ {p} : hand'[r] = hand[r]
         /\ \A r, t \in Procs : ~(r = q /\ t = p) => chan'[r][t] = chan[r][t]
         /\ \A r \in Procs : nMsgsRecvd'[r] >= nMsgsRecvd[r] /\ nMsgsRecvd[r] \in Nat
         /\ m.k \notin {"fPING", "fPONG"} => nMsgsRecvd'[p] = nMsgsRecvd[p] + 1
<1> USE SameMode DEF DWInv
<1>0. Shape /\ mode \in Modes /\ AppShape /\ CountShape
  BY DEF Shape
<1>1. UNCHANGED <<steps, budget, leaving, loop, wpc, inFlight, barrier, readies, ctxt, flushCount,
                  sync, sendQueue>>
  BY DEF RecvThreadRead, appVars, waitVars, ctxtVars
<1>2. /\ hand[p].k = "none" /\ m \in PipeMsgs(q, p)
      /\ hand'[p] = m /\ \A r \in Procs \ {p} : hand'[r] = hand[r]
      /\ \A r, t \in Procs : ~(r = q /\ t = p) => chan'[r][t] = chan[r][t]
      /\ ChanShape' /\ HandShape'
  BY <1>0, ReadFacts
<1>3. Pipes'
  BY <1>0, ReadHas
<1>4. nMsgsRecvd' = [nMsgsRecvd EXCEPT ![p] = IF Counted(m) THEN @ + 1 ELSE @]
  BY DEF RecvThreadRead
<1>5. /\ nMsgsRecvd' \in [Procs -> Nat]
      /\ \A r \in Procs : nMsgsRecvd'[r] >= nMsgsRecvd[r] /\ nMsgsRecvd[r] \in Nat
      /\ m.k \notin {"fPING", "fPONG"} => nMsgsRecvd'[p] = nMsgsRecvd[p] + 1
  BY <1>0, <1>4 DEF CountShape, Counted
<1>6. AppShape' /\ QueueShape'
  BY <1>0, <1>1, SameShape
<1>7. CountShape'
  BY <1>0, <1>1, <1>5 DEF CountShape
<1>8. Shape'
  BY <1>0, <1>2, <1>6, <1>7 DEF Shape
<1>9. /\ (InSync' <=> InSync) /\ (InRound' <=> InRound)
      /\ wpc'[Host] = "flush" <=> wpc[Host] = "flush"
      /\ \A c \in Clients : InWait(c)' <=> InWait(c)
  BY <1>1 DEF InSync, InRound, InWait
<1>10. ~Early(hand[p])
  BY <1>2 DEF Early
<1> QED
  BY <1>1, <1>2, <1>3, <1>5, <1>8, <1>9, <1>10

\* A message that is not part of the flush: it may be one that was sent before.
LEMMA ReadNoFlush ==
  ASSUME DWInv, mode' = mode, NEW p \in Procs, NEW q \in Procs, p # q, RecvThreadRead(p, q),
         NEW m, m = Head(chan[q][p]), m.k \notin {"fPING", "fPONG"}
  PROVE  Flush' /\ Earlier' /\ \A c \in Clients : Reported(c)' <=> Reported(c)
<1> USE SameMode DEF DWInv
<1>0. Shape /\ mode \in Modes
  BY DEF Shape
<1>1. /\ Host \in Procs /\ Clients \subseteq Procs /\ Host \notin Clients
      /\ \A r \in Procs : r \in Clients <=> r # Host
      /\ NumProcs \in Nat /\ NumProcs >= 2
  BY <1>0, ProcsFacts
<1>2. /\ UNCHANGED <<wpc, barrier, loop, flushCount, sync>>
      /\ (InSync' <=> InSync)
      /\ m \in PipeMsgs(q, p) /\ hand[p].k = "none" /\ ~Early(hand[p]) /\ hand'[p] = m
      /\ \A r \in Procs \ {p} : hand'[r] = hand[r]
      /\ \A r, t \in Procs : ~(r = q /\ t = p) => chan'[r][t] = chan[r][t]
  BY ReadStep
<1>3. /\ \A k : Has(chan[q][p], k) <=> Has(chan'[q][p], k) \/ m.k = k
      /\ HasEarly(chan[q][p]) <=> HasEarly(chan'[q][p]) \/ Early(m)
  BY <1>0, ReadHas
<1>4. SameInPipes({"fPING", "fPONG"})
  BY <1>2, <1>3 DEF SameInPipes
<1>5. m.k \notin FlushHands
  BY <1>2 DEF PipeMsgs, Msgs, Reports, Kinds, FlushHands
<1>6. SameInHands(FlushHands)
  BY <1>2, <1>5 DEF SameInHands, FlushHands
<1>7. /\ \A c \in Clients : /\ (Flushed(c)' <=> Flushed(c)) /\ (Reported(c)' <=> Reported(c))
                            /\ (Arrived(c)' <=> Arrived(c)) /\ Got(c)' = Got(c)
      /\ Arrivals' = Arrivals
      /\ Flush'
      /\ NoNewEarly => Earlier'
  BY <1>0, <1>2, <1>4, <1>6, FlushFrame
<1>8. CASE ~Early(m)
  <2>1. NoNewEarly
    BY <1>2, <1>3, <1>8 DEF NoNewEarly
  <2> QED
    BY <1>7, <2>1
<1>9. CASE Early(m)
  <2>1. HasEarly(chan[q][p]) /\ \A r, t \in Procs : HasEarly(chan'[r][t]) => HasEarly(chan[r][t])
    BY <1>2, <1>3, <1>9
  <2>2. InSync
    BY <2>1 DEF Earlier
  <2>3. p = Host => Arrivals # Clients
    <3>1. ASSUME p = Host PROVE q \in Clients /\ ~Arrived(q)
      BY <1>1, <2>1, <3>1 DEF Earlier, EarlyAt
    <3> QED
      BY <3>1 DEF Arrivals
  <2>4. p # Host => ~Reported(p)
    <3>1. SUFFICES ASSUME p # Host, Reported(p) PROVE FALSE
      OBVIOUS
    <3>2. p \in Clients /\ Flushed(p) /\ flushCount[p] = 0 /\ FlushAt(p)
      BY <1>1, <3>1 DEF Reported, Flush
    <3>3. CASE q = Host
      BY <2>1, <2>2, <3>2, <3>3 DEF Earlier, EarlyAt, Flushed
    <3>4. CASE q # Host
      <4>1. q \in Clients \ {p} /\ p \in Clients \ {q} /\ EarlyAt(q)
        BY <1>1, <3>2, <3>4 DEF Earlier
      <4>2. Cardinality(Got(p)) \in Nat
            /\ (Cardinality(Got(p)) = NumProcs - 2 => Got(p) = Clients \ {p})
        BY <1>0, <3>2, GotFinite
      <4>3. Cardinality(Got(p)) = NumProcs - 2
        BY <1>1, <1>2, <3>2, <4>2 DEF FlushAt, One
      <4>4. q \in Got(p)
        BY <4>1, <4>2, <4>3
      <4> QED
        BY <2>1, <4>1, <4>4 DEF Got, EarlyAt
    <3> QED
      BY <3>3, <3>4
  <2>5. \A c \in Clients : EarlyAt(c)'
    <3> TAKE c \in Clients
    <3>1. EarlyAt(c) /\ c \in Procs
      BY <1>1 DEF Earlier
    <3>2. /\ Has(chan'[Host][c], "fPING") <=> Has(chan[Host][c], "fPING")
          /\ \A d \in Clients : Has(chan'[c][d], "fPONG") <=> Has(chan[c][d], "fPONG")
      BY <1>1, <1>4 DEF SameInPipes
    <3>3. (Early(hand[c]) => ~Reported(c))'
      <4>1. CASE c = p
        BY <1>1, <1>7, <2>4, <4>1
      <4>2. CASE c # p
        BY <1>2, <1>7, <3>1, <4>2 DEF EarlyAt
      <4> QED
        BY <4>1, <4>2
    <3>4. (InSync /\ ~Has(chan[Host][c], "fPING") => ~HasEarly(chan[Host][c]))'
      BY <1>1, <2>1, <2>2, <3>1, <3>2 DEF EarlyAt
    <3>5. \A d \in Clients \ {c} : (Flushed(c)
          /\ ~Has(chan[c][d], "fPONG") => ~HasEarly(chan[c][d]))'
      BY <1>1, <1>7, <2>1, <3>1, <3>2 DEF EarlyAt
    <3>6. (Arrived(c) => ~HasEarly(chan[c][Host]))'
      BY <1>1, <1>7, <2>1, <3>1 DEF EarlyAt
    <3> QED
      BY <3>3, <3>4, <3>5, <3>6 DEF EarlyAt
  <2>6. Early(hand'[Host]) => Arrivals' # Clients
    <3>1. CASE p = Host
      BY <1>7, <2>3, <3>1
    <3>2. CASE p # Host
      BY <1>1, <1>2, <1>7, <3>2 DEF Earlier
    <3> QED
      BY <3>1, <3>2
  <2> QED
    BY <1>2, <1>7, <2>2, <2>5, <2>6 DEF Earlier
<1> QED
  BY <1>7, <1>8, <1>9

\* A message that is neither part of a round nor of a flush.
LEMMA ReadOther ==
  ASSUME DWInv, mode' = mode, NEW p \in Procs, NEW q \in Procs, p # q, RecvThreadRead(p, q),
         NEW m, m = Head(chan[q][p]), m.k \notin Counting
  PROVE  DWInv' /\ SameCounts
<1> USE SameMode DEF DWInv
<1>0. Shape /\ mode \in Modes
  BY DEF Shape
<1>1. /\ Shape' /\ Pipes' /\ UNCHANGED <<wpc, barrier, loop, flushCount, sync>>
      /\ (InSync' <=> InSync) /\ (InRound' <=> InRound)
      /\ wpc'[Host] = "flush" <=> wpc[Host] = "flush"
      /\ \A c \in Clients : InWait(c)' <=> InWait(c)
      /\ hand[p].k = "none" /\ hand'[p] = m
      /\ \A r \in Procs \ {p} : hand'[r] = hand[r]
      /\ \A r, t \in Procs : ~(r = q /\ t = p) => chan'[r][t] = chan[r][t]
      /\ \A r \in Procs : nMsgsRecvd'[r] >= nMsgsRecvd[r]
  BY ReadStep
<1>2. \A k : Has(chan[q][p], k) <=> Has(chan'[q][p], k) \/ m.k = k
  BY <1>0, ReadHas
<1>3. /\ SameInPipes({"wPING", "wPONG"}) /\ SameInPipes({"wPING"})
      /\ SameInHands({"wPING", "wPONG"})
  BY <1>1, <1>2 DEF SameInPipes, SameInHands, Counting
<1>4. Flush' /\ Earlier' /\ \A c \in Clients : Reported(c)' <=> Reported(c)
  BY ReadNoFlush DEF Counting
<1>5. Round' /\ Answers' = Answers
  BY <1>0, <1>1, <1>3, RoundFrame
<1>6. CountShape'
  BY <1>1 DEF Shape
<1>7. Counts' /\ SameCounts
  BY <1>0, <1>1, <1>3, <1>4, <1>5, <1>6, CountsFrame
<1> QED
  BY <1>1, <1>4, <1>5, <1>7

\* A client takes the PING of a round: from now on it has counted it.
LEMMA ReadWaitPing ==
  ASSUME DWInv, mode' = mode, NEW p \in Procs, NEW q \in Procs, p # q, RecvThreadRead(p, q),
         NEW m, m = Head(chan[q][p]), m.k = "wPING"
  PROVE  DWInv' /\ Answers' = Answers
<1> USE SameMode DEF DWInv
<1>0. Shape /\ mode \in Modes
  BY DEF Shape
<1>1. /\ Shape' /\ Pipes' /\ UNCHANGED <<wpc, barrier, loop, flushCount, sync>>
      /\ (InSync' <=> InSync) /\ (InRound' <=> InRound)
      /\ wpc'[Host] = "flush" <=> wpc[Host] = "flush"
      /\ \A c \in Clients : InWait(c)' <=> InWait(c)
      /\ hand[p].k = "none" /\ hand'[p] = m /\ m \in PipeMsgs(q, p)
      /\ \A r \in Procs \ {p} : hand'[r] = hand[r]
      /\ \A r, t \in Procs : ~(r = q /\ t = p) => chan'[r][t] = chan[r][t]
      /\ \A r \in Procs : nMsgsRecvd'[r] >= nMsgsRecvd[r] /\ nMsgsRecvd[r] \in Nat
      /\ nMsgsRecvd'[p] = nMsgsRecvd[p] + 1
  BY ReadStep
<1>2. /\ \A k : Has(chan[q][p], k) <=> Has(chan'[q][p], k) \/ m.k = k
      /\ ~Has(chan'[q][p], "wPING")
  BY <1>0, ReadHas DEF Counting
<1>3. q = Host /\ p # Host
  BY <1>1 DEF PipeMsgs, Msgs, Reports
<1>4. /\ p \in Clients /\ Host \in Procs /\ Clients \subseteq Procs /\ Host \notin Clients
      /\ NumProcs \in Nat /\ NumProcs >= 2
  BY <1>0, <1>3, ProcsFacts
<1>5. Flush' /\ Earlier' /\ \A c \in Clients : Reported(c)' <=> Reported(c)
  BY ReadNoFlush
<1>6. \A c \in Clients : OnePlace(c)' /\ (Ponged(c)' <=> Ponged(c))
  <2> TAKE c \in Clients
  <2>1. OnePlace(c) /\ c \in Procs
    BY <1>4 DEF Round
  <2>2. PongOut(c)' <=> PongOut(c)
    BY <1>1, <1>2, <1>3, <1>4, <2>1 DEF PongOut
  <2>3. CASE c = p
    <3>1. /\ hand'[c].k = "wPING" /\ hand[c].k # "wPING"
          /\ ~Has(chan'[Host][c], "wPING") /\ Has(chan[Host][c], "wPING")
      BY <1>1, <1>2, <1>3, <2>3
    <3> QED
      BY <1>1, <2>1, <2>2, <3>1 DEF OnePlace, Ponged, PingOut
  <2>4. CASE c # p
    <3>1. hand'[c] = hand[c] /\ chan'[Host][c] = chan[Host][c]
      BY <1>1, <1>4, <2>1, <2>4
    <3> QED
      BY <1>1, <2>1, <2>2, <3>1 DEF OnePlace, Ponged, PingOut
  <2> QED
    BY <2>3, <2>4
<1>7. hand'[Host] = hand[Host]
  BY <1>1, <1>3, <1>4
<1>8. Round' /\ Answers' = Answers
  BY <1>0, <1>1, <1>6, <1>7, RoundSame DEF Round
<1>9. \A c \in Clients : PingCounted(c)' => PingCounted(c) \/ c = p
  <2> TAKE c \in Clients
  <2>1. c # p => chan'[Host][c] = chan[Host][c]
    BY <1>1, <1>4
  <2> QED
    BY <1>1, <1>5, <2>1 DEF PingCounted
<1>10. \A c \in Clients : PingCounted(c)' => nMsgsRecvd'[c] >= 1
  <2> TAKE c \in Clients
  <2>1. PingCounted(c) => nMsgsRecvd[c] >= 1
    BY DEF Counts
  <2>2. nMsgsRecvd'[c] >= nMsgsRecvd[c] /\ nMsgsRecvd[c] \in Nat /\ nMsgsRecvd'[c] \in Nat
    BY <1>1, <1>4 DEF Shape, CountShape
  <2> QED
    BY <1>1, <1>9, <2>1, <2>2
<1>11. Counts'
  <2>1. nMsgsRecvd'[Host] >= nMsgsRecvd[Host] /\ nMsgsRecvd[Host] \in Nat
        /\ nMsgsRecvd'[Host] \in Nat
        /\ sync \in Nat
    BY <1>0, <1>1, <1>4 DEF Shape, CountShape
  <2>2. Cardinality(Answers) \in Nat
    BY <1>0, AnswersFinite
  <2> QED
    BY <1>1, <1>4, <1>8, <1>10, <2>1, <2>2 DEF Counts
<1> QED
  BY <1>1, <1>5, <1>8, <1>11

\* The host takes the PONG of a client.
LEMMA ReadWaitPong ==
  ASSUME DWInv, mode' = mode, NEW p \in Procs, NEW q \in Procs, p # q, RecvThreadRead(p, q),
         NEW m, m = Head(chan[q][p]), m.k = "wPONG"
  PROVE  DWInv' /\ Cardinality(Answers') = Cardinality(Answers) + 1
<1> USE SameMode DEF DWInv
<1>0. Shape /\ mode \in Modes
  BY DEF Shape
<1>1. /\ Shape' /\ Pipes' /\ UNCHANGED <<wpc, barrier, loop, flushCount, sync>>
      /\ (InSync' <=> InSync) /\ (InRound' <=> InRound)
      /\ wpc'[Host] = "flush" <=> wpc[Host] = "flush"
      /\ \A c \in Clients : InWait(c)' <=> InWait(c)
      /\ hand[p].k = "none" /\ hand'[p] = m /\ m \in PipeMsgs(q, p)
      /\ \A r \in Procs \ {p} : hand'[r] = hand[r]
      /\ \A r, t \in Procs : ~(r = q /\ t = p) => chan'[r][t] = chan[r][t]
      /\ \A r \in Procs : nMsgsRecvd'[r] >= nMsgsRecvd[r] /\ nMsgsRecvd[r] \in Nat
      /\ nMsgsRecvd'[p] = nMsgsRecvd[p] + 1
  BY ReadStep
<1>2. /\ \A k : Has(chan[q][p], k) <=> Has(chan'[q][p], k) \/ m.k = k
      /\ ~Has(chan'[q][p], "wPONG")
  BY <1>0, ReadHas DEF Counting
<1>3. p = Host /\ q # Host
  BY <1>1 DEF PipeMsgs, Msgs, Kinds, Reports
<1>4. /\ q \in Clients /\ Host \in Procs /\ Clients \subseteq Procs /\ Host \notin Clients
      /\ NumProcs \in Nat /\ NumProcs >= 2
  BY <1>0, <1>3, ProcsFacts
<1>5. Flush' /\ Earlier' /\ \A c \in Clients : Reported(c)' <=> Reported(c)
  BY ReadNoFlush
<1>6. PongOut(q) /\ ~PongOut(q)' /\ InRound /\ q \notin Answers /\ OnePlace(q)
  <2>1. PongOut(q) /\ ~PongOut(q)'
    BY <1>2, <1>3 DEF PongOut
  <2> QED
    BY <1>4, <2>1, OutsideRound DEF Round
<1>7. \A c \in Clients : (PingOut(c)' <=> PingOut(c)) /\ hand'[c] = hand[c]
                         /\ (Has(chan'[Host][c], "wPING") <=> Has(chan[Host][c], "wPING"))
  <2>1. \A c \in Clients : hand'[c] = hand[c] /\ chan'[Host][c] = chan[Host][c]
    BY <1>1, <1>3, <1>4
  <2> QED
    BY <2>1 DEF PingOut
<1>8. \A c \in Clients : OnePlace(c)' /\ (Ponged(c)' <=> Ponged(c) \/ c = q)
  <2> TAKE c \in Clients
  <2>1. OnePlace(c) /\ c \in Procs
    BY <1>4 DEF Round
  <2>2. CASE c = q
    BY <1>1, <1>6, <1>7, <2>1, <2>2 DEF OnePlace, Ponged
  <2>3. CASE c # q
    <3>1. PongOut(c)' <=> PongOut(c)
      BY <1>1, <1>4, <2>1, <2>3 DEF PongOut
    <3> QED
      BY <1>1, <1>7, <2>1, <2>3, <3>1 DEF OnePlace, Ponged
  <2> QED
    BY <2>2, <2>3
<1>9. Answers' = Answers \cup {q}
  BY <1>4, <1>8 DEF Answers
<1>10. Cardinality(Answers') = Cardinality(Answers) + 1 /\ Cardinality(Answers) \in Nat
  <2>1. Answers \in SUBSET Clients /\ q \in Clients \ Answers
    BY <1>4, <1>6 DEF Answers
  <2> QED
    BY <1>0, <1>9, <2>1, OneClientMore, SomeClients
<1>11. Round'
  <2>1. Len(barrier[Host]) \in Nat
    BY <1>0, <1>4 DEF Shape, CountShape
  <2>2. hand[Host].k # "wPONG" /\ hand'[Host].k = "wPONG" /\ barrier' = barrier
    BY <1>1, <1>3
  <2>3. Len(barrier[Host]) + One(hand[Host].k = "wPONG") = Cardinality(Answers)
    BY <1>6 DEF Round
  <2>4. Len(barrier'[Host]) + One(hand'[Host].k = "wPONG") = Cardinality(Answers')
    BY <1>10, <2>1, <2>2, <2>3 DEF One
  <2> QED
    BY <1>1, <1>6, <1>8, <2>4 DEF Round
<1>12. ~InSync /\ wpc[Host] # "flush"
  BY <1>6 DEF InSync, InRound
<1>13. \A c \in Clients : PingCounted(c)' => PingCounted(c)
  BY <1>1, <1>6, <1>7, <1>12 DEF PingCounted
<1>14. \A c \in Clients : nMsgsRecvd'[c] \in Nat
  BY <1>1, <1>4 DEF Shape, CountShape
<1>15. Counts'
  <2>1. \A c \in Clients : PingCounted(c)' => nMsgsRecvd'[c] >= 1
    <3> TAKE c \in Clients
    <3>1. PingCounted(c) => nMsgsRecvd[c] >= 1
      BY DEF Counts
    <3> QED
      BY <1>1, <1>4, <1>13, <1>14, <3>1
  <2>2. nMsgsRecvd'[Host] >= Cardinality(Answers')
    BY <1>1, <1>3, <1>6, <1>10 DEF Counts
  <2> QED
    BY <1>1, <1>12, <2>1, <2>2 DEF Counts
<1> QED
  BY <1>1, <1>5, <1>10, <1>11, <1>15

\* A message of the flush leaves the round and the host's count of answers alone.
LEMMA ReadOfFlush ==
  ASSUME DWInv, mode' = mode, NEW p \in Procs, NEW q \in Procs, p # q, RecvThreadRead(p, q),
         NEW m, m = Head(chan[q][p]), m.k \in {"fPING", "fPONG"}
  PROVE  /\ Round' /\ Answers' = Answers /\ SameInPipes({"wPING"}) /\ NoNewEarly
         /\ ~HasEarly(chan[q][p]) /\ ~HasEarly(chan'[q][p]) /\ ~Early(m)
<1> USE SameMode DEF DWInv
<1>0. Shape /\ mode \in Modes
  BY DEF Shape
<1>1. /\ UNCHANGED <<wpc, barrier, loop>>
      /\ (InRound' <=> InRound)
      /\ hand[p].k = "none" /\ hand'[p] = m
      /\ \A r \in Procs \ {p} : hand'[r] = hand[r]
      /\ \A r, t \in Procs : ~(r = q /\ t = p) => chan'[r][t] = chan[r][t]
  BY ReadStep
<1>2. /\ \A k : Has(chan[q][p], k) <=> Has(chan'[q][p], k) \/ m.k = k
      /\ HasEarly(chan[q][p]) <=> HasEarly(chan'[q][p]) \/ Early(m)
      /\ ~HasEarly(chan[q][p])
  BY <1>0, ReadHas
<1>3. SameInPipes({"wPING", "wPONG"}) /\ SameInPipes({"wPING"}) /\ SameInHands({"wPING", "wPONG"})
  BY <1>1, <1>2 DEF SameInPipes, SameInHands
<1>4. Round' /\ Answers' = Answers
  BY <1>1, <1>3, FlushStep
<1>5. NoNewEarly
  BY <1>1, <1>2 DEF NoNewEarly
<1> QED
  BY <1>2, <1>3, <1>4, <1>5

\* A client takes the PING of the flush: what the host sent before it is handled.
LEMMA ReadFlushPing ==
  ASSUME DWInv, mode' = mode, NEW p \in Procs, NEW q \in Procs, p # q, RecvThreadRead(p, q),
         NEW m, m = Head(chan[q][p]), m.k = "fPING"
  PROVE  DWInv' /\ SameCounts
<1> USE SameMode DEF DWInv
<1>0. Shape /\ mode \in Modes
  BY DEF Shape
<1>1. /\ Shape' /\ Pipes' /\ UNCHANGED <<wpc, barrier, loop, flushCount, sync>>
      /\ (InSync' <=> InSync) /\ (InRound' <=> InRound)
      /\ wpc'[Host] = "flush" <=> wpc[Host] = "flush"
      /\ hand[p].k = "none" /\ hand'[p] = m /\ m \in PipeMsgs(q, p)
      /\ \A r \in Procs \ {p} : hand'[r] = hand[r]
      /\ \A r, t \in Procs : ~(r = q /\ t = p) => chan'[r][t] = chan[r][t]
      /\ \A r \in Procs : nMsgsRecvd'[r] >= nMsgsRecvd[r] /\ nMsgsRecvd[r] \in Nat
  BY ReadStep
<1>2. /\ \A k : Has(chan[q][p], k) <=> Has(chan'[q][p], k) \/ m.k = k
      /\ ~Has(chan'[q][p], "fPING")
  BY <1>0, ReadHas DEF Counting
<1>3. q = Host /\ p # Host
  BY <1>1 DEF PipeMsgs, Msgs, Reports
<1>4. /\ p \in Clients /\ Host \in Procs /\ Clients \subseteq Procs /\ Host \notin Clients
      /\ NumProcs \in Nat /\ NumProcs >= 2
  BY <1>0, <1>3, ProcsFacts
<1>5. /\ Round' /\ Answers' = Answers /\ SameInPipes({"wPING"}) /\ NoNewEarly
      /\ ~HasEarly(chan'[Host][p]) /\ ~Early(m)
  BY <1>3, ReadOfFlush
<1>6. InSync
  BY <1>2, <1>3, <1>4 DEF Flush
<1>7. \A c \in Clients : /\ chan'[c][Host] = chan[c][Host]
                         /\ \A d \in Clients : chan'[c][d] = chan[c][d]
  BY <1>1, <1>3, <1>4
<1>8. \A c \in Clients \ {p} : hand'[c] = hand[c] /\ chan'[Host][c] = chan[Host][c]
  BY <1>1, <1>4
<1>9. hand'[Host] = hand[Host]
  BY <1>1, <1>3, <1>4
<1>10. ~Flushed(p) /\ ~Flushed(p)' /\ \A c \in Clients \ {p} : Flushed(c)' <=> Flushed(c)
  BY <1>1, <1>2, <1>3, <1>8 DEF Flushed
<1>11. \A c \in Clients : Flushed(c)' <=> Flushed(c)
  BY <1>10
<1>12. \A c \in Clients : (Reported(c)' <=> Reported(c)) /\ (Arrived(c)' <=> Arrived(c))
       /\ Got(c)' = Got(c)
  <2> TAKE c \in Clients
  <2>1. Reported(c)' <=> Reported(c)
    BY <1>1, <1>8, <1>10, <1>11 DEF Reported
  <2> QED
    BY <1>7, <1>11, <2>1 DEF Arrived, Got
<1>13. Arrivals' = Arrivals
  BY <1>12 DEF Arrivals
<1>14. \A c \in Clients : FlushAt(c)'
  <2> TAKE c \in Clients
  <2>1. FlushAt(c)
    BY DEF Flush
  <2>2. CASE c = p
    <3>1. hand'[c].k = "fPING" /\ hand[c].k = "none" /\ ~Has(chan'[Host][c], "fPING")
      BY <1>1, <1>2, <1>3, <2>2
    <3> QED
      BY <1>1, <1>6, <1>7, <1>11, <1>12, <2>1, <3>1 DEF FlushAt, One
  <2>3. CASE c # p
    BY <1>1, <1>7, <1>8, <1>11, <1>12, <2>1, <2>3 DEF FlushAt
  <2> QED
    BY <2>2, <2>3
<1>15. Flush'
  BY <1>1, <1>6, <1>9, <1>13, <1>14 DEF Flush
<1>16. \A c \in Clients : EarlyAt(c)'
  <2> TAKE c \in Clients
  <2>1. EarlyAt(c)
    BY DEF Earlier
  <2>2. CASE c = p
    BY <1>1, <1>5, <1>7, <1>11, <1>12, <2>1, <2>2 DEF EarlyAt
  <2>3. CASE c # p
    BY <1>1, <1>7, <1>8, <1>11, <1>12, <2>1, <2>3 DEF EarlyAt
  <2> QED
    BY <2>2, <2>3
<1>17. Earlier'
  BY <1>1, <1>6, <1>9, <1>13, <1>16 DEF Earlier
<1>18. CountShape'
  BY <1>1 DEF Shape
<1>19. Counts' /\ SameCounts
  BY <1>0, <1>1, <1>5, <1>12, <1>18, CountsFrame
<1> QED
  BY <1>1, <1>5, <1>15, <1>17, <1>19

\* A client takes the PONG of another one.
LEMMA ReadFlushPongClient ==
  ASSUME DWInv, mode' = mode, NEW p \in Procs, NEW q \in Procs, p # q, RecvThreadRead(p, q),
         NEW m, m = Head(chan[q][p]), m.k = "fPONG", p # Host
  PROVE  DWInv' /\ SameCounts
<1> USE SameMode DEF DWInv
<1>0. Shape /\ mode \in Modes
  BY DEF Shape
<1>1. /\ Shape' /\ Pipes' /\ UNCHANGED <<wpc, barrier, loop, flushCount, sync>>
      /\ (InSync' <=> InSync) /\ (InRound' <=> InRound)
      /\ wpc'[Host] = "flush" <=> wpc[Host] = "flush"
      /\ hand[p].k = "none" /\ hand'[p] = m /\ m \in PipeMsgs(q, p)
      /\ \A r \in Procs \ {p} : hand'[r] = hand[r]
      /\ \A r, t \in Procs : ~(r = q /\ t = p) => chan'[r][t] = chan[r][t]
      /\ \A r \in Procs : nMsgsRecvd'[r] >= nMsgsRecvd[r] /\ nMsgsRecvd[r] \in Nat
  BY ReadStep
<1>2. /\ \A k : Has(chan[q][p], k) <=> Has(chan'[q][p], k) \/ m.k = k
      /\ ~Has(chan'[q][p], "fPONG")
  BY <1>0, ReadHas DEF Counting
<1>3. q # Host
  BY <1>1 DEF PipeMsgs, Msgs, Kinds
<1>4. /\ p \in Clients /\ q \in Clients /\ p \in Clients \ {q} /\ q \in Clients \ {p}
      /\ Host \in Procs /\ Clients \subseteq Procs /\ Host \notin Clients
      /\ NumProcs \in Nat /\ NumProcs >= 2
  BY <1>0, <1>3, ProcsFacts
<1>5. /\ Round' /\ Answers' = Answers /\ SameInPipes({"wPING"}) /\ NoNewEarly
      /\ ~HasEarly(chan'[q][p]) /\ ~Early(m)
  BY ReadOfFlush
<1>6. Flushed(q) /\ InSync /\ q \notin Got(p)
  BY <1>2, <1>4 DEF Flush, FlushAt, Flushed, Got
<1>7. \A c \in Clients : /\ chan'[c][Host] = chan[c][Host] /\ chan'[Host][c] = chan[Host][c]
                         /\ \A d \in Clients : ~(c = q /\ d = p) => chan'[c][d] = chan[c][d]
  BY <1>1, <1>3, <1>4
<1>8. \A c \in Clients \ {p} : hand'[c] = hand[c]
  BY <1>1, <1>4
<1>9. hand'[Host] = hand[Host]
  BY <1>1, <1>4
<1>10. \A c \in Clients : Flushed(c)' <=> Flushed(c)
  <2> TAKE c \in Clients
  <2>1. CASE c = p
    BY <1>1, <1>7, <2>1 DEF Flushed
  <2>2. CASE c # p
    BY <1>1, <1>7, <1>8, <2>2 DEF Flushed
  <2> QED
    BY <2>1, <2>2
<1>11. \A c \in Clients : (Reported(c)' <=> Reported(c)) /\ (Arrived(c)' <=> Arrived(c))
  <2> TAKE c \in Clients
  <2>1. Reported(c)' <=> Reported(c)
    BY <1>1, <1>8, <1>10 DEF Reported
  <2> QED
    BY <1>7, <2>1 DEF Arrived
<1>12. Arrivals' = Arrivals
  BY <1>11 DEF Arrivals
<1>13. \A c \in Clients \ {p} : Got(c)' = Got(c)
  BY <1>7, <1>10 DEF Got
<1>14. Got(p)' = Got(p) \cup {q}
  BY <1>2, <1>4, <1>6, <1>7, <1>10 DEF Got
<1>15. Cardinality(Got(p)') = Cardinality(Got(p)) + 1 /\ Cardinality(Got(p)) \in Nat
  <2>1. Got(p) \in SUBSET Clients /\ q \in Clients \ Got(p)
    BY <1>4, <1>6 DEF Got
  <2> QED
    BY <1>0, <1>14, <2>1, OneClientMore, SomeClients
<1>16. \A c \in Clients : FlushAt(c)'
  <2> TAKE c \in Clients
  <2>1. FlushAt(c)
    BY DEF Flush
  <2>2. CASE c = p
    <3>1. hand'[c].k = "fPONG" /\ hand[c].k = "none" /\ Got(c)' # {}
      BY <1>1, <1>14, <2>2
    <3>2. chan'[c][Host] = chan[c][Host] /\ \A d \in Clients \ {c} : chan'[c][d] = chan[c][d]
      BY <1>4, <1>7, <2>2
    <3>3. flushCount[c] \in Int
      BY <1>0, <1>4, <2>2 DEF Shape, CountShape
    <3>4. (flushCount[c] = (IF Flushed(c) THEN NumProcs - 2 ELSE 0) - Cardinality(Got(c))
                             + One(hand[c].k \in {"fPONG", "countDown"}))'
      BY <1>1, <1>4, <1>10, <1>15, <2>1, <2>2, <3>1, <3>3 DEF FlushAt, One
    <3> QED
      BY <1>10, <1>11, <2>1, <3>1, <3>2, <3>4 DEF FlushAt
  <2>3. CASE c # p
    <3>1. hand'[c] = hand[c] /\ Got(c)' = Got(c)
      BY <1>8, <1>13, <2>3
    <3>2. \A d \in Clients \ {c} : Has(chan'[c][d], "fPONG") => Has(chan[c][d], "fPONG")
      BY <1>2, <1>7
    <3> QED
      BY <1>1, <1>7, <1>10, <1>11, <2>1, <3>1, <3>2 DEF FlushAt
  <2> QED
    BY <2>2, <2>3
<1>17. Flush'
  BY <1>1, <1>6, <1>9, <1>12, <1>16 DEF Flush
<1>18. \A c \in Clients : EarlyAt(c)'
  <2> TAKE c \in Clients
  <2>1. EarlyAt(c)
    BY DEF Earlier
  <2>2. (InSync /\ ~Has(chan[Host][c], "fPING") => ~HasEarly(chan[Host][c]))'
    BY <1>1, <1>7, <2>1 DEF EarlyAt
  <2>3. \A d \in Clients \ {c} : (Flushed(c) /\ ~Has(chan[c][d], "fPONG") => ~HasEarly(chan[c][d]))'
    <3> TAKE d \in Clients \ {c}
    <3>1. CASE c = q /\ d = p
      BY <1>5, <3>1
    <3>2. CASE ~(c = q /\ d = p)
      BY <1>7, <1>10, <2>1, <3>2 DEF EarlyAt
    <3> QED
      BY <3>1, <3>2
  <2>4. (Arrived(c) => ~HasEarly(chan[c][Host]))'
    BY <1>7, <1>11, <2>1 DEF EarlyAt
  <2>5. (Early(hand[c]) => ~Reported(c))'
    <3>1. CASE c = p
      BY <1>1, <1>5, <3>1
    <3>2. CASE c # p
      BY <1>8, <1>11, <2>1, <3>2 DEF EarlyAt
    <3> QED
      BY <3>1, <3>2
  <2> QED
    BY <2>2, <2>3, <2>4, <2>5 DEF EarlyAt
<1>19. Earlier'
  BY <1>1, <1>6, <1>9, <1>12, <1>18 DEF Earlier
<1>20. CountShape'
  BY <1>1 DEF Shape
<1>21. Counts' /\ SameCounts
  BY <1>0, <1>1, <1>5, <1>11, <1>20, CountsFrame
<1> QED
  BY <1>1, <1>5, <1>17, <1>19, <1>21

\* The host takes the report of a client.
LEMMA ReadFlushPongHost ==
  ASSUME DWInv, mode' = mode, NEW p \in Procs, NEW q \in Procs, p # q, RecvThreadRead(p, q),
         NEW m, m = Head(chan[q][p]), m.k = "fPONG", p = Host
  PROVE  DWInv' /\ SameCounts
<1> USE SameMode DEF DWInv
<1>0. Shape /\ mode \in Modes
  BY DEF Shape
<1>1. /\ Shape' /\ Pipes' /\ UNCHANGED <<wpc, barrier, loop, flushCount, sync>>
      /\ (InSync' <=> InSync) /\ (InRound' <=> InRound)
      /\ wpc'[Host] = "flush" <=> wpc[Host] = "flush"
      /\ hand[p].k = "none" /\ hand'[p] = m /\ m \in PipeMsgs(q, p)
      /\ \A r \in Procs \ {p} : hand'[r] = hand[r]
      /\ \A r, t \in Procs : ~(r = q /\ t = p) => chan'[r][t] = chan[r][t]
      /\ \A r \in Procs : nMsgsRecvd'[r] >= nMsgsRecvd[r] /\ nMsgsRecvd[r] \in Nat
  BY ReadStep
<1>2. /\ \A k : Has(chan[q][p], k) <=> Has(chan'[q][p], k) \/ m.k = k
      /\ ~Has(chan'[q][p], "fPONG")
  BY <1>0, ReadHas DEF Counting
<1>3. /\ q \in Clients /\ Host \in Procs /\ Clients \subseteq Procs /\ Host \notin Clients
      /\ NumProcs \in Nat /\ NumProcs >= 2
  BY <1>0, ProcsFacts
<1>4. /\ Round' /\ Answers' = Answers /\ SameInPipes({"wPING"}) /\ NoNewEarly
      /\ ~HasEarly(chan'[q][Host]) /\ ~Early(m)
  BY ReadOfFlush
<1>5. Reported(q) /\ InSync /\ ~Arrived(q) /\ q \notin Arrivals
  <2>1. Has(chan[q][Host], "fPONG")
    BY <1>2
  <2>2. FlushAt(q)
    BY <1>3 DEF Flush
  <2>3. Reported(q) /\ ~Arrived(q)
    BY <2>1, <2>2 DEF FlushAt, Arrived
  <2> QED
    BY <2>3 DEF Reported, Flushed, Arrivals
<1>6. \A c \in Clients : /\ hand'[c] = hand[c] /\ chan'[Host][c] = chan[Host][c]
                         /\ c # q => chan'[c][Host] = chan[c][Host]
                         /\ \A d \in Clients : chan'[c][d] = chan[c][d]
  BY <1>1, <1>3
<1>7. \A c \in Clients : Flushed(c)' <=> Flushed(c)
  BY <1>1, <1>6 DEF Flushed
<1>8. \A c \in Clients : (Reported(c)' <=> Reported(c)) /\ Got(c)' = Got(c)
  BY <1>1, <1>6, <1>7 DEF Reported, Got
<1>9. \A c \in Clients : Arrived(c)' <=> Arrived(c) \/ c = q
  <2> TAKE c \in Clients
  <2>1. CASE c = q
    BY <1>2, <1>5, <1>8, <2>1 DEF Arrived
  <2>2. CASE c # q
    BY <1>6, <1>8, <2>2 DEF Arrived
  <2> QED
    BY <2>1, <2>2
<1>10. Arrivals' = Arrivals \cup {q}
  BY <1>3, <1>9 DEF Arrivals
<1>11. Cardinality(Arrivals') = Cardinality(Arrivals) + 1 /\ Cardinality(Arrivals) \in Nat
  <2>1. Arrivals \in SUBSET Clients /\ q \in Clients \ Arrivals
    BY <1>3, <1>5 DEF Arrivals
  <2> QED
    BY <1>0, <1>10, <2>1, OneClientMore, SomeClients
<1>12. \A c \in Clients : FlushAt(c)'
  <2> TAKE c \in Clients
  <2>1. FlushAt(c)
    BY DEF Flush
  <2>2. Has(chan'[c][Host], "fPONG") => Has(chan[c][Host], "fPONG")
    BY <1>2, <1>6
  <2> QED
    BY <1>1, <1>6, <1>7, <1>8, <2>1, <2>2 DEF FlushAt
<1>13. sync' + One(hand'[Host].k = "fPONG") = Cardinality(Arrivals')
  <2>1. sync + One(hand[Host].k = "fPONG") = Cardinality(Arrivals) /\ sync \in Nat
    BY <1>0 DEF Flush, Shape, CountShape
  <2>2. hand[Host].k # "fPONG" /\ hand'[Host].k = "fPONG" /\ sync' = sync
    BY <1>1
  <2> QED
    BY <1>11, <2>1, <2>2 DEF One
<1>14. Flush'
  BY <1>1, <1>5, <1>12, <1>13 DEF Flush
<1>15. \A c \in Clients : EarlyAt(c)'
  <2> TAKE c \in Clients
  <2>1. EarlyAt(c)
    BY DEF Earlier
  <2>2. (Arrived(c) => ~HasEarly(chan[c][Host]))'
    BY <1>4, <1>6, <1>9, <2>1 DEF EarlyAt
  <2>3. /\ (InSync /\ ~Has(chan[Host][c], "fPING") => ~HasEarly(chan[Host][c]))'
        /\ \A d \in Clients \ {c} : (Flushed(c)
           /\ ~Has(chan[c][d], "fPONG") => ~HasEarly(chan[c][d]))'
        /\ (Early(hand[c]) => ~Reported(c))'
    BY <1>1, <1>6, <1>7, <1>8, <2>1 DEF EarlyAt
  <2> QED
    BY <2>2, <2>3 DEF EarlyAt
<1>16. Earlier'
  BY <1>1, <1>4, <1>5, <1>15 DEF Earlier
<1>17. CountShape'
  BY <1>1 DEF Shape
<1>18. Counts' /\ SameCounts
  BY <1>0, <1>1, <1>4, <1>8, <1>17, CountsFrame
<1> QED
  BY <1>1, <1>4, <1>14, <1>16, <1>18

\* RecvThread::recv_msg
LEMMA KeepsRecvThreadRead ==
  ASSUME DWInv, mode' = mode, NEW p \in Procs, NEW q \in Procs \ {p}, RecvThreadRead(p, q)
  PROVE  DWInv'
<1> DEFINE m == Head(chan[q][p])
<1> HIDE DEF m
<1>1. p # q /\ q \in Procs /\ m = Head(chan[q][p])
  BY DEF m
<1>2. CASE m.k \notin Counting
  BY <1>1, <1>2, ReadOther
<1>3. CASE m.k = "wPING"
  BY <1>1, <1>3, ReadWaitPing
<1>4. CASE m.k = "wPONG"
  BY <1>1, <1>4, ReadWaitPong
<1>5. CASE m.k = "fPING"
  BY <1>1, <1>5, ReadFlushPing
<1>6. CASE m.k = "fPONG" /\ p # Host
  BY <1>1, <1>6, ReadFlushPongClient
<1>7. CASE m.k = "fPONG" /\ p = Host
  BY <1>1, <1>7, ReadFlushPongHost
<1> QED
  BY <1>2, <1>3, <1>4, <1>5, <1>6, <1>7 DEF Counting

-----------------------------------------------------------------------------
(* Every behaviour *)

\* The communicator and the program.
LEMMA KeepsThreads ==
  ASSUME DWInv, mode' = mode, NEW p \in Procs,
         SendThread(p) \/ RecvThread(p) \/ Worker(p) \/ EnvPutsTag(p)
  PROVE  DWInv'
<1>1. CASE SendThread(p)
  BY <1>1, KeepsSendThreadPop, KeepsSendThreadWrite DEF SendThread
<1>2. CASE Worker(p) \/ EnvPutsTag(p)
  BY <1>2, KeepsStepSends, KeepsStepEnds, KeepsEnvPutsTag DEF Worker
<1>3. CASE RecvThread(p)
  <2>1. ASSUME NEW q \in Procs \ {p}, RecvThreadRead(p, q) PROVE DWInv'
    BY <2>1, KeepsRecvThreadRead
  <2>2. CASE HandleApp(p) \/ HandleDistribute(p) \/ HandleUndistribute(p) \/ HandleCleanup(p)
    BY <2>2, KeepsHandleApp, KeepsHandleDistribute, KeepsHandleUndistribute, KeepsHandleCleanup
  <2>3. CASE HandleWaitPing(p) \/ HandleWaitPong(p)
    BY <2>3, KeepsHandleWaitPing, KeepsHandleWaitPong
  <2>4. CASE HandleFlushPing(p) \/ FlushPongOthers(p) \/ HandleFlushPongClient(p)
             \/ FlushPongHost(p)
    BY <2>4, KeepsHandleFlushPing, KeepsFlushPongOthers, KeepsHandleFlushPongClient,
       KeepsFlushPongHost
  <2>5. CASE HandleReady \/ HandleFlushPongHost
    BY <2>5, KeepsHandleReady, KeepsHandleFlushPongHost
  <2> QED
    BY <1>3, <2>1, <2>2, <2>3, <2>4, <2>5 DEF RecvThread
<1> QED
  BY <1>1, <1>2, <1>3

\* The threads in wait.
LEMMA KeepsWaiter ==
  ASSUME DWInv, mode' = mode, NEW p \in Procs, Waiter(p)
  PROVE  DWInv'
<1>1. CASE EnvWaits(p) \/ WaiterStarts(p) \/ InitWait(p) \/ WaitAll(p) \/ CheckPending(p)
  BY <1>1, KeepsEnvWaits, KeepsWaiterStarts, KeepsInitWait, KeepsWaitAll, KeepsCheckPending
<1>2. CASE FiniWaitClient(p) \/ WaiterReturns(p) \/ FiniWaitDistEnv(p)
  BY <1>2, KeepsFiniWaitClient, KeepsWaiterReturns, KeepsFiniWaitDistEnv
<1>3. CASE LeaveWaitLoop(p) \/ Cleanup(p)
  BY <1>3, KeepsLeaveWaitLoop, KeepsCleanup
<1>4. CASE Distribute \/ FiniDistReady \/ FiniWaitHost \/ Undistribute \/ BcastDone
  BY <1>4, KeepsDistribute, KeepsFiniDistReady, KeepsFiniWaitHost, KeepsUndistribute, KeepsBcastDone
<1>5. CASE FlushBegin \/ FlushEnd
  BY <1>5, KeepsFlushBegin, KeepsFlushEnd
<1> QED
  BY <1>1, <1>2, <1>3, <1>4, <1>5 DEF Waiter

\* The invariant holds at the start.
LEMMA Starts == Init => DWInv
<1> SUFFICES ASSUME Init PROVE DWInv
  OBVIOUS
<1>0. mode \in Modes
  BY DEF Init
<1>1. /\ Host \in Procs /\ Clients \subseteq Procs /\ Host \notin Clients
      /\ NumProcs \in Nat /\ NumProcs >= 2 /\ mode.work \in Nat
      /\ \A q \in Procs : q \in Clients <=> q # Host
  BY <1>0, ProcsFacts, DistWaitConstants
<1>2. /\ \A p, q \in Procs : chan[p][q] = <<>>
      /\ \A p \in Procs : hand[p] = None /\ None.k = "none" /\ ~Early(None)
  BY DEF Init, None, Message, Early
<1>3. \A s : s = <<>> => (\A k : ~Has(s, k)) /\ ~HasEarly(s) /\ Once(s) /\ NoneBehind(s)
  BY DEF Has, HasEarly, Once, NoneBehind
<1>4. \A p, q \in Procs : (\A k : ~Has(chan[p][q], k)) /\ ~HasEarly(chan[p][q])
                          /\ Once(chan[p][q]) /\ NoneBehind(chan[p][q])
  BY <1>2, <1>3
<1>5. Shape
  <2>1. AppShape
    BY <1>1 DEF Init, AppShape, Phases, WaitPhases, ClientMain, InFlightPhases, One
  <2>2. CountShape /\ QueueShape
    BY <1>1 DEF Init, CountShape, QueueShape
  <2>3. ChanShape
    BY DEF Init, ChanShape
  <2>4. HandShape
    BY DEF Init, HandShape, None, Message, Msgs, HandMsgs, Handler
  <2> QED
    BY <1>0, <2>1, <2>2, <2>3, <2>4 DEF Shape
<1>6. Pipes
  BY <1>4 DEF Pipes
<1>7. ~InRound /\ ~InSync /\ wpc[Host] # "flush"
  BY <1>1 DEF Init, InRound, InSync
<1>8. \A c \in Clients : ~PingOut(c) /\ ~InWait(c) /\ ~PongOut(c) /\ OnePlace(c) /\ Ponged(c)
  <2> TAKE c \in Clients
  <2>1. ~PingOut(c) /\ ~PongOut(c)
    BY <1>1, <1>2, <1>4 DEF PingOut, PongOut
  <2>2. ~InWait(c) /\ OneZero(barrier[c])
    BY <1>1 DEF Init, InWait, Zero, OneZero
  <2> QED
    BY <1>1, <1>2, <1>4, <2>1, <2>2 DEF OnePlace, Ponged
<1>9. Round
  <2>1. Answers = Clients
    BY <1>8 DEF Answers
  <2>2. barrier[Host] = <<>> /\ hand[Host].k # "wPONG"
    BY <1>1, <1>2 DEF Init
  <2> QED
    BY <1>7, <1>8, <2>1, <2>2 DEF Round
<1>10. \A c \in Clients : ~Flushed(c) /\ ~Reported(c) /\ ~Arrived(c) /\ Got(c) = {}
  BY <1>7 DEF Flushed, Reported, Arrived, Got
<1>11. Flush
  <2>1. \A c \in Clients : FlushAt(c)
    <3> TAKE c \in Clients
    <3>1. hand[c].k = "none" /\ flushCount[c] = 0 /\ Cardinality(Got(c)) = 0
      BY <1>1, <1>2, <1>10, FS_EmptySet DEF Init
    <3> QED
      BY <1>1, <1>4, <1>10, <3>1 DEF FlushAt, One
  <2>2. Arrivals = {} /\ sync = 0 /\ hand[Host].k = "none"
    BY <1>1, <1>2, <1>10 DEF Arrivals, Init
  <2> QED
    BY <1>1, <1>4, <2>1, <2>2, FS_EmptySet DEF Flush, One
<1>12. Earlier
  BY <1>1, <1>2, <1>4, <1>10 DEF Earlier, EarlyAt
<1>13. Counts
  BY <1>7 DEF Counts, PingCounted
<1> QED
  BY <1>5, <1>6, <1>9, <1>11, <1>12, <1>13 DEF DWInv

\* A step of any process, or none, preserves the invariant.
LEMMA Keeps == DWInv /\ [Next]_vars => DWInv'
<1> SUFFICES ASSUME DWInv, [Next]_vars PROVE DWInv'
  OBVIOUS
<1>1. ASSUME NEW p \in Procs, mode' = mode,
             SendThread(p) \/ RecvThread(p) \/ Waiter(p) \/ Worker(p) \/ EnvPutsTag(p)
      PROVE  DWInv'
  BY <1>1, KeepsThreads, KeepsWaiter
<1>2. CASE UNCHANGED vars
  <2>1. mode' = mode
        /\ UNCHANGED <<steps, budget, inFlight, wpc, leaving, loop, barrier, flushCount,
            nMsgsRecvd, sync, readies, ctxt, sendQueue, chan, hand>>
    BY <1>2 DEF vars, appVars, waitVars, flushVars, ctxtVars
  <2>2. AppShape' /\ CountShape' /\ QueueShape' /\ ChanShape' /\ HandShape'
    BY <2>1, SameShape DEF DWInv
  <2>3. SamePipes /\ SameHands
    BY <2>1, QuietPush, QuietHand
  <2>4. /\ InRound' <=> InRound
        /\ InSync' <=> InSync
        /\ wpc'[Host] = "flush" <=> wpc[Host] = "flush"
        /\ \A c \in Clients : InWait(c)' <=> InWait(c)
    BY <2>1, SameMode DEF InRound, InSync, InWait
  <2> QED
    BY <2>1, <2>2, <2>3, <2>4, QuietStep
<1> QED
  BY <1>1, <1>2 DEF Next, Terminated

\* scheduler_i.cpp and distributor.cpp: where the messages of the rounds and of the
\* flush are, and what has been counted, in every behaviour.
THEOREM RoundsAndFlushes == Spec => []DWInv
BY Starts, Keeps, PTL DEF Spec

\* distributor.h:135 and scheduler_i.cpp:457: a flush ends when everything sent before
\* it has been handled, and no round has fewer messages than the loop condition says.
THEOREM FlushIsExact == Spec => []FlushExact
<1>1. DWInv => FlushExact
  <2> SUFFICES ASSUME DWInv, wpc[Host] = "sync", sync >= NumProcs - 1
               PROVE  /\ \A p, q \in Procs : ~HasEarly(chan[p][q]) /\ ~Early(hand[p])
                      /\ nMsgsRecvd[Host] >= 2 * NumProcs - 2
    BY DEF FlushExact, FlushFlushes, QuietRoundIsMinimal, AppOnItsWay, HasEarly, Early
  <2>1. sync = NumProcs - 1 /\ \A p, q \in Procs : ~HasEarly(chan[p][q]) /\ ~Early(hand[p])
    BY AllArrived
  <2>2. NumProcs \in Nat /\ Host \in Procs
    BY ProcsFacts DEF DWInv, Shape
  <2>3. nMsgsRecvd[Host] \in Nat /\ nMsgsRecvd[Host] >= NumProcs - 1 + sync
    BY <2>2 DEF DWInv, Shape, CountShape, Counts, InSync
  <2> QED
    BY <2>1, <2>2, <2>3
<1> QED
  BY <1>1, RoundsAndFlushes, PTL

\* The variables of the wait keep their shape, m_flushCount stays within the number of
\* processes, and a PING finds no other waiter of the same client.
THEOREM WaitTypeCorrect == Spec => []TypeOK
<1>1. DWInv => TypeOK
  <2> SUFFICES ASSUME DWInv PROVE TypeOK
    OBVIOUS
  <2>0. mode \in Modes /\ AppShape /\ CountShape
    BY DEF DWInv, Shape
  <2>1. /\ NumProcs \in Nat /\ NumProcs >= 2 /\ Host \in Procs
        /\ \A q \in Procs : q \in Clients <=> q # Host
    BY <2>0, ProcsFacts
  <2>2. \A c \in Clients : flushCount[c] \in 2 - NumProcs .. NumProcs
    <3> TAKE c \in Clients
    <3>1. Cardinality(Got(c)) \in Nat /\ Cardinality(Got(c)) <= NumProcs - 2
      BY <2>0, GotFinite
    <3>2. FlushAt(c)
      BY DEF DWInv, Flush
    <3> QED
      BY <2>1, <3>1, <3>2 DEF FlushAt, One
  <2>3. flushCount \in [Procs -> 2 - NumProcs .. NumProcs]
    BY <2>0, <2>1, <2>2 DEF CountShape
  <2>4. \A p \in Clients : Handles(p, "wPING") /\ ~DistEnv => wpc[p] = "none"
    BY DEF DWInv, Round, OnePlace, PingOut, InWait, Handles
  <2> QED
    BY <2>0, <2>3, <2>4 DEF TypeOK, AppShape, CountShape
<1> QED
  BY <1>1, RoundsAndFlushes, PTL
=============================================================================
