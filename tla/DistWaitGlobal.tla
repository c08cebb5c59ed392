--------------------------- MODULE DistWaitGlobal ---------------------------
(***************************************************************************)
(* What the processes may take for granted of each other at the end of a   *)
(* wait, for any number of them. Three invariants on top of DWInv:         *)
(*   GlobalInv    when main runs on the host only, wait returns when no    *)
(*                process has a step and no message of the program is on   *)
(*                its way (DistWaitProofs defines it);                     *)
(*   LeaveInv     when main runs on every process, the clients leave a     *)
(*                wait loop after the host;                                *)
(*   ContextInv   a message finds the clone of the context it is for.      *)
(***************************************************************************)
EXTENDS DistWaitProofs

-----------------------------------------------------------------------------
(* Sequences of messages *)

\* What a message at the end changes.
LEMMA AppendMore ==
  ASSUME NEW K, NEW s \in Seq(Msgs(K)), NEW m \in Msgs(K)
  PROVE  /\ BigReport(Append(s, m)) <=> BigReport(s) \/ BigPong(m)
         /\ NoneLater(Append(s, m)) <=> NoneLater(s) /\ (m.k = "app" => Early(m))
         /\ CleanupFirst(s) /\ (m.k = "CLEANUP" => ~Has(s, "wPING")) => CleanupFirst(Append(s, m))
<1> DEFINE t == Append(s, m)
<1>1. /\ DOMAIN t = 1 .. Len(s) + 1 /\ DOMAIN s = 1 .. Len(s) /\ Len(s) \in Nat
      /\ \A n \in 1 .. Len(s) : t[n] = s[n]
      /\ t[Len(s) + 1] = m
  OBVIOUS
<1> HIDE DEF t
<1>2. BigReport(t) <=> BigReport(s) \/ BigPong(m)
  BY <1>1 DEF BigReport
<1>3. NoneLater(t) <=> NoneLater(s) /\ (m.k = "app" => Early(m))
  BY <1>1 DEF NoneLater
<1>4. CleanupFirst(s) /\ (m.k = "CLEANUP" => ~Has(s, "wPING")) => CleanupFirst(t)
  BY <1>1 DEF CleanupFirst, Has
<1> QED
  BY <1>2, <1>3, <1>4 DEF t

\* What taking the first message changes.
LEMMA TailMore ==
  ASSUME NEW K, NEW s \in Seq(Msgs(K)), s # <<>>
  PROVE  /\ BigReport(s) <=> BigReport(Tail(s)) \/ BigPong(Head(s))
         /\ NoneLater(s) <=> NoneLater(Tail(s)) /\ (Head(s).k = "app" => Early(Head(s)))
         /\ CleanupFirst(s) => /\ CleanupFirst(Tail(s))
                               /\ Head(s).k = "wPING" => ~Has(Tail(s), "CLEANUP")
<1> DEFINE t == Tail(s)
           h == Head(s)
<1>1. /\ DOMAIN s = 1 .. Len(s) /\ Len(s) \in Nat /\ Len(s) > 0
      /\ DOMAIN t = 1 .. Len(s) - 1
      /\ \A n \in 1 .. Len(s) - 1 : t[n] = s[n + 1]
      /\ h = s[1]
  OBVIOUS
<1> HIDE DEF t, h
<1>2. \A n \in DOMAIN s : n = 1 \/ (n - 1 \in DOMAIN t /\ s[n] = t[n - 1])
  BY <1>1
<1>3. \A n \in DOMAIN t : n + 1 \in DOMAIN s /\ t[n] = s[n + 1]
  BY <1>1
<1>4. 1 \in DOMAIN s
  BY <1>1
<1>5. BigReport(s) <=> BigReport(t) \/ BigPong(h)
  BY <1>1, <1>2, <1>3, <1>4 DEF BigReport
<1>6. NoneLater(s) <=> NoneLater(t) /\ (h.k = "app" => Early(h))
  <2>1. NoneLater(s) => NoneLater(t) /\ (h.k = "app" => Early(h))
    BY <1>1, <1>3, <1>4 DEF NoneLater
  <2>2. ASSUME NoneLater(t), h.k = "app" => Early(h), NEW n \in DOMAIN s, s[n].k = "app"
        PROVE  Early(s[n])
    BY <1>1, <1>2, <2>2 DEF NoneLater
  <2> QED
    BY <2>1, <2>2 DEF NoneLater
<1>7. ASSUME CleanupFirst(s) PROVE CleanupFirst(t)
  <2> SUFFICES ASSUME NEW i \in DOMAIN t, NEW j \in DOMAIN t, t[i].k = "wPING", t[j].k = "CLEANUP"
               PROVE  j < i
    BY DEF CleanupFirst
  <2>1. j + 1 < i + 1
    BY <1>3, <1>7 DEF CleanupFirst
  <2> QED
    BY <1>1, <2>1
<1>8. ASSUME CleanupFirst(s), h.k = "wPING" PROVE ~Has(t, "CLEANUP")
  <2> SUFFICES ASSUME NEW j \in DOMAIN t, t[j].k = "CLEANUP" PROVE FALSE
    BY DEF Has
  <2>1. j + 1 < 1
    BY <1>1, <1>3, <1>4, <1>8 DEF CleanupFirst
  <2> QED
    BY <1>1, <2>1
<1> QED
  BY <1>5, <1>6, <1>7, <1>8 DEF t, h

\* What the ghost of the flush changes.
LEMMA MarkMore ==
  ASSUME NEW K, NEW s \in Seq(Msgs(K))
  PROVE  /\ BigReport(MarkAll(s)) <=> BigReport(s)
         /\ NoneLater(MarkAll(s))
         /\ CleanupFirst(s) => CleanupFirst(MarkAll(s))
<1> DEFINE t == MarkAll(s)
<1>1. DOMAIN t = DOMAIN s /\ \A n \in DOMAIN s : t[n] = Mark(s[n]) /\ s[n] \in Msgs(K)
  BY DEF MarkAll
<1> HIDE DEF t
<1>2. \A m \in Msgs(K) : /\ Mark(m).k = m.k
                         /\ m.k = "app" => Early(Mark(m))
                         /\ m.k # "app" => Mark(m) = m
  BY DEF Msgs, Mark, Message, Early
<1>3. BigReport(t) <=> BigReport(s)
  BY <1>1, <1>2 DEF BigReport, BigPong
<1>4. NoneLater(t)
  BY <1>1, <1>2 DEF NoneLater
<1>5. CleanupFirst(s) => CleanupFirst(t)
  BY <1>1, <1>2 DEF CleanupFirst
<1> QED
  BY <1>3, <1>4, <1>5 DEF t

-----------------------------------------------------------------------------
(* Steps that bring nothing new of the program *)

\* No pipe gets a message that starts a step, and none loses a surplus.
NoNewsInPipes ==
    \A p, q \in Procs :
        /\ \A k \in Starting : Has(chan'[p][q], k) => Has(chan[p][q], k)
        /\ Has(chan'[p][q], "wPING") <=> Has(chan[p][q], "wPING")
        /\ NoneLater(chan[p][q]) => NoneLater(chan'[p][q])
        /\ CleanupFirst(chan[p][q]) => CleanupFirst(chan'[p][q])
        /\ BigReport(chan[p][q]) => BigReport(chan'[p][q])

NoNewsInHands ==
    /\ \A p \in Procs : hand'[p].k \in Starting => hand[p].k = hand'[p].k
    /\ BigPong(hand[Host]) => BigPong(hand'[Host])

\* What the pipes hold after a push.
LEMMA PushMore ==
  ASSUME Shape, mode' = mode, NEW p \in Procs, NEW S \in SUBSET Procs, NEW m \in Msgs(Kinds),
         \A q \in S : m \in PipeMsgs(p, q), Push(p, m, S), NEW r \in Procs, NEW t \in Procs
  PROVE  /\ ~(r = p /\ t \in S) => chan'[r][t] = chan[r][t]
         /\ \A k \in Kinds : Has(chan'[r][t], k) <=>
                Has(chan[r][t], k) \/ (r = p /\ t \in S /\ m.k = k)
         /\ NoneLater(chan[r][t]) /\ m.k # "app" => NoneLater(chan'[r][t])
         /\ CleanupFirst(chan[r][t]) /\ (m.k = "CLEANUP" => ~Has(chan[r][t], "wPING"))
              => CleanupFirst(chan'[r][t])
         /\ BigReport(chan[r][t]) => BigReport(chan'[r][t])
<1> DEFINE s == chan[r][t]
<1>0. \A x, y \in Procs : chan'[x][y] = IF x = p /\ y \in S THEN Append(chan[x][y], m)
                                        ELSE chan[x][y]
  BY PushFacts
<1>1. chan'[r][t] = IF r = p /\ t \in S THEN Append(s, m) ELSE s
  BY <1>0
<1>2. s \in Seq(Msgs(Kinds))
  BY DEF Shape, ChanShape
<1> HIDE DEF s
<1>3. /\ \A k : Has(Append(s, m), k) <=> Has(s, k) \/ m.k = k
      /\ NoneLater(s) /\ m.k # "app" => NoneLater(Append(s, m))
      /\ CleanupFirst(s) /\ (m.k = "CLEANUP" => ~Has(s, "wPING")) => CleanupFirst(Append(s, m))
      /\ BigReport(s) => BigReport(Append(s, m))
  BY <1>2, AppendFacts, AppendMore
<1> QED
  BY <1>1, <1>3 DEF s

\* A push of a message that starts nothing, or none.
LEMMA PipesWithoutNews ==
  ASSUME Shape, mode' = mode
  PROVE  /\ UNCHANGED chan => NoNewsInPipes
         /\ \A p \in Procs : \A S \in SUBSET Procs : \A m \in Msgs(Kinds) :
               m.k \notin Starting \cup {"wPING"} /\ Push(p, m, S)
                  /\ (\A q \in S : m \in PipeMsgs(p, q))
                   => NoNewsInPipes
<1>1. UNCHANGED chan => NoNewsInPipes
  BY DEF NoNewsInPipes
<1>2. ASSUME NEW p \in Procs, NEW S \in SUBSET Procs, NEW m \in Msgs(Kinds),
             m.k \notin Starting \cup {"wPING"}, Push(p, m, S), \A q \in S : m \in PipeMsgs(p, q)
      PROVE  NoNewsInPipes
  <2> SUFFICES ASSUME NEW r \in Procs, NEW q \in Procs
               PROVE  /\ \A k \in Starting : Has(chan'[r][q], k) => Has(chan[r][q], k)
                      /\ Has(chan'[r][q], "wPING") <=> Has(chan[r][q], "wPING")
                      /\ NoneLater(chan[r][q]) => NoneLater(chan'[r][q])
                      /\ CleanupFirst(chan[r][q]) => CleanupFirst(chan'[r][q])
                      /\ BigReport(chan[r][q]) => BigReport(chan'[r][q])
    BY DEF NoNewsInPipes
  <2>1. /\ \A k \in Kinds : Has(chan'[r][q], k) <=>
               Has(chan[r][q], k) \/ (r = p /\ q \in S /\ m.k = k)
        /\ NoneLater(chan[r][q]) /\ m.k # "app" => NoneLater(chan'[r][q])
        /\ CleanupFirst(chan[r][q]) /\ (m.k = "CLEANUP" => ~Has(chan[r][q], "wPING"))
             => CleanupFirst(chan'[r][q])
        /\ BigReport(chan[r][q]) => BigReport(chan'[r][q])
    BY <1>2, PushMore
  <2> QED
    BY <1>2, <2>1 DEF Starting, Kinds
<1> QED
  BY <1>1, <1>2

\* A handler returns or goes on, or none does.
LEMMA HandsWithoutNews ==
  ASSUME Shape, mode' = mode
  PROVE  /\ UNCHANGED hand => NoNewsInHands
         /\ \A p \in Procs : (p = Host => hand[p].k # "fPONG") /\ HandlerReturns(p) => NoNewsInHands
         /\ \A p \in Procs \ {Host} : \A m \in Msgs(Handler) : GoOnWith(p, m) => NoNewsInHands
<1>0. Host \in Procs
  BY ProcsFacts DEF Shape
<1>1. UNCHANGED hand => NoNewsInHands
  BY DEF NoNewsInHands
<1>2. ASSUME NEW p \in Procs, p = Host => hand[p].k # "fPONG", HandlerReturns(p) PROVE NoNewsInHands
  <2>1. hand'[p].k = "none" /\ \A r \in Procs \ {p} : hand'[r] = hand[r]
    BY <1>2, Returned
  <2> QED
    BY <1>0, <1>2, <2>1 DEF NoNewsInHands, Starting, BigPong
<1>3. ASSUME NEW p \in Procs \ {Host}, NEW m \in Msgs(Handler), GoOnWith(p, m) PROVE NoNewsInHands
  <2>1. hand'[p] = m /\ \A r \in Procs \ {p} : hand'[r] = hand[r]
    BY <1>3, WentOn
  <2>2. m.k \notin Starting
    BY DEF Msgs, Handler, Starting
  <2> QED
    BY <1>0, <1>3, <2>1, <2>2 DEF NoNewsInHands
<1> QED
  BY <1>1, <1>2, <1>3

\* The bound of the host's counter.
LEMMA HostMinType ==
  ASSUME Shape
  PROVE  HostMin \in Nat /\ \A p \in Procs : nMsgsRecvd[p] \in Nat
<1>1. NumProcs \in Nat /\ NumProcs >= 2 /\ sync \in Nat /\ Cardinality(Answers) \in Nat
  BY ProcsFacts, AnswersFinite DEF Shape, CountShape
<1> QED
  BY <1>1 DEF HostMin, Shape, CountShape

\* A surplus stays where it is when nothing is counted down.
LEMMA SurplusStays ==
  ASSUME DWInv, Shape', mode' = mode, SameCounts
  PROVE  /\ Dirty /\ (BigPong(hand[Host]) => BigPong(hand'[Host]))
              /\ (\A c \in Clients : BigReport(chan[c][Host]) => BigReport(chan'[c][Host]))
              => Dirty'
         /\ HandCounted /\ (\A p \in Procs : hand'[p].k \in Starting => hand[p].k \in Starting)
              => HandCounted'
         /\ (\E c \in Clients : Busy(c)) \/ nMsgsRecvd[Host] > HostMin => Dirty'
<1> USE SameMode
<1>1. Host \in Procs /\ Clients \subseteq Procs
  BY ProcsFacts DEF DWInv, Shape
<1>2. HostMin' = HostMin
  BY DEF HostMin, SameCounts
<1>3. HostMin \in Nat /\ \A p \in Procs : nMsgsRecvd[p] \in Nat
  BY HostMinType DEF DWInv
<1>4. \A p \in Procs : nMsgsRecvd'[p] \in Nat /\ nMsgsRecvd'[p] >= nMsgsRecvd[p]
  BY DEF Shape, CountShape, SameCounts
<1>5. \A c \in Clients : One(PingCounted(c)') = One(PingCounted(c)) /\ One(PingCounted(c)) \in Nat
  BY DEF SameCounts, One
<1>6. \A c \in Clients : Busy(c) => Busy(c)'
  <2> TAKE c \in Clients
  <2>1. Reported(c)' <=> Reported(c)
    BY DEF SameCounts
  <2> QED
    BY <1>1, <1>3, <1>4, <1>5, <2>1 DEF Busy
<1>7. nMsgsRecvd[Host] > HostMin => nMsgsRecvd'[Host] > HostMin'
  BY <1>1, <1>2, <1>3, <1>4
<1>8. HandCounted /\ (\A p \in Procs : hand'[p].k \in Starting => hand[p].k \in Starting)
        => HandCounted'
  BY <1>1, <1>3, <1>4, <1>5, <1>7 DEF HandCounted
<1>9. Dirty /\ (BigPong(hand[Host]) => BigPong(hand'[Host]))
        /\ (\A c \in Clients : BigReport(chan[c][Host]) => BigReport(chan'[c][Host]))
        => Dirty'
  BY <1>6, <1>7 DEF Dirty
<1>10. (\E c \in Clients : Busy(c)) \/ nMsgsRecvd[Host] > HostMin => Dirty'
  BY <1>6, <1>7 DEF Dirty
<1> QED
  BY <1>8, <1>9, <1>10

\* Quiescent in terms of the questions the invariant asks of a pipe.
LEMMA QuiescentIs ==
  Quiescent <=> /\ \A p \in Procs : steps[p] = 0 /\ hand[p].k # "app"
                /\ \A p, q \in Procs : ~Has(chan[p][q], "app")
BY DEF Quiescent, AppOnItsWay, Any, Has

\* A step that brings nothing new, starts no step, and after which nobody has found
\* himself idle who had not before or is.
LEMMA OrdinaryStep ==
  ASSUME DWInv, DWInv', mode' = mode, Global, SameCounts, NoNewsInPipes, NoNewsInHands,
         wpc[Host] = "init" => wpc'[Host] = "init",
         wpc'[Host] = "done" => wpc[Host] = "done",
         \A p \in Procs : steps[p] = 0 => steps'[p] = 0,
         \A p \in Procs : Checked(p)' => Checked(p) \/ steps'[p] = 0
  PROVE  Global'
<1> USE SameMode
<1>0. Host \in Procs /\ Clients \subseteq Procs /\ Shape'
  BY ProcsFacts DEF DWInv, Shape
<1>1. \A c \in Clients : CleanupAt(c)'
  <2> TAKE c \in Clients
  <2>1. CleanupAt(c)
    BY DEF Global
  <2>2. /\ Has(chan'[Host][c], "CLEANUP") => Has(chan[Host][c], "CLEANUP")
        /\ Has(chan'[Host][c], "wPING") <=> Has(chan[Host][c], "wPING")
        /\ CleanupFirst(chan[Host][c]) => CleanupFirst(chan'[Host][c])
        /\ hand'[c].k = "CLEANUP" => hand[c].k = "CLEANUP"
    BY <1>0 DEF NoNewsInPipes, NoNewsInHands, Starting
  <2> QED
    BY <2>1, <2>2 DEF CleanupAt
<1>2. HandCounted' /\ (Dirty => Dirty')
  <2>1. /\ BigPong(hand[Host]) => BigPong(hand'[Host])
        /\ \A p \in Procs : hand'[p].k \in Starting => hand[p].k \in Starting
        /\ \A c \in Clients : BigReport(chan[c][Host]) => BigReport(chan'[c][Host])
    BY <1>0 DEF NoNewsInPipes, NoNewsInHands
  <2> QED
    BY <1>0, <2>1, SurplusStays DEF Global
<1>3. \A p, q \in Procs : /\ hand'[p].k = "app" => hand[p].k = "app"
                          /\ Has(chan'[p][q], "app") => Has(chan[p][q], "app")
                          /\ NoneLater(chan[p][q]) => NoneLater(chan'[p][q])
  BY DEF NoNewsInPipes, NoNewsInHands, Starting
<1>4. Calm => Calm'
  <2>1. InSync' <=> InSync
    BY DEF SameCounts
  <2> QED
    BY <1>3, <2>1 DEF Calm
<1>5. Ended'
  <2>1. Quiescent => Quiescent'
    <3> SUFFICES ASSUME Quiescent
                 PROVE  /\ \A p \in Procs : steps'[p] = 0 /\ hand'[p].k # "app"
                        /\ \A p, q \in Procs : ~Has(chan'[p][q], "app")
      BY DEF Quiescent, AppOnItsWay, Any, Has
    <3> QED
      BY <1>3, QuiescentIs
  <2> QED
    BY <2>1 DEF Global, Ended
<1> QED
  BY <1>1, <1>2, <1>4, <1>5 DEF Global

\* A client whose wait does not change has found itself idle only if it had before.
LEMMA StillChecked ==
  ASSUME DWInv, mode' = mode, ~DistEnv, SameCounts, NEW c \in Clients, wpc'[c] = wpc[c],
         Has(chan'[Host][c], "wPING") <=> Has(chan[Host][c], "wPING"),
         hand[c].k = "wPING" => hand'[c].k = "wPING"
  PROVE  Checked(c)' => Checked(c)
<1> USE SameMode
<1>0. c # Host
  BY ProcsFacts DEF DWInv, Shape
<1>1. wpc'[Host] \in {"flush", "sync"} <=> wpc[Host] \in {"flush", "sync"}
  BY DEF SameCounts, InSync
<1>2. (PingOut(c) => PingOut(c)') /\ (InWait(c) => InWait(c)') /\ (InRound' <=> InRound)
  BY DEF PingOut, InWait, SameCounts
<1> QED
  BY <1>0, <1>1, <1>2 DEF Checked, Host

\* A step that brings nothing new and no wait forward.
LEMMA SameWaits ==
  ASSUME DWInv, DWInv', mode' = mode, HostOnly, Global, SameCounts, NoNewsInPipes, NoNewsInHands,
         wpc' = wpc, \A p \in Procs : steps[p] = 0 => steps'[p] = 0,
         \A c \in Clients : hand[c].k = "wPING" => hand'[c].k = "wPING"
  PROVE  Global'
<1>0. Host \in Procs /\ Clients \subseteq Procs /\ \A p \in Procs : p \in Clients <=> p # Host
  BY ProcsFacts DEF DWInv, Shape
<1>1. ASSUME NEW c \in Clients PROVE Checked(c)' => Checked(c)
  <2>1. Has(chan'[Host][c], "wPING") <=> Has(chan[Host][c], "wPING")
    BY <1>0 DEF NoNewsInPipes
  <2> QED
    BY <2>1, StillChecked DEF HostOnly
<1>2. Checked(Host)' => Checked(Host)
  BY DEF Checked
<1> QED
  BY <1>0, <1>1, <1>2, OrdinaryStep

-----------------------------------------------------------------------------
(* The steps that bring nothing new *)

\* The send thread
LEMMA GlobalSendThread ==
  ASSUME DWInv, mode' = mode, HostOnly, Global, NEW p \in Procs,
         SendThreadPop(p) \/ SendThreadWrite(p)
  PROVE  Global'
<1>1. DWInv' /\ SameCounts
  BY KeepsSendThreadPop, KeepsSendThreadWrite
<1>2. UNCHANGED <<steps, wpc, chan, hand>>
  BY DEF SendThreadPop, SendThreadWrite, appVars, waitVars
<1>3. NoNewsInPipes /\ NoNewsInHands
  BY <1>2, PipesWithoutNews, HandsWithoutNews DEF DWInv
<1> QED
  BY <1>1, <1>2, <1>3, SameWaits

\* A step ends, a waiter that has reported returns.
LEMMA GlobalStepEnds ==
  ASSUME DWInv, mode' = mode, HostOnly, Global, NEW p \in Procs, StepEnds(p) \/ WaiterReturns(p)
  PROVE  Global'
<1>1. DWInv' /\ SameCounts
  BY KeepsStepEnds, KeepsWaiterReturns
<1>2. UNCHANGED <<wpc, chan, hand>>
  BY DEF StepEnds, WaiterReturns, appVars, waitVars
<1>3. \A r \in Procs : steps[r] = 0 => steps'[r] = 0
  BY DEF StepEnds, WaiterReturns, appVars, DWInv, Shape, AppShape
<1>4. NoNewsInPipes /\ NoNewsInHands
  BY <1>2, PipesWithoutNews, HandsWithoutNews DEF DWInv
<1> QED
  BY <1>1, <1>2, <1>3, <1>4, SameWaits

\* A handler that returns or goes on, when it does not handle a PING of a round.
LEMMA OtherHands ==
  ASSUME DWInv, mode' = mode, NEW p \in Procs, hand[p].k # "wPING",
         p = Host => hand[p].k # "fPONG",
         HandlerReturns(p) \/ (p # Host /\ \E m \in Msgs(Handler) : GoOnWith(p, m))
  PROVE  NoNewsInHands /\ \A c \in Clients : hand[c].k = "wPING" => hand'[c].k = "wPING"
<1>0. Clients \subseteq Procs /\ Shape
  BY ProcsFacts DEF DWInv, Shape
<1>1. NoNewsInHands
  BY <1>0, HandsWithoutNews
<1>2. \A r \in Procs \ {p} : hand'[r] = hand[r]
  BY <1>0, Returned, WentOn
<1> QED
  BY <1>0, <1>1, <1>2

\* The clones
LEMMA GlobalHandleDistribute ==
  ASSUME DWInv, mode' = mode, HostOnly, Global, NEW p \in Procs, HandleDistribute(p)
  PROVE  Global'
<1>1. DWInv' /\ SameCounts
  BY KeepsHandleDistribute
<1>2. UNCHANGED <<wpc, steps>>
  BY DEF HandleDistribute, appVars, waitVars
<1>3. p # Host /\ Host \in Procs
  BY ProcsFacts DEF DWInv, Shape, HandleDistribute, Handles, HandShape, HandMsgs, Reports, Msgs
<1>4. NoNewsInPipes
  <2>1. Message("READY", 0) \in Msgs(Kinds) /\ Message("READY", 0).k \notin Starting \cup {"wPING"}
    BY DEF Message, Msgs, Kinds, Starting
  <2>2. \A q \in {Host} : Message("READY", 0) \in PipeMsgs(p, q)
    BY <1>3 DEF PipeMsgs, Reports, Msgs, Kinds, Message
  <2> QED
    BY <1>3, <2>1, <2>2, PipesWithoutNews DEF DWInv, HandleDistribute, Send
<1>5. NoNewsInHands /\ \A c \in Clients : hand[c].k = "wPING" => hand'[c].k = "wPING"
  BY <1>3, OtherHands DEF HandleDistribute, Handles
<1> QED
  BY <1>1, <1>2, <1>4, <1>5, SameWaits

\* READY, UN_CTXT, the PONG of a round
LEMMA GlobalHandled ==
  ASSUME DWInv, mode' = mode, HostOnly, Global, NEW p \in Procs,
         (p = Host /\ HandleReady) \/ HandleUndistribute(p) \/ HandleWaitPong(p)
  PROVE  Global'
<1>1. DWInv' /\ SameCounts
  BY KeepsHandleReady, KeepsHandleUndistribute, KeepsHandleWaitPong
<1>2. UNCHANGED <<wpc, steps, chan>>
  BY DEF HandleReady, HandleUndistribute, HandleWaitPong, appVars, waitVars
<1>3. NoNewsInPipes
  BY <1>2, PipesWithoutNews DEF DWInv
<1>4. NoNewsInHands /\ \A c \in Clients : hand[c].k = "wPING" => hand'[c].k = "wPING"
  BY OtherHands DEF HandleReady, HandleUndistribute, HandleWaitPong, Handles
<1> QED
  BY <1>1, <1>2, <1>3, <1>4, SameWaits

\* The PING and the PONGs of a flush on a client, until it reports
LEMMA GlobalFlushClient ==
  ASSUME DWInv, mode' = mode, HostOnly, Global, NEW p \in Procs,
         HandleFlushPing(p) \/ FlushPongOthers(p) \/ HandleFlushPongClient(p)
  PROVE  Global'
<1>1. DWInv' /\ SameCounts
  BY KeepsHandleFlushPing, KeepsFlushPongOthers, KeepsHandleFlushPongClient
<1>2. UNCHANGED <<wpc, steps>>
  BY DEF HandleFlushPing, FlushPongOthers, HandleFlushPongClient, appVars, waitVars
<1>3. /\ hand[p].k \in {"fPING", "pongOthers", "fPONG", "countDown"}
      /\ hand[p].k = "fPONG" => p # Host
  BY DEF HandleFlushPing, FlushPongOthers, HandleFlushPongClient, Handles, PongOthers, CountDown,
     Message
<1>4. p # Host
  BY <1>3 DEF DWInv, Shape, HandShape, HandMsgs, Reports, Msgs
<1>5. NoNewsInPipes
  <2>1. CASE UNCHANGED chan
    BY <2>1, PipesWithoutNews DEF DWInv
  <2>2. CASE FlushPongOthers(p)
    <3>1. Message("fPONG", 0) \in Msgs(Kinds)
          /\ Message("fPONG", 0).k \notin Starting \cup {"wPING"}
      BY DEF Message, Msgs, Kinds, Starting
    <3>2. Clients \ {p} \in SUBSET Procs
      BY ProcsFacts DEF DWInv, Shape
    <3>3. \A q \in Clients \ {p} : Message("fPONG", 0) \in PipeMsgs(p, q)
      BY <1>4, ProcsFacts DEF DWInv, Shape, PipeMsgs, Msgs, Message
    <3>4. Push(p, Message("fPONG", 0), Clients \ {p})
      BY <2>2 DEF FlushPongOthers
    <3> QED
      BY <3>1, <3>2, <3>3, <3>4, PipesWithoutNews DEF DWInv
  <2> QED
    BY <2>1, <2>2 DEF HandleFlushPing, HandleFlushPongClient
<1>6. NoNewsInHands /\ \A c \in Clients : hand[c].k = "wPING" => hand'[c].k = "wPING"
  <2>1. CountDown \in Msgs(Handler) /\ PongOthers \in Msgs(Handler) /\ PongHost \in Msgs(Handler)
    BY DEF CountDown, PongOthers, PongHost, Message, Msgs, Handler
  <2>2. HandlerReturns(p) \/ \E m \in Msgs(Handler) : GoOnWith(p, m)
    BY <2>1 DEF HandleFlushPing, FlushPongOthers, HandleFlushPongClient
  <2> QED
    BY <1>3, <1>4, <2>2, OtherHands
<1> QED
  BY <1>1, <1>2, <1>5, <1>6, SameWaits

\* Only the wait of p goes on.
LEMMA OneWait ==
  ASSUME DWInv, DWInv', mode' = mode, HostOnly, Global, SameCounts, NoNewsInPipes, NoNewsInHands,
         NEW p \in Procs, \A r \in Procs \ {p} : wpc'[r] = wpc[r] /\ hand'[r] = hand[r],
         p = Host /\ wpc[p] = "init" => wpc'[p] = "init",
         p = Host => wpc'[p] # "done",
         steps' = steps, Checked(p)' => Checked(p) \/ steps[p] = 0
  PROVE  Global'
<1>0. Host \in Procs /\ Clients \subseteq Procs /\ \A r \in Procs : r \in Clients <=> r # Host
  BY ProcsFacts DEF DWInv, Shape
<1>1. ASSUME NEW c \in Clients, c # p PROVE Checked(c)' => Checked(c)
  <2>1. Has(chan'[Host][c], "wPING") <=> Has(chan[Host][c], "wPING")
    BY <1>0 DEF NoNewsInPipes
  <2> QED
    BY <1>0, <1>1, <2>1, StillChecked DEF HostOnly
<1>2. p # Host => (Checked(Host)' => Checked(Host))
  BY <1>0 DEF Checked
<1>3. wpc[Host] = "init" => wpc'[Host] = "init"
  BY <1>0
<1>4. wpc'[Host] = "done" => wpc[Host] = "done"
  BY <1>0
<1>5. \A r \in Procs : Checked(r)' => Checked(r) \/ steps'[r] = 0
  BY <1>0, <1>1, <1>2
<1> QED
  BY <1>3, <1>4, <1>5, OrdinaryStep

\* The host clones the context and deletes it.
LEMMA GlobalDistribute ==
  ASSUME DWInv, mode' = mode, HostOnly, Global, Distribute \/ Undistribute PROVE Global'
<1>0. Host \in Procs /\ Shape /\ AppShape
  BY ProcsFacts DEF DWInv, Shape
<1>1. DWInv' /\ SameCounts
  BY KeepsDistribute, KeepsUndistribute
<1>2. UNCHANGED <<steps, hand>> /\ (wpc[Host] = "init" => wpc'[Host] = "init")
      /\ wpc'[Host] \in {"awaitReady", "none"} /\ \A r \in Procs \ {Host} : wpc'[r] = wpc[r]
  BY <1>0 DEF Distribute, Undistribute, appVars, AppShape
<1>3. NoNewsInPipes
  <2>1. ASSUME NEW kind \in {"DIS_CTXT", "UN_CTXT"}, Bcast(Host, Message(kind, 0))
        PROVE  NoNewsInPipes
    <3>1. Message(kind, 0) \in Msgs(Kinds) /\ Message(kind, 0).k \notin Starting \cup {"wPING"}
      BY DEF Message, Msgs, Kinds, Starting
    <3>2. \A q \in Procs \ {Host} : Message(kind, 0) \in PipeMsgs(Host, q)
      BY DEF PipeMsgs, Msgs, Kinds, Message
    <3>3. Push(Host, Message(kind, 0), Procs \ {Host}) /\ Procs \ {Host} \in SUBSET Procs
      BY <2>1 DEF Bcast
    <3> QED
      BY <1>0, <3>1, <3>2, <3>3, PipesWithoutNews
  <2> QED
    BY <2>1 DEF Distribute, Undistribute
<1>4. NoNewsInHands
  BY <1>0, <1>2, HandsWithoutNews
<1>5. ~Checked(Host)'
  BY <1>2 DEF Checked
<1> QED
  BY <1>0, <1>1, <1>2, <1>3, <1>4, <1>5, OneWait

\* The steps of the host outside a round that send nothing: main begins, calls wait
\* and comes out of it.
LEMMA GlobalHostMoves ==
  ASSUME DWInv, mode' = mode, HostOnly, Global, NEW p \in Procs,
         (p = Host /\ (FiniDistReady \/ BcastDone)) \/ EnvWaits(p) \/ LeaveWaitLoop(p)
  PROVE  Global'
<1>0. Host \in Procs /\ Shape /\ AppShape /\ ~DistEnv
  BY ProcsFacts DEF DWInv, Shape, HostOnly
<1>1. DWInv' /\ SameCounts
  BY KeepsFiniDistReady, KeepsBcastDone, KeepsEnvWaits, KeepsLeaveWaitLoop
<1>2. p = Host
  BY <1>0 DEF EnvWaits, LeaveWaitLoop, AppShape, WaitPhases
<1>3. UNCHANGED <<steps, hand, chan>> /\ (wpc[p] = "init" => wpc'[p] = "init")
      /\ wpc'[p] \in {"main", "leave", "init", "cleanup", "end"}
      /\ \A r \in Procs \ {p} : wpc'[r] = wpc[r]
  BY <1>0, <1>2 DEF FiniDistReady, BcastDone, EnvWaits, LeaveWaitLoop, appVars, AppShape
<1>4. NoNewsInHands /\ NoNewsInPipes
  BY <1>0, <1>3, HandsWithoutNews, PipesWithoutNews
<1>5. ~Checked(p)'
  BY <1>2, <1>3 DEF Checked
<1> QED
  BY <1>1, <1>2, <1>3, <1>4, <1>5, OneWait

\* The wait of a process until it has found itself idle
LEMMA GlobalWaitAll ==
  ASSUME DWInv, mode' = mode, HostOnly, Global, NEW p \in Procs,
         WaiterStarts(p) \/ WaitAll(p) \/ CheckPending(p)
  PROVE  Global'
<1>0. Host \in Procs /\ Shape /\ AppShape /\ ~DistEnv /\ (p \in Clients <=> p # Host)
  BY ProcsFacts DEF DWInv, Shape, HostOnly
<1>1. DWInv' /\ SameCounts
  BY KeepsWaiterStarts, KeepsWaitAll, KeepsCheckPending
<1>2. UNCHANGED <<steps, hand, chan>> /\ \A r \in Procs \ {p} : wpc'[r] = wpc[r]
  BY <1>0 DEF WaiterStarts, WaitAll, CheckPending, appVars, AppShape
<1>3. wpc[p] \in {"spawned", "waiting", "idle"} /\ wpc'[p] \in {"waiting", "idle", "fini"}
  BY <1>0 DEF WaiterStarts, WaitAll, CheckPending, AppShape
<1>4. NoNewsInHands /\ NoNewsInPipes
  BY <1>0, <1>2, HandsWithoutNews, PipesWithoutNews
<1>5. Checked(p)' => Checked(p) \/ steps[p] = 0
  <2>1. CASE WaitAll(p)
    <3>1. inFlight[p] <= 1 /\ wpc[p] = "waiting"
      BY <2>1 DEF WaitAll, LocallyIdle
    <3>2. inFlight[p] = steps[p] + leaving[p] + 1 /\ steps[p] \in Nat /\ leaving[p] \in Nat
      BY <1>0, <3>1 DEF AppShape, One, InFlightPhases
    <3> QED
      BY <3>1, <3>2
  <2>2. CASE CheckPending(p)
    BY <1>0, <2>2 DEF CheckPending, Checked
  <2>3. CASE WaiterStarts(p)
    <3>1. wpc[p] = "spawned" /\ wpc'[p] = "waiting" /\ p # Host
      BY <1>0, <2>3 DEF WaiterStarts, AppShape, WaitPhases
    <3>2. InWait(p)' /\ InWait(p)
      BY <1>0, <3>1, SameMode DEF InWait
    <3>3. wpc'[Host] \in {"flush", "sync"} => wpc[Host] \in {"flush", "sync"}
      BY <1>0, <1>2, <3>1
    <3> QED
      BY <3>1, <3>2, <3>3 DEF Checked
  <2> QED
    BY <2>1, <2>2, <2>3
<1> QED
  BY <1>1, <1>2, <1>3, <1>4, <1>5, OneWait

\* fini_wait of a client
LEMMA GlobalFiniWaitClient ==
  ASSUME DWInv, mode' = mode, HostOnly, Global, NEW p \in Procs, FiniWaitClient(p)
  PROVE  Global'
<1>0. Host \in Procs /\ Shape /\ AppShape /\ p # Host
  BY ProcsFacts DEF DWInv, Shape, FiniWaitClient
<1>1. DWInv' /\ SameCounts
  BY KeepsFiniWaitClient
<1>2. UNCHANGED <<steps, hand>> /\ \A r \in Procs \ {p} : wpc'[r] = wpc[r]
  BY DEF FiniWaitClient, appVars, AppShape
<1>3. NoNewsInPipes
  <2>1. Message("wPONG", 0) \in Msgs(Kinds) /\ Message("wPONG", 0).k \notin Starting \cup {"wPING"}
    BY DEF Message, Msgs, Kinds, Starting
  <2>2. \A q \in {Host} : Message("wPONG", 0) \in PipeMsgs(p, q)
    BY <1>0 DEF PipeMsgs, Reports, Msgs, Message
  <2> QED
    BY <1>0, <2>1, <2>2, PipesWithoutNews DEF FiniWaitClient, Send
<1>4. NoNewsInHands
  BY <1>0, <1>2, HandsWithoutNews
<1>5. Checked(p)
  BY <1>0 DEF FiniWaitClient, Checked
<1> QED
  BY <1>0, <1>1, <1>2, <1>3, <1>4, <1>5, OneWait

\* scheduler_i::recv_msg, PING
LEMMA GlobalHandleWaitPing ==
  ASSUME DWInv, mode' = mode, HostOnly, Global, NEW p \in Procs, HandleWaitPing(p)
  PROVE  Global'
<1>0. Host \in Procs /\ Shape /\ AppShape /\ ~DistEnv
  BY ProcsFacts DEF DWInv, Shape, HostOnly
<1>1. DWInv' /\ SameCounts
  BY KeepsHandleWaitPing
<1>2. p # Host /\ p \in Clients /\ hand[p].k = "wPING"
  BY <1>0, ProcsFacts DEF HandleWaitPing, Handles, Shape, HandShape, HandMsgs, Reports, Msgs
<1>3. UNCHANGED <<steps, chan>> /\ wpc'[p] = "spawned" /\ \A r \in Procs \ {p} : wpc'[r] = wpc[r]
  BY <1>0 DEF HandleWaitPing, appVars, AppShape
<1>4. NoNewsInPipes /\ NoNewsInHands /\ \A r \in Procs \ {p} : hand'[r] = hand[r]
  BY <1>0, <1>2, <1>3, HandsWithoutNews, PipesWithoutNews, Returned DEF HandleWaitPing
<1>5. ~Checked(p)'
  <2>1. InRound
    BY <1>2, OutsideRound DEF DWInv, PingOut
  <2>2. wpc'[Host] \notin {"flush", "sync"}
    BY <1>0, <1>2, <1>3, <2>1 DEF InRound
  <2>3. InWait(p)'
    BY <1>0, <1>3, SameMode DEF InWait
  <2> QED
    BY <1>2, <1>3, <2>2, <2>3 DEF Checked
<1> QED
  BY <1>1, <1>2, <1>3, <1>4, <1>5, OneWait

-----------------------------------------------------------------------------
(* The steps of the program *)

\* Between the rounds nobody has found himself idle.
LEMMA OutsideCalm ==
  ASSUME DWInv', mode' = mode, ~DistEnv,
         wpc'[Host] \notin {"waiting", "idle", "fini", "flush", "sync"}
  PROVE  Calm'
<1> USE SameMode
<1>0. Host \in Procs' /\ \A p \in Procs' : p \in Clients' <=> p # Host
  BY ProcsFacts DEF DWInv, Shape
<1>1. ~InRound' /\ ~InSync'
  BY DEF InRound, InSync
<1>2. \A c \in Clients' : wpc'[c] = "none"
  <2>1. Answers' = Clients'
    BY <1>1 DEF DWInv, Round
  <2>2. \A c \in Clients' : ~InWait(c)'
    BY <2>1 DEF Answers, Ponged
  <2> QED
    BY <2>2 DEF InWait
<1>3. \A p \in Procs' : ~Checked(p)'
  BY <1>0, <1>1, <1>2 DEF Checked
<1> QED
  BY <1>1, <1>3 DEF Calm

\* What keeps the order of cleanup and PING.
LEMMA CleanupStays ==
  ASSUME DWInv, mode' = mode, Global, wpc[Host] = "init" => wpc'[Host] = "init",
         \A c \in Clients :
            /\ Has(chan'[Host][c], "CLEANUP") => Has(chan[Host][c], "CLEANUP")
            /\ Has(chan'[Host][c], "wPING") <=> Has(chan[Host][c], "wPING")
            /\ CleanupFirst(chan[Host][c]) => CleanupFirst(chan'[Host][c])
            /\ hand'[c].k = "CLEANUP" => hand[c].k = "CLEANUP"
  PROVE  \A c \in Clients : CleanupAt(c)'
BY DEF Global, CleanupAt

\* A message of the program is sent, or none.
AppSent ==
    \/ UNCHANGED chan
    \/ \E p \in Procs : \E q \in Procs \ {p} : Send(p, Message("app", 0), q)

LEMMA AppPushed ==
  ASSUME DWInv, mode' = mode, AppSent
  PROVE  \A r, q \in Procs :
            /\ Has(chan'[r][q], "CLEANUP") <=> Has(chan[r][q], "CLEANUP")
            /\ Has(chan'[r][q], "wPING") <=> Has(chan[r][q], "wPING")
            /\ CleanupFirst(chan[r][q]) => CleanupFirst(chan'[r][q])
            /\ BigReport(chan[r][q]) => BigReport(chan'[r][q])
<1>1. CASE UNCHANGED chan
  BY <1>1
<1>2. ASSUME NEW p \in Procs, NEW t \in Procs \ {p}, Send(p, Message("app", 0), t)
      PROVE  \A r, q \in Procs :
                /\ Has(chan'[r][q], "CLEANUP") <=> Has(chan[r][q], "CLEANUP")
                /\ Has(chan'[r][q], "wPING") <=> Has(chan[r][q], "wPING")
                /\ CleanupFirst(chan[r][q]) => CleanupFirst(chan'[r][q])
                /\ BigReport(chan[r][q]) => BigReport(chan'[r][q])
  <2> DEFINE m == Message("app", 0)
             S == {t}
  <2>0. m.k = "app"
    BY DEF Message
  <2>1. m \in Msgs(Kinds)
    BY DEF Message, Msgs, Kinds
  <2>2. \A q \in S : m \in PipeMsgs(p, q)
    BY DEF PipeMsgs, Reports, Msgs, Kinds, Message
  <2>3. Push(p, m, S) /\ S \in SUBSET Procs
    BY <1>2 DEF Send
  <2> HIDE DEF m, S
  <2>4. \A r, q \in Procs : chan'[r][q] = IF r = p /\ q \in S THEN Append(chan[r][q], m)
                                          ELSE chan[r][q]
    BY <2>1, <2>2, <2>3, PushFacts DEF DWInv
  <2>5. \A r, q \in Procs : chan[r][q] \in Seq(Msgs(Kinds))
    BY DEF DWInv, Shape, ChanShape
  <2>6. ASSUME NEW s \in Seq(Msgs(Kinds))
        PROVE  /\ Has(Append(s, m), "CLEANUP") <=> Has(s, "CLEANUP")
               /\ Has(Append(s, m), "wPING") <=> Has(s, "wPING")
               /\ CleanupFirst(s) => CleanupFirst(Append(s, m))
               /\ BigReport(s) => BigReport(Append(s, m))
    BY <2>0, <2>1, AppendFacts, AppendMore
  <2> QED
    BY <2>4, <2>5, <2>6
<1> QED
  BY <1>1, <1>2 DEF AppSent

\* A step of the program keeps the surplus and what has been counted.
LEMMA AppStep ==
  ASSUME DWInv, DWInv', mode' = mode, Global, SameCounts, AppSent, wpc' = wpc, NoNewsInHands
  PROVE  (\A c \in Clients : CleanupAt(c)') /\ HandCounted' /\ (Dirty => Dirty')
<1>0. Host \in Procs /\ Clients \subseteq Procs /\ Shape /\ Shape'
  BY ProcsFacts DEF DWInv, Shape
<1>1. \A c \in Clients :
        /\ Has(chan'[Host][c], "CLEANUP") <=> Has(chan[Host][c], "CLEANUP")
        /\ Has(chan'[Host][c], "wPING") <=> Has(chan[Host][c], "wPING")
        /\ CleanupFirst(chan[Host][c]) => CleanupFirst(chan'[Host][c])
        /\ hand'[c].k = "CLEANUP" => hand[c].k = "CLEANUP"
        /\ BigReport(chan[c][Host]) => BigReport(chan'[c][Host])
  BY <1>0, AppPushed DEF NoNewsInHands, Starting
<1>2. \A p \in Procs : hand'[p].k \in Starting => hand[p].k \in Starting
  BY DEF NoNewsInHands
<1>3. HandCounted' /\ (Dirty => Dirty')
  BY <1>0, <1>1, <1>2, SurplusStays DEF Global, NoNewsInHands
<1>4. \A c \in Clients : CleanupAt(c)'
  BY <1>1, CleanupStays
<1> QED
  BY <1>3, <1>4

\* main puts a tag.
LEMMA GlobalEnvPutsTag ==
  ASSUME DWInv, mode' = mode, HostOnly, Global, NEW p \in Procs, EnvPutsTag(p)
  PROVE  Global'
<1>0. Host \in Procs /\ Shape /\ AppShape /\ ~DistEnv
  BY ProcsFacts DEF DWInv, Shape, HostOnly
<1>1. DWInv' /\ SameCounts
  BY KeepsEnvPutsTag
<1>2. wpc[Host] = "main" /\ wpc' = wpc /\ hand' = hand /\ AppSent
  BY <1>0 DEF EnvPutsTag, waitVars, AppShape, WaitPhases, AppSent
<1>3. NoNewsInHands
  BY <1>0, <1>2, HandsWithoutNews
<1>4. Calm'
  BY <1>0, <1>1, <1>2, OutsideCalm
<1>5. Ended'
  BY <1>2 DEF Ended
<1> QED
  BY <1>1, <1>2, <1>3, <1>4, <1>5, AppStep, SameMode DEF Global

\* A step sends a message: its process has not found itself idle.
LEMMA GlobalStepSends ==
  ASSUME DWInv, mode' = mode, HostOnly, Global, NEW p \in Procs, StepSends(p)
  PROVE  Global'
<1>0. /\ Host \in Procs /\ Shape /\ AppShape /\ ~DistEnv /\ Clients \subseteq Procs
      /\ \A r \in Procs : r \in Clients <=> r # Host
  BY ProcsFacts DEF DWInv, Shape, HostOnly
<1>1. DWInv' /\ SameCounts
  BY KeepsStepSends
<1>2. wpc' = wpc /\ hand' = hand /\ AppSent /\ steps' = steps /\ steps[p] # 0
  BY <1>0 DEF StepSends, waitVars, AppShape, AppSent
<1>3. NoNewsInHands
  BY <1>0, <1>2, HandsWithoutNews
<1>4. Calm => Calm'
  <2> SUFFICES ASSUME Calm PROVE Calm'
    OBVIOUS
  <2>1. ~InSync
    BY <1>0, <1>2 DEF Calm, Checked, InSync
  <2>2. ASSUME NEW c \in Clients PROVE Checked(c)' => Checked(c)
    <3>1. Has(chan'[Host][c], "wPING") <=> Has(chan[Host][c], "wPING")
      BY <1>0, <1>2, AppPushed
    <3> QED
      BY <1>0, <1>1, <1>2, <3>1, StillChecked
  <2>3. Checked(Host)' => Checked(Host)
    BY <1>2 DEF Checked
  <2>4. \A r \in Procs : Checked(r)' => steps'[r] = 0
    BY <1>0, <1>2, <2>2, <2>3 DEF Calm
  <2>5. ~InSync'
    BY <1>2, <2>1 DEF InSync
  <2> QED
    BY <2>4, <2>5, SameMode DEF Calm
<1>5. Ended'
  BY <1>2 DEF Global, Ended, Quiescent
<1> QED
  BY <1>1, <1>2, <1>3, <1>4, <1>5, AppStep, SameMode DEF Global

\* What is going to start a step leaves a surplus.
LEMMA HandIsDirty ==
  ASSUME DWInv, HostOnly, Global, NEW p \in Procs, hand[p].k \in Starting
  PROVE  Dirty /\ wpc[Host] # "done"
<1>0. /\ Host \in Procs /\ HandShape /\ Clients \subseteq Procs
      /\ \A r \in Procs : r \in Clients <=> r # Host
  BY ProcsFacts DEF DWInv, Shape
<1>1. CASE hand[p].k = "app"
  <2>1. wpc[Host] # "done"
    BY <1>1, QuiescentIs DEF Global, Ended
  <2>2. CASE p = Host
    BY <1>0, <1>1, <2>1, <2>2 DEF Global, HandCounted, Dirty, Starting
  <2>3. CASE p # Host /\ InSync
    BY <1>1, <2>1, <2>3 DEF Global, Calm
  <2>4. CASE p # Host /\ ~InSync
    <3>1. Busy(p)
      BY <1>0, <1>1, <2>4 DEF Busy, Reported, Flushed, Global, HandCounted, Starting
    <3> QED
      BY <1>0, <2>1, <2>4, <3>1 DEF Dirty
  <2> QED
    BY <2>2, <2>3, <2>4
<1>2. CASE hand[p].k = "CLEANUP"
  <2>1. p # Host
    BY <1>0, <1>2 DEF HandShape, HandMsgs, Reports, Msgs
  <2>2. p \in Clients
    BY <1>0, <2>1
  <2>3. wpc[Host] = "init" \/ Has(chan[Host][p], "wPING")
    BY <1>2, <2>2 DEF Global, CleanupAt
  <2>4. Has(chan[Host][p], "wPING") => InRound
    BY <2>2, OutsideRound DEF DWInv, PingOut
  <2>5. wpc[Host] \notin {"sync", "done"}
    BY <2>3, <2>4 DEF InRound
  <2>6. Busy(p)
    BY <1>2, <2>2, <2>5 DEF Busy, Reported, Flushed, InSync, Global, HandCounted, Starting
  <2> QED
    BY <2>2, <2>5, <2>6 DEF Dirty
<1> QED
  BY <1>1, <1>2 DEF Starting

\* A collection handles a message, a cleanup starts.
LEMMA GlobalHandleApp ==
  ASSUME DWInv, mode' = mode, HostOnly, Global, NEW p \in Procs, HandleApp(p) \/ HandleCleanup(p)
  PROVE  Global'
<1>0. Host \in Procs /\ Shape
  BY ProcsFacts DEF DWInv, Shape
<1>1. DWInv' /\ SameCounts
  BY KeepsHandleApp, KeepsHandleCleanup
<1>2. wpc' = wpc /\ AppSent /\ HandlerReturns(p) /\ hand[p].k \in Starting
  BY DEF HandleApp, HandleCleanup, waitVars, AppSent, Handles, Starting
<1>3. NoNewsInHands
  BY <1>0, <1>2, HandsWithoutNews DEF Starting
<1>4. Dirty /\ wpc[Host] # "done"
  BY <1>2, HandIsDirty
<1>5. Ended'
  BY <1>2, <1>4 DEF Ended
<1> QED
  BY <1>1, <1>2, <1>3, <1>4, <1>5, AppStep, SameMode DEF Global

\* context_base::wait: the cleanup between the two loops
LEMMA GlobalCleanup ==
  ASSUME DWInv, mode' = mode, HostOnly, Global, NEW p \in Procs, Cleanup(p)
  PROVE  Global'
<1>0. /\ Host \in Procs /\ Shape /\ AppShape /\ ~DistEnv /\ Clients \subseteq Procs
      /\ Host \notin Clients /\ Shape'
  BY KeepsCleanup, ProcsFacts DEF DWInv, Shape, HostOnly
<1>1. DWInv' /\ SameCounts
  BY KeepsCleanup
<1>2. p = Host /\ wpc[Host] = "cleanup" /\ wpc'[Host] = "init" /\ hand' = hand
  BY <1>0 DEF Cleanup, AppShape, WaitPhases
<1> DEFINE m == Message("CLEANUP", 0)
<1>3. m \in Msgs(Kinds) /\ m.k = "CLEANUP" /\ \A q \in Procs \ {Host} : m \in PipeMsgs(Host, q)
  BY DEF Message, Msgs, Kinds, PipeMsgs
<1>4. Push(Host, m, Procs \ {Host}) /\ Procs \ {Host} \in SUBSET Procs
  BY <1>2 DEF Cleanup, Bcast
<1> HIDE DEF m
<1>5. \A r, q \in Procs :
        /\ CleanupFirst(chan[r][q]) /\ (m.k = "CLEANUP" => ~Has(chan[r][q], "wPING"))
             => CleanupFirst(chan'[r][q])
        /\ BigReport(chan[r][q]) => BigReport(chan'[r][q])
  BY <1>0, <1>3, <1>4, PushMore
<1>6. \A c \in Clients : CleanupAt(c)'
  <2> TAKE c \in Clients
  <2>1. ~Has(chan[Host][c], "wPING")
    BY <1>2, OutsideRound DEF DWInv, PingOut, InRound
  <2>2. CleanupFirst(chan[Host][c])
    BY DEF Global, CleanupAt
  <2> QED
    BY <1>0, <1>2, <1>5, <2>1, <2>2 DEF CleanupAt
<1>7. HandCounted'
  BY <1>0, <1>1, <1>2, SurplusStays DEF Global
<1>8. Calm'
  BY <1>0, <1>1, <1>2, OutsideCalm
<1>9. Ended'
  BY <1>2 DEF Ended
<1> QED
  BY <1>6, <1>7, <1>8, <1>9, SameMode DEF Global

-----------------------------------------------------------------------------
(* A round and a flush *)

\* init_wait: nobody has found himself idle in the new round.
LEMMA GlobalInitWait ==
  ASSUME DWInv, mode' = mode, HostOnly, Global, NEW p \in Procs, InitWait(p)
  PROVE  Global'
<1>0. /\ Host \in Procs /\ Shape /\ AppShape /\ CountShape /\ ~DistEnv /\ Clients \subseteq Procs
      /\ Host \notin Clients /\ \A r \in Procs : r \in Clients <=> r # Host
  BY ProcsFacts DEF DWInv, Shape, HostOnly
<1>1. /\ p = Host /\ wpc[Host] = "init" /\ wpc'[Host] = "waiting" /\ hand' = hand
      /\ nMsgsRecvd' = nMsgsRecvd /\ \A c \in Clients : wpc'[c] = wpc[c]
  BY <1>0 DEF InitWait, AppShape, WaitPhases, flushVars
<1> DEFINE m == Message("wPING", 0)
           S == Procs \ {Host}
<1>2. m \in Msgs(Kinds) /\ m.k = "wPING" /\ \A q \in S : m \in PipeMsgs(Host, q)
  BY DEF Message, Msgs, Kinds, PipeMsgs
<1>3. Push(Host, m, S) /\ S \in SUBSET Procs /\ Clients = S
  BY <1>1 DEF InitWait, Bcast, Clients
<1> HIDE DEF m, S
<1>4. ASSUME NEW r \in Procs, NEW q \in Procs
      PROVE  /\ \A k \in Kinds : Has(chan'[r][q], k) <=>
                    Has(chan[r][q], k) \/ (r = Host /\ q \in S /\ m.k = k)
             /\ CleanupFirst(chan[r][q]) /\ (m.k = "CLEANUP" => ~Has(chan[r][q], "wPING"))
                  => CleanupFirst(chan'[r][q])
  BY <1>0, <1>2, <1>3, PushMore
<1>5. \A c \in Clients : /\ Has(chan'[Host][c], "wPING")
                         /\ CleanupFirst(chan[Host][c]) => CleanupFirst(chan'[Host][c])
  <2>1. "wPING" \in Kinds
    BY DEF Kinds
  <2> QED
    BY <1>0, <1>2, <1>3, <1>4, <2>1
<1>6. \A c \in Clients : CleanupAt(c)'
  BY <1>5, SameMode DEF Global, CleanupAt
<1>7. \A c \in Clients : PingOut(c)' /\ ~PingCounted(c)' /\ ~PingCounted(c)
  BY <1>1, <1>5, SameMode DEF PingOut, PingCounted, InRound, InSync
<1>8. HostMin = 0 /\ HostMin' = 0
  <2>1. Answers' = {}
    BY <1>7, SameMode DEF Answers, Ponged
  <2>2. Cardinality(Answers') = 0
    BY <2>1, FS_EmptySet
  <2> QED
    BY <1>1, <2>2 DEF HostMin, InRound, InSync
<1>9. HandCounted'
  BY <1>0, <1>1, <1>7, <1>8, SameMode DEF Global, HandCounted, One
<1>10. \A c \in Clients : wpc[c] = "none"
  <2>1. ~InRound
    BY <1>1 DEF InRound
  <2>2. \A c \in Clients : ~InWait(c)
    BY <2>1, OutsideRound DEF DWInv
  <2> QED
    BY <1>0, <2>2 DEF InWait
<1>11. \A r \in Procs : ~Checked(r)'
  BY <1>0, <1>1, <1>7, <1>10, SameMode DEF Checked
<1>12. Calm'
  BY <1>1, <1>11, SameMode DEF Calm, InSync
<1>13. Ended'
  BY <1>1 DEF Ended
<1> QED
  BY <1>6, <1>9, <1>12, <1>13, SameMode DEF Global

\* fini_wait of the host: everybody has found himself idle.
LEMMA GlobalFiniWaitHost ==
  ASSUME DWInv, mode' = mode, HostOnly, Global, FiniWaitHost
  PROVE  Global'
<1> USE SameMode
<1>0. /\ Host \in Procs /\ Shape /\ AppShape /\ CountShape /\ ~DistEnv /\ Clients \subseteq Procs
      /\ Host \notin Clients /\ NumProcs \in Nat /\ NumProcs >= 2
      /\ \A r \in Procs : r \in Clients <=> r # Host
  BY ProcsFacts DEF DWInv, Shape, HostOnly
<1>1. /\ wpc[Host] = "fini" /\ wpc'[Host] = "flush" /\ \A c \in Clients : wpc'[c] = wpc[c]
      /\ UNCHANGED <<steps, hand, chan, nMsgsRecvd>>
  BY <1>0 DEF FiniWaitHost, AppShape, appVars, flushVars
<1>2. Cardinality(Answers) = NumProcs - 1 /\ Answers = Clients
  <2>1. Len(barrier[Host]) + One(hand[Host].k = "wPONG") = Cardinality(Answers)
    BY <1>1 DEF DWInv, Round, InRound
  <2>2. Cardinality(Answers) \in Nat /\ Cardinality(Answers) <= NumProcs - 1
        /\ (Cardinality(Answers) = NumProcs - 1 => Answers = Clients)
    BY AnswersFinite DEF DWInv, Shape
  <2>3. Len(barrier[Host]) \in Nat /\ Len(barrier[Host]) >= NumProcs - 1
    BY <1>0 DEF FiniWaitHost, ClientsReported, CountShape
  <2>4. One(hand[Host].k = "wPONG") \in {0, 1}
    BY DEF One
  <2>5. Cardinality(Answers) = NumProcs - 1
    BY <1>0, <2>1, <2>2, <2>3, <2>4
  <2> QED
    BY <2>2, <2>5
<1>3. \A c \in Clients : ~PingOut(c) /\ ~InWait(c) /\ PingCounted(c) /\ PingCounted(c)'
  <2> TAKE c \in Clients
  <2>1. ~PingOut(c) /\ ~InWait(c)
    BY <1>2 DEF Answers, Ponged
  <2> QED
    BY <1>1, <2>1 DEF PingOut, PingCounted, InRound
<1>4. HostMin' = HostMin
  BY <1>1, <1>2 DEF HostMin, InRound, InSync
<1>5. \A c \in Clients : CleanupAt(c)'
  BY <1>1 DEF Global, CleanupAt
<1>6. HandCounted'
  BY <1>1, <1>3, <1>4 DEF Global, HandCounted, One
<1>7. Dirty => Dirty'
  <2>1. \A c \in Clients : ~Reported(c) /\ ~Reported(c)'
    BY <1>1 DEF Reported, Flushed, InSync
  <2>2. \A c \in Clients : Busy(c) => Busy(c)'
    BY <1>1, <1>3, <2>1 DEF Busy, One
  <2> QED
    BY <1>1, <1>4, <2>2 DEF Dirty
<1>8. Calm => Calm'
  <2>1. \A r \in Procs : Checked(r)
    BY <1>0, <1>1, <1>3 DEF Checked, InRound
  <2> QED
    BY <1>1, <2>1 DEF Calm, InSync
<1>9. Ended'
  BY <1>1 DEF Ended
<1> QED
  BY <1>5, <1>6, <1>7, <1>8, <1>9 DEF Global

\* distributor::recv_msg, PONG on the host: a surplus arrives.
LEMMA GlobalHandleFlushPongHost ==
  ASSUME DWInv, mode' = mode, HostOnly, Global, HandleFlushPongHost
  PROVE  Global'
<1> USE SameMode
<1>0. /\ Host \in Procs /\ Shape /\ AppShape /\ CountShape /\ ~DistEnv /\ Clients \subseteq Procs
      /\ Host \notin Clients /\ NumProcs \in Nat /\ NumProcs >= 2 /\ HandShape
      /\ \A r \in Procs : r \in Clients <=> r # Host
  BY ProcsFacts DEF DWInv, Shape, HostOnly
<1>1. hand[Host].k = "fPONG" /\ hand[Host].n \in Nat /\ hand[Host].n >= 1
  <2>1. hand[Host].k = "fPONG" /\ hand[Host] \in HandMsgs(Host)
    BY <1>0 DEF HandleFlushPongHost, Handles, HandShape
  <2>2. hand[Host] \in [k : {"fPONG"}, n : Nat \ {0}]
    BY <2>1 DEF HandMsgs, Reports, Msgs
  <2> QED
    BY <2>1, <2>2
<1>2. /\ UNCHANGED <<steps, wpc, chan, flushCount>>
      /\ hand'[Host].k = "none" /\ \A r \in Procs \ {Host} : hand'[r] = hand[r]
  BY <1>0, Returned DEF HandleFlushPongHost, appVars, waitVars
<1>3. /\ nMsgsRecvd'[Host] = nMsgsRecvd[Host] + hand[Host].n
      /\ \A c \in Clients : nMsgsRecvd'[c] = nMsgsRecvd[c]
      /\ sync' = sync + 1 /\ sync \in Nat /\ nMsgsRecvd[Host] \in Nat
  BY <1>0, <1>1 DEF HandleFlushPongHost, CountShape
<1>4. InSync /\ InSync'
  <2>1. sync + 1 = Cardinality(Arrivals)
    BY <1>1 DEF DWInv, Flush, One
  <2>2. Arrivals # {}
    BY <1>3, <2>1, FS_EmptySet
  <2> QED
    BY <1>2, <2>2 DEF Arrivals, Arrived, Reported, Flushed, InSync
<1>5. \A c \in Clients : /\ hand'[c] = hand[c] /\ (Reported(c)' <=> Reported(c))
                         /\ (PingCounted(c)' <=> PingCounted(c))
  <2> TAKE c \in Clients
  <2>1. hand'[c] = hand[c]
    BY <1>0, <1>2
  <2>2. Reported(c)' <=> Reported(c)
    BY <1>2, <1>4, <2>1 DEF Reported, Flushed
  <2> QED
    BY <1>2, <2>1, <2>2 DEF PingCounted, InRound, InSync
<1>6. HostMin' = HostMin + 1 /\ HostMin = NumProcs - 1 + sync /\ nMsgsRecvd[Host] >= HostMin
  <2>1. wpc[Host] = "sync" /\ wpc'[Host] = "sync"
    BY <1>4 DEF InSync
  <2>2. nMsgsRecvd[Host] >= NumProcs - 1 + sync
    BY <1>4 DEF DWInv, Counts
  <2> QED
    BY <1>0, <1>3, <2>1, <2>2 DEF HostMin, InRound, InSync
<1>7. \A c \in Clients : CleanupAt(c)'
  BY <1>2, <1>5 DEF Global, CleanupAt
<1>8. HandCounted'
  BY <1>2, <1>3, <1>5 DEF Global, HandCounted, Starting, One
<1>9. Dirty => Dirty'
  <2>1. \A c \in Clients : Busy(c) => Busy(c)'
    BY <1>3, <1>5 DEF Busy, One
  <2>2. nMsgsRecvd[Host] > HostMin => nMsgsRecvd'[Host] > HostMin'
    BY <1>0, <1>1, <1>3, <1>6
  <2>3. BigPong(hand[Host]) => nMsgsRecvd'[Host] > HostMin'
    BY <1>0, <1>1, <1>3, <1>6 DEF BigPong
  <2> QED
    BY <1>2, <2>1, <2>2, <2>3 DEF Dirty
<1>10. Calm => Calm'
  <2>1. \A r \in Procs : Checked(r)' => Checked(r)
    BY <1>2, <1>4 DEF Checked, InSync
  <2>2. \A r \in Procs : hand'[r].k = "app" => hand[r].k = "app"
    BY <1>0, <1>2
  <2> QED
    BY <1>2, <1>4, <2>1, <2>2 DEF Calm
<1>11. Ended'
  BY <1>2, <1>4 DEF Ended, InSync
<1> QED
  BY <1>7, <1>8, <1>9, <1>10, <1>11 DEF Global

\* A client reports to the host: its surplus goes into the report.
LEMMA GlobalFlushPongHost ==
  ASSUME DWInv, mode' = mode, HostOnly, Global, NEW p \in Procs, FlushPongHost(p)
  PROVE  Global'
<1>0. /\ Host \in Procs /\ Shape /\ AppShape /\ CountShape /\ ~DistEnv /\ Clients \subseteq Procs
      /\ Host \notin Clients /\ HandShape /\ \A r \in Procs : r \in Clients <=> r # Host
  BY ProcsFacts DEF DWInv, Shape, HostOnly
<1>1. p \in Clients /\ p # Host /\ hand[p].k = "pongHost"
  <2>1. hand[p].k = "pongHost"
    BY DEF FlushPongHost, PongHost, Message
  <2> QED
    BY <1>0, <2>1 DEF HandShape, HandMsgs, Reports, Msgs
<1>2. InSync /\ ~Reported(p) /\ PingCounted(p)
  <2>1. FlushAt(p)
    BY <1>1 DEF DWInv, Flush
  <2> QED
    BY <1>1, <2>1 DEF FlushAt, Reported, PingCounted
<1>3. nMsgsRecvd[p] \in Nat /\ nMsgsRecvd[p] >= 1
  BY <1>0, <1>1, <1>2 DEF DWInv, Counts, CountShape
<1> DEFINE m == Message("fPONG", nMsgsRecvd[p])
           S == {Host}
<1>4. /\ m \in Msgs(Kinds) /\ m.k = "fPONG" /\ m.n = nMsgsRecvd[p]
      /\ \A q \in S : m \in PipeMsgs(p, q)
  BY <1>1, <1>3 DEF Message, Msgs, Kinds, PipeMsgs, Reports
<1>5. Push(p, m, S) /\ S \in SUBSET Procs /\ \A q \in Procs : q \in S <=> q = Host
  BY <1>0 DEF FlushPongHost, Send
<1> HIDE DEF m, S
<1>6. ASSUME NEW r \in Procs, NEW q \in Procs
      PROVE  /\ ~(r = p /\ q \in S) => chan'[r][q] = chan[r][q]
             /\ NoneLater(chan[r][q]) /\ m.k # "app" => NoneLater(chan'[r][q])
             /\ BigReport(chan[r][q]) => BigReport(chan'[r][q])
  BY <1>0, <1>4, <1>5, PushMore
<1>7. BigPong(m) => BigReport(chan'[p][Host])
  <2> DEFINE s == chan[p][Host]
  <2>1. \A r, q \in Procs : chan'[r][q] = IF r = p /\ q \in S THEN Append(chan[r][q], m)
                                          ELSE chan[r][q]
    BY <1>0, <1>4, <1>5, PushFacts
  <2>2. s \in Seq(Msgs(Kinds)) /\ chan'[p][Host] = Append(s, m)
    BY <1>0, <1>5, <2>1 DEF Shape, ChanShape
  <2> HIDE DEF s
  <2> QED
    BY <1>4, <2>2, AppendMore
<1>8. /\ UNCHANGED <<steps, wpc, sync, flushCount>> /\ hand'[p].k = "none"
      /\ \A r \in Procs \ {p} : hand'[r] = hand[r] /\ nMsgsRecvd'[r] = nMsgsRecvd[r]
  BY <1>0, Returned DEF FlushPongHost, appVars, waitVars, CountShape
<1>9. \A c \in Clients : chan'[Host][c] = chan[Host][c]
  BY <1>0, <1>1, <1>6
<1>10. Reported(p)'
  <2>1. FlushAt(p)
    BY <1>1 DEF DWInv, Flush
  <2> QED
    BY <1>1, <1>2, <1>8, <1>9, <2>1 DEF FlushAt, Reported, Flushed, InSync
<1>11. \A c \in Clients \ {p} : Reported(c)' <=> Reported(c)
  BY <1>0, <1>2, <1>8, <1>9 DEF Reported, Flushed, InSync
<1>12. \A c \in Clients : PingCounted(c)' => c # p /\ PingCounted(c)
  BY <1>2, <1>8, <1>10, <1>11 DEF PingCounted, InRound, InSync
<1>13. HostMin' = HostMin
  BY <1>2, <1>8, SameMode DEF HostMin, InRound, InSync
<1>14. \A c \in Clients : CleanupAt(c)'
  <2>1. \A c \in Clients : hand'[c].k = "CLEANUP" => hand[c].k = "CLEANUP"
    BY <1>0, <1>8
  <2> QED
    BY <1>8, <1>9, <2>1 DEF Global, CleanupAt
<1>15. HandCounted'
  <2>1. ASSUME NEW c \in Clients, hand'[c].k \in Starting
        PROVE  nMsgsRecvd'[c] > One(PingCounted(c)')
    <3>1. c # p /\ hand'[c] = hand[c] /\ nMsgsRecvd'[c] = nMsgsRecvd[c] /\ nMsgsRecvd[c] \in Nat
      BY <1>0, <1>8, <2>1 DEF Starting, CountShape
    <3>2. nMsgsRecvd[c] > One(PingCounted(c))
      BY <2>1, <3>1 DEF Global, HandCounted
    <3> QED
      BY <1>12, <3>1, <3>2 DEF One
  <2>2. hand'[Host] = hand[Host] /\ nMsgsRecvd'[Host] = nMsgsRecvd[Host]
    BY <1>0, <1>1, <1>8
  <2> QED
    BY <1>13, <2>1, <2>2, SameMode DEF Global, HandCounted
<1>16. Dirty => Dirty'
  <2>1. ASSUME NEW c \in Clients, Busy(c), c # p PROVE Busy(c)'
    <3>1. nMsgsRecvd'[c] = nMsgsRecvd[c] /\ nMsgsRecvd[c] \in Nat
      BY <1>0, <1>8, <2>1 DEF CountShape
    <3> QED
      BY <1>11, <1>12, <2>1, <3>1 DEF Busy, One
  <2>2. Busy(p) => BigReport(chan'[p][Host])
    BY <1>2, <1>3, <1>4, <1>7 DEF Busy, One, BigPong
  <2>3. \A c \in Clients : BigReport(chan[c][Host]) => BigReport(chan'[c][Host])
    BY <1>0, <1>6
  <2>4. hand'[Host] = hand[Host] /\ nMsgsRecvd'[Host] = nMsgsRecvd[Host]
    BY <1>0, <1>1, <1>8
  <2> QED
    BY <1>1, <1>13, <2>1, <2>2, <2>3, <2>4, SameMode DEF Dirty
<1>17. Calm => Calm'
  <2>1. \A r \in Procs : Checked(r)
    BY <1>2 DEF Checked, InSync
  <2>2. \A r \in Procs : hand'[r].k = "app" => hand[r].k = "app"
    BY <1>8
  <2>3. \A r, q \in Procs : NoneLater(chan[r][q]) => NoneLater(chan'[r][q])
    BY <1>4, <1>6
  <2> QED
    BY <1>2, <1>8, <2>1, <2>2, <2>3, SameMode DEF Calm
<1>18. Ended'
  BY <1>2, <1>8 DEF Ended, InSync
<1> QED
  BY <1>14, <1>15, <1>16, <1>17, <1>18, SameMode DEF Global

\* Outside a round no cleanup is on its way, unless the next round is about to begin.
LEMMA NoCleanup ==
  ASSUME DWInv, Global, ~InRound, wpc[Host] # "init", NEW c \in Clients
  PROVE  ~Has(chan[Host][c], "CLEANUP") /\ hand[c].k # "CLEANUP"
<1>1. ~Has(chan[Host][c], "wPING")
  BY OutsideRound DEF DWInv, PingOut
<1> QED
  BY <1>1 DEF Global, CleanupAt

\* distributor::flush begins: without a surplus, what is on its way was sent before.
LEMMA GlobalFlushBegin ==
  ASSUME DWInv, mode' = mode, HostOnly, Global, FlushBegin
  PROVE  Global'
<1>0. /\ Host \in Procs /\ Shape /\ AppShape /\ CountShape /\ ~DistEnv /\ Clients \subseteq Procs
      /\ Host \notin Clients /\ HandShape /\ NumProcs \in Nat /\ NumProcs >= 2
      /\ \A r \in Procs : r \in Clients <=> r # Host
  BY ProcsFacts DEF DWInv, Shape, HostOnly
<1>1. /\ wpc[Host] = "flush" /\ wpc'[Host] = "sync" /\ UNCHANGED <<steps, nMsgsRecvd, sync>>
      /\ ~InRound /\ ~InSync
  BY <1>0 DEF FlushBegin, AppShape, appVars, flushVars, InRound, InSync
<1>2. ASSUME NEW r \in Procs, NEW q \in Procs
      PROVE  /\ Has(chan'[r][q], "CLEANUP") => Has(chan[r][q], "CLEANUP")
             /\ BigReport(chan[r][q]) => BigReport(chan'[r][q])
             /\ NoneLater(chan'[r][q])
             /\ r = Host /\ q # Host => Has(chan'[r][q], "fPING")
  <2> DEFINE s == chan[r][q]
             t == MarkAll(s)
             m == Message("fPING", 0)
  <2>1. s \in Seq(Msgs(Kinds))
    BY <1>0 DEF Shape, ChanShape
  <2>2. chan'[r][q] = IF r = Host /\ q # Host THEN Append(t, m) ELSE t
    BY DEF FlushBegin
  <2>3. m \in Msgs(Kinds) /\ m.k = "fPING"
    BY DEF Message, Msgs, Kinds
  <2> HIDE DEF s
  <2>4. /\ t \in Seq(Msgs(Kinds)) /\ (Has(t, "CLEANUP") <=> Has(s, "CLEANUP"))
        /\ (BigReport(t) <=> BigReport(s)) /\ NoneLater(t)
    BY <2>1, MarkFacts, MarkMore
  <2> HIDE DEF t, m
  <2>5. /\ Has(Append(t, m), "CLEANUP") <=> Has(t, "CLEANUP")
        /\ Has(Append(t, m), "fPING")
        /\ BigReport(t) => BigReport(Append(t, m))
        /\ NoneLater(Append(t, m))
    BY <2>3, <2>4, AppendFacts, AppendMore
  <2> QED
    BY <2>2, <2>4, <2>5 DEF s
<1>3. \A r \in Procs : hand'[r].k = hand[r].k /\ (hand[r].k # "app" => hand'[r] = hand[r])
  BY <1>0 DEF FlushBegin, Mark, Message, HandShape
<1>4. \A c \in Clients : /\ ~Has(chan'[Host][c], "CLEANUP") /\ hand'[c].k # "CLEANUP"
                         /\ Has(chan'[Host][c], "fPING")
  BY <1>0, <1>1, <1>2, <1>3, NoCleanup
<1>5. \A c \in Clients : CleanupAt(c)'
  BY <1>4 DEF CleanupAt, CleanupFirst, Has
<1>6. \A c \in Clients : PingCounted(c) /\ ~Reported(c) /\ ~Reported(c)' /\ PingCounted(c)'
  BY <1>1, <1>4 DEF PingCounted, Reported, Flushed, InSync
<1>7. HostMin' = HostMin
  <2>1. Arrivals = {}
    BY <1>1 DEF Arrivals, Arrived, Reported, Flushed
  <2>2. Cardinality(Arrivals) = 0
    BY <2>1, FS_EmptySet
  <2>3. sync = 0
    BY <1>0, <2>2 DEF DWInv, Flush, One, CountShape
  <2> QED
    BY <1>0, <1>1, <2>3, SameMode DEF HostMin, InRound, InSync
<1>8. HandCounted'
  BY <1>0, <1>1, <1>3, <1>6, <1>7, SameMode DEF Global, HandCounted, One
<1>9. Dirty => Dirty'
  <2>1. \A c \in Clients : Busy(c) => Busy(c)'
    BY <1>1, <1>6 DEF Busy, One
  <2>2. \A c \in Clients : BigReport(chan[c][Host]) => BigReport(chan'[c][Host])
    BY <1>0, <1>2
  <2>3. BigPong(hand[Host]) => BigPong(hand'[Host])
    BY <1>0, <1>3 DEF BigPong
  <2> QED
    BY <1>1, <1>7, <2>1, <2>2, <2>3, SameMode DEF Dirty
<1>10. ~Dirty => Calm'
  <2> SUFFICES ASSUME ~Dirty PROVE Calm'
    OBVIOUS
  <2>1. \A r \in Procs : hand'[r].k # "app"
    BY <1>3, HandIsDirty DEF Starting
  <2>2. \A r \in Procs : Checked(r) /\ steps'[r] = 0
    <3>1. \A r \in Procs : Checked(r)
      BY <1>1 DEF Checked
    <3> QED
      BY <1>1, <3>1 DEF Global, Calm
  <2> QED
    BY <1>2, <2>1, <2>2, SameMode DEF Calm
<1>11. Ended'
  BY <1>1 DEF Ended
<1> QED
  BY <1>5, <1>8, <1>9, <1>10, <1>11, SameMode DEF Global

\* distributor::flush ends: when the host has counted no surplus there was none.
LEMMA GlobalFlushEnd ==
  ASSUME DWInv, mode' = mode, HostOnly, Global, FlushEnd
  PROVE  Global'
<1>0. /\ Host \in Procs /\ Shape /\ AppShape /\ CountShape /\ ~DistEnv /\ Clients \subseteq Procs
      /\ Host \notin Clients /\ HandShape /\ NumProcs \in Nat /\ NumProcs >= 2
      /\ \A r \in Procs : r \in Clients <=> r # Host
  BY ProcsFacts DEF DWInv, Shape, HostOnly
<1>1. /\ InSync /\ sync = NumProcs - 1 /\ Arrivals = Clients
      /\ \A c \in Clients : ~Has(chan[c][Host], "fPONG")
      /\ \A r, q \in Procs : ~HasEarly(chan[r][q])
  BY AllArrived DEF FlushEnd
<1>2. /\ wpc'[Host] \in {"done", "init"} /\ wpc[Host] = "sync"
      /\ wpc'[Host] = "done" => nMsgsRecvd[Host] <= 2 * NumProcs - 2
      /\ UNCHANGED <<steps, hand, chan>> /\ hand[Host].k = "none"
      /\ \A c \in Clients : nMsgsRecvd'[c] = nMsgsRecvd[c]
  BY <1>0 DEF FlushEnd, AppShape, CountShape, appVars, HostOnly, RoundIsQuiet, None, Message
<1>3. DWInv'
  BY KeepsFlushEnd
<1>4. \A c \in Clients : CleanupAt(c)'
  BY <1>2 DEF Global, CleanupAt
<1>5. HandCounted'
  <2>1. \A c \in Clients : ~PingCounted(c)'
    BY <1>2 DEF PingCounted, InRound, InSync
  <2>2. \A c \in Clients : nMsgsRecvd[c] \in Nat
    BY <1>0 DEF CountShape
  <2> QED
    BY <1>2, <2>1, <2>2, SameMode DEF Global, HandCounted, One, Starting
<1>6. Calm'
  BY <1>0, <1>2, <1>3, OutsideCalm
<1>7. ASSUME wpc'[Host] = "done" PROVE Quiescent
  <2>1. \A c \in Clients : ~Busy(c) /\ ~BigReport(chan[c][Host])
    BY <1>1 DEF Arrivals, Arrived, Busy, BigReport, BigPong, Has
  <2>2. ~BigPong(hand[Host])
    BY <1>2 DEF BigPong
  <2>3. HostMin = 2 * NumProcs - 2 /\ nMsgsRecvd[Host] \in Nat
    BY <1>0, <1>1, <1>2 DEF HostMin, InRound, InSync, CountShape
  <2>4. ~(nMsgsRecvd[Host] > HostMin)
    BY <1>0, <1>2, <1>7, <2>3
  <2>5. Calm
    BY <2>1, <2>2, <2>4 DEF Global, Dirty
  <2>6. \A r \in Procs : Checked(r)
    BY <1>2 DEF Checked
  <2>7. \A r \in Procs : steps[r] = 0 /\ hand[r].k # "app"
    BY <1>0, <1>1, <2>5, <2>6 DEF Calm
  <2>8. \A r, q \in Procs : ~Has(chan[r][q], "app")
    BY <1>1, <2>5 DEF Calm, NoneLater, HasEarly, Has
  <2> QED
    BY <2>7, <2>8, QuiescentIs
<1>8. Quiescent => Quiescent'
  BY <1>2, SameMode DEF Quiescent, AppOnItsWay, Any
<1>9. Ended'
  BY <1>7, <1>8 DEF Ended
<1> QED
  BY <1>4, <1>5, <1>6, <1>9, SameMode DEF Global

-----------------------------------------------------------------------------
(* The receive thread counts a message *)

\* What reading a message changes in the pipes.
LEMMA ReadMore ==
  ASSUME DWInv, mode' = mode, NEW p \in Procs, NEW q \in Procs, p # q, RecvThreadRead(p, q),
         NEW m, m = Head(chan[q][p])
  PROVE  /\ steps' = steps
         /\ BigReport(chan[q][p]) <=> BigReport(chan'[q][p]) \/ BigPong(m)
         /\ NoneLater(chan[q][p]) <=> NoneLater(chan'[q][p]) /\ (m.k = "app" => Early(m))
         /\ CleanupFirst(chan[q][p]) => /\ CleanupFirst(chan'[q][p])
                                        /\ m.k = "wPING" => ~Has(chan'[q][p], "CLEANUP")
         /\ Has(chan[q][p], "CLEANUP") <=> Has(chan'[q][p], "CLEANUP") \/ m.k = "CLEANUP"
         /\ Has(chan[q][p], "wPING") <=> Has(chan'[q][p], "wPING") \/ m.k = "wPING"
         /\ Has(chan[q][p], "app") <=> Has(chan'[q][p], "app") \/ m.k = "app"
<1> DEFINE s == chan[q][p]
<1>1. s \in Seq(Msgs(Kinds)) /\ s # <<>> /\ chan'[q][p] = Tail(s) /\ m = Head(s)
  BY ReadFacts DEF DWInv, Shape, ChanShape
<1>2. /\ Has(s, "CLEANUP") <=> Has(chan'[q][p], "CLEANUP") \/ m.k = "CLEANUP"
      /\ Has(s, "wPING") <=> Has(chan'[q][p], "wPING") \/ m.k = "wPING"
      /\ Has(s, "app") <=> Has(chan'[q][p], "app") \/ m.k = "app"
  BY ReadHas DEF DWInv
<1>3. steps' = steps
  BY DEF RecvThreadRead, appVars
<1> HIDE DEF s
<1>4. /\ BigReport(s) <=> BigReport(Tail(s)) \/ BigPong(Head(s))
      /\ NoneLater(s) <=> NoneLater(Tail(s)) /\ (Head(s).k = "app" => Early(Head(s)))
      /\ CleanupFirst(s) => /\ CleanupFirst(Tail(s))
                            /\ Head(s).k = "wPING" => ~Has(Tail(s), "CLEANUP")
  BY <1>1, TailMore
<1> QED
  BY <1>1, <1>2, <1>3, <1>4 DEF s

\* The cleanup is read before the PING that follows it.
LEMMA ReadCleanup ==
  ASSUME DWInv, mode' = mode, Global, NEW p \in Procs, NEW q \in Procs, p # q, RecvThreadRead(p, q)
  PROVE  \A c \in Clients : CleanupAt(c)'
<1> DEFINE m == Head(chan[q][p])
<1> HIDE DEF m
<1>0. m = Head(chan[q][p]) /\ Host \in Procs /\ Clients \subseteq Procs /\ Host \notin Clients
  BY ProcsFacts DEF m, DWInv, Shape
<1>1. /\ wpc' = wpc /\ m \in PipeMsgs(q, p) /\ hand'[p] = m
      /\ \A r \in Procs \ {p} : hand'[r] = hand[r]
      /\ \A r, t \in Procs : ~(r = q /\ t = p) => chan'[r][t] = chan[r][t]
  BY <1>0, ReadStep
<1>2. /\ CleanupFirst(chan[q][p]) => /\ CleanupFirst(chan'[q][p])
                                     /\ m.k = "wPING" => ~Has(chan'[q][p], "CLEANUP")
      /\ Has(chan[q][p], "CLEANUP") <=> Has(chan'[q][p], "CLEANUP") \/ m.k = "CLEANUP"
      /\ Has(chan[q][p], "wPING") <=> Has(chan'[q][p], "wPING") \/ m.k = "wPING"
  BY <1>0, ReadMore
<1> TAKE c \in Clients
<1>3. CleanupAt(c) /\ c \in Procs /\ c # Host
  BY <1>0 DEF Global
<1>4. CASE c # p
  <2>1. hand'[c] = hand[c] /\ chan'[Host][c] = chan[Host][c]
    BY <1>0, <1>1, <1>3, <1>4
  <2> QED
    BY <1>1, <1>3, <2>1 DEF CleanupAt
<1>5. CASE c = p /\ q # Host
  <2>1. hand'[c].k # "CLEANUP" /\ chan'[Host][c] = chan[Host][c]
    BY <1>0, <1>1, <1>3, <1>5 DEF PipeMsgs, Msgs, Reports
  <2> QED
    BY <1>1, <1>3, <2>1 DEF CleanupAt
<1>6. CASE c = p /\ q = Host
  <2>1. CleanupFirst(chan'[Host][c])
    BY <1>2, <1>3, <1>6 DEF CleanupAt
  <2>2. hand'[c].k = m.k
    BY <1>1, <1>6
  <2>3. CASE m.k = "wPING"
    <3>1. ~Has(chan'[Host][c], "CLEANUP")
      BY <1>2, <1>3, <1>6, <2>3 DEF CleanupAt
    <3> QED
      BY <2>1, <2>2, <2>3, <3>1 DEF CleanupAt
  <2>4. CASE m.k # "wPING"
    BY <1>1, <1>2, <1>3, <1>6, <2>1, <2>2, <2>4 DEF CleanupAt
  <2> QED
    BY <2>3, <2>4
<1> QED
  BY <1>4, <1>5, <1>6

\* After the wait there is nothing of the program to read.
LEMMA ReadEnded ==
  ASSUME DWInv, mode' = mode, Global, NEW p \in Procs, NEW q \in Procs, p # q, RecvThreadRead(p, q)
  PROVE  Ended'
<1> DEFINE m == Head(chan[q][p])
<1> HIDE DEF m
<1>0. m = Head(chan[q][p])
  BY DEF m
<1>1. /\ wpc' = wpc /\ hand'[p] = m
      /\ \A r \in Procs \ {p} : hand'[r] = hand[r]
      /\ \A r, t \in Procs : ~(r = q /\ t = p) => chan'[r][t] = chan[r][t]
  BY <1>0, ReadStep
<1>2. steps' = steps /\ (Has(chan[q][p], "app") <=> Has(chan'[q][p], "app") \/ m.k = "app")
  BY <1>0, ReadMore
<1>3. ASSUME Quiescent PROVE Quiescent'
  <2>1. /\ \A r \in Procs : steps[r] = 0 /\ hand[r].k # "app"
        /\ \A r, t \in Procs : ~Has(chan[r][t], "app")
    BY <1>3, QuiescentIs
  <2>2. \A r, t \in Procs : ~Has(chan'[r][t], "app")
    BY <1>1, <1>2, <2>1
  <2>3. \A r \in Procs : steps'[r] = 0 /\ hand'[r].k # "app"
    BY <1>1, <1>2, <2>1
  <2> QED
    BY <2>2, <2>3, SameMode DEF Quiescent, AppOnItsWay, Any, Has
<1> QED
  BY <1>1, <1>3 DEF Global, Ended

\* The host has counted at least what HostMin says.
LEMMA HostMinBound ==
  ASSUME DWInv
  PROVE  nMsgsRecvd[Host] >= HostMin
<1>1. NumProcs \in Nat /\ Host \in Procs
  BY ProcsFacts DEF DWInv, Shape
<1>2. nMsgsRecvd[Host] \in Nat
  BY <1>1 DEF DWInv, Shape, CountShape
<1> QED
  BY <1>1, <1>2 DEF DWInv, Counts, HostMin

\* A message that moves no lower bound.
LEMMA ReadSame ==
  ASSUME DWInv, DWInv', mode' = mode, HostOnly, Global, NEW p \in Procs, NEW q \in Procs, p # q,
         RecvThreadRead(p, q), SameCounts,
         NEW m, m = Head(chan[q][p]), m.k \notin {"wPING", "wPONG"}
  PROVE  Global'
<1>0. /\ Host \in Procs /\ Clients \subseteq Procs /\ Host \notin Clients /\ Shape' /\ ~DistEnv
      /\ Shape /\ \A r \in Procs : r \in Clients <=> r # Host
  BY ProcsFacts DEF DWInv, Shape, HostOnly
<1>1. /\ wpc' = wpc /\ m \in PipeMsgs(q, p) /\ hand'[p] = m /\ hand[p].k = "none"
      /\ \A r \in Procs \ {p} : hand'[r] = hand[r]
      /\ \A r, t \in Procs : ~(r = q /\ t = p) => chan'[r][t] = chan[r][t]
      /\ m.k \notin {"fPING", "fPONG"} => nMsgsRecvd'[p] = nMsgsRecvd[p] + 1
  BY ReadStep
<1>2. /\ steps' = steps
      /\ BigReport(chan[q][p]) <=> BigReport(chan'[q][p]) \/ BigPong(m)
      /\ NoneLater(chan[q][p]) <=> NoneLater(chan'[q][p]) /\ (m.k = "app" => Early(m))
      /\ Has(chan[q][p], "wPING") <=> Has(chan'[q][p], "wPING") \/ m.k = "wPING"
  BY ReadMore
<1>3. \A r \in Procs : nMsgsRecvd[r] \in Nat /\ nMsgsRecvd'[r] \in Nat
  BY <1>0, SameMode DEF Shape, CountShape
<1>4. HostMin' = HostMin /\ HostMin \in Nat /\ nMsgsRecvd[Host] >= HostMin
  <2>1. HostMin' = HostMin
    BY SameMode DEF HostMin, SameCounts
  <2> QED
    BY <1>0, <2>1, HostMinType, HostMinBound
<1>5. HandCounted'
  <2>1. CASE m.k \notin Starting
    <3>1. \A r \in Procs : hand'[r].k \in Starting => hand[r].k \in Starting
      BY <1>1, <2>1
    <3> QED
      BY <1>0, <3>1, SurplusStays DEF Global
  <2>2. CASE m.k \in Starting
    <3>1. nMsgsRecvd'[p] = nMsgsRecvd[p] + 1
      BY <1>1, <2>2 DEF Starting
    <3>2. ASSUME NEW c \in Clients, hand'[c].k \in Starting
          PROVE  nMsgsRecvd'[c] > One(PingCounted(c)')
      <4>1. One(PingCounted(c)') = One(PingCounted(c)) /\ c \in Procs
        BY <1>0 DEF SameCounts, One
      <4>2. CASE c = p
        <5>1. PingCounted(c) => nMsgsRecvd[c] >= 1
          BY DEF DWInv, Counts
        <5> QED
          BY <1>3, <3>1, <4>1, <4>2, <5>1 DEF One
      <4>3. CASE c # p
        <5>1. nMsgsRecvd[c] > One(PingCounted(c)) /\ nMsgsRecvd'[c] >= nMsgsRecvd[c]
          BY <1>1, <3>2, <4>1, <4>3 DEF Global, HandCounted, SameCounts
        <5>2. One(PingCounted(c)) \in Nat
          BY DEF One
        <5> QED
          BY <1>3, <4>1, <5>1, <5>2
      <4> QED
        BY <4>2, <4>3
    <3>3. ASSUME hand'[Host].k \in Starting PROVE nMsgsRecvd'[Host] > HostMin'
      <4>1. CASE Host = p
        BY <1>0, <1>3, <1>4, <3>1, <4>1
      <4>2. CASE Host # p
        <5>1. nMsgsRecvd[Host] > HostMin /\ nMsgsRecvd'[Host] >= nMsgsRecvd[Host]
          BY <1>0, <1>1, <3>3, <4>2 DEF Global, HandCounted, SameCounts
        <5> QED
          BY <1>0, <1>3, <1>4, <5>1
      <4> QED
        BY <4>1, <4>2
    <3> QED
      BY <3>2, <3>3, SameMode DEF HandCounted
  <2> QED
    BY <2>1, <2>2
<1>6. Dirty => Dirty'
  <2>1. (\E c \in Clients : Busy(c)) \/ nMsgsRecvd[Host] > HostMin => Dirty'
    BY <1>0, SurplusStays
  <2>2. BigPong(hand[Host]) => BigPong(hand'[Host])
    BY <1>0, <1>1 DEF BigPong
  <2>3. ASSUME NEW c \in Clients, BigReport(chan[c][Host])
        PROVE  BigReport(chan'[c][Host]) \/ BigPong(hand'[Host])
    BY <1>0, <1>1, <1>2, <2>3
  <2> QED
    BY <2>1, <2>2, <2>3, SameMode DEF Dirty
<1>7. Calm => Calm' \/ Dirty'
  <2> SUFFICES ASSUME Calm, ~Dirty' PROVE Calm'
    OBVIOUS
  <2>1. ASSUME NEW c \in Clients PROVE Checked(c)' => Checked(c)
    <3>1. Has(chan'[Host][c], "wPING") <=> Has(chan[Host][c], "wPING")
      BY <1>0, <1>1, <1>2
    <3>2. hand[c].k = "wPING" => hand'[c].k = "wPING"
      BY <1>0, <1>1
    <3> QED
      BY <1>0, <1>1, <3>1, <3>2, StillChecked
  <2>2. Checked(Host)' => Checked(Host)
    BY <1>1 DEF Checked
  <2>3. \A r \in Procs : Checked(r)' => steps'[r] = 0
    BY <1>0, <1>2, <2>1, <2>2 DEF Calm
  <2>4. ASSUME InSync PROVE m.k # "app"
    <3> SUFFICES ASSUME m.k = "app" PROVE FALSE
      OBVIOUS
    <3>1. Early(hand'[p]) /\ hand'[p].k \in Starting
      BY <1>1, <1>2, <2>4 DEF Calm, Starting
    <3>2. CASE p = Host
      BY <1>5, <3>1, <3>2 DEF HandCounted, Dirty
    <3>3. CASE p # Host
      <4>1. p \in Clients /\ p \in Clients'
        BY <1>0, <3>3, SameMode
      <4>2. ~Reported(p)'
        BY <3>1, <4>1 DEF DWInv, Earlier, EarlyAt
      <4>3. Busy(p)'
        BY <1>5, <3>1, <4>1, <4>2 DEF HandCounted, Busy
      <4> QED
        BY <4>1, <4>3 DEF Dirty
    <3> QED
      BY <3>2, <3>3
  <2>5. ASSUME InSync'
        PROVE  \A r, t \in Procs : hand'[r].k # "app" /\ NoneLater(chan'[r][t])
    <3>1. InSync
      BY <2>5 DEF SameCounts
    <3>2. \A r, t \in Procs : hand[r].k # "app" /\ NoneLater(chan[r][t])
      BY <3>1 DEF Calm
    <3>3. \A r, t \in Procs : NoneLater(chan'[r][t])
      BY <1>1, <1>2, <3>2
    <3>4. \A r \in Procs : hand'[r].k # "app"
      BY <1>1, <2>4, <3>1, <3>2
    <3> QED
      BY <3>3, <3>4
  <2> QED
    BY <2>3, <2>5, SameMode DEF Calm
<1>8. Ended' /\ \A c \in Clients : CleanupAt(c)'
  BY ReadEnded, ReadCleanup
<1> QED
  BY <1>5, <1>6, <1>7, <1>8, SameMode DEF Global

\* A client takes the PING of a round, counts it and is expected to have counted it.
LEMMA GlobalReadWaitPing ==
  ASSUME DWInv, mode' = mode, HostOnly, Global, NEW p \in Procs, NEW q \in Procs, p # q,
         RecvThreadRead(p, q), NEW m, m = Head(chan[q][p]), m.k = "wPING"
  PROVE  Global'
<1>0. /\ Host \in Procs /\ Clients \subseteq Procs /\ Host \notin Clients /\ ~DistEnv
      /\ Shape /\ CountShape /\ \A r \in Procs : r \in Clients <=> r # Host
  BY ProcsFacts DEF DWInv, Shape, HostOnly
<1>1. /\ wpc' = wpc /\ sync' = sync /\ m \in PipeMsgs(q, p) /\ hand'[p] = m /\ hand[p].k = "none"
      /\ \A r \in Procs \ {p} : hand'[r] = hand[r]
      /\ \A r, t \in Procs : ~(r = q /\ t = p) => chan'[r][t] = chan[r][t]
      /\ nMsgsRecvd'[p] = nMsgsRecvd[p] + 1
      /\ \A c \in Clients : InWait(c)' <=> InWait(c)
  BY ReadStep
<1>2. q = Host /\ p \in Clients
  BY <1>0, <1>1 DEF PipeMsgs, Msgs, Reports
<1>3. /\ steps' = steps /\ Has(chan[Host][p], "wPING")
      /\ \A r \in Procs \ {p} : nMsgsRecvd'[r] = nMsgsRecvd[r]
  <2>1. steps' = steps /\ Has(chan[q][p], "wPING")
    BY ReadMore
  <2> QED
    BY <1>0, <1>2, <2>1 DEF RecvThreadRead, CountShape
<1>4. ~Has(chan'[Host][p], "wPING")
  BY <1>0, <1>2, ReadHas DEF DWInv, Counting
<1>5. InRound /\ InRound' /\ ~InSync /\ ~InSync' /\ wpc[Host] # "flush"
  <2>1. InRound
    BY <1>2, <1>3, OutsideRound DEF DWInv, PingOut
  <2> QED
    BY <1>1, <2>1 DEF InRound, InSync
<1>6. \A c \in Clients : ~Reported(c) /\ ~Reported(c)'
  BY <1>5 DEF Reported, Flushed
<1>7. \A c \in Clients \ {p} : chan'[Host][c] = chan[Host][c] /\ hand'[c] = hand[c]
  BY <1>0, <1>1
<1>8. /\ ~PingCounted(p) /\ PingCounted(p)'
      /\ \A c \in Clients \ {p} : PingCounted(c)' <=> PingCounted(c)
  BY <1>1, <1>3, <1>4, <1>5, <1>6, <1>7 DEF PingCounted
<1>9. HostMin' = HostMin
  <2>1. Answers' = Answers
    BY ReadWaitPing
  <2> QED
    BY <1>5, <2>1 DEF HostMin
<1>10. hand'[Host] = hand[Host] /\ nMsgsRecvd'[Host] = nMsgsRecvd[Host]
       /\ \A c \in Clients : chan'[c][Host] = chan[c][Host]
  BY <1>0, <1>1, <1>2, <1>3
<1>11. HandCounted'
  <2>1. ASSUME NEW c \in Clients, hand'[c].k \in Starting
        PROVE  nMsgsRecvd'[c] > One(PingCounted(c)')
    <3>1. c # p
      BY <1>1, <2>1 DEF Starting
    <3> QED
      BY <1>0, <1>3, <1>7, <1>8, <2>1, <3>1 DEF Global, HandCounted, One
  <2> QED
    BY <1>9, <1>10, <2>1, SameMode DEF Global, HandCounted
<1>12. Dirty => Dirty'
  <2>1. ASSUME NEW c \in Clients, Busy(c) PROVE Busy(c)'
    <3>1. CASE c = p
      <4>1. nMsgsRecvd[p] \in Nat /\ nMsgsRecvd[p] > 0
        BY <1>0, <1>8, <2>1, <3>1 DEF CountShape, Busy, One
      <4> QED
        BY <1>1, <1>6, <1>8, <3>1, <4>1 DEF Busy, One
    <3>2. CASE c # p
      BY <1>0, <1>3, <1>6, <1>8, <2>1, <3>2 DEF Busy, One
    <3> QED
      BY <3>1, <3>2
  <2> QED
    BY <1>9, <1>10, <2>1, SameMode DEF Dirty
<1>13. Calm => Calm'
  <2>1. ASSUME NEW c \in Clients PROVE PingOut(c)' <=> PingOut(c)
    BY <1>1, <1>3, <1>7 DEF PingOut
  <2>2. ASSUME NEW c \in Clients PROVE Checked(c)' => Checked(c)
    <3>1. c # Host
      BY <1>0
    <3> QED
      BY <1>1, <1>5, <2>1, <3>1 DEF Checked
  <2>3. Checked(Host)' => Checked(Host)
    BY <1>1 DEF Checked
  <2> QED
    BY <1>0, <1>3, <1>5, <2>2, <2>3, SameMode DEF Calm
<1>14. Ended' /\ \A c \in Clients : CleanupAt(c)'
  BY ReadEnded, ReadCleanup
<1> QED
  BY <1>11, <1>12, <1>13, <1>14, SameMode DEF Global

\* The host takes the PONG of a client, counts it and is expected to have counted it.
LEMMA GlobalReadWaitPong ==
  ASSUME DWInv, mode' = mode, HostOnly, Global, NEW p \in Procs, NEW q \in Procs, p # q,
         RecvThreadRead(p, q), NEW m, m = Head(chan[q][p]), m.k = "wPONG"
  PROVE  Global'
<1>0. /\ Host \in Procs /\ Clients \subseteq Procs /\ Host \notin Clients /\ ~DistEnv
      /\ Shape /\ CountShape /\ \A r \in Procs : r \in Clients <=> r # Host
  BY ProcsFacts DEF DWInv, Shape, HostOnly
<1>1. /\ wpc' = wpc /\ sync' = sync /\ m \in PipeMsgs(q, p) /\ hand'[p] = m /\ hand[p].k = "none"
      /\ \A r \in Procs \ {p} : hand'[r] = hand[r]
      /\ \A r, t \in Procs : ~(r = q /\ t = p) => chan'[r][t] = chan[r][t]
      /\ nMsgsRecvd'[p] = nMsgsRecvd[p] + 1
      /\ \A c \in Clients : InWait(c)' <=> InWait(c)
  BY ReadStep
<1>2. p = Host /\ q \in Clients
  BY <1>0, <1>1 DEF PipeMsgs, Msgs, Kinds, Reports
<1>3. steps' = steps /\ \A c \in Clients : nMsgsRecvd'[c] = nMsgsRecvd[c]
  BY <1>0, <1>2 DEF RecvThreadRead, CountShape, appVars
<1>4. \A c \in Clients : chan'[Host][c] = chan[Host][c] /\ hand'[c] = hand[c]
  BY <1>0, <1>1, <1>2
<1>5. InRound /\ InRound' /\ ~InSync /\ ~InSync' /\ wpc[Host] # "flush"
  <2>1. PongOut(q)
    BY <1>2, ReadHas DEF DWInv, PongOut
  <2>2. InRound
    BY <1>2, <2>1, OutsideRound DEF DWInv
  <2> QED
    BY <1>1, <2>2 DEF InRound, InSync
<1>6. \A c \in Clients : /\ ~Reported(c) /\ ~Reported(c)'
                         /\ (PingCounted(c)' <=> PingCounted(c))
                         /\ (PingOut(c)' <=> PingOut(c))
  BY <1>1, <1>4, <1>5 DEF Reported, Flushed, PingCounted, PingOut
<1>7. HostMin' = HostMin + 1 /\ HostMin \in Nat /\ nMsgsRecvd[Host] \in Nat
  <2>1. Cardinality(Answers') = Cardinality(Answers) + 1
    BY ReadWaitPong
  <2> QED
    BY <1>0, <1>5, <2>1, HostMinType DEF HostMin
<1>8. HandCounted'
  <2>1. hand'[Host].k \notin Starting
    BY <1>1, <1>2 DEF Starting
  <2> QED
    BY <1>3, <1>4, <1>6, <2>1, SameMode DEF Global, HandCounted, One
<1>9. Dirty => Dirty'
  <2>1. \A c \in Clients : Busy(c) => Busy(c)'
    BY <1>3, <1>6 DEF Busy, One
  <2>2. \A c \in Clients : BigReport(chan[c][Host]) => BigReport(chan'[c][Host])
    <3>1. BigReport(chan[q][p]) <=> BigReport(chan'[q][p]) \/ BigPong(m)
      BY ReadMore
    <3>2. ~BigPong(m)
      BY DEF BigPong
    <3> QED
      BY <1>0, <1>1, <1>2, <3>1, <3>2
  <2>3. ~BigPong(hand[Host])
    BY <1>1, <1>2 DEF BigPong
  <2>4. nMsgsRecvd[Host] > HostMin => nMsgsRecvd'[Host] > HostMin'
    BY <1>1, <1>2, <1>7
  <2> QED
    BY <2>1, <2>2, <2>3, <2>4, SameMode DEF Dirty
<1>10. Calm => Calm'
  <2>1. ASSUME NEW c \in Clients PROVE Checked(c)' => Checked(c)
    <3>1. c # Host
      BY <1>0
    <3> QED
      BY <1>1, <1>5, <1>6, <3>1 DEF Checked
  <2>2. Checked(Host)' => Checked(Host)
    BY <1>1 DEF Checked
  <2> QED
    BY <1>0, <1>3, <1>5, <2>1, <2>2, SameMode DEF Calm
<1>11. Ended' /\ \A c \in Clients : CleanupAt(c)'
  BY ReadEnded, ReadCleanup
<1> QED
  BY <1>8, <1>9, <1>10, <1>11, SameMode DEF Global

\* RecvThread::recv_msg
LEMMA GlobalRead ==
  ASSUME DWInv, mode' = mode, HostOnly, Global, NEW p \in Procs, NEW q \in Procs \ {p},
         RecvThreadRead(p, q)
  PROVE  Global'
<1> DEFINE m == Head(chan[q][p])
<1> HIDE DEF m
<1>1. p # q /\ q \in Procs /\ m = Head(chan[q][p])
  BY DEF m
<1>2. CASE m.k = "wPING"
  BY <1>1, <1>2, GlobalReadWaitPing
<1>3. CASE m.k = "wPONG"
  BY <1>1, <1>3, GlobalReadWaitPong
<1>4. CASE m.k \notin {"wPING", "wPONG"}
  <2>1. CASE m.k \notin Counting
    <3>1. DWInv' /\ SameCounts
      BY <1>1, <2>1, ReadOther
    <3> QED
      BY <1>1, <1>4, <3>1, ReadSame
  <2>2. CASE m.k = "fPING"
    <3>1. DWInv' /\ SameCounts
      BY <1>1, <2>2, ReadFlushPing
    <3> QED
      BY <1>1, <1>4, <3>1, ReadSame
  <2>3. CASE m.k = "fPONG"
    <3>1. DWInv' /\ SameCounts
      BY <1>1, <2>3, ReadFlushPongClient, ReadFlushPongHost
    <3> QED
      BY <1>1, <1>4, <3>1, ReadSame
  <2> QED
    BY <1>4, <2>1, <2>2, <2>3 DEF Counting
<1> QED
  BY <1>2, <1>3, <1>4

-----------------------------------------------------------------------------
(* Every behaviour *)

\* The communicator and the program.
LEMMA GlobalThreads ==
  ASSUME DWInv, mode' = mode, HostOnly, Global, NEW p \in Procs,
         SendThread(p) \/ RecvThread(p) \/ Worker(p) \/ EnvPutsTag(p)
  PROVE  Global'
<1>1. CASE SendThread(p)
  BY <1>1, GlobalSendThread DEF SendThread
<1>2. CASE Worker(p) \/ EnvPutsTag(p)
  BY <1>2, GlobalStepSends, GlobalStepEnds, GlobalEnvPutsTag DEF Worker
<1>3. CASE RecvThread(p)
  <2>1. ASSUME NEW q \in Procs \ {p}, RecvThreadRead(p, q) PROVE Global'
    BY <2>1, GlobalRead
  <2>2. CASE HandleApp(p) \/ HandleCleanup(p) \/ HandleDistribute(p) \/ HandleWaitPing(p)
    BY <2>2, GlobalHandleApp, GlobalHandleDistribute, GlobalHandleWaitPing
  <2>3. CASE (p = Host /\ HandleReady) \/ HandleUndistribute(p) \/ HandleWaitPong(p)
    BY <2>3, GlobalHandled
  <2>4. CASE HandleFlushPing(p) \/ FlushPongOthers(p) \/ HandleFlushPongClient(p)
    BY <2>4, GlobalFlushClient
  <2>5. CASE FlushPongHost(p) \/ HandleFlushPongHost
    BY <2>5, GlobalFlushPongHost, GlobalHandleFlushPongHost
  <2> QED
    BY <1>3, <2>1, <2>2, <2>3, <2>4, <2>5 DEF RecvThread
<1> QED
  BY <1>1, <1>2, <1>3

\* The threads in wait.
LEMMA GlobalWaiter ==
  ASSUME DWInv, mode' = mode, HostOnly, Global, NEW p \in Procs, Waiter(p)
  PROVE  Global'
<1>1. CASE EnvWaits(p) \/ LeaveWaitLoop(p) \/ (p = Host /\ (FiniDistReady \/ BcastDone))
  BY <1>1, GlobalHostMoves
<1>2. CASE WaiterStarts(p) \/ WaitAll(p) \/ CheckPending(p)
  BY <1>2, GlobalWaitAll
<1>3. CASE InitWait(p) \/ FiniWaitClient(p) \/ WaiterReturns(p) \/ Cleanup(p)
  BY <1>3, GlobalInitWait, GlobalFiniWaitClient, GlobalStepEnds, GlobalCleanup
<1>4. ~FiniWaitDistEnv(p)
  BY DEF FiniWaitDistEnv, HostOnly
<1>5. CASE Distribute \/ Undistribute
  BY <1>5, GlobalDistribute
<1>6. CASE FiniWaitHost \/ FlushBegin \/ FlushEnd
  BY <1>6, GlobalFiniWaitHost, GlobalFlushBegin, GlobalFlushEnd
<1> QED
  BY <1>1, <1>2, <1>3, <1>4, <1>5, <1>6 DEF Waiter

\* The invariant holds at the start.
LEMMA GlobalStarts == Init => GlobalInv
<1> SUFFICES ASSUME Init, ~DistEnv PROVE Global
  BY DEF GlobalInv, HostOnly
<1>0. DWInv
  BY Starts
<1>1. Host \in Procs /\ Clients \subseteq Procs /\ Host \notin Clients
      /\ \A r \in Procs : r \in Clients <=> r # Host
  BY <1>0, ProcsFacts DEF DWInv, Shape
<1>2. /\ \A p, q \in Procs : chan[p][q] = <<>>
      /\ \A p \in Procs : hand[p].k = "none" /\ steps[p] = 0
      /\ wpc[Host] = "distribute"
  BY <1>1 DEF Init, None, Message
<1>3. \A s : s = <<>> => ~Has(s, "CLEANUP") /\ CleanupFirst(s)
  BY DEF Has, CleanupFirst
<1>4. \A c \in Clients : CleanupAt(c)
  BY <1>1, <1>2, <1>3 DEF CleanupAt
<1>5. HandCounted
  BY <1>1, <1>2 DEF HandCounted, Starting
<1>6. Calm
  BY <1>2 DEF Calm, InSync
<1>7. Ended
  BY <1>2 DEF Ended
<1> QED
  BY <1>4, <1>5, <1>6, <1>7 DEF Global

\* A step of any process, or none, preserves the invariant.
LEMMA KeepsGlobal == DWInv /\ GlobalInv /\ [Next]_vars => GlobalInv'
<1> SUFFICES ASSUME DWInv, GlobalInv, [Next]_vars PROVE GlobalInv'
  OBVIOUS
<1>1. ASSUME NEW p \in Procs, mode' = mode,
             SendThread(p) \/ RecvThread(p) \/ Waiter(p) \/ Worker(p) \/ EnvPutsTag(p)
      PROVE  GlobalInv'
  <2> SUFFICES ASSUME HostOnly' PROVE Global'
    BY DEF GlobalInv
  <2>1. HostOnly /\ Global
    BY <1>1 DEF HostOnly, DistEnv, GlobalInv
  <2> QED
    BY <1>1, <2>1, GlobalThreads, GlobalWaiter
<1>2. CASE UNCHANGED vars
  <2>1. mode' = mode
        /\ UNCHANGED <<steps, budget, inFlight, wpc, leaving, loop, barrier, flushCount,
            nMsgsRecvd, sync, readies, ctxt, sendQueue, chan, hand>>
    BY <1>2 DEF vars, appVars, waitVars, flushVars, ctxtVars
  <2>2. AppShape' /\ CountShape' /\ QueueShape' /\ ChanShape' /\ HandShape'
    BY <2>1, SameShape DEF DWInv
  <2>3. SamePipes /\ SameHands
    BY <2>1, QuietPush, QuietHand
  <2>4. /\ InRound' <=> InRound
        /\ InSync' <=> InSync
        /\ wpc'[Host] = "flush" <=> wpc[Host] = "flush"
        /\ \A c \in Clients : InWait(c)' <=> InWait(c)
    BY <2>1, SameMode DEF InRound, InSync, InWait
  <2>5. DWInv' /\ SameCounts
    BY <2>1, <2>2, <2>3, <2>4, QuietStep
  <2> SUFFICES ASSUME HostOnly' PROVE Global'
    BY DEF GlobalInv
  <2>6. HostOnly /\ Global
    BY <2>1 DEF HostOnly, DistEnv, GlobalInv
  <2>7. NoNewsInPipes /\ NoNewsInHands
    BY <2>1, PipesWithoutNews, HandsWithoutNews DEF DWInv
  <2> QED
    BY <2>1, <2>5, <2>6, <2>7, SameWaits
<1> QED
  BY <1>1, <1>2 DEF Next, Terminated

\* In every behaviour what a process does for the program leaves a surplus until the
\* flush has carried it to the host.
THEOREM SurplusReachesHost == Spec => [](DWInv /\ GlobalInv)
<1>1. Init => DWInv /\ GlobalInv
  BY Starts, GlobalStarts
<1>2. DWInv /\ GlobalInv /\ [Next]_vars => (DWInv /\ GlobalInv)'
  BY Keeps, KeepsGlobal
<1> QED
  BY <1>1, <1>2, PTL DEF Spec

\* cnc.h:561: when main runs on the host only, wait returns when "all the steps
\* prescribed by this context have completed execution", on every process, for any
\* number of processes, in both builds. The hypothesis is needed: when the host may
\* read its counter while its receive thread is between counting a message and
\* handing it over, the wait can end too early.
THEOREM WaitEndsEverywhere ==
  ASSUME \A m \in Modes : m.distEnv \/ m.prompt
  PROVE  Spec => []WaitIsGlobal
<1>1. DWInv /\ GlobalInv => WaitIsGlobal
  <2> SUFFICES ASSUME DWInv, GlobalInv, wpc[Host] = "done", ~DistEnv PROVE Quiescent
    BY DEF WaitIsGlobal
  <2>1. HostOnly
    BY DEF DWInv, Shape, HostOnly, DistEnv
  <2> QED
    BY <2>1 DEF GlobalInv, Global, Ended
<1> QED
  BY <1>1, SurplusReachesHost, PTL

-----------------------------------------------------------------------------
(***************************************************************************)
(* When main runs on every process: the DONE that ends a wait loop of a    *)
(* client is the one the host has sent for this loop.                      *)
(***************************************************************************)

Left == {"leave", "cleanup", "end"}

\* How many wait loops p has come out of.
Loops(p) == loop[p] - 1 + One(wpc[p] \in Left)

OnceOf(s, k) == \A i, j \in DOMAIN s : s[i].k = k /\ s[j].k = k => i = j
Says1(b) == \E n \in DOMAIN b : b[n] = 1
OneSays1(b) == \A i, j \in DOMAIN b : b[i] = 1 /\ b[j] = 1 => i = j

DoneOut(c) == Has(chan[Host][c], "DONE") \/ hand[c].k = "DONE" \/ Says1(barrier[c])

\* A DONE is at one place on its way to the client.
OneDone(c) ==
    /\ OnceOf(chan[Host][c], "DONE") /\ OneSays1(barrier[c])
    /\ ~(Has(chan[Host][c], "DONE") /\ hand[c].k = "DONE")
    /\ ~(Has(chan[Host][c], "DONE") /\ Says1(barrier[c]))
    /\ ~(hand[c].k = "DONE" /\ Says1(barrier[c]))

LeaveAt(c) ==
    /\ Loops(Host) = 0 => Loops(c) = 0 /\ ~DoneOut(c)
    /\ Loops(Host) = 1 => \/ Loops(c) = 0 /\ OneDone(c)
                          \/ Loops(c) = 1 /\ ~DoneOut(c)

Leave ==
    /\ \A c \in Clients : LeaveAt(c)
    /\ \A p \in Procs : wpc[p] = "cleanup" => loop[p] = 1

LeaveInv == DistEnv => Leave

-----------------------------------------------------------------------------
(***************************************************************************)
(* The clones exist while the program runs: no message of the program is   *)
(* on its way before the host's main begins and after the last wait.       *)
(***************************************************************************)

Outside == {"distribute", "awaitReady", "none"}
Settled == Outside \cup {"done", "leave", "cleanup", "end"}

DisOut(c) == Has(chan[Host][c], "DIS_CTXT") \/ hand[c].k = "DIS_CTXT"
ReadyOut(c) == Has(chan[c][Host], "READY")
UnOut(c) == Has(chan[Host][c], "UN_CTXT") \/ hand[c].k = "UN_CTXT"

\* The clones the host knows of.
Readied == {c \in Clients : ctxt[c] = "ready" /\ ~ReadyOut(c)}

CloneAt(c) ==
    /\ OnceOf(chan[Host][c], "DIS_CTXT") /\ OnceOf(chan[Host][c], "UN_CTXT")
    /\ OnceOf(chan[c][Host], "READY")
    /\ ~(Has(chan[Host][c], "DIS_CTXT") /\ hand[c].k = "DIS_CTXT")
    /\ ~(Has(chan[Host][c], "UN_CTXT") /\ hand[c].k = "UN_CTXT")
    /\ DisOut(c) => wpc[Host] = "awaitReady" /\ ctxt[c] = "none"
    /\ ReadyOut(c) => wpc[Host] = "awaitReady" /\ ctxt[c] = "ready"
    /\ UnOut(c) => wpc[Host] = "none" /\ ctxt[c] = "ready"
    /\ wpc[Host] = "distribute" => ctxt[c] = "none"
    /\ ~Has(chan[Host][c], "DONE") /\ hand[c].k # "DONE"

Clones ==
    /\ \A c \in Clients : CloneAt(c)
    /\ wpc[Host] \notin Outside => \A p \in Procs : ctxt[p] = "ready"
    /\ hand[Host].k = "READY" => wpc[Host] = "awaitReady"
    /\ wpc[Host] = "distribute" => readies = 0
    /\ wpc[Host] = "awaitReady" => readies + One(hand[Host].k = "READY") <= Cardinality(Readied)

\* When main runs everywhere the contexts are there and stay.
AlwaysThere ==
    /\ \A p \in Procs : ctxt[p] = "ready" /\ hand[p].k # "UN_CTXT"
    /\ \A c \in Clients : ~Has(chan[Host][c], "UN_CTXT")
    /\ wpc[Host] \notin Outside

Still == wpc[Host] \in Settled => Quiescent

ContextInv == IF DistEnv THEN AlwaysThere ELSE Clones /\ (mode.prompt => Still)

-----------------------------------------------------------------------------
(* Messages that come once *)

\* What a message at the end, or taking the first one, or the marks of a flush change.
LEMMA OnceFacts ==
  ASSUME NEW K, NEW s \in Seq(Msgs(K)), NEW k
  PROVE  /\ \A m \in Msgs(K) : OnceOf(s, k) /\ (m.k = k => ~Has(s, k)) => OnceOf(Append(s, m), k)
         /\ s # <<>> /\ OnceOf(s, k) =>
              OnceOf(Tail(s), k) /\ (Head(s).k = k => ~Has(Tail(s), k))
         /\ OnceOf(s, k) => OnceOf(MarkAll(s), k)
<1>1. ASSUME NEW m \in Msgs(K), OnceOf(s, k), m.k = k => ~Has(s, k) PROVE OnceOf(Append(s, m), k)
  <2> DEFINE t == Append(s, m)
  <2>1. /\ DOMAIN t = 1 .. Len(s) + 1 /\ DOMAIN s = 1 .. Len(s) /\ Len(s) \in Nat
        /\ \A n \in 1 .. Len(s) : t[n] = s[n]
        /\ t[Len(s) + 1] = m
    OBVIOUS
  <2> HIDE DEF t
  <2>2. OnceOf(t, k)
    BY <1>1, <2>1 DEF OnceOf, Has
  <2> QED
    BY <2>2 DEF t
<1>2. ASSUME s # <<>>, OnceOf(s, k)
      PROVE  OnceOf(Tail(s), k) /\ (Head(s).k = k => ~Has(Tail(s), k))
  <2> DEFINE t == Tail(s)
             h == Head(s)
  <2>1. /\ DOMAIN s = 1 .. Len(s) /\ Len(s) \in Nat /\ Len(s) > 0
        /\ DOMAIN t = 1 .. Len(s) - 1
        /\ \A n \in 1 .. Len(s) - 1 : t[n] = s[n + 1]
        /\ h = s[1]
    BY <1>2
  <2> HIDE DEF t, h
  <2>2. \A n \in DOMAIN t : n + 1 \in DOMAIN s /\ t[n] = s[n + 1] /\ n \in Nat /\ n + 1 # 1
    BY <2>1
  <2>3. 1 \in DOMAIN s
    BY <2>1
  <2>4. OnceOf(t, k)
    <3> SUFFICES ASSUME NEW i \in DOMAIN t, NEW j \in DOMAIN t, t[i].k = k, t[j].k = k
                 PROVE  i = j
      BY DEF OnceOf
    <3>1. i + 1 = j + 1
      BY <1>2, <2>2 DEF OnceOf
    <3> QED
      BY <2>2, <3>1
  <2>5. h.k = k => ~Has(t, k)
    BY <1>2, <2>1, <2>2, <2>3 DEF OnceOf, Has
  <2> QED
    BY <2>4, <2>5 DEF t, h
<1>3. ASSUME OnceOf(s, k) PROVE OnceOf(MarkAll(s), k)
  <2>1. DOMAIN MarkAll(s) = DOMAIN s
    BY DEF MarkAll
  <2>2. \A n \in DOMAIN s : MarkAll(s)[n].k = s[n].k
    BY DEF MarkAll, Mark, Message
  <2> QED
    BY <1>3, <2>1, <2>2 DEF OnceOf
<1> QED
  BY <1>1, <1>2, <1>3

\* The barrier of a client.
LEMMA OnesFacts ==
  ASSUME NEW b \in Seq({0, 1})
  PROVE  /\ Says1(Append(b, 0)) <=> Says1(b)
         /\ Says1(Append(b, 1))
         /\ OneSays1(b) => OneSays1(Append(b, 0))
         /\ ~Says1(b) => OneSays1(b) /\ OneSays1(Append(b, 1))
         /\ b # <<>> => /\ Says1(b) <=> Says1(Tail(b)) \/ Head(b) = 1
                        /\ OneSays1(b) => OneSays1(Tail(b)) /\ (Head(b) = 1 => ~Says1(Tail(b)))
<1>1. ASSUME NEW x \in {0, 1}
      PROVE  /\ Says1(Append(b, x)) <=> Says1(b) \/ x = 1
             /\ OneSays1(b) /\ (x = 1 => ~Says1(b)) => OneSays1(Append(b, x))
  <2> DEFINE t == Append(b, x)
  <2>1. /\ DOMAIN t = 1 .. Len(b) + 1 /\ DOMAIN b = 1 .. Len(b) /\ Len(b) \in Nat
        /\ \A n \in 1 .. Len(b) : t[n] = b[n]
        /\ t[Len(b) + 1] = x
    OBVIOUS
  <2> HIDE DEF t
  <2>2. Says1(t) <=> Says1(b) \/ x = 1
    BY <2>1 DEF Says1
  <2>3. OneSays1(b) /\ (x = 1 => ~Says1(b)) => OneSays1(t)
    BY <2>1 DEF OneSays1, Says1
  <2> QED
    BY <2>2, <2>3 DEF t
<1>2. ASSUME b # <<>>
      PROVE  /\ Says1(b) <=> Says1(Tail(b)) \/ Head(b) = 1
             /\ OneSays1(b) => OneSays1(Tail(b)) /\ (Head(b) = 1 => ~Says1(Tail(b)))
  <2> DEFINE t == Tail(b)
             h == Head(b)
  <2>1. /\ DOMAIN b = 1 .. Len(b) /\ Len(b) \in Nat /\ Len(b) > 0
        /\ DOMAIN t = 1 .. Len(b) - 1
        /\ \A n \in 1 .. Len(b) - 1 : t[n] = b[n + 1]
        /\ h = b[1]
    BY <1>2
  <2> HIDE DEF t, h
  <2>2. \A n \in DOMAIN t : n + 1 \in DOMAIN b /\ t[n] = b[n + 1] /\ n \in Nat /\ n + 1 # 1
    BY <2>1
  <2>3. 1 \in DOMAIN b
    BY <2>1
  <2>4. \A n \in DOMAIN b : n = 1 \/ (n - 1 \in DOMAIN t /\ b[n] = t[n - 1])
    BY <2>1
  <2>5. Says1(b) <=> Says1(t) \/ h = 1
    BY <2>1, <2>2, <2>3, <2>4 DEF Says1
  <2>6. OneSays1(b) => OneSays1(t)
    <3> SUFFICES ASSUME OneSays1(b), NEW i \in DOMAIN t, NEW j \in DOMAIN t, t[i] = 1, t[j] = 1
                 PROVE  i = j
      BY DEF OneSays1
    <3>1. i + 1 = j + 1
      BY <2>2 DEF OneSays1
    <3> QED
      BY <2>2, <3>1
  <2>7. OneSays1(b) /\ h = 1 => ~Says1(t)
    BY <2>1, <2>2, <2>3 DEF OneSays1, Says1
  <2> QED
    BY <2>5, <2>6, <2>7 DEF t, h
<1>3. ~Says1(b) => OneSays1(b)
  BY DEF Says1, OneSays1
<1> QED
  BY <1>1, <1>2, <1>3

-----------------------------------------------------------------------------
(* Steps that send no message of a kind *)

NonePiped(k) ==
    \A r, t \in Procs : /\ Has(chan'[r][t], k) => Has(chan[r][t], k)
                        /\ OnceOf(chan[r][t], k) => OnceOf(chan'[r][t], k)
NoneHeld(k) == \A r \in Procs : hand'[r].k = k => hand[r].k = k
NoneNew(k) == NonePiped(k) /\ NoneHeld(k)

\* A push of a message of another kind, and of one of this kind.
LEMMA PushOnce ==
  ASSUME Shape, mode' = mode, NEW p \in Procs, NEW S \in SUBSET Procs, NEW m \in Msgs(Kinds),
         \A q \in S : m \in PipeMsgs(p, q), Push(p, m, S)
  PROVE  /\ \A k \in Kinds : k # m.k => NonePiped(k)
         /\ \A r, t \in Procs : Has(chan'[r][t], m.k) <=>
                Has(chan[r][t], m.k) \/ (r = p /\ t \in S)
         /\ \A r, t \in Procs : OnceOf(chan[r][t], m.k) /\ ~Has(chan[r][t], m.k)
                                    => OnceOf(chan'[r][t], m.k)
<1> DEFINE kind == m.k
<1>1. m.k = kind /\ kind \in Kinds
  BY DEF Msgs
<1>2. \A r, t \in Procs : chan'[r][t] = IF r = p /\ t \in S THEN Append(chan[r][t], m)
                                        ELSE chan[r][t]
  BY PushFacts
<1>3. \A r, t \in Procs : chan[r][t] \in Seq(Msgs(Kinds))
  BY DEF Shape, ChanShape
<1> HIDE DEF kind
<1>4. ASSUME NEW r \in Procs, NEW t \in Procs, NEW k \in Kinds
      PROVE  /\ Has(chan'[r][t], k) <=> Has(chan[r][t], k) \/ (r = p /\ t \in S /\ k = kind)
             /\ OnceOf(chan[r][t], k) /\ (k = kind => ~Has(chan[r][t], k))
                  => OnceOf(chan'[r][t], k)
  <2> DEFINE s == chan[r][t]
  <2>1. s \in Seq(Msgs(Kinds)) /\ chan'[r][t] = IF r = p /\ t \in S THEN Append(s, m) ELSE s
    BY <1>2, <1>3
  <2> HIDE DEF s
  <2>2. /\ Has(Append(s, m), k) <=> Has(s, k) \/ kind = k
        /\ OnceOf(s, k) /\ (kind = k => ~Has(s, k)) => OnceOf(Append(s, m), k)
    BY <1>1, <2>1, AppendFacts, OnceFacts
  <2> QED
    BY <2>1, <2>2 DEF s
<1>5. \A k \in Kinds : k # kind => NonePiped(k)
  BY <1>4 DEF NonePiped
<1> QED
  BY <1>1, <1>4, <1>5

\* What becomes of the message in a hand.
LEMMA HandOnce ==
  ASSUME Shape, mode' = mode
  PROVE  /\ UNCHANGED hand => \A k \in Kinds : NoneHeld(k)
         /\ \A p \in Procs : HandlerReturns(p) => \A k \in Kinds : NoneHeld(k)
         /\ \A p \in Procs : \A m \in Msgs(Handler) : GoOnWith(p, m) => \A k \in Kinds : NoneHeld(k)
<1>1. UNCHANGED hand => \A k \in Kinds : NoneHeld(k)
  BY DEF NoneHeld
<1>2. "none" \notin Kinds /\ \A k \in Handler : k \notin Kinds
  BY DEF Kinds, Handler
<1>3. \A p \in Procs : HandlerReturns(p) => \A k \in Kinds : NoneHeld(k)
  BY <1>2, Returned DEF NoneHeld
<1>4. ASSUME NEW p \in Procs, NEW m \in Msgs(Handler), GoOnWith(p, m)
      PROVE  \A k \in Kinds : NoneHeld(k)
  <2>1. m.k \in Handler
    BY DEF Msgs
  <2>2. hand'[p] = m /\ \A r \in Procs \ {p} : hand'[r] = hand[r]
    BY <1>4 DEF GoOnWith, Shape, HandShape
  <2> QED
    BY <1>2, <2>1, <2>2 DEF NoneHeld
<1> QED
  BY <1>1, <1>3, <1>4

\* What a read changes.
LEMMA ReadOnce ==
  ASSUME DWInv, mode' = mode, NEW p \in Procs, NEW q \in Procs, p # q, RecvThreadRead(p, q),
         NEW m, m = Head(chan[q][p])
  PROVE  /\ \A k \in Kinds : k # m.k => NoneNew(k)
         /\ m.k \in Kinds /\ Has(chan[q][p], m.k)
         /\ OnceOf(chan[q][p], m.k) => OnceOf(chan'[q][p], m.k) /\ ~Has(chan'[q][p], m.k)
<1>1. /\ chan[q][p] # <<>> /\ hand[p].k = "none" /\ hand'[p] = m
      /\ \A r \in Procs \ {p} : hand'[r] = hand[r]
      /\ chan'[q][p] = Tail(chan[q][p])
      /\ \A r, t \in Procs : ~(r = q /\ t = p) => chan'[r][t] = chan[r][t]
  BY ReadFacts DEF DWInv
<1> DEFINE s == chan[q][p]
<1>2. s \in Seq(Msgs(Kinds)) /\ s # <<>> /\ m = Head(s) /\ chan'[q][p] = Tail(s)
  BY <1>1 DEF DWInv, Shape, ChanShape
<1> HIDE DEF s
<1>3. \A k : /\ Has(s, k) <=> Has(Tail(s), k) \/ m.k = k
             /\ OnceOf(s, k) => OnceOf(Tail(s), k) /\ (m.k = k => ~Has(Tail(s), k))
  BY <1>2, TailFacts, OnceFacts
<1>4. m.k \in Kinds
  <2>1. Head(s) \in Msgs(Kinds)
    BY <1>2
  <2> QED
    BY <1>2, <2>1 DEF Msgs
<1>5. ASSUME NEW k \in Kinds, k # m.k PROVE NoneNew(k)
  <2>1. NonePiped(k)
    <3> SUFFICES ASSUME NEW r \in Procs, NEW t \in Procs
                 PROVE  /\ Has(chan'[r][t], k) => Has(chan[r][t], k)
                        /\ OnceOf(chan[r][t], k) => OnceOf(chan'[r][t], k)
      BY DEF NonePiped
    <3>1. CASE r = q /\ t = p
      BY <1>2, <1>3, <3>1 DEF s
    <3>2. CASE ~(r = q /\ t = p)
      BY <1>1, <3>2
    <3> QED
      BY <3>1, <3>2
  <2>2. NoneHeld(k)
    BY <1>1, <1>5 DEF NoneHeld
  <2> QED
    BY <2>1, <2>2 DEF NoneNew
<1> QED
  BY <1>2, <1>3, <1>4, <1>5 DEF s

\* The messages of the program: main, a step or a handler sends one.
LEMMA ProgramMessages ==
  ASSUME DWInv, mode' = mode, NEW p \in Procs,
         EnvPutsTag(p) \/ StepSends(p) \/ HandleApp(p)
  PROVE  \A k \in Kinds : k # "app" => NoneNew(k)
<1>0. Shape
  BY DEF DWInv
<1>a. ASSUME NEW n \in Msgs(Kinds), NEW T \in SUBSET Procs, Push(p, n, T),
             \A r \in T : n \in PipeMsgs(p, r)
      PROVE  \A k \in Kinds : k # n.k => NonePiped(k)
  BY <1>0, <1>a, PushOnce
<1> DEFINE m == Message("app", 0)
<1>1. m \in Msgs(Kinds) /\ m.k = "app" /\ \A q \in Procs \ {p} : m \in PipeMsgs(p, q)
  BY DEF Kinds, Message, PipeMsgs, Reports, Msgs
<1>2. ASSUME NEW q \in Procs \ {p}, Send(p, Message("app", 0), q)
      PROVE  \A k \in Kinds : k # "app" => NonePiped(k)
  <2> DEFINE S == {q}
  <2>1. S \in SUBSET Procs /\ Push(p, m, S) /\ \A r \in S : m \in PipeMsgs(p, r)
    BY <1>1, <1>2 DEF Send
  <2> HIDE DEF S, m
  <2> QED
    BY <1>1, <1>a, <2>1
<1>3. UNCHANGED chan \/ \E q \in Procs \ {p} : Send(p, Message("app", 0), q)
  BY DEF EnvPutsTag, StepSends, HandleApp
<1>4. \A k \in Kinds : k # "app" => NonePiped(k)
  BY <1>2, <1>3 DEF NonePiped
<1>5. UNCHANGED hand \/ HandlerReturns(p)
  BY DEF EnvPutsTag, StepSends, HandleApp
<1> QED
  BY <1>0, <1>4, <1>5, HandOnce DEF NoneNew

\* The messages of the scheduler and of the distributor.
SchedKinds == {"wPING", "wPONG", "CLEANUP", "fPING", "fPONG"}

\* The threads of the communicator, the ends of steps, the flush and the rounds.
RoundStepOf(p) ==
    \/ SendThread(p) \/ StepEnds(p) \/ HandleUndistribute(p) \/ HandleCleanup(p)
    \/ HandleWaitPing(p) \/ HandleWaitPong(p)
    \/ HandleFlushPing(p) \/ FlushPongOthers(p) \/ HandleFlushPongClient(p) \/ FlushPongHost(p)
    \/ p = Host /\ (HandleReady \/ HandleFlushPongHost)
    \/ EnvWaits(p) \/ WaiterStarts(p) \/ InitWait(p) \/ WaitAll(p) \/ CheckPending(p)
    \/ FiniWaitClient(p) \/ WaiterReturns(p) \/ FiniWaitDistEnv(p)
    \/ LeaveWaitLoop(p) \/ Cleanup(p)
    \/ p = Host /\ (FiniDistReady \/ FiniWaitHost \/ FlushEnd)

\* One of these messages is sent.
Quietly(p) ==
    \E m \in Msgs(Kinds) : \E S \in SUBSET Procs :
        m.k \in SchedKinds /\ Push(p, m, S) /\ \A q \in S : m \in PipeMsgs(p, q)

\* None of them is one of the program or about a clone, or a DONE.
LEMMA RoundMessages ==
  ASSUME DWInv, mode' = mode, NEW p \in Procs, RoundStepOf(p)
  PROVE  \A k \in Kinds \ SchedKinds : NoneNew(k)
<1>0. Shape /\ Host \in Procs /\ Clients \subseteq Procs /\ Host \notin Clients
      /\ \A r \in Procs : r \in Clients <=> r # Host
  BY ProcsFacts DEF DWInv, Shape
<1>1. ASSUME NEW m \in Msgs(Kinds), m.k \in SchedKinds, NEW S \in SUBSET Procs, Push(p, m, S),
             \A q \in S : m \in PipeMsgs(p, q)
      PROVE  \A k \in Kinds \ SchedKinds : NonePiped(k)
  <2>1. ASSUME NEW k \in Kinds, k # m.k PROVE NonePiped(k)
    BY <1>0, <1>1, <2>1, PushOnce DEF NonePiped
  <2> QED
    BY <1>1, <2>1
<1>2. UNCHANGED chan => \A k \in Kinds \ SchedKinds : NonePiped(k)
  BY DEF NonePiped
<1>3. (UNCHANGED hand \/ HandlerReturns(p) \/ \E m \in Msgs(Handler) : GoOnWith(p, m))
        => \A k \in Kinds : NoneHeld(k)
  BY <1>0, HandOnce
<1>4. ASSUME UNCHANGED chan \/ Quietly(p),
             UNCHANGED hand \/ HandlerReturns(p) \/ \E m \in Msgs(Handler) : GoOnWith(p, m)
      PROVE  \A k \in Kinds \ SchedKinds : NoneNew(k)
  BY <1>1, <1>2, <1>3, <1>4 DEF NoneNew, Quietly
<1>5. CASE SendThread(p) \/ StepEnds(p) \/ EnvWaits(p) \/ WaiterStarts(p) \/ WaitAll(p)
           \/ CheckPending(p) \/ WaiterReturns(p) \/ LeaveWaitLoop(p)
           \/ (p = Host /\ (FiniDistReady \/ FiniWaitHost \/ FlushEnd))
  <2>1. UNCHANGED <<chan, hand>>
    BY <1>5 DEF SendThread, SendThreadPop, SendThreadWrite, StepEnds, EnvWaits, WaiterStarts,
       WaitAll, CheckPending, WaiterReturns, LeaveWaitLoop, FiniDistReady, FiniWaitHost, FlushEnd
  <2> QED
    BY <1>4, <2>1
<1>6. CASE HandleUndistribute(p) \/ HandleCleanup(p) \/ HandleWaitPing(p) \/ HandleWaitPong(p)
           \/ (p = Host /\ (HandleReady \/ HandleFlushPongHost))
  <2>1. UNCHANGED chan /\ HandlerReturns(p)
    BY <1>6 DEF HandleUndistribute, HandleCleanup, HandleWaitPing, HandleWaitPong, HandleReady,
       HandleFlushPongHost
  <2> QED
    BY <1>4, <2>1
<1>7. CASE HandleFlushPing(p) \/ HandleFlushPongClient(p)
  <2>1. PongOthers \in Msgs(Handler) /\ CountDown \in Msgs(Handler) /\ PongHost \in Msgs(Handler)
    BY DEF PongOthers, CountDown, PongHost, Message, Msgs, Handler
  <2>2. UNCHANGED chan
    BY <1>7 DEF HandleFlushPing, HandleFlushPongClient
  <2>3. HandlerReturns(p) \/ GoOnWith(p, PongOthers) \/ GoOnWith(p, CountDown)
        \/ GoOnWith(p, PongHost)
    BY <1>7 DEF HandleFlushPing, HandleFlushPongClient
  <2> QED
    BY <1>4, <2>1, <2>2, <2>3
<1>8. CASE FlushPongOthers(p)
  <2>1. p \in Clients
    <3>1. hand[p].k = "pongOthers" /\ hand[p] \in HandMsgs(p)
      BY <1>0, <1>8 DEF FlushPongOthers, PongOthers, Message, Shape, HandShape
    <3> QED
      BY <1>0, <3>1 DEF HandMsgs, Reports, Msgs
  <2>2. Quietly(p)
    <3> DEFINE m == Message("fPONG", 0)
               S == Clients \ {p}
    <3>1. m \in Msgs(Kinds) /\ m.k \in SchedKinds /\ \A q \in S : m \in PipeMsgs(p, q)
      BY <1>0, <2>1 DEF PipeMsgs, Message, Msgs, SchedKinds, Kinds
    <3>2. Push(p, m, S) /\ S \in SUBSET Procs
      BY <1>0, <1>8 DEF FlushPongOthers
    <3> HIDE DEF m, S
    <3> QED
      BY <3>1, <3>2 DEF Quietly
  <2>3. CountDown \in Msgs(Handler) /\ (HandlerReturns(p) \/ GoOnWith(p, CountDown))
    BY <1>8 DEF FlushPongOthers, CountDown, Message, Msgs, Handler
  <2> QED
    BY <1>4, <2>2, <2>3
<1>9. CASE FlushPongHost(p)
  <2>1. hand[p].k = "pongHost" /\ p \in Clients
    <3>1. hand[p].k = "pongHost" /\ hand[p] \in HandMsgs(p)
      BY <1>0, <1>9 DEF FlushPongHost, PongHost, Message, Shape, HandShape
    <3> QED
      BY <1>0, <3>1 DEF HandMsgs, Reports, Msgs
  <2>2. nMsgsRecvd[p] \in Nat \ {0}
    <3>1. nMsgsRecvd[p] \in Nat /\ ~Reported(p) /\ InSync
      BY <2>1, <1>0 DEF DWInv, Shape, CountShape, Reported, Flush, FlushAt
    <3>2. nMsgsRecvd[p] >= 1
      BY <2>1, <3>1 DEF DWInv, Counts, PingCounted
    <3> QED
      BY <3>1, <3>2
  <2>3. Quietly(p) /\ HandlerReturns(p)
    <3> DEFINE m == Message("fPONG", nMsgsRecvd[p])
               S == {Host}
    <3>1. m \in Msgs(Kinds) /\ m.k \in SchedKinds /\ \A q \in S : m \in PipeMsgs(p, q)
      BY <1>0, <2>1, <2>2 DEF PipeMsgs, Reports, Message, Msgs, SchedKinds, Kinds
    <3>2. Push(p, m, S) /\ S \in SUBSET Procs /\ HandlerReturns(p)
      BY <1>0, <1>9 DEF FlushPongHost, Send
    <3> HIDE DEF m, S
    <3> QED
      BY <3>1, <3>2 DEF Quietly
  <2> QED
    BY <1>4, <2>3
<1>10. CASE InitWait(p) \/ Cleanup(p)
  <2>1. hand' = hand
    BY <1>10 DEF InitWait, Cleanup
  <2>2. CASE UNCHANGED chan
    BY <1>4, <2>1, <2>2
  <2>3. CASE p = Host
    <3> DEFINE S == Procs \ {Host}
    <3>1. ASSUME NEW k \in {"wPING", "CLEANUP"}, Push(Host, Message(k, 0), S) PROVE Quietly(Host)
      <4> DEFINE m == Message(k, 0)
      <4>1. m \in Msgs(Kinds) /\ m.k \in SchedKinds /\ \A q \in S : m \in PipeMsgs(Host, q)
        BY DEF SchedKinds, PipeMsgs, Message, Msgs, Kinds
      <4>2. Push(Host, m, S) /\ S \in SUBSET Procs
        BY <3>1
      <4> HIDE DEF m, S
      <4> QED
        BY <4>1, <4>2 DEF Quietly
    <3>2. Push(Host, Message("wPING", 0), S) \/ Push(Host, Message("CLEANUP", 0), S)
      BY <1>10, <2>3 DEF InitWait, Cleanup, Bcast
    <3>3. Quietly(Host)
      BY <3>1, <3>2
    <3> QED
      BY <1>4, <2>1, <2>3, <3>3
  <2> QED
    BY <1>10, <2>2, <2>3 DEF InitWait, Cleanup
<1>11. CASE FiniWaitClient(p) \/ FiniWaitDistEnv(p)
  <2>1. hand' = hand /\ p # Host
    BY <1>11 DEF FiniWaitClient, FiniWaitDistEnv
  <2>2. UNCHANGED chan \/ Quietly(p)
    <3> DEFINE m == Message("wPONG", 0)
               S == {Host}
    <3>1. m \in Msgs(Kinds) /\ m.k \in SchedKinds /\ \A q \in S : m \in PipeMsgs(p, q)
      BY <1>0, <2>1 DEF PipeMsgs, Reports, Message, Msgs, SchedKinds, Kinds
    <3>2. UNCHANGED chan \/ Push(p, m, S)
      BY <1>11 DEF FiniWaitClient, FiniWaitDistEnv, Send
    <3>3. S \in SUBSET Procs
      BY <1>0
    <3> HIDE DEF m, S
    <3> QED
      BY <3>1, <3>2, <3>3 DEF Quietly
  <2> QED
    BY <1>4, <2>1, <2>2
<1> QED
  BY <1>5, <1>6, <1>7, <1>8, <1>9, <1>10, <1>11 DEF RoundStepOf

\* The flush marks the messages and adds its own.
LEMMA FlushMessages ==
  ASSUME DWInv, mode' = mode, FlushBegin
  PROVE  \A k \in Kinds \ SchedKinds : NoneNew(k)
<1>0. Shape /\ HandShape
  BY DEF DWInv, Shape
<1> SUFFICES ASSUME NEW k \in Kinds \ SchedKinds PROVE NoneNew(k)
  OBVIOUS
<1>1. ASSUME NEW r \in Procs, NEW q \in Procs
      PROVE  /\ Has(chan'[r][q], k) => Has(chan[r][q], k)
             /\ OnceOf(chan[r][q], k) => OnceOf(chan'[r][q], k)
  <2> DEFINE s == chan[r][q]
             t == MarkAll(s)
             m == Message("fPING", 0)
  <2>1. s \in Seq(Msgs(Kinds))
    BY <1>0 DEF Shape, ChanShape
  <2>2. chan'[r][q] = IF r = Host /\ q # Host THEN Append(t, m) ELSE t
    BY DEF FlushBegin
  <2>3. m \in Msgs(Kinds) /\ m.k # k
    BY DEF Message, Msgs, Kinds, SchedKinds
  <2> HIDE DEF s
  <2>4. t \in Seq(Msgs(Kinds)) /\ (Has(t, k) <=> Has(s, k)) /\ (OnceOf(s, k) => OnceOf(t, k))
    BY <2>1, MarkFacts, OnceFacts
  <2> HIDE DEF t, m
  <2>5. (Has(Append(t, m), k) <=> Has(t, k)) /\ (OnceOf(t, k) => OnceOf(Append(t, m), k))
    BY <2>3, <2>4, AppendFacts, OnceFacts
  <2> QED
    BY <2>2, <2>4, <2>5 DEF s
<1>2. \A r \in Procs : hand'[r].k = hand[r].k
  BY <1>0 DEF FlushBegin, Mark, Message, HandShape
<1> QED
  BY <1>1, <1>2 DEF NoneNew, NonePiped, NoneHeld

-----------------------------------------------------------------------------
(* The end of a wait loop when main runs on every process *)

\* A step in which nobody leaves a loop and no DONE comes.
LEMMA LeaveFrame ==
  ASSUME mode' = mode, Leave, NoneNew("DONE"), Host \in Procs, Clients \subseteq Procs,
         \A p \in Procs : /\ loop'[p] = loop[p] /\ (wpc'[p] \in Left <=> wpc[p] \in Left)
                          /\ wpc'[p] = "cleanup" => wpc[p] = "cleanup",
         \A c \in Clients : /\ Says1(barrier'[c]) => Says1(barrier[c])
                            /\ OneSays1(barrier[c]) => OneSays1(barrier'[c])
  PROVE  Leave'
<1>1. \A p \in Procs : Loops(p)' = Loops(p)
  BY DEF Loops, One
<1>2. ASSUME NEW c \in Clients PROVE LeaveAt(c)'
  <2>1. /\ Has(chan'[Host][c], "DONE") => Has(chan[Host][c], "DONE")
        /\ OnceOf(chan[Host][c], "DONE") => OnceOf(chan'[Host][c], "DONE")
        /\ hand'[c].k = "DONE" => hand[c].k = "DONE"
    BY DEF NoneNew, NonePiped, NoneHeld
  <2>2. DoneOut(c)' => DoneOut(c)
    BY <2>1 DEF DoneOut
  <2>3. OneDone(c) => OneDone(c)'
    BY <2>1 DEF OneDone
  <2>4. LeaveAt(c)
    BY DEF Leave
  <2> QED
    BY <1>1, <2>2, <2>3, <2>4 DEF LeaveAt
<1>3. \A p \in Procs' : wpc'[p] = "cleanup" => loop'[p] = 1
  BY SameMode DEF Leave
<1> QED
  BY <1>2, <1>3, SameMode DEF Leave

\* The rounds, the flush and the clones.
LEMMA LeaveQuiet ==
  ASSUME DWInv, mode' = mode, DistEnv, Leave, NoneNew("DONE"), barrier' = barrier, loop' = loop,
         NEW p \in Procs, NEW x, x \notin Left,
         wpc' = wpc \/ (wpc' = [wpc EXCEPT ![p] = x] /\ wpc[p] \notin Left)
  PROVE  Leave'
<1>1. Host \in Procs /\ Clients \subseteq Procs
  BY ProcsFacts DEF DWInv, Shape
<1>2. \A r \in Procs : /\ wpc'[r] \in Left <=> wpc[r] \in Left
                       /\ wpc'[r] = "cleanup" => wpc[r] = "cleanup"
  <2>1. wpc \in [Procs -> Phases] /\ x # "cleanup"
    BY DEF DWInv, Shape, AppShape, Left
  <2>2. CASE wpc' = wpc
    BY <2>2
  <2>3. CASE wpc' = [wpc EXCEPT ![p] = x] /\ wpc[p] \notin Left
    BY <2>1, <2>3
  <2> QED
    BY <2>2, <2>3
<1> QED
  BY <1>1, <1>2, LeaveFrame

\* The host says DONE to everyone, in the loop it leaves.
LEMMA LeaveBcastDone ==
  ASSUME DWInv, mode' = mode, DistEnv, Leave, BcastDone
  PROVE  Leave'
<1>0. /\ Host \in Procs /\ Shape /\ Clients \subseteq Procs /\ AppShape
      /\ Host \notin Clients /\ \A r \in Procs : r \in Clients <=> r # Host
  BY ProcsFacts DEF DWInv, Shape
<1>1. /\ wpc[Host] = "done" /\ wpc'[Host] = "leave" /\ \A c \in Clients : wpc'[c] = wpc[c]
      /\ UNCHANGED <<barrier, loop, hand>>
  BY <1>0 DEF BcastDone, AppShape
<1>2. /\ Loops(Host) = loop[Host] - 1 /\ Loops(Host)' = loop[Host] /\ loop[Host] \in {1, 2}
      /\ \A c \in Clients : Loops(c)' = Loops(c)
  BY <1>0, <1>1 DEF Loops, One, Left, AppShape
<1> DEFINE m == Message("DONE", 0)
           S == Procs \ {Host}
<1>3. /\ m \in Msgs(Kinds) /\ m.k = "DONE" /\ \A q \in S : m \in PipeMsgs(Host, q)
      /\ Push(Host, m, S) /\ S \in SUBSET Procs
  BY DEF Message, Msgs, Kinds, PipeMsgs, BcastDone, Bcast
<1> HIDE DEF m, S
<1>4. \A r, t \in Procs : OnceOf(chan[r][t], m.k) /\ ~Has(chan[r][t], m.k)
                                    => OnceOf(chan'[r][t], m.k)
  BY <1>0, <1>3, PushOnce
<1>5. ASSUME NEW c \in Clients PROVE LeaveAt(c)'
  <2>1. CASE loop[Host] = 1
    <3>1. Loops(c) = 0 /\ ~DoneOut(c)
      BY <1>2, <2>1 DEF Leave, LeaveAt
    <3>2. ~Has(chan[Host][c], "DONE") /\ hand[c].k # "DONE" /\ ~Says1(barrier[c])
      BY <3>1 DEF DoneOut
    <3>3. OnceOf(chan[Host][c], "DONE") /\ OneSays1(barrier[c])
      BY <3>2 DEF OnceOf, Has, OneSays1, Says1
    <3>4. OnceOf(chan'[Host][c], "DONE")
      BY <1>0, <1>3, <1>4, <3>2, <3>3
    <3>5. OneDone(c)'
      BY <1>1, <3>2, <3>3, <3>4 DEF OneDone
    <3> QED
      BY <1>2, <2>1, <3>1, <3>5 DEF LeaveAt
  <2>2. CASE loop[Host] = 2
    BY <1>2, <2>2 DEF LeaveAt
  <2> QED
    BY <1>2, <2>1, <2>2
<1>6. \A p \in Procs' : wpc'[p] = "cleanup" => loop'[p] = 1
  BY <1>0, <1>1, SameMode DEF Leave
<1> QED
  BY <1>5, <1>6, SameMode DEF Leave

\* A client takes what its barrier holds.
LEMMA LeaveFiniWait ==
  ASSUME DWInv, mode' = mode, DistEnv, Leave, NEW p \in Procs, FiniWaitDistEnv(p)
  PROVE  Leave'
<1>0. /\ Host \in Procs /\ Shape /\ Clients \subseteq Procs /\ AppShape /\ CountShape
      /\ Host \notin Clients /\ \A r \in Procs : r \in Clients <=> r # Host
  BY ProcsFacts DEF DWInv, Shape
<1>1. NoneNew("DONE")
  <2>1. RoundStepOf(p) /\ "DONE" \in Kinds \ SchedKinds
    BY DEF RoundStepOf, Kinds, SchedKinds
  <2> QED
    BY <2>1, RoundMessages
<1> DEFINE b == barrier[p]
<1>2. /\ p \in Clients /\ wpc[p] = "fini" /\ b # <<>> /\ b \in Seq({0, 1}) /\ loop' = loop
      /\ barrier' = [barrier EXCEPT ![p] = Tail(b)] /\ hand' = hand
  BY <1>0 DEF FiniWaitDistEnv, CountShape
<1>3. barrier'[p] = Tail(b) /\ \A c \in Clients \ {p} : barrier'[c] = barrier[c]
  BY <1>0, <1>2 DEF CountShape
<1>4. /\ Says1(b) <=> Says1(Tail(b)) \/ Head(b) = 1
      /\ OneSays1(b) => OneSays1(Tail(b)) /\ (Head(b) = 1 => ~Says1(Tail(b)))
  <2> HIDE DEF b
  <2> QED
    BY <1>2, OnesFacts
<1>5. \A c \in Clients : /\ Says1(barrier'[c]) => Says1(barrier[c])
                         /\ OneSays1(barrier[c]) => OneSays1(barrier'[c])
  BY <1>3, <1>4
<1>6. CASE Head(b) = 1
  <2>1. wpc' = [wpc EXCEPT ![p] = "leave"]
    BY <1>6 DEF FiniWaitDistEnv, SaysDone
  <2>2. wpc'[p] = "leave" /\ \A r \in Procs \ {p} : wpc'[r] = wpc[r]
    BY <1>0, <2>1 DEF AppShape
  <2>3. Loops(p)' = Loops(p) + 1 /\ (\A r \in Procs \ {p} : Loops(r)' = Loops(r))
    <3>1. loop[p] \in {1, 2} /\ wpc[p] \notin Left /\ wpc'[p] \in Left
      BY <1>0, <1>2, <2>2 DEF Left, AppShape
    <3>2. Loops(p) = loop[p] - 1 + 0 /\ Loops(p)' = loop[p] - 1 + 1
      BY <1>2, <3>1 DEF Loops, One
    <3>3. \A r \in Procs \ {p} : Loops(r)' = Loops(r)
      BY <1>2, <2>2 DEF Loops
    <3> QED
      BY <3>1, <3>2, <3>3
  <2>4. LeaveAt(p)'
    <3>1. Says1(b) /\ DoneOut(p) /\ LeaveAt(p)
      BY <1>2, <1>4, <1>6 DEF DoneOut, Leave
    <3>2. Loops(Host) # 0 /\ (Loops(Host) = 1 => Loops(p) = 0 /\ OneDone(p))
      BY <3>1 DEF LeaveAt
    <3>3. OneDone(p) => ~DoneOut(p)'
      <4>1. Has(chan'[Host][p], "DONE") => Has(chan[Host][p], "DONE")
        BY <1>0, <1>1 DEF NoneNew, NonePiped
      <4> QED
        BY <1>2, <1>3, <1>4, <1>6, <3>1, <4>1 DEF OneDone, DoneOut
    <3> QED
      BY <1>0, <1>2, <2>3, <3>2, <3>3 DEF LeaveAt
  <2>5. ASSUME NEW c \in Clients \ {p} PROVE LeaveAt(c)'
    <3>1. /\ Has(chan'[Host][c], "DONE") => Has(chan[Host][c], "DONE")
          /\ OnceOf(chan[Host][c], "DONE") => OnceOf(chan'[Host][c], "DONE")
      BY <1>0, <1>1 DEF NoneNew, NonePiped
    <3>2. (DoneOut(c)' => DoneOut(c)) /\ (OneDone(c) => OneDone(c)')
      BY <1>2, <1>3, <3>1 DEF DoneOut, OneDone
    <3>3. Loops(c)' = Loops(c) /\ Loops(Host)' = Loops(Host)
      BY <1>0, <1>2, <2>3
    <3> QED
      BY <3>2, <3>3 DEF Leave, LeaveAt
  <2>6. \A r \in Procs' : wpc'[r] = "cleanup" => loop'[r] = 1
    BY <1>2, <2>2, SameMode DEF Leave
  <2> QED
    BY <2>4, <2>5, <2>6, SameMode DEF Leave
<1>7. CASE Head(b) # 1
  <2>1. wpc' = [wpc EXCEPT ![p] = "init"]
    BY <1>7 DEF FiniWaitDistEnv, SaysDone
  <2>2. \A r \in Procs : /\ loop'[r] = loop[r] /\ (wpc'[r] \in Left <=> wpc[r] \in Left)
                         /\ wpc'[r] = "cleanup" => wpc[r] = "cleanup"
    BY <1>0, <1>2, <2>1 DEF AppShape, Left
  <2> QED
    BY <1>0, <1>1, <1>5, <2>2, LeaveFrame
<1> QED
  BY <1>6, <1>7

\* The DONE of the host reaches the barrier.
LEMMA LeaveHandleWaitPong ==
  ASSUME DWInv, mode' = mode, DistEnv, Leave, NEW p \in Procs, HandleWaitPong(p)
  PROVE  Leave'
<1>0. /\ Host \in Procs /\ Shape /\ Clients \subseteq Procs /\ AppShape /\ CountShape
      /\ Host \notin Clients /\ \A r \in Procs : r \in Clients <=> r # Host
  BY ProcsFacts DEF DWInv, Shape
<1>1. NoneNew("DONE")
  <2>1. RoundStepOf(p) /\ "DONE" \in Kinds \ SchedKinds
    BY DEF RoundStepOf, Kinds, SchedKinds
  <2> QED
    BY <2>1, RoundMessages
<1> DEFINE b == barrier[p]
<1>2. /\ b \in Seq({0, 1}) /\ loop' = loop /\ wpc' = wpc
      /\ barrier' = [barrier EXCEPT ![p] = Append(b, 1)] /\ UNCHANGED chan
  BY <1>0 DEF HandleWaitPong, CountShape
<1>3. barrier'[p] = Append(b, 1) /\ \A c \in Procs \ {p} : barrier'[c] = barrier[c]
  BY <1>0, <1>2 DEF CountShape
<1>4. CASE p = Host
  BY <1>0, <1>1, <1>2, <1>3, <1>4, LeaveFrame
<1>5. CASE p # Host
  <2>1. hand[p].k = "DONE"
    <3>1. hand[p] \in HandMsgs(p) /\ (hand[p].k = "wPONG" \/ hand[p].k = "DONE")
      BY <1>0 DEF HandleWaitPong, Handles, Shape, HandShape
    <3> QED
      BY <1>5, <3>1 DEF HandMsgs, Msgs, Handler, Kinds
  <2>2. hand'[p].k = "none" /\ \A r \in Procs \ {p} : hand'[r] = hand[r]
    BY <1>0, Returned DEF HandleWaitPong
  <2>3. \A r \in Procs : Loops(r)' = Loops(r)
    BY <1>2 DEF Loops
  <2>4. LeaveAt(p)'
    <3>1. DoneOut(p) /\ LeaveAt(p)
      BY <1>0, <1>5, <2>1 DEF DoneOut, Leave
    <3>2. OneDone(p) => OneDone(p)'
      <4>1. ~Says1(b) => OneSays1(Append(b, 1))
        <5> HIDE DEF b
        <5> QED
          BY <1>2, OnesFacts
      <4> QED
        BY <1>2, <1>3, <2>1, <2>2, <4>1 DEF OneDone
    <3> QED
      BY <1>0, <2>3, <3>1, <3>2 DEF LeaveAt
  <2>5. ASSUME NEW c \in Clients \ {p} PROVE LeaveAt(c)'
    <3>1. (DoneOut(c)' => DoneOut(c)) /\ (OneDone(c) => OneDone(c)')
      BY <1>0, <1>2, <1>3, <2>2 DEF DoneOut, OneDone
    <3>2. Loops(c)' = Loops(c) /\ Loops(Host)' = Loops(Host)
      BY <1>0, <2>3
    <3> QED
      BY <3>1, <3>2 DEF Leave, LeaveAt
  <2>6. \A r \in Procs' : wpc'[r] = "cleanup" => loop'[r] = 1
    BY <1>2, SameMode DEF Leave
  <2> QED
    BY <2>4, <2>5, <2>6, SameMode DEF Leave
<1> QED
  BY <1>4, <1>5

\* The way out of a loop and into the next one.
LEMMA LeaveLoop ==
  ASSUME DWInv, mode' = mode, DistEnv, Leave, NEW p \in Procs, LeaveWaitLoop(p) \/ Cleanup(p)
  PROVE  Leave'
<1>0. /\ Host \in Procs /\ Shape /\ Clients \subseteq Procs /\ AppShape /\ CountShape
      /\ Host \notin Clients /\ \A r \in Procs : r \in Clients <=> r # Host
  BY ProcsFacts DEF DWInv, Shape
<1>1. NoneNew("DONE")
  <2>1. RoundStepOf(p) /\ "DONE" \in Kinds \ SchedKinds
    BY DEF RoundStepOf, Kinds, SchedKinds
  <2> QED
    BY <2>1, RoundMessages
<1>2. hand' = hand /\ barrier' = barrier
  BY DEF LeaveWaitLoop, Cleanup
<1>3. \A r \in Procs : Loops(r)' = Loops(r)
  <2>1. CASE LeaveWaitLoop(p)
    BY <1>0, <2>1 DEF LeaveWaitLoop, Loops, One, Left, AppShape
  <2>2. CASE Cleanup(p)
    <3>1. loop[p] = 1 /\ wpc[p] = "cleanup"
      BY <2>2 DEF Leave, Cleanup
    <3>2. loop'[p] = 2 /\ wpc'[p] = "init"
          /\ \A r \in Procs \ {p} : loop'[r] = loop[r] /\ wpc'[r] = wpc[r]
      BY <1>0, <2>2 DEF Cleanup, AppShape
    <3> QED
      BY <3>1, <3>2 DEF Loops, One, Left
  <2> QED
    BY <2>1, <2>2
<1>4. \A r \in Procs' : wpc'[r] = "cleanup" => loop'[r] = 1
  <2>1. CASE LeaveWaitLoop(p)
    BY <1>0, <2>1, SameMode DEF LeaveWaitLoop, Leave, AppShape
  <2>2. CASE Cleanup(p)
    BY <1>0, <2>2, SameMode DEF Cleanup, Leave, AppShape
  <2> QED
    BY <2>1, <2>2
<1>5. ASSUME NEW c \in Clients PROVE LeaveAt(c)'
  <2>1. /\ Has(chan'[Host][c], "DONE") => Has(chan[Host][c], "DONE")
        /\ OnceOf(chan[Host][c], "DONE") => OnceOf(chan'[Host][c], "DONE")
    BY <1>0, <1>1 DEF NoneNew, NonePiped
  <2>2. (DoneOut(c)' => DoneOut(c)) /\ (OneDone(c) => OneDone(c)')
    BY <1>2, <2>1 DEF DoneOut, OneDone
  <2>3. Loops(c)' = Loops(c) /\ Loops(Host)' = Loops(Host)
    BY <1>0, <1>3
  <2> QED
    BY <2>2, <2>3 DEF Leave, LeaveAt
<1> QED
  BY <1>4, <1>5, SameMode DEF Leave

\* RecvThread::recv_msg
LEMMA LeaveRead ==
  ASSUME DWInv, mode' = mode, DistEnv, Leave, NEW p \in Procs, NEW q \in Procs \ {p},
         RecvThreadRead(p, q)
  PROVE  Leave'
<1> DEFINE m == Head(chan[q][p])
<1>0. /\ Host \in Procs /\ Shape /\ Clients \subseteq Procs /\ AppShape /\ CountShape
      /\ Host \notin Clients /\ \A r \in Procs : r \in Clients <=> r # Host
  BY ProcsFacts DEF DWInv, Shape
<1>1. p # q /\ q \in Procs /\ m = Head(chan[q][p])
  OBVIOUS
<1> HIDE DEF m
<1>2. /\ m \in PipeMsgs(q, p) /\ hand[p].k = "none" /\ hand'[p] = m
      /\ \A r \in Procs \ {p} : hand'[r] = hand[r]
      /\ \A r, t \in Procs : ~(r = q /\ t = p) => chan'[r][t] = chan[r][t]
      /\ UNCHANGED <<wpc, barrier, loop>>
  BY <1>1, ReadStep
<1>3. /\ \A k \in Kinds : k # m.k => NoneNew(k)
      /\ Has(chan[q][p], m.k)
      /\ OnceOf(chan[q][p], m.k) => OnceOf(chan'[q][p], m.k) /\ ~Has(chan'[q][p], m.k)
  BY <1>1, ReadOnce
<1>4. CASE m.k # "DONE"
  <2>1. NoneNew("DONE")
    BY <1>3, <1>4 DEF Kinds
  <2> QED
    BY <1>0, <1>2, <2>1, LeaveFrame
<1>5. CASE m.k = "DONE"
  <2>1. q = Host /\ p \in Clients
    BY <1>0, <1>1, <1>2, <1>5 DEF PipeMsgs, Reports, Msgs
  <2>2. \A r \in Procs : Loops(r)' = Loops(r)
    BY <1>2 DEF Loops
  <2>3. LeaveAt(p)'
    <3>1. DoneOut(p) /\ LeaveAt(p)
      BY <1>3, <1>5, <2>1 DEF DoneOut, Leave
    <3>2. OneDone(p) => OneDone(p)'
      BY <1>2, <1>3, <1>5, <2>1 DEF OneDone
    <3> QED
      BY <1>0, <2>1, <2>2, <3>1, <3>2 DEF LeaveAt
  <2>4. ASSUME NEW c \in Clients \ {p} PROVE LeaveAt(c)'
    <3>1. (DoneOut(c)' => DoneOut(c)) /\ (OneDone(c) => OneDone(c)')
      BY <1>0, <1>2, <2>1 DEF DoneOut, OneDone
    <3>2. Loops(c)' = Loops(c) /\ Loops(Host)' = Loops(Host)
      BY <1>0, <2>2
    <3> QED
      BY <3>1, <3>2 DEF Leave, LeaveAt
  <2>5. \A r \in Procs' : wpc'[r] = "cleanup" => loop'[r] = 1
    BY <1>2, SameMode DEF Leave
  <2> QED
    BY <2>3, <2>4, <2>5, SameMode DEF Leave
<1> QED
  BY <1>4, <1>5

\* The messages about the clones.
LEMMA CloneMessages ==
  ASSUME DWInv, mode' = mode, NEW p \in Procs
  PROVE  /\ Distribute =>
              /\ \A k \in Kinds \ {"DIS_CTXT"} : NoneNew(k)
              /\ \A c \in Clients :
                    OnceOf(chan[Host][c], "DIS_CTXT") /\ ~Has(chan[Host][c], "DIS_CTXT")
                        => OnceOf(chan'[Host][c], "DIS_CTXT")
         /\ Undistribute =>
              /\ \A k \in Kinds \ {"UN_CTXT"} : NoneNew(k)
              /\ \A c \in Clients :
                    OnceOf(chan[Host][c], "UN_CTXT") /\ ~Has(chan[Host][c], "UN_CTXT")
                        => OnceOf(chan'[Host][c], "UN_CTXT")
         /\ HandleDistribute(p) =>
              /\ p \in Clients
              /\ \A k \in Kinds \ {"READY"} : NoneNew(k)
              /\ \A c \in Clients : Has(chan'[c][Host], "READY") <=>
                                        Has(chan[c][Host], "READY") \/ c = p
              /\ \A c \in Clients : OnceOf(chan[c][Host], "READY") /\ ~Has(chan[c][Host], "READY")
                                       => OnceOf(chan'[c][Host], "READY")
              /\ \A c \in Clients \ {p} : chan'[c][Host] = chan[c][Host]
         /\ BcastDone => /\ \A k \in Kinds \ {"DONE"} : NoneNew(k)
                         /\ ~DistEnv => NoneNew("DONE")
<1>0. Shape /\ Host \in Procs /\ Clients \subseteq Procs /\ Host \notin Clients
      /\ \A r \in Procs : r \in Clients <=> r # Host
  BY ProcsFacts DEF DWInv, Shape
<1>1. ASSUME NEW q \in Procs, NEW m \in Msgs(Kinds), NEW S \in SUBSET Procs, Push(q, m, S),
             \A r \in S : m \in PipeMsgs(q, r), UNCHANGED hand \/ HandlerReturns(q)
      PROVE  /\ \A k \in Kinds \ {m.k} : NoneNew(k)
             /\ \A r, t \in Procs : Has(chan'[r][t], m.k) <=>
                    Has(chan[r][t], m.k) \/ (r = q /\ t \in S)
             /\ \A r, t \in Procs : OnceOf(chan[r][t], m.k) /\ ~Has(chan[r][t], m.k)
                                        => OnceOf(chan'[r][t], m.k)
             /\ \A r, t \in Procs : r # q => chan'[r][t] = chan[r][t]
  <2>1. ASSUME NEW k \in Kinds, k # m.k PROVE NonePiped(k)
    BY <1>0, <1>1, <2>1, PushOnce DEF NonePiped
  <2>2. \A k \in Kinds : NoneHeld(k)
    BY <1>0, <1>1, HandOnce
  <2>3. /\ \A r, t \in Procs : Has(chan'[r][t], m.k) <=>
               Has(chan[r][t], m.k) \/ (r = q /\ t \in S)
        /\ \A r, t \in Procs : OnceOf(chan[r][t], m.k) /\ ~Has(chan[r][t], m.k)
                                   => OnceOf(chan'[r][t], m.k)
    BY <1>0, <1>1, PushOnce
  <2>4. ASSUME NEW r \in Procs, NEW t \in Procs, r # q PROVE chan'[r][t] = chan[r][t]
    BY <1>0, <1>1, <2>4, PushMore
  <2> QED
    BY <2>1, <2>2, <2>3, <2>4 DEF NoneNew
<1>2. ASSUME NEW kind \in {"DIS_CTXT", "UN_CTXT", "DONE"},
             Bcast(Host, Message(kind, 0)), hand' = hand
      PROVE  /\ \A k \in Kinds \ {kind} : NoneNew(k)
             /\ \A c \in Clients : OnceOf(chan[Host][c], kind) /\ ~Has(chan[Host][c], kind)
                                       => OnceOf(chan'[Host][c], kind)
  <2> DEFINE m == Message(kind, 0)
             S == Procs \ {Host}
  <2>1. m \in Msgs(Kinds) /\ m.k = kind /\ \A r \in S : m \in PipeMsgs(Host, r)
    BY DEF Message, Msgs, Kinds, PipeMsgs
  <2>2. Push(Host, m, S) /\ S \in SUBSET Procs
    BY <1>2 DEF Bcast
  <2> HIDE DEF m, S
  <2>3. /\ \A k \in Kinds \ {m.k} : NoneNew(k)
        /\ \A r, t \in Procs : OnceOf(chan[r][t], m.k) /\ ~Has(chan[r][t], m.k)
                                   => OnceOf(chan'[r][t], m.k)
    BY <1>0, <1>1, <1>2, <2>1, <2>2
  <2> QED
    BY <1>0, <2>1, <2>3
<1>3. ASSUME HandleDistribute(p)
      PROVE  /\ p \in Clients
             /\ \A k \in Kinds \ {"READY"} : NoneNew(k)
             /\ \A c \in Clients : Has(chan'[c][Host], "READY") <=>
                                       Has(chan[c][Host], "READY") \/ c = p
             /\ \A c \in Clients : OnceOf(chan[c][Host], "READY") /\ ~Has(chan[c][Host], "READY")
                                      => OnceOf(chan'[c][Host], "READY")
             /\ \A c \in Clients \ {p} : chan'[c][Host] = chan[c][Host]
  <2> DEFINE m == Message("READY", 0)
             S == {Host}
  <2>1. p \in Clients
    <3>1. hand[p].k = "DIS_CTXT" /\ hand[p] \in HandMsgs(p)
      BY <1>0, <1>3 DEF HandleDistribute, Handles, Shape, HandShape
    <3> QED
      BY <1>0, <3>1 DEF HandMsgs, Reports, Msgs
  <2>2. m \in Msgs(Kinds) /\ m.k = "READY" /\ \A r \in S : m \in PipeMsgs(p, r)
    BY <1>0, <2>1 DEF Message, Msgs, Kinds, PipeMsgs, Reports
  <2>3. Push(p, m, S) /\ S \in SUBSET Procs /\ HandlerReturns(p) /\ Host \in S
    BY <1>0, <1>3 DEF HandleDistribute, Send
  <2> HIDE DEF m, S
  <2>4. /\ \A k \in Kinds \ {m.k} : NoneNew(k)
        /\ \A r, t \in Procs : Has(chan'[r][t], m.k) <=>
               Has(chan[r][t], m.k) \/ (r = p /\ t \in S)
        /\ \A r, t \in Procs : OnceOf(chan[r][t], m.k) /\ ~Has(chan[r][t], m.k)
                                   => OnceOf(chan'[r][t], m.k)
        /\ \A r, t \in Procs : r # p => chan'[r][t] = chan[r][t]
    BY <1>1, <2>2, <2>3
  <2> QED
    BY <1>0, <2>1, <2>2, <2>3, <2>4
<1>4. Distribute => Bcast(Host, Message("DIS_CTXT", 0)) /\ hand' = hand
  BY DEF Distribute
<1>5. Undistribute => Bcast(Host, Message("UN_CTXT", 0)) /\ hand' = hand
  BY DEF Undistribute
<1>6. BcastDone => /\ IF DistEnv THEN Bcast(Host, Message("DONE", 0)) ELSE chan' = chan
                   /\ hand' = hand
  BY DEF BcastDone
<1>7. chan' = chan /\ hand' = hand => \A k \in Kinds : NoneNew(k)
  BY DEF NoneNew, NonePiped, NoneHeld
<1>8. "DONE" \in Kinds
  BY DEF Kinds
<1> QED
  BY <1>2, <1>3, <1>4, <1>5, <1>6, <1>7, <1>8

\* A step of any process.
LEMMA KeepsLeave ==
  ASSUME DWInv, mode' = mode, DistEnv, Leave, NEW p \in Procs,
         SendThread(p) \/ RecvThread(p) \/ Waiter(p) \/ Worker(p) \/ EnvPutsTag(p)
  PROVE  Leave'
<1>0. /\ Host \in Procs /\ Shape /\ Clients \subseteq Procs /\ AppShape /\ CountShape
      /\ Host \notin Clients /\ \A r \in Procs : r \in Clients <=> r # Host
  BY ProcsFacts DEF DWInv, Shape
<1>1. ASSUME NEW q \in Procs \ {p}, RecvThreadRead(p, q) PROVE Leave'
  BY <1>1, LeaveRead
<1>2. CASE FiniWaitDistEnv(p) \/ HandleWaitPong(p) \/ LeaveWaitLoop(p) \/ Cleanup(p)
  BY <1>2, LeaveFiniWait, LeaveHandleWaitPong, LeaveLoop
<1>3. CASE p = Host /\ BcastDone
  BY <1>3, LeaveBcastDone
<1>4. CASE EnvPutsTag(p) \/ StepSends(p) \/ HandleApp(p)
  <2>1. NoneNew("DONE") /\ UNCHANGED <<wpc, barrier, loop>>
    BY <1>4, ProgramMessages DEF Kinds, EnvPutsTag, StepSends, HandleApp, waitVars
  <2>2. "none" \notin Left
    BY DEF Left
  <2> QED
    BY <2>1, <2>2, LeaveQuiet
<1>5. CASE HandleWaitPing(p)
  <2>1. NoneNew("DONE") /\ UNCHANGED <<wpc, loop>>
    <3>1. RoundStepOf(p) /\ "DONE" \in Kinds \ SchedKinds
      BY <1>5 DEF RoundStepOf, Kinds, SchedKinds
    <3> QED
      BY <1>5, <3>1, RoundMessages DEF HandleWaitPing
  <2>2. barrier' = [barrier EXCEPT ![p] = Append(barrier[p], 0)]
    BY <1>5 DEF HandleWaitPing
  <2>3. ASSUME NEW c \in Clients
        PROVE  /\ Says1(barrier'[c]) => Says1(barrier[c])
               /\ OneSays1(barrier[c]) => OneSays1(barrier'[c])
    <3> DEFINE b == barrier[c]
    <3>1. b \in Seq({0, 1}) /\ barrier'[c] = IF c = p THEN Append(b, 0) ELSE b
      BY <1>0, <2>2 DEF CountShape
    <3> HIDE DEF b
    <3>2. (Says1(Append(b, 0)) <=> Says1(b)) /\ (OneSays1(b) => OneSays1(Append(b, 0)))
      BY <3>1, OnesFacts
    <3> QED
      BY <3>1, <3>2 DEF b
  <2> QED
    BY <1>0, <2>1, <2>3, LeaveFrame
<1>6. ASSUME RoundStepOf(p),
             ~(FiniWaitDistEnv(p) \/ HandleWaitPong(p) \/ LeaveWaitLoop(p) \/ Cleanup(p)),
             ~HandleWaitPing(p)
      PROVE  Leave'
  <2>1. NoneNew("DONE")
    BY <1>6, RoundMessages DEF Kinds, SchedKinds
  <2>2. CASE (p = Host /\ FiniWaitHost)
    <3>1. wpc' = [wpc EXCEPT ![p] = "flush"] /\ wpc[p] \notin Left /\ loop' = loop
      BY <2>2 DEF FiniWaitHost, Left
    <3>2. \A r \in Procs : /\ loop'[r] = loop[r] /\ (wpc'[r] \in Left <=> wpc[r] \in Left)
                           /\ wpc'[r] = "cleanup" => wpc[r] = "cleanup"
      BY <1>0, <3>1 DEF AppShape, Left
    <3>3. \A c \in Clients : barrier'[c] = barrier[c]
      BY <1>0, <2>2 DEF FiniWaitHost, CountShape
    <3> QED
      BY <1>0, <2>1, <3>2, <3>3, LeaveFrame
  <2>3. CASE SendThread(p) \/ StepEnds(p) \/ HandleUndistribute(p) \/ HandleCleanup(p)
             \/ HandleFlushPing(p) \/ FlushPongOthers(p) \/ HandleFlushPongClient(p)
             \/ FlushPongHost(p) \/ (p = Host /\ (HandleReady \/ HandleFlushPongHost))
             \/ WaiterReturns(p)
    <3>1. UNCHANGED <<wpc, barrier, loop>>
      BY <2>3 DEF SendThread, SendThreadPop, SendThreadWrite, StepEnds, HandleUndistribute,
         HandleCleanup, HandleFlushPing, FlushPongOthers, HandleFlushPongClient, FlushPongHost,
         HandleReady, HandleFlushPongHost, WaiterReturns, waitVars
    <3>2. "none" \notin Left
      BY DEF Left
    <3> QED
      BY <2>1, <3>1, <3>2, LeaveQuiet
  <2>4. CASE EnvWaits(p) \/ WaiterStarts(p) \/ InitWait(p) \/ WaitAll(p) \/ CheckPending(p)
             \/ FiniWaitClient(p) \/ (p = Host /\ (FiniDistReady \/ FlushEnd))
    <3>1. UNCHANGED <<barrier, loop>> /\ wpc[p] \notin Left
      BY <2>4 DEF EnvWaits, WaiterStarts, InitWait, WaitAll, CheckPending, FiniWaitClient,
         FiniDistReady, FlushEnd, Left
    <3>2. \E x \in {"init", "waiting", "idle", "fini", "none", "main", "done"} :
             wpc' = [wpc EXCEPT ![p] = x]
      BY <2>4 DEF EnvWaits, WaiterStarts, InitWait, WaitAll, CheckPending, FiniWaitClient,
         FiniDistReady, FlushEnd
    <3>3. PICK x : x \notin Left /\ wpc' = [wpc EXCEPT ![p] = x]
      BY <3>2 DEF Left
    <3> QED
      BY <2>1, <3>1, <3>3, LeaveQuiet
  <2> QED
    BY <1>6, <2>2, <2>3, <2>4 DEF RoundStepOf
<1>7. CASE p = Host /\ FlushBegin
  <2>1. NoneNew("DONE")
    BY <1>7, FlushMessages DEF Kinds, SchedKinds
  <2>2. UNCHANGED <<barrier, loop>> /\ wpc[p] \notin Left /\ "sync" \notin Left
        /\ wpc' = [wpc EXCEPT ![p] = "sync"]
    BY <1>7 DEF FlushBegin, Left
  <2> QED
    BY <2>1, <2>2, LeaveQuiet
<1>8. CASE (p = Host /\ Distribute) \/ HandleDistribute(p)
  <2>1. NoneNew("DONE")
    BY <1>8, CloneMessages DEF Kinds
  <2>2. UNCHANGED <<barrier, loop>> /\ "awaitReady" \notin Left
        /\ (wpc' = wpc \/ (wpc' = [wpc EXCEPT ![p] = "awaitReady"] /\ wpc[p] \notin Left))
    BY <1>8 DEF Distribute, HandleDistribute, Left, waitVars
  <2> QED
    BY <2>1, <2>2, LeaveQuiet
<1>9. ~Undistribute
  BY DEF Undistribute
<1> QED
  BY <1>1, <1>2, <1>3, <1>4, <1>5, <1>6, <1>7, <1>8, <1>9
     DEF RecvThread, Waiter, Worker, RoundStepOf

\* In every behaviour a DONE ends the loop it was sent for.
THEOREM DoneEndsItsLoop == Spec => [](DWInv /\ LeaveInv)
<1>1. Init => DWInv /\ LeaveInv
  <2> SUFFICES ASSUME Init, DistEnv PROVE DWInv /\ Leave
    BY Starts DEF LeaveInv
  <2>1. DWInv
    BY Starts
  <2>2. Host \in Procs /\ Clients \subseteq Procs
    BY <2>1, ProcsFacts DEF DWInv, Shape
  <2>3. \A c \in Procs : /\ wpc[c] = "main" /\ loop[c] = 1 /\ barrier[c] = <<>>
                         /\ hand[c].k = "none" /\ \A q \in Procs : chan[c][q] = <<>>
    BY DEF Init, None, Message
  <2>4. \A c \in Procs : Loops(c) = 0
    BY <2>3 DEF Loops, One, Left
  <2>5. ~Has(<<>>, "DONE") /\ ~Says1(<<>>)
    BY DEF Has, Says1
  <2>6. \A c \in Clients : ~DoneOut(c)
    BY <2>2, <2>3, <2>5 DEF DoneOut
  <2> QED
    BY <2>1, <2>2, <2>3, <2>4, <2>6 DEF Leave, LeaveAt
<1>2. DWInv /\ LeaveInv /\ [Next]_vars => (DWInv /\ LeaveInv)'
  <2> SUFFICES ASSUME DWInv, LeaveInv, [Next]_vars PROVE LeaveInv'
    BY Keeps
  <2>1. ASSUME NEW p \in Procs, mode' = mode,
               SendThread(p) \/ RecvThread(p) \/ Waiter(p) \/ Worker(p) \/ EnvPutsTag(p)
        PROVE  LeaveInv'
    BY <2>1, KeepsLeave, SameMode DEF LeaveInv
  <2>2. CASE UNCHANGED vars
    <3>1. mode' = mode /\ UNCHANGED <<wpc, loop, barrier, chan, hand>>
      BY <2>2 DEF vars, waitVars
    <3>2. NoneNew("DONE") /\ "none" \notin Left
      BY <3>1 DEF NoneNew, NonePiped, NoneHeld, Left
    <3>3. Host \in Procs
      BY ProcsFacts DEF DWInv, Shape
    <3> QED
      BY <3>1, <3>2, <3>3, LeaveQuiet, SameMode DEF LeaveInv
  <2> QED
    BY <2>1, <2>2 DEF Next, Terminated
<1> QED
  BY <1>1, <1>2, PTL DEF Spec

\* In a distributed environment a client comes out of its wait only after the host has
\* come out of the same one, for any number of processes and in both builds: the DONE
\* of the first loop cannot end the second (scheduler_i.cpp, fini_wait and wait_loop).
THEOREM HostIsFirst == Spec => []HostLeavesFirst
<1>1. DWInv /\ LeaveInv => HostLeavesFirst
  <2> SUFFICES ASSUME DWInv, LeaveInv, NEW c \in Clients, wpc[c] \in Left
               PROVE  loop[Host] > loop[c] \/ (loop[Host] = loop[c] /\ wpc[Host] \in Left)
    BY DEF HostLeavesFirst, Left
  <2>0. Host \in Procs /\ c \in Procs /\ c # Host /\ loop[Host] \in {1, 2} /\ loop[c] \in {1, 2}
        /\ wpc[c] \in WaitPhases(c)
    BY ProcsFacts DEF DWInv, Shape, AppShape
  <2>1. DistEnv
    BY <2>0 DEF WaitPhases, Left
  <2>2. LeaveAt(c)
    BY <2>1 DEF LeaveInv, Leave
  <2>3. Loops(c) = loop[c]
    BY <2>0 DEF Loops, One
  <2>4. CASE wpc[Host] \in Left
    <3>1. Loops(Host) = loop[Host]
      BY <2>0, <2>4 DEF Loops, One
    <3> QED
      BY <2>0, <2>2, <2>3, <2>4, <3>1 DEF LeaveAt
  <2>5. CASE wpc[Host] \notin Left
    <3>1. Loops(Host) = loop[Host] - 1
      BY <2>0, <2>5 DEF Loops, One
    <3> QED
      BY <2>0, <2>2, <2>3, <3>1 DEF LeaveAt
  <2> QED
    BY <2>4, <2>5
<1> QED
  BY <1>1, DoneEndsItsLoop, PTL

-----------------------------------------------------------------------------
(* The clones of the context *)

CloneKinds == {"DIS_CTXT", "READY", "UN_CTXT", "DONE"}

\* The steps that leave the clones alone.
Elsewhere ==
    /\ UNCHANGED <<ctxt, readies>> /\ \A k \in CloneKinds : NoneNew(k)
    /\ wpc'[Host] = wpc[Host] \/ (wpc[Host] \notin Outside /\ wpc'[Host] \notin Outside)

\* Such a step preserves what is known of the clones.
LEMMA CloneFrame ==
  ASSUME DWInv, mode' = mode, Clones, Elsewhere
  PROVE  Clones'
<1>0. Host \in Procs /\ Clients \subseteq Procs /\ mode \in Modes
  BY ProcsFacts DEF DWInv, Shape
<1>1. \A c \in Clients :
        /\ Has(chan'[Host][c], "DIS_CTXT") => Has(chan[Host][c], "DIS_CTXT")
        /\ Has(chan'[Host][c], "UN_CTXT") => Has(chan[Host][c], "UN_CTXT")
        /\ Has(chan'[Host][c], "DONE") => Has(chan[Host][c], "DONE")
        /\ Has(chan'[c][Host], "READY") => Has(chan[c][Host], "READY")
        /\ OnceOf(chan[Host][c], "DIS_CTXT") => OnceOf(chan'[Host][c], "DIS_CTXT")
        /\ OnceOf(chan[Host][c], "UN_CTXT") => OnceOf(chan'[Host][c], "UN_CTXT")
        /\ OnceOf(chan[c][Host], "READY") => OnceOf(chan'[c][Host], "READY")
  BY <1>0 DEF Elsewhere, CloneKinds, NoneNew, NonePiped
<1>2. \A r \in Procs : \A k \in CloneKinds : hand'[r].k = k => hand[r].k = k
  BY DEF Elsewhere, NoneNew, NoneHeld
<1>3. ASSUME NEW c \in Clients PROVE CloneAt(c)'
  <2>1. CloneAt(c)
    BY DEF Clones
  <2>2. \A k \in CloneKinds : hand'[c].k = k => hand[c].k = k
    BY <1>0, <1>2
  <2>3. (DisOut(c)' => DisOut(c)) /\ (ReadyOut(c)' => ReadyOut(c)) /\ (UnOut(c)' => UnOut(c))
    BY <1>1, <2>2 DEF DisOut, ReadyOut, UnOut, CloneKinds
  <2>4. /\ wpc[Host] \in Outside => wpc'[Host] = wpc[Host]
        /\ wpc'[Host] \in Outside => wpc'[Host] = wpc[Host]
        /\ ctxt' = ctxt
    BY DEF Elsewhere
  <2> QED
    BY <1>1, <2>1, <2>2, <2>3, <2>4 DEF CloneAt, CloneKinds, Outside
<1>4. Cardinality(Readied) <= Cardinality(Readied') /\ Cardinality(Readied) \in Nat
      /\ Cardinality(Readied') \in Nat
  <2>1. Readied \subseteq Readied'
    BY <1>1, SameMode DEF Readied, ReadyOut, Elsewhere
  <2>2. Readied' \in SUBSET Clients /\ Readied \in SUBSET Clients
    BY SameMode DEF Readied
  <2>3. IsFiniteSet(Readied') /\ Cardinality(Readied') \in Nat
    BY <1>0, <2>2, SomeClients
  <2>4. Cardinality(Readied) \in Nat
    BY <1>0, <2>2, SomeClients
  <2> QED
    BY <2>1, <2>3, <2>4, FS_Subset
<1>5. hand'[Host].k = "READY" => hand[Host].k = "READY"
  BY <1>0, <1>2 DEF CloneKinds
<1>6. readies' = readies /\ readies \in Nat /\ ctxt' = ctxt
  BY DEF Elsewhere, DWInv, Shape, CountShape
<1>7. /\ wpc[Host] \in Outside => wpc'[Host] = wpc[Host]
      /\ wpc'[Host] \in Outside => wpc'[Host] = wpc[Host]
  BY DEF Elsewhere
<1>8. wpc'[Host] = "awaitReady" =>
        readies' + One(hand'[Host].k = "READY") <= Cardinality(Readied')
  <2>1. One(hand'[Host].k = "READY") <= One(hand[Host].k = "READY")
        /\ One(hand'[Host].k = "READY") \in {0, 1} /\ One(hand[Host].k = "READY") \in {0, 1}
    BY <1>5 DEF One
  <2> SUFFICES ASSUME wpc'[Host] = "awaitReady"
               PROVE  readies' + One(hand'[Host].k = "READY") <= Cardinality(Readied')
    OBVIOUS
  <2>2. readies + One(hand[Host].k = "READY") <= Cardinality(Readied)
    BY <1>7 DEF Clones, Outside
  <2> QED
    BY <1>4, <1>6, <2>1, <2>2
<1>9. wpc'[Host] = "distribute" => readies' = 0
  BY <1>6, <1>7 DEF Clones, Outside
<1>10. hand'[Host].k = "READY" => wpc'[Host] = "awaitReady"
  BY <1>5, <1>7 DEF Clones, Outside
<1>11. wpc'[Host] \notin Outside => \A p \in Procs' : ctxt'[p] = "ready"
  BY <1>6, <1>7, SameMode DEF Clones
<1> QED
  BY <1>3, <1>8, <1>9, <1>10, <1>11, SameMode DEF Clones

\* distributor::distribute
LEMMA CloneDistribute ==
  ASSUME DWInv, mode' = mode, Clones, Distribute
  PROVE  Clones'
<1>0. Host \in Procs /\ Clients \subseteq Procs /\ mode \in Modes /\ Host \notin Clients /\ AppShape
  BY ProcsFacts DEF DWInv, Shape
<1>1. /\ wpc[Host] = "distribute" /\ wpc'[Host] = "awaitReady"
      /\ UNCHANGED <<hand, ctxt, readies>>
  BY <1>0 DEF Distribute, ctxtVars, AppShape
<1>2. /\ \A k \in Kinds \ {"DIS_CTXT"} : NoneNew(k)
      /\ \A c \in Clients : OnceOf(chan[Host][c], "DIS_CTXT") /\ ~Has(chan[Host][c], "DIS_CTXT")
                               => OnceOf(chan'[Host][c], "DIS_CTXT")
  BY <1>0, CloneMessages
<1>3. ASSUME NEW c \in Clients PROVE CloneAt(c)'
  <2>1. /\ Has(chan'[Host][c], "UN_CTXT") => Has(chan[Host][c], "UN_CTXT")
        /\ Has(chan'[Host][c], "DONE") => Has(chan[Host][c], "DONE")
        /\ Has(chan'[c][Host], "READY") => Has(chan[c][Host], "READY")
        /\ OnceOf(chan[Host][c], "UN_CTXT") => OnceOf(chan'[Host][c], "UN_CTXT")
        /\ OnceOf(chan[c][Host], "READY") => OnceOf(chan'[c][Host], "READY")
    BY <1>0, <1>2 DEF Kinds, NoneNew, NonePiped
  <2>2. CloneAt(c) /\ ~DisOut(c) /\ ~ReadyOut(c) /\ ~UnOut(c) /\ ctxt[c] = "none"
    BY <1>1 DEF Clones, CloneAt
  <2>3. OnceOf(chan'[Host][c], "DIS_CTXT") /\ hand[c].k # "DIS_CTXT"
    BY <1>2, <2>2 DEF CloneAt, DisOut
  <2> QED
    BY <1>1, <2>1, <2>2, <2>3 DEF CloneAt, DisOut, ReadyOut, UnOut
<1>4. wpc'[Host] \in Outside /\ wpc'[Host] # "distribute"
  BY <1>1 DEF Outside
<1>5. readies' + One(hand'[Host].k = "READY") <= Cardinality(Readied')
  <2>1. readies' = 0 /\ One(hand'[Host].k = "READY") = 0
    BY <1>1 DEF Clones, One
  <2>2. Readied' \in SUBSET Clients
    BY SameMode DEF Readied
  <2>3. Cardinality(Readied') \in Nat
    BY <1>0, <2>2, SomeClients
  <2> QED
    BY <2>1, <2>3
<1> QED
  BY <1>1, <1>3, <1>4, <1>5, SameMode DEF Clones

\* A clone is made and says so.
LEMMA CloneHandleDistribute ==
  ASSUME DWInv, mode' = mode, Clones, NEW p \in Procs, HandleDistribute(p)
  PROVE  Clones'
<1>0. Host \in Procs /\ Clients \subseteq Procs /\ mode \in Modes /\ Host \notin Clients /\ AppShape
      /\ CountShape
  BY ProcsFacts DEF DWInv, Shape
<1>1. /\ p \in Clients
      /\ \A k \in Kinds \ {"READY"} : NoneNew(k)
      /\ \A c \in Clients : Has(chan'[c][Host], "READY") <=> Has(chan[c][Host], "READY") \/ c = p
      /\ \A c \in Clients : OnceOf(chan[c][Host], "READY") /\ ~Has(chan[c][Host], "READY")
                               => OnceOf(chan'[c][Host], "READY")
      /\ \A c \in Clients \ {p} : chan'[c][Host] = chan[c][Host]
  BY CloneMessages
<1>2. /\ hand[p].k = "DIS_CTXT" /\ hand'[p].k = "none" /\ \A r \in Procs \ {p} : hand'[r] = hand[r]
      /\ UNCHANGED <<wpc, readies>>
      /\ ctxt'[p] = "ready" /\ \A r \in Procs \ {p} : ctxt'[r] = ctxt[r]
  <2>1. HandlerReturns(p) /\ Shape
    BY DEF HandleDistribute, DWInv
  <2> QED
    BY <1>0, <2>1, Returned DEF HandleDistribute, Handles, waitVars, CountShape
<1>3. /\ CloneAt(p) /\ DisOut(p) /\ wpc[Host] = "awaitReady" /\ ctxt[p] = "none" /\ ~ReadyOut(p)
      /\ ~UnOut(p) /\ ~Has(chan[Host][p], "DIS_CTXT")
  BY <1>1, <1>2 DEF Clones, CloneAt, DisOut, ReadyOut, UnOut
<1>4. ASSUME NEW c \in Clients PROVE CloneAt(c)'
  <2>1. /\ Has(chan'[Host][c], "UN_CTXT") => Has(chan[Host][c], "UN_CTXT")
        /\ Has(chan'[Host][c], "DIS_CTXT") => Has(chan[Host][c], "DIS_CTXT")
        /\ Has(chan'[Host][c], "DONE") => Has(chan[Host][c], "DONE")
        /\ OnceOf(chan[Host][c], "UN_CTXT") => OnceOf(chan'[Host][c], "UN_CTXT")
        /\ OnceOf(chan[Host][c], "DIS_CTXT") => OnceOf(chan'[Host][c], "DIS_CTXT")
    BY <1>0, <1>1 DEF Kinds, NoneNew, NonePiped
  <2>2. CloneAt(c)
    BY DEF Clones
  <2>3. CASE c = p
    <3>1. OnceOf(chan'[c][Host], "READY") /\ ~DisOut(c)' /\ ~UnOut(c)'
      BY <1>1, <1>2, <1>3, <2>1, <2>2, <2>3 DEF CloneAt, DisOut, UnOut, ReadyOut
    <3> QED
      BY <1>2, <1>3, <2>1, <2>2, <2>3, <3>1 DEF CloneAt, DisOut, UnOut, ReadyOut
  <2>4. CASE c # p
    <3>1. hand'[c] = hand[c] /\ ctxt'[c] = ctxt[c] /\ chan'[c][Host] = chan[c][Host]
      BY <1>0, <1>1, <1>2, <2>4
    <3> QED
      BY <1>2, <2>1, <2>2, <3>1 DEF CloneAt, DisOut, UnOut, ReadyOut
  <2> QED
    BY <2>3, <2>4
<1>5. Readied' = Readied
  <2>1. ASSUME NEW c \in Clients
        PROVE  (ctxt'[c] = "ready" /\ ~ReadyOut(c)') <=> (ctxt[c] = "ready" /\ ~ReadyOut(c))
    <3>1. CASE c = p
      BY <1>1, <1>3, <3>1 DEF ReadyOut
    <3>2. CASE c # p
      BY <1>0, <1>1, <1>2, <3>2 DEF ReadyOut
    <3> QED
      BY <3>1, <3>2
  <2> QED
    BY <2>1, SameMode DEF Readied
<1>6. hand'[Host] = hand[Host]
  BY <1>0, <1>1, <1>2
<1>7. wpc'[Host] \in Outside
  BY <1>2, <1>3 DEF Outside
<1> QED
  BY <1>2, <1>3, <1>4, <1>5, <1>6, <1>7, SameMode DEF Clones

\* The host takes note of a clone.
LEMMA CloneHandleReady ==
  ASSUME DWInv, mode' = mode, Clones, HandleReady
  PROVE  Clones'
<1>0. Host \in Procs /\ Clients \subseteq Procs /\ Host \notin Clients /\ CountShape /\ Shape
  BY ProcsFacts DEF DWInv, Shape
<1>1. /\ hand[Host].k = "READY" /\ hand'[Host].k = "none" /\ \A c \in Clients : hand'[c] = hand[c]
      /\ UNCHANGED <<wpc, ctxt, chan>> /\ readies' = readies + 1 /\ readies \in Nat
  BY <1>0, Returned DEF HandleReady, Handles, waitVars, CountShape
<1>2. wpc[Host] = "awaitReady"
  BY <1>1 DEF Clones
<1>3. ASSUME NEW c \in Clients PROVE CloneAt(c)'
  BY <1>1 DEF Clones, CloneAt, DisOut, UnOut, ReadyOut
<1>4. Readied' = Readied
  BY <1>1, SameMode DEF Readied, ReadyOut
<1>5. readies' + One(hand'[Host].k = "READY") = readies + One(hand[Host].k = "READY")
  BY <1>1 DEF One
<1>6. wpc'[Host] \in Outside /\ wpc'[Host] # "distribute"
  BY <1>1, <1>2 DEF Outside
<1> QED
  BY <1>1, <1>2, <1>3, <1>4, <1>5, <1>6, SameMode DEF Clones

\* distributable_context::fini_dist_ready
LEMMA CloneFiniDistReady ==
  ASSUME DWInv, mode' = mode, Clones, FiniDistReady
  PROVE  Clones'
<1>0. /\ Host \in Procs /\ Clients \subseteq Procs /\ Host \notin Clients /\ CountShape /\ AppShape
      /\ mode \in Modes /\ NumProcs \in Nat /\ NumProcs >= 2
      /\ \A r \in Procs : r \in Clients <=> r # Host
  BY ProcsFacts DEF DWInv, Shape
<1>1. /\ wpc[Host] = "awaitReady" /\ wpc'[Host] = "main" /\ UNCHANGED <<chan, hand>>
      /\ ctxt'[Host] = "ready" /\ \A c \in Clients : ctxt'[c] = ctxt[c]
      /\ readies >= NumProcs - 1 /\ readies \in Nat
  BY <1>0 DEF FiniDistReady, AllReady, CountShape, AppShape
<1>2. Readied = Clients /\ hand[Host].k # "READY"
  <2>1. Readied \in SUBSET Clients
    BY DEF Readied
  <2>2. /\ Cardinality(Readied) \in Nat /\ Cardinality(Readied) <= NumProcs - 1
        /\ Cardinality(Readied) = NumProcs - 1 => Readied = Clients
    BY <1>0, <2>1, SomeClients
  <2>3. readies + One(hand[Host].k = "READY") <= Cardinality(Readied)
    BY <1>1 DEF Clones
  <2>4. One(hand[Host].k = "READY") \in {0, 1}
        /\ (hand[Host].k = "READY" => One(hand[Host].k = "READY") = 1)
    BY DEF One
  <2> QED
    BY <1>0, <1>1, <2>2, <2>3, <2>4
<1>3. ASSUME NEW c \in Clients PROVE CloneAt(c)'
  <2>1. ctxt[c] = "ready" /\ ~ReadyOut(c)
    BY <1>2 DEF Readied
  <2>2. CloneAt(c) /\ ~DisOut(c) /\ ~UnOut(c)
    BY <1>1, <2>1 DEF Clones, CloneAt
  <2> QED
    BY <1>1, <2>1, <2>2 DEF CloneAt, DisOut, UnOut, ReadyOut
<1>4. \A p \in Procs : ctxt'[p] = "ready"
  BY <1>0, <1>1, <1>2 DEF Readied
<1> QED
  BY <1>1, <1>2, <1>3, <1>4, SameMode DEF Clones

\* distributor::undistribute
LEMMA CloneUndistribute ==
  ASSUME DWInv, mode' = mode, Clones, Undistribute
  PROVE  Clones'
<1>0. Host \in Procs /\ Clients \subseteq Procs /\ Host \notin Clients /\ CountShape /\ AppShape
  BY ProcsFacts DEF DWInv, Shape
<1>1. /\ wpc[Host] = "end" /\ wpc'[Host] = "none" /\ UNCHANGED <<hand, readies>>
      /\ \A c \in Clients : ctxt'[c] = ctxt[c]
  BY <1>0 DEF Undistribute, CountShape, AppShape
<1>2. /\ \A k \in Kinds \ {"UN_CTXT"} : NoneNew(k)
      /\ \A c \in Clients : OnceOf(chan[Host][c], "UN_CTXT") /\ ~Has(chan[Host][c], "UN_CTXT")
                               => OnceOf(chan'[Host][c], "UN_CTXT")
  BY <1>0, CloneMessages
<1>3. ASSUME NEW c \in Clients PROVE CloneAt(c)'
  <2>1. /\ Has(chan'[Host][c], "DIS_CTXT") => Has(chan[Host][c], "DIS_CTXT")
        /\ Has(chan'[Host][c], "DONE") => Has(chan[Host][c], "DONE")
        /\ Has(chan'[c][Host], "READY") => Has(chan[c][Host], "READY")
        /\ OnceOf(chan[Host][c], "DIS_CTXT") => OnceOf(chan'[Host][c], "DIS_CTXT")
        /\ OnceOf(chan[c][Host], "READY") => OnceOf(chan'[c][Host], "READY")
    BY <1>0, <1>2 DEF Kinds, NoneNew, NonePiped
  <2>2. CloneAt(c) /\ ~DisOut(c) /\ ~ReadyOut(c) /\ ~UnOut(c) /\ ctxt[c] = "ready"
    BY <1>0, <1>1 DEF Clones, CloneAt, Outside
  <2>3. OnceOf(chan'[Host][c], "UN_CTXT") /\ hand[c].k # "UN_CTXT"
    BY <1>2, <2>2 DEF CloneAt, UnOut
  <2> QED
    BY <1>1, <2>1, <2>2, <2>3 DEF CloneAt, DisOut, ReadyOut, UnOut
<1>4. wpc'[Host] \in Outside /\ wpc'[Host] \notin {"distribute", "awaitReady"}
  BY <1>1 DEF Outside
<1>5. hand'[Host].k # "READY"
  BY <1>1 DEF Clones
<1> QED
  BY <1>3, <1>4, <1>5, SameMode DEF Clones

\* A clone is deleted.
LEMMA CloneHandleUndistribute ==
  ASSUME DWInv, mode' = mode, Clones, NEW p \in Procs, HandleUndistribute(p)
  PROVE  Clones'
<1>0. /\ Host \in Procs /\ Clients \subseteq Procs /\ Host \notin Clients /\ CountShape /\ Shape
      /\ \A r \in Procs : r \in Clients <=> r # Host
  BY ProcsFacts DEF DWInv, Shape
<1>1. p \in Clients
  <2>1. hand[p].k = "UN_CTXT" /\ hand[p] \in HandMsgs(p)
    BY <1>0 DEF HandleUndistribute, Handles, Shape, HandShape
  <2> QED
    BY <1>0, <2>1 DEF HandMsgs, Reports, Msgs
<1>2. /\ hand[p].k = "UN_CTXT" /\ hand'[p].k = "none" /\ \A r \in Procs \ {p} : hand'[r] = hand[r]
      /\ UNCHANGED <<wpc, readies, chan>>
      /\ ctxt'[p] = "gone" /\ \A r \in Procs \ {p} : ctxt'[r] = ctxt[r]
  BY <1>0, Returned DEF HandleUndistribute, Handles, waitVars, CountShape
<1>3. CloneAt(p) /\ wpc[Host] = "none" /\ ~Has(chan[Host][p], "UN_CTXT")
  BY <1>1, <1>2 DEF Clones, CloneAt, UnOut
<1>4. ASSUME NEW c \in Clients PROVE CloneAt(c)'
  <2>1. CASE c = p
    <3>1. ~UnOut(c)' /\ ~DisOut(c)' /\ ~ReadyOut(c)'
      BY <1>2, <1>3, <2>1 DEF CloneAt, UnOut, DisOut, ReadyOut
    <3> QED
      BY <1>2, <1>3, <2>1, <3>1 DEF CloneAt, UnOut, DisOut, ReadyOut
  <2>2. CASE c # p
    <3>1. CloneAt(c) /\ hand'[c] = hand[c] /\ ctxt'[c] = ctxt[c]
      BY <1>0, <1>2, <2>2 DEF Clones
    <3> QED
      BY <1>2, <3>1 DEF CloneAt, UnOut, DisOut, ReadyOut
  <2> QED
    BY <2>1, <2>2
<1>5. wpc'[Host] \in Outside /\ wpc'[Host] \notin {"distribute", "awaitReady"}
  BY <1>2, <1>3 DEF Outside
<1>6. hand'[Host].k # "READY"
  BY <1>0, <1>1, <1>2, <1>3 DEF Clones
<1> QED
  BY <1>4, <1>5, <1>6, SameMode DEF Clones

\* RecvThread::recv_msg takes a message about a clone.
LEMMA CloneRead ==
  ASSUME DWInv, mode' = mode, Clones, NEW p \in Procs, NEW q \in Procs \ {p}, RecvThreadRead(p, q)
  PROVE  Clones'
<1> DEFINE m == Head(chan[q][p])
<1>0. /\ Host \in Procs /\ Clients \subseteq Procs /\ Host \notin Clients /\ CountShape
      /\ mode \in Modes /\ \A r \in Procs : r \in Clients <=> r # Host
  BY ProcsFacts DEF DWInv, Shape
<1>1. p # q /\ q \in Procs /\ m = Head(chan[q][p])
  OBVIOUS
<1> HIDE DEF m
<1>2. /\ m \in PipeMsgs(q, p) /\ hand[p].k = "none" /\ hand'[p] = m
      /\ \A r \in Procs \ {p} : hand'[r] = hand[r]
      /\ \A r, t \in Procs : ~(r = q /\ t = p) => chan'[r][t] = chan[r][t]
      /\ wpc' = wpc
  BY <1>1, ReadStep
<1>3. /\ \A k \in Kinds : k # m.k => NoneNew(k)
      /\ Has(chan[q][p], m.k)
      /\ OnceOf(chan[q][p], m.k) => OnceOf(chan'[q][p], m.k) /\ ~Has(chan'[q][p], m.k)
  BY <1>1, ReadOnce
<1>4. UNCHANGED <<ctxt, readies>>
  BY DEF RecvThreadRead, ctxtVars
<1>5. CASE m.k \notin CloneKinds
  <2>1. \A k \in CloneKinds : NoneNew(k)
    BY <1>3, <1>5 DEF CloneKinds, Kinds
  <2> QED
    BY <1>2, <1>4, <2>1, CloneFrame DEF Elsewhere
<1>6. CASE m.k \in {"DIS_CTXT", "UN_CTXT"}
  <2>1. q = Host /\ p \in Clients
    BY <1>0, <1>1, <1>2, <1>6 DEF PipeMsgs, Reports, Msgs
  <2>2. ASSUME NEW c \in Clients PROVE CloneAt(c)'
    <3>1. CloneAt(c)
      BY DEF Clones
    <3>2. chan'[c][Host] = chan[c][Host]
      BY <1>0, <1>2, <2>1
    <3>3. CASE c = p
      <4>1. /\ m.k # "DIS_CTXT" =>
                 /\ Has(chan'[Host][c], "DIS_CTXT") => Has(chan[Host][c], "DIS_CTXT")
                 /\ OnceOf(chan[Host][c], "DIS_CTXT") => OnceOf(chan'[Host][c], "DIS_CTXT")
            /\ m.k # "UN_CTXT" =>
                 /\ Has(chan'[Host][c], "UN_CTXT") => Has(chan[Host][c], "UN_CTXT")
                 /\ OnceOf(chan[Host][c], "UN_CTXT") => OnceOf(chan'[Host][c], "UN_CTXT")
            /\ Has(chan'[Host][c], "DONE") => Has(chan[Host][c], "DONE")
        BY <1>0, <1>3, <1>6 DEF Kinds, NoneNew, NonePiped
      <4>2. /\ Has(chan[Host][c], m.k) /\ hand'[c] = m
            /\ OnceOf(chan[Host][c], m.k) =>
                 OnceOf(chan'[Host][c], m.k) /\ ~Has(chan'[Host][c], m.k)
        BY <1>2, <1>3, <2>1, <3>3
      <4>3. CASE m.k = "DIS_CTXT"
        BY <1>2, <1>4, <3>1, <3>2, <4>1, <4>2, <4>3 DEF CloneAt, DisOut, UnOut, ReadyOut
      <4>4. CASE m.k = "UN_CTXT"
        BY <1>2, <1>4, <3>1, <3>2, <4>1, <4>2, <4>4 DEF CloneAt, DisOut, UnOut, ReadyOut
      <4> QED
        BY <1>6, <4>3, <4>4
    <3>4. CASE c # p
      <4>1. hand'[c] = hand[c] /\ chan'[Host][c] = chan[Host][c]
        BY <1>0, <1>2, <2>1, <3>4
      <4> QED
        BY <1>2, <1>4, <3>1, <3>2, <4>1 DEF CloneAt, DisOut, UnOut, ReadyOut
    <3> QED
      BY <3>3, <3>4
  <2>3. Readied' = Readied
    <3>1. \A c \in Clients : chan'[c][Host] = chan[c][Host]
      BY <1>0, <1>2, <2>1
    <3> QED
      BY <1>4, <3>1, SameMode DEF Readied, ReadyOut
  <2>4. hand'[Host] = hand[Host]
    BY <1>0, <1>2, <2>1
  <2> QED
    BY <1>2, <1>4, <2>2, <2>3, <2>4, SameMode DEF Clones
<1>7. CASE m.k = "READY"
  <2>1. p = Host /\ q \in Clients
    BY <1>0, <1>1, <1>2, <1>7 DEF PipeMsgs, Reports, Msgs
  <2>2. /\ Has(chan[q][Host], "READY")
        /\ OnceOf(chan[q][Host], "READY")
             => OnceOf(chan'[q][Host], "READY") /\ ~Has(chan'[q][Host], "READY")
    BY <1>3, <1>7, <2>1
  <2>3. CloneAt(q) /\ wpc[Host] = "awaitReady" /\ ctxt[q] = "ready" /\ ~Has(chan'[q][Host], "READY")
    BY <2>1, <2>2 DEF Clones, CloneAt, ReadyOut
  <2>4. ASSUME NEW c \in Clients PROVE CloneAt(c)'
    <3>1. CloneAt(c) /\ hand'[c] = hand[c] /\ chan'[Host][c] = chan[Host][c]
      BY <1>0, <1>2, <2>1 DEF Clones
    <3>2. CASE c = q
      BY <1>2, <1>4, <2>2, <2>3, <3>1, <3>2 DEF CloneAt, DisOut, UnOut, ReadyOut
    <3>3. CASE c # q
      <4>1. chan'[c][Host] = chan[c][Host]
        BY <1>0, <1>2, <3>3
      <4> QED
        BY <1>2, <1>4, <3>1, <4>1 DEF CloneAt, DisOut, UnOut, ReadyOut
    <3> QED
      BY <3>2, <3>3
  <2>5. Cardinality(Readied') = Cardinality(Readied) + 1 /\ Cardinality(Readied) \in Nat
    <3>1. \A c \in Clients : /\ c # q => (ReadyOut(c)' <=> ReadyOut(c))
                             /\ c = q => ~ReadyOut(c)' /\ ReadyOut(c)
      BY <1>0, <1>2, <2>1, <2>2, <2>3 DEF ReadyOut
    <3>2. Readied' = Readied \cup {q} /\ Readied \in SUBSET Clients /\ q \in Clients \ Readied
      BY <1>4, <2>1, <2>3, <3>1, SameMode DEF Readied
    <3> QED
      BY <1>0, <3>2, OneClientMore, SomeClients
  <2>6. readies' + One(hand'[Host].k = "READY") <= Cardinality(Readied')
    <3>1. readies + One(hand[Host].k = "READY") <= Cardinality(Readied)
      BY <2>3 DEF Clones
    <3>2. One(hand[Host].k = "READY") = 0 /\ One(hand'[Host].k = "READY") = 1
      BY <1>2, <1>7, <2>1 DEF One
    <3>3. readies' = readies /\ readies \in Nat
      BY <1>0, <1>4 DEF CountShape
    <3> QED
      BY <2>5, <3>1, <3>2, <3>3
  <2>7. wpc'[Host] = "awaitReady" /\ wpc'[Host] \in Outside
    BY <1>2, <2>3 DEF Outside
  <2> QED
    BY <2>4, <2>6, <2>7, SameMode DEF Clones
<1>8. m.k # "DONE"
  <2> SUFFICES ASSUME m.k = "DONE" PROVE FALSE
    OBVIOUS
  <2>1. q = Host /\ p \in Clients
    BY <1>0, <1>1, <1>2 DEF PipeMsgs, Reports, Msgs
  <2> QED
    BY <1>3, <2>1 DEF Clones, CloneAt
<1> QED
  BY <1>5, <1>6, <1>7, <1>8 DEF CloneKinds

\* All other steps.
LEMMA OthersElsewhere ==
  ASSUME DWInv, mode' = mode, NEW p \in Procs,
         \/ EnvPutsTag(p) \/ StepSends(p) \/ HandleApp(p)
         \/ p = Host /\ (FlushBegin \/ (BcastDone /\ ~DistEnv))
         \/ /\ RoundStepOf(p) /\ ~HandleUndistribute(p)
            /\ ~(p = Host /\ (HandleReady \/ FiniDistReady))
  PROVE  Elsewhere
<1>0. Host \in Procs /\ Clients \subseteq Procs /\ wpc \in [Procs -> Phases] /\ HandShape
  BY ProcsFacts DEF DWInv, Shape, AppShape
<1>1. \A k \in CloneKinds : NoneNew(k)
  <2>1. CloneKinds \subseteq Kinds \ SchedKinds /\ "app" \notin CloneKinds
    BY DEF CloneKinds, Kinds, SchedKinds
  <2>2. CASE EnvPutsTag(p) \/ StepSends(p) \/ HandleApp(p)
    BY <2>1, <2>2, ProgramMessages
  <2>3. CASE FlushBegin
    BY <2>1, <2>3, FlushMessages
  <2>4. CASE BcastDone /\ ~DistEnv
    BY <2>1, <2>4, CloneMessages
  <2>5. CASE RoundStepOf(p)
    BY <2>1, <2>5, RoundMessages
  <2> QED
    BY <2>2, <2>3, <2>4, <2>5
<1>2. CASE EnvPutsTag(p) \/ StepSends(p) \/ HandleApp(p) \/ SendThread(p) \/ StepEnds(p)
           \/ HandleCleanup(p) \/ HandleWaitPong(p) \/ HandleFlushPing(p) \/ FlushPongOthers(p)
           \/ HandleFlushPongClient(p) \/ FlushPongHost(p) \/ (p = Host /\ HandleFlushPongHost)
           \/ WaiterReturns(p)
  <2>1. UNCHANGED <<ctxt, readies, wpc>>
    BY <1>2 DEF EnvPutsTag, StepSends, HandleApp, SendThread, SendThreadPop, SendThreadWrite,
       StepEnds, HandleCleanup, HandleWaitPong, HandleFlushPing, FlushPongOthers,
       HandleFlushPongClient, FlushPongHost, HandleFlushPongHost, WaiterReturns, waitVars, ctxtVars
  <2> QED
    BY <1>1, <2>1 DEF Elsewhere
<1>3. CASE HandleWaitPing(p) \/ FiniWaitClient(p) \/ FiniWaitDistEnv(p)
  <2>1. p # Host
    <3>1. HandleWaitPing(p) => hand[p].k = "wPING" /\ hand[p] \in HandMsgs(p)
      BY <1>0 DEF HandleWaitPing, Handles, HandShape
    <3>2. ~HandleWaitPing(Host)
      BY <1>0, <3>1 DEF HandMsgs, Reports, Msgs, HandleWaitPing, Handles, HandShape
    <3> QED
      BY <1>3, <3>2 DEF FiniWaitClient, FiniWaitDistEnv
  <2>2. UNCHANGED <<ctxt, readies>> /\ wpc'[Host] = wpc[Host]
    BY <1>0, <1>3, <2>1 DEF HandleWaitPing, FiniWaitClient, FiniWaitDistEnv, ctxtVars
  <2> QED
    BY <1>1, <2>2 DEF Elsewhere
<1>4. CASE EnvWaits(p) \/ WaiterStarts(p) \/ InitWait(p) \/ WaitAll(p) \/ CheckPending(p)
           \/ LeaveWaitLoop(p) \/ Cleanup(p)
           \/ (p = Host /\ (FiniWaitHost \/ FlushEnd \/ FlushBegin \/ BcastDone))
  <2>1. UNCHANGED <<ctxt, readies>> /\ wpc[p] \notin Outside
    BY <1>4 DEF EnvWaits, WaiterStarts, InitWait, WaitAll, CheckPending, LeaveWaitLoop, Cleanup,
       FiniWaitHost, FlushEnd, FlushBegin, BcastDone, Outside, ctxtVars
  <2>2. \E x \in {"init", "waiting", "idle", "fini", "cleanup", "end", "flush", "sync", "done",
                  "leave"} : wpc' = [wpc EXCEPT ![p] = x]
    BY <1>4 DEF EnvWaits, WaiterStarts, InitWait, WaitAll, CheckPending, LeaveWaitLoop, Cleanup,
       FiniWaitHost, FlushEnd, FlushBegin, BcastDone
  <2>3. PICK x : x \notin Outside /\ wpc' = [wpc EXCEPT ![p] = x]
    BY <2>2 DEF Outside
  <2>4. wpc'[Host] = wpc[Host] \/ (wpc[Host] \notin Outside /\ wpc'[Host] \notin Outside)
    <3>1. CASE p = Host
      BY <1>0, <2>1, <2>3, <3>1
    <3>2. CASE p # Host
      BY <1>0, <2>3, <3>2
    <3> QED
      BY <3>1, <3>2
  <2> QED
    BY <1>1, <2>1, <2>4 DEF Elsewhere
<1> QED
  BY <1>2, <1>3, <1>4 DEF RoundStepOf

\* The steps that are not of these.
CloneStepOf(p) ==
    \/ \E q \in Procs \ {p} : RecvThreadRead(p, q)
    \/ HandleDistribute(p) \/ HandleUndistribute(p)
    \/ p = Host /\ (HandleReady \/ Distribute \/ FiniDistReady \/ Undistribute)

LEMMA EveryStep ==
  ASSUME NEW p \in Procs,
         SendThread(p) \/ RecvThread(p) \/ Waiter(p) \/ Worker(p) \/ EnvPutsTag(p)
  PROVE  \/ CloneStepOf(p)
         \/ EnvPutsTag(p) \/ StepSends(p) \/ HandleApp(p)
         \/ p = Host /\ (FlushBegin \/ BcastDone)
         \/ /\ RoundStepOf(p) /\ ~HandleUndistribute(p)
            /\ ~(p = Host /\ (HandleReady \/ FiniDistReady))
BY DEF RecvThread, Waiter, Worker, RoundStepOf, CloneStepOf

\* A step of any process, when main runs on the host only.
LEMMA KeepsClones ==
  ASSUME DWInv, mode' = mode, ~DistEnv, Clones, NEW p \in Procs,
         SendThread(p) \/ RecvThread(p) \/ Waiter(p) \/ Worker(p) \/ EnvPutsTag(p)
  PROVE  Clones'
<1>1. CASE CloneStepOf(p)
  BY <1>1, CloneRead, CloneHandleDistribute, CloneHandleUndistribute, CloneHandleReady,
     CloneDistribute, CloneFiniDistReady, CloneUndistribute DEF CloneStepOf
<1>2. CASE ~CloneStepOf(p)
  <2>1. Elsewhere
    BY <1>2, EveryStep, OthersElsewhere
  <2> QED
    BY <2>1, CloneFrame
<1> QED
  BY <1>1, <1>2

\* A step of any process, when main runs on every process.
LEMMA KeepsThere ==
  ASSUME DWInv, mode' = mode, DistEnv, AlwaysThere, NEW p \in Procs,
         SendThread(p) \/ RecvThread(p) \/ Waiter(p) \/ Worker(p) \/ EnvPutsTag(p)
  PROVE  AlwaysThere'
<1>0. /\ Host \in Procs /\ Clients \subseteq Procs /\ Host \notin Clients /\ CountShape /\ AppShape
      /\ \A r \in Procs : r \in Clients <=> r # Host
  BY ProcsFacts DEF DWInv, Shape
<1>1. ASSUME NoneNew("UN_CTXT"), \A r \in Procs : ctxt'[r] = "ready", wpc'[Host] \notin Outside
      PROVE  AlwaysThere'
  <2>1. \A r \in Procs : ctxt'[r] = "ready" /\ hand'[r].k # "UN_CTXT"
    BY <1>1 DEF NoneNew, NoneHeld, AlwaysThere
  <2>2. \A c \in Clients : ~Has(chan'[Host][c], "UN_CTXT")
    BY <1>0, <1>1 DEF NoneNew, NonePiped, AlwaysThere
  <2> QED
    BY <1>1, <2>1, <2>2, SameMode DEF AlwaysThere
<1>2. ASSUME NEW q \in Procs \ {p}, RecvThreadRead(p, q) PROVE AlwaysThere'
  <2> DEFINE m == Head(chan[q][p])
  <2>1. p # q /\ q \in Procs /\ m = Head(chan[q][p])
    OBVIOUS
  <2> HIDE DEF m
  <2>2. m \in PipeMsgs(q, p) /\ wpc' = wpc
    BY <1>2, <2>1, ReadStep
  <2>3. (\A k \in Kinds : k # m.k => NoneNew(k)) /\ Has(chan[q][p], m.k)
    BY <1>2, <2>1, ReadOnce
  <2>4. ctxt' = ctxt
    BY <1>2 DEF RecvThreadRead, ctxtVars
  <2>5. m.k # "UN_CTXT"
    <3> SUFFICES ASSUME m.k = "UN_CTXT" PROVE FALSE
      OBVIOUS
    <3>1. q = Host /\ p \in Clients
      BY <1>0, <2>1, <2>2 DEF PipeMsgs, Reports, Msgs
    <3> QED
      BY <2>3, <3>1 DEF AlwaysThere
  <2>6. NoneNew("UN_CTXT")
    BY <2>3, <2>5 DEF Kinds
  <2> QED
    BY <1>1, <2>2, <2>4, <2>6 DEF AlwaysThere
<1>3. CASE HandleDistribute(p)
  <2>1. NoneNew("UN_CTXT")
    BY <1>3, CloneMessages DEF Kinds
  <2>2. wpc' = wpc /\ \A r \in Procs : ctxt'[r] = "ready"
    BY <1>0, <1>3 DEF HandleDistribute, waitVars, AlwaysThere, CountShape
  <2> QED
    BY <1>1, <2>1, <2>2 DEF AlwaysThere
<1>4. ~HandleUndistribute(p) /\ ~Distribute /\ ~FiniDistReady /\ ~Undistribute
  BY DEF HandleUndistribute, Handles, Distribute, FiniDistReady, Undistribute, AlwaysThere, Outside
<1>5. CASE p = Host /\ HandleReady
  <2>1. NoneNew("UN_CTXT")
    <3>1. RoundStepOf(p)
      BY <1>5 DEF RoundStepOf
    <3> QED
      BY <3>1, RoundMessages DEF Kinds, SchedKinds
  <2>2. UNCHANGED <<wpc, ctxt>>
    BY <1>5 DEF HandleReady, waitVars
  <2> QED
    BY <1>1, <2>1, <2>2 DEF AlwaysThere
<1>6. CASE p = Host /\ BcastDone
  <2>1. NoneNew("UN_CTXT")
    BY <1>6, CloneMessages DEF Kinds
  <2>2. wpc'[Host] = "leave" /\ ctxt' = ctxt
    BY <1>0, <1>6 DEF BcastDone, ctxtVars, AppShape
  <2> QED
    BY <1>1, <2>1, <2>2 DEF AlwaysThere, Outside
<1>7. CASE ~CloneStepOf(p) /\ ~(p = Host /\ BcastDone)
  <2>1. Elsewhere
    BY <1>7, EveryStep, OthersElsewhere
  <2>2. NoneNew("UN_CTXT") /\ ctxt' = ctxt /\ wpc'[Host] \notin Outside
    BY <2>1 DEF Elsewhere, CloneKinds, AlwaysThere
  <2> QED
    BY <1>1, <2>2 DEF AlwaysThere
<1> QED
  BY <1>2, <1>3, <1>4, <1>5, <1>6, <1>7 DEF CloneStepOf

-----------------------------------------------------------------------------
(* Nothing of the program is on its way outside the wait loops *)

\* Only the end of a flush leads to where a wait ends.
LEMMA EntersSettled ==
  ASSUME DWInv, mode' = mode, ~DistEnv, NEW p \in Procs,
         SendThread(p) \/ RecvThread(p) \/ Waiter(p) \/ Worker(p) \/ EnvPutsTag(p)
  PROVE  wpc'[Host] \in Settled => wpc[Host] \in Settled \/ wpc'[Host] = "done"
<1>0. Host \in Procs /\ wpc \in [Procs -> Phases] /\ HandShape
  BY ProcsFacts DEF DWInv, Shape, AppShape
<1>1. ASSUME Elsewhere PROVE wpc'[Host] \in Outside => wpc[Host] \in Settled
  BY <1>1 DEF Elsewhere, Settled, Outside
<1>2. CASE CloneStepOf(p)
  <2>1. ASSUME NEW q \in Procs \ {p}, RecvThreadRead(p, q) PROVE wpc' = wpc
    BY <2>1 DEF RecvThreadRead, waitVars
  <2>2. CASE HandleDistribute(p) \/ HandleUndistribute(p) \/ (p = Host /\ HandleReady)
    BY <2>2 DEF HandleDistribute, HandleUndistribute, HandleReady, waitVars
  <2>3. CASE Distribute \/ FiniDistReady \/ Undistribute
    BY <1>0, <2>3 DEF Distribute, FiniDistReady, Undistribute, Settled, Outside
  <2> QED
    BY <1>2, <2>1, <2>2, <2>3 DEF CloneStepOf
<1>3. CASE ~CloneStepOf(p)
  <2>1. Elsewhere
    BY <1>3, EveryStep, OthersElsewhere
  <2>2. wpc'[Host] \in {"leave", "cleanup", "end"} => wpc[Host] \in Settled
    <3>1. p # Host => wpc'[Host] = wpc[Host]
      BY <1>0, <1>3, EveryStep
         DEF RoundStepOf, EnvPutsTag, StepSends, HandleApp, SendThread, SendThreadPop,
             SendThreadWrite, StepEnds, HandleCleanup, HandleWaitPing, HandleWaitPong,
             HandleFlushPing, FlushPongOthers, HandleFlushPongClient, FlushPongHost,
             EnvWaits, WaiterStarts, InitWait, WaitAll, CheckPending,
             FiniWaitClient, WaiterReturns, FiniWaitDistEnv, LeaveWaitLoop, Cleanup, waitVars
    <3>2. CASE p = Host
      <4>1. CASE LeaveWaitLoop(p) \/ (p = Host /\ BcastDone)
        BY <3>2, <4>1 DEF LeaveWaitLoop, BcastDone, Settled
      <4>2. CASE EnvPutsTag(p) \/ StepSends(p) \/ HandleApp(p) \/ SendThread(p) \/ StepEnds(p)
                 \/ HandleCleanup(p) \/ HandleWaitPong(p) \/ HandleFlushPing(p)
                 \/ FlushPongOthers(p) \/ HandleFlushPongClient(p) \/ FlushPongHost(p)
                 \/ HandleFlushPongHost \/ WaiterReturns(p)
        <5>1. wpc' = wpc
          BY <4>2 DEF EnvPutsTag, StepSends, HandleApp, SendThread, SendThreadPop, SendThreadWrite,
             StepEnds, HandleCleanup, HandleWaitPong, HandleFlushPing, FlushPongOthers,
             HandleFlushPongClient, FlushPongHost, HandleFlushPongHost, WaiterReturns, waitVars
        <5> QED
          BY <5>1 DEF Settled
      <4>3. CASE EnvWaits(p) \/ WaiterStarts(p) \/ InitWait(p) \/ WaitAll(p) \/ CheckPending(p)
                 \/ FiniWaitClient(p) \/ Cleanup(p) \/ HandleWaitPing(p)
                 \/ FiniWaitHost \/ FlushEnd \/ FlushBegin
        BY <1>0, <3>2, <4>3
           DEF EnvWaits, WaiterStarts, InitWait, WaitAll, CheckPending, FiniWaitClient, Cleanup,
               HandleWaitPing, FiniWaitHost, FlushEnd, FlushBegin
      <4>4. ~FiniWaitDistEnv(p)
        BY DEF FiniWaitDistEnv
      <4> QED
        BY <1>3, <3>2, <4>1, <4>2, <4>3, <4>4, EveryStep DEF RoundStepOf
    <3> QED
      BY <3>1, <3>2 DEF Settled
  <2> QED
    BY <1>1, <2>1, <2>2 DEF Settled
<1> QED
  BY <1>2, <1>3

\* Where a wait has ended nothing starts.
LEMMA StaysQuiescent ==
  ASSUME DWInv, mode' = mode, HostOnly, Global, NEW p \in Procs, wpc[Host] \in Settled, Quiescent,
         SendThread(p) \/ RecvThread(p) \/ Waiter(p) \/ Worker(p) \/ EnvPutsTag(p)
  PROVE  Quiescent'
<1>0. /\ Host \in Procs /\ Clients \subseteq Procs /\ Host \notin Clients /\ AppShape /\ HandShape
      /\ \A r \in Procs : r \in Clients <=> r # Host
      /\ ~DistEnv
  BY ProcsFacts DEF DWInv, Shape, HostOnly
<1>1. /\ \A r \in Procs : steps[r] = 0 /\ hand[r].k # "app"
      /\ \A r, t \in Procs : ~Has(chan[r][t], "app")
  BY QuiescentIs
<1>2. ASSUME steps' = steps, NoneNew("app") PROVE Quiescent'
  <2>1. \A r \in Procs : steps'[r] = 0 /\ hand'[r].k # "app"
    BY <1>1, <1>2 DEF NoneNew, NoneHeld
  <2>2. \A r, t \in Procs : ~Has(chan'[r][t], "app")
    BY <1>1, <1>2 DEF NoneNew, NonePiped
  <2> QED
    BY <2>1, <2>2, SameMode DEF Quiescent, AppOnItsWay, Any, Has
<1>3. ~EnvPutsTag(p) /\ ~StepSends(p) /\ ~HandleApp(p) /\ ~StepEnds(p) /\ ~HandleCleanup(p)
  <2>1. ~EnvPutsTag(p)
    <3>1. wpc[p] \in WaitPhases(p)
      BY <1>0 DEF AppShape
    <3> QED
      BY <1>0, <3>1 DEF EnvPutsTag, WaitPhases, Settled, Outside
  <2>2. ~StepSends(p) /\ ~StepEnds(p) /\ ~HandleApp(p)
    BY <1>1 DEF StepSends, StepEnds, HandleApp, Handles
  <2>3. ~HandleCleanup(p)
    <3>1. ~InRound /\ wpc[Host] # "init"
      BY DEF InRound, Settled, Outside
    <3>2. hand[Host].k # "CLEANUP"
      <4>1. hand[Host] \in HandMsgs(Host)
        BY <1>0 DEF HandShape
      <4> QED
        BY <4>1 DEF HandMsgs, Reports, Msgs
    <3> QED
      BY <1>0, <3>1, <3>2, NoCleanup DEF HandleCleanup, Handles
  <2> QED
    BY <2>1, <2>2, <2>3
<1>4. ASSUME NEW q \in Procs \ {p}, RecvThreadRead(p, q) PROVE Quiescent'
  <2> DEFINE m == Head(chan[q][p])
  <2>1. p # q /\ q \in Procs /\ m = Head(chan[q][p])
    OBVIOUS
  <2> HIDE DEF m
  <2>2. (\A k \in Kinds : k # m.k => NoneNew(k)) /\ Has(chan[q][p], m.k)
    BY <1>4, <2>1, ReadOnce
  <2>3. NoneNew("app")
    <3>1. m.k # "app"
      BY <1>1, <2>1, <2>2
    <3> QED
      BY <2>2, <3>1 DEF Kinds
  <2>4. steps' = steps
    BY <1>4 DEF RecvThreadRead, appVars
  <2> QED
    BY <1>2, <2>3, <2>4
<1>5. CASE HandleDistribute(p) \/ (p = Host /\ (Distribute \/ Undistribute))
  <2>1. NoneNew("app")
    BY <1>5, CloneMessages DEF Kinds
  <2>2. steps' = steps
    BY <1>5 DEF HandleDistribute, Distribute, Undistribute, appVars
  <2> QED
    BY <1>2, <2>1, <2>2
<1>6. CASE p = Host /\ (FlushBegin \/ BcastDone)
  <2>1. NoneNew("app")
    BY <1>6, CloneMessages, FlushMessages DEF Kinds, SchedKinds
  <2>2. steps' = steps
    BY <1>6 DEF FlushBegin, BcastDone, appVars
  <2> QED
    BY <1>2, <2>1, <2>2
<1>7. CASE RoundStepOf(p)
  <2>1. NoneNew("app")
    BY <1>7, RoundMessages DEF Kinds, SchedKinds
  <2>2. steps' = steps
    BY <1>3, <1>7
       DEF RoundStepOf, SendThread, SendThreadPop, SendThreadWrite, HandleUndistribute,
           HandleWaitPing, HandleWaitPong, HandleFlushPing, FlushPongOthers, HandleFlushPongClient,
           FlushPongHost, HandleReady, HandleFlushPongHost, EnvWaits, WaiterStarts, InitWait,
           WaitAll, CheckPending, FiniWaitClient, WaiterReturns, FiniWaitDistEnv, LeaveWaitLoop,
           Cleanup, FiniDistReady, FiniWaitHost, FlushEnd, appVars
  <2> QED
    BY <1>2, <2>1, <2>2
<1> QED
  BY <1>3, <1>4, <1>5, <1>6, <1>7, EveryStep DEF CloneStepOf, RoundStepOf

\* A step of any process, or none, preserves the invariant.
LEMMA KeepsContext ==
  DWInv /\ GlobalInv /\ ContextInv /\ [Next]_vars => ContextInv'
<1> SUFFICES ASSUME DWInv, GlobalInv, ContextInv, [Next]_vars PROVE ContextInv'
  OBVIOUS
<1>1. ASSUME NEW p \in Procs, mode' = mode,
             SendThread(p) \/ RecvThread(p) \/ Waiter(p) \/ Worker(p) \/ EnvPutsTag(p)
      PROVE  ContextInv'
  <2>1. CASE DistEnv
    BY <1>1, <2>1, KeepsThere, SameMode DEF ContextInv
  <2>2. CASE ~DistEnv
    <3>1. Clones'
      BY <1>1, <2>2, KeepsClones DEF ContextInv
    <3>2. ASSUME mode.prompt PROVE Still'
      <4>1. HostOnly /\ Global
        BY <2>2, <3>2 DEF HostOnly, GlobalInv
      <4>2. Global'
        BY <1>1, <4>1, GlobalThreads, GlobalWaiter
      <4>3. wpc'[Host] \in Settled => wpc[Host] \in Settled \/ wpc'[Host] = "done"
        BY <1>1, <2>2, EntersSettled
      <4>4. wpc[Host] \in Settled => Quiescent'
        BY <1>1, <2>2, <3>2, <4>1, StaysQuiescent DEF ContextInv, Still
      <4> QED
        BY <4>2, <4>3, <4>4 DEF Still, Global, Ended
    <3> QED
      BY <1>1, <2>2, <3>1, <3>2, SameMode DEF ContextInv
  <2> QED
    BY <2>1, <2>2
<1>2. CASE UNCHANGED vars
  <2>1. mode' = mode /\ UNCHANGED <<steps, wpc, readies, ctxt, chan, hand>>
    BY <1>2 DEF vars, appVars, waitVars, ctxtVars
  <2>2. Elsewhere
    BY <2>1 DEF Elsewhere, NoneNew, NonePiped, NoneHeld
  <2>3. CASE DistEnv
    <3>1. AlwaysThere'
      BY <2>1, <2>3, SameMode DEF ContextInv, AlwaysThere
    <3> QED
      BY <2>1, <2>3, <3>1, SameMode DEF ContextInv
  <2>4. CASE ~DistEnv
    <3>1. Clones'
      BY <2>1, <2>2, <2>4, CloneFrame DEF ContextInv
    <3>2. Still => Still'
      BY <2>1, SameMode DEF Still, Quiescent, AppOnItsWay
    <3> QED
      BY <2>1, <2>4, <3>1, <3>2, SameMode DEF ContextInv
  <2> QED
    BY <2>3, <2>4
<1> QED
  BY <1>1, <1>2 DEF Next, Terminated

\* The invariant holds at the start.
LEMMA ContextStarts == Init => ContextInv
<1> SUFFICES ASSUME Init PROVE ContextInv
  OBVIOUS
<1>0. DWInv
  BY Starts
<1>1. /\ Host \in Procs /\ Clients \subseteq Procs /\ mode \in Modes
      /\ \A r \in Procs : r \in Clients <=> r # Host
  BY <1>0, ProcsFacts DEF DWInv, Shape
<1>2. /\ \A p, q \in Procs : chan[p][q] = <<>>
      /\ \A p \in Procs : hand[p].k = "none" /\ steps[p] = 0
      /\ readies = 0
  BY DEF Init, None, Message
<1>3. \A k : ~Has(<<>>, k) /\ OnceOf(<<>>, k)
  BY DEF Has, OnceOf
<1>4. CASE DistEnv
  <2>1. wpc[Host] = "main" /\ \A p \in Procs : ctxt[p] = "ready"
    BY <1>1, <1>4 DEF Init
  <2> QED
    BY <1>1, <1>2, <1>3, <1>4, <2>1 DEF ContextInv, AlwaysThere, Outside
<1>5. CASE ~DistEnv
  <2>1. wpc[Host] = "distribute" /\ \A p \in Procs : ctxt[p] = "none"
    BY <1>1, <1>5 DEF Init
  <2>2. \A c \in Clients : CloneAt(c)
    BY <1>1, <1>2, <1>3, <2>1 DEF CloneAt, DisOut, ReadyOut, UnOut
  <2>3. Clones
    BY <1>1, <1>2, <2>1, <2>2 DEF Clones, Outside
  <2>4. Quiescent
    BY <1>2, <1>3, QuiescentIs
  <2> QED
    BY <1>5, <2>3, <2>4 DEF ContextInv, Still
<1> QED
  BY <1>4, <1>5

\* In every behaviour the contexts exist while something of the program is on its way.
THEOREM ClonesOutliveMessages == Spec => [](DWInv /\ GlobalInv /\ ContextInv)
<1>1. Init => ContextInv
  BY ContextStarts
<1>2. DWInv /\ GlobalInv /\ ContextInv /\ [Next]_vars => ContextInv'
  BY KeepsContext
<1> QED
  BY <1>1, <1>2, SurplusReachesHost, PTL DEF Spec

\* distributor.cpp:297 asserts that a message finds the context it is for: none comes
\* before the clone is made or after it is deleted, for any number of processes, in
\* both builds and both environments. The hypothesis is that of WaitEndsEverywhere: a
\* wait that ends too early lets the host delete the clones too early.
THEOREM NoMessageIsOrphaned ==
  ASSUME \A m \in Modes : m.distEnv \/ m.prompt
  PROVE  Spec => []NoOrphanMessage
<1>1. DWInv /\ GlobalInv /\ ContextInv => NoOrphanMessage
  <2> SUFFICES ASSUME DWInv, GlobalInv, ContextInv, NEW p \in Procs,
                      hand[p].k \in {"app", "wPING", "wPONG", "DONE", "CLEANUP", "UN_CTXT"}
               PROVE  ctxt[p] = "ready"
    BY DEF NoOrphanMessage
  <2>0. /\ Host \in Procs /\ Clients \subseteq Procs /\ mode \in Modes /\ hand[p] \in HandMsgs(p)
        /\ \A r \in Procs : r \in Clients <=> r # Host
    BY ProcsFacts DEF DWInv, Shape, HandShape
  <2>1. CASE DistEnv
    BY <2>1 DEF ContextInv, AlwaysThere
  <2>2. CASE ~DistEnv
    <3>1. HostOnly /\ Global /\ Clones /\ Still
      BY <2>0, <2>2 DEF DistEnv, HostOnly, GlobalInv, ContextInv
    <3>2. wpc[Host] \notin Outside => ctxt[p] = "ready"
      BY <3>1 DEF Clones
    <3>3. InRound => wpc[Host] \notin Outside
      BY DEF InRound, Outside
    <3>4. CASE hand[p].k = "app"
      BY <3>1, <3>2, <3>4, QuiescentIs DEF Still, Settled
    <3>5. CASE p = Host /\ hand[p].k # "app"
      <4>1. hand[Host].k = "wPONG"
        BY <2>0, <3>5 DEF HandMsgs, Reports, Msgs
      <4>2. InRound
        BY <4>1 DEF DWInv, Round
      <4> QED
        BY <3>2, <3>3, <4>2
    <3>6. CASE p # Host /\ hand[p].k # "app"
      <4>1. p \in Clients /\ hand[p].k # "wPONG"
        BY <2>0, <3>6 DEF HandMsgs, Msgs, Handler, Kinds
      <4>2. CASE hand[p].k = "wPING"
        <5>1. InRound
          BY <4>1, <4>2, OutsideRound DEF DWInv, PingOut
        <5> QED
          BY <3>2, <3>3, <5>1
      <4>3. hand[p].k # "DONE" /\ (hand[p].k = "UN_CTXT" => ctxt[p] = "ready")
        BY <3>1, <4>1 DEF Clones, CloneAt, UnOut
      <4>4. CASE hand[p].k = "CLEANUP"
        <5>1. InRound \/ wpc[Host] = "init"
          BY <3>1, <4>1, <4>4, NoCleanup
        <5> QED
          BY <3>2, <3>3, <5>1 DEF Outside
      <4> QED
        BY <3>6, <4>1, <4>2, <4>3, <4>4
    <3> QED
      BY <3>4, <3>5, <3>6
  <2> QED
    BY <2>1, <2>2
<1> QED
  BY <1>1, ClonesOutliveMessages, PTL
=============================================================================
