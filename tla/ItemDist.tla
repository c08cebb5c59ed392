------------------------------ MODULE ItemDist ------------------------------
(***************************************************************************)
(* The distributed item protocol of item_collection_base.h: where a put    *)
(* sends the item (consumed_on), who asks for a missing item (produced_on, *)
(* REQUEST, PROBE), who owns it, how the get counts of alien copies are    *)
(* collected and sent to the owner, and the ERASE that follows.            *)
(*                                                                         *)
(* Each item is put by one step; each getter is one step that gets one     *)
(* item. The tables of all processes, the messages between them (one FIFO  *)
(* per ordered pair, as GenericCommunicator guarantees) and the environment *)
(* on process 0 are modelled; item values are not: an entry has one or not. *)
(***************************************************************************)
EXTENDS Integers, Sequences, FiniteSets, FiniteSetsExt, SequencesExt

CONSTANTS
    NumProcs,       \* distributor::numProcs()
    Tags,
    Getters,        \* the getting steps
    Scenarios,      \* what the program and its tuners may be, see ScenarioSet
    CNC_ENABLE_GC

Procs == 0 .. NumProcs - 1
Host == 0
Env == "env"
NoPid == -1

NO_GET_COUNT == -2147483647 - 1
UNSET_GET_COUNT == -2147483647
PRODUCER_UNKNOWN == -6
PRODUCER_LOCAL == -7
CONSUMER_UNKNOWN == -8
CONSUMER_LOCAL == -9
CONSUMER_ALL == -10
CONSUMER_ALL_OTHERS == -11

EnvOps == ({"get"} \X Tags) \cup {<<"wait">>, <<"gather">>, <<"reset">>}

ScenarioSet ==
    [putOn : [Tags -> Procs],             \* where the step runs that puts the item
     consumedOn : [Tags -> Seq(Int)],     \* tuner.consumed_on
     producedOn : [Tags -> Int],          \* tuner.produced_on
     getCount : [Tags -> Int],            \* tuner.get_count
     getter : [Getters -> Procs \X Tags], \* where a getter runs and what it gets
     main : Seq(EnvOps)]

ASSUME ItemDistOK ==
    /\ NumProcs \in Nat \ {0, 1}
    /\ CNC_ENABLE_GC \in Nat \ {0}
    /\ \A s \in Scenarios :
        /\ DOMAIN s = {"putOn", "consumedOn", "producedOn", "getCount", "getter", "main"}
        /\ s.putOn \in [Tags -> Procs] /\ s.getter \in [Getters -> Procs \X Tags]
        \* default_tuner.h: as many gets by steps as get_count says.
        /\ \A t \in Tags : s.getCount[t] \in
              {NO_GET_COUNT, Cardinality({g \in Getters : s.getter[g][2] = t})}

VARIABLES
    sc,         \* the scenario
    table,      \* tagItemTable of each process
    putDone,    \* the items whose put step has run
    onPuts,     \* how often the on_put callbacks of an item were called
    getter,     \* a getter: "ready", "susp", "got", "done"
    coll,       \* m_gcColl: the get counts collected for each owner
    numgc,      \* m_numgc
    erased,     \* m_erasedSer: the tags to be named by the next ERASE
    chan,       \* chan[p][q]: the messages from p to q
    req,        \* the request whose handler has looked the item up
    cleaning,   \* the cleaner service task has been spawned
    gcTask,     \* wait_for_gc_to_complete: "none", "counting", "erasing"
    gCounting,  \* the size of m_gCounting
    gathering,  \* m_gathering
    gatherTask, \* the gatherer service task has been spawned
    env         \* the environment: [ip, st, left, probed, waiting]

gcVars == <<coll, numgc, erased>>
taskVars == <<cleaning, gcTask, gCounting, gathering, gatherTask>>
vars == <<sc, table, putDone, onPuts, getter, gcVars, chan, req, taskVars, env>>

NoEntry == [there |-> FALSE, item |-> FALSE, gc |-> UNSET_GET_COUNT,
            owner |-> NoPid, susp |-> {}, subs |-> <<>>]
NoReq == [tag |-> "none", to |-> NoPid, probe |-> FALSE, found |-> FALSE]

ConsumedOn(t) == sc.consumedOn[t]
At(g) == sc.getter[g][1]
Of(g) == sc.getter[g][2]

Init ==
    /\ sc \in Scenarios
    /\ table = [p \in Procs |-> [t \in Tags |-> NoEntry]]
    /\ putDone = {}
    /\ onPuts = [t \in Tags |-> 0]
    /\ getter = [g \in Getters |-> "ready"]
    /\ coll = [p \in Procs |-> [q \in Procs |-> <<>>]]
    /\ numgc = [p \in Procs |-> 0]
    /\ erased = [p \in Procs |-> <<>>]
    /\ chan = [p \in Procs |-> [q \in Procs |-> <<>>]]
    /\ req = [p \in Procs |-> NoReq]
    /\ cleaning = [p \in Procs |-> FALSE]
    /\ gcTask = [p \in Procs |-> "none"]
    /\ gCounting = [p \in Procs |-> 0]
    /\ gathering = [p \in Procs |-> <<>>]
    /\ gatherTask = [p \in Procs |-> NoPid]
    /\ env = [ip |-> 1, st |-> "run", left |-> 0, probed |-> FALSE, waiting |-> 0]

-----------------------------------------------------------------------------
(***************************************************************************)
(* Messages. A function of receivers to messages is what one operation     *)
(* sends; the sender is never a receiver.                                  *)
(***************************************************************************)

\* p sends to[q] (a sequence of messages) to every q.
Sends(c, p, to) ==
    [c EXCEPT ![p] = [q \in Procs |-> IF q = p THEN @[q] ELSE @[q] \o to[q]]]

Nothing == [q \in Procs |-> <<>>]
ToOne(q, m) == [Nothing EXCEPT ![q] = <<m>>]
ToAll(m) == [q \in Procs |-> <<m>>]
ToThese(qs, m) == [q \in Procs |-> IF q \in qs THEN <<m>> ELSE <<>>]

DELIVER(t, o) == [type |-> "DELIVER", tag |-> t, owner |-> o]
DELIVER_TO_OWN(t) == [type |-> "DELIVER_TO_OWN", tag |-> t]
REQUEST(t, p, probe) == [type |-> IF probe THEN "PROBE" ELSE "REQUEST", tag |-> t, recpnt |-> p]

-----------------------------------------------------------------------------
(***************************************************************************)
(* hash_item_table and item_properties                                     *)
(***************************************************************************)

SetOrIncrement(old, cnt) == IF old = UNSET_GET_COUNT THEN cnt ELSE old + cnt

\* put_item: the entry after an item was inserted into one that had none.
PutItem(e, gc, o) ==
    [e EXCEPT !.there = TRUE, !.item = TRUE, !.owner = o,
              !.gc = IF gc = NO_GET_COUNT THEN NO_GET_COUNT ELSE SetOrIncrement(@, gc)]

\* get_item_or_accessor when there is no item: an entry is made.
Entry(e) == [e EXCEPT !.there = TRUE]

-----------------------------------------------------------------------------
(***************************************************************************)
(* put                                                                     *)
(***************************************************************************)

\* A plausible slip: only the first of several consumers gets the item.
DeliverToConsumers_FirstOnly(p, t) ==
    LET c == IF ConsumedOn(t) = <<>> \/ ConsumedOn(t)[1] \notin Procs THEN p ELSE ConsumedOn(t)[1]
    IN  [to |-> ToOne(c, DELIVER(t, c)), owner |-> c, store |-> c = p]

\* deliver_to_consumers: what the put of t on p sends, who owns the item
\* and whether p stores it.
DeliverToConsumers(p, t) ==
    LET cs == ConsumedOn(t)
        c == IF cs = <<>> THEN CONSUMER_UNKNOWN ELSE cs[1]
        next == (p + 1) % NumProcs
    IN  CASE Len(cs) > 1 ->
              [to |-> ToThese(ToSet(cs), DELIVER(t, c)), owner |-> c, store |-> p \in ToSet(cs)]
          [] Len(cs) <= 1 /\ c \in {CONSUMER_UNKNOWN, CONSUMER_LOCAL, p} ->
              [to |-> Nothing, owner |-> p, store |-> TRUE]
          [] Len(cs) <= 1 /\ c \in Procs \ {p} ->
              [to |-> ToOne(c, DELIVER_TO_OWN(t)), owner |-> c, store |-> FALSE]
          [] c = CONSUMER_ALL /\ Len(cs) <= 1 ->
              [to |-> ToAll(DELIVER(t, p)), owner |-> p, store |-> TRUE]
          [] c = CONSUMER_ALL_OTHERS /\ Len(cs) <= 1 ->
              [to |-> ToAll(DELIVER(t, next)), owner |-> next, store |-> FALSE]

\* The get count an item is stored with: only its owner counts down.
InitialCount(p, t, o) ==
    IF sc.getCount[t] # NO_GET_COUNT /\ o # p THEN 0 ELSE sc.getCount[t]

\* Only the owner answers those who asked before the item came.
Subscribers(p, e, o) == IF o = p THEN ToSet(e.subs) ELSE {}

\* A plausible slip: every process that stores a copy calls them.
CallsBack_Always(p, o) == TRUE

\* The on_put callbacks are the owner's.
CallsBack(p, o) == o = p

\* put_or_delete on p once the item needs to be stored there. A counted item
\* that nobody gets is not stored; a second item for the tag is dropped.
Store(p, t, o, sent) ==
    LET e == table[p][t]
        unused == sc.getCount[t] = 0 /\ o = p
        called == [onPuts EXCEPT ![t] = IF CallsBack(p, o) THEN @ + 1 ELSE @]
    IN  \/ /\ unused
           /\ onPuts' = called
           /\ chan' = sent
           /\ UNCHANGED <<table, getter, env>>
        \/ /\ ~unused /\ ~e.item
           /\ table' = [table EXCEPT ![p][t] =
                 [PutItem(e, InitialCount(p, t, o), o) EXCEPT !.susp = {}, !.subs = <<>>]]
           /\ getter' = [g \in Getters |-> IF g \in e.susp THEN "ready" ELSE getter[g]]
           /\ env' = [env EXCEPT !.waiting = IF Env \in e.susp THEN @ + 1 ELSE @]
           /\ chan' = Sends(sent, p, ToThese(Subscribers(p, e, o), DELIVER(t, p)))
           /\ onPuts' = called
        \/ /\ ~unused /\ e.item
           /\ chan' = sent
           /\ UNCHANGED <<table, getter, env, onPuts>>

\* item_collection::put, called by the step that produces t.
Put(t) ==
    LET p == sc.putOn[t]
        d == DeliverToConsumers(p, t)
        sent == Sends(chan, p, d.to)
    IN  /\ t \notin putDone
        /\ putDone' = putDone \cup {t}
        /\ \/ d.store /\ Store(p, t, d.owner, sent)
           \/ ~d.store /\ chan' = sent /\ UNCHANGED <<table, getter, env, onPuts>>
        /\ UNCHANGED <<sc, gcVars, req, taskVars>>

-----------------------------------------------------------------------------
(***************************************************************************)
(* get                                                                     *)
(***************************************************************************)

\* put_request: who is asked, none if the item is to be produced here.
PutRequest(p, t, probe, rcpnt) ==
    IF rcpnt = p THEN Nothing
    ELSE IF rcpnt \in Procs THEN ToOne(rcpnt, REQUEST(t, p, probe))
    ELSE ToAll(REQUEST(t, p, probe))

ConsumersUnspecified(t) == ConsumedOn(t) = <<>> \/ ConsumedOn(t)[1] = CONSUMER_UNKNOWN

\* wait_for_put: the first that waits asks, unless the put will deliver unasked.
WaitForPut(p, t, who) ==
    LET first == table[p][t].susp = {}
        owner == IF sc.producedOn[t] = PRODUCER_LOCAL THEN p ELSE sc.producedOn[t]
    IN  /\ table' = [table EXCEPT ![p][t] = [Entry(@) EXCEPT !.susp = @ \cup {who}]]
        /\ chan' = IF first /\ ConsumersUnspecified(t)
                   THEN Sends(chan, p, PutRequest(p, t, FALSE, owner)) ELSE chan

\* A step executes up to its get, which finds the item or suspends the step.
Get(g) ==
    /\ getter[g] = "ready"
    /\ \/ /\ table[At(g)][Of(g)].item
          /\ getter' = [getter EXCEPT ![g] = "got"]
          /\ UNCHANGED <<table, chan>>
       \/ /\ ~table[At(g)][Of(g)].item
          /\ WaitForPut(At(g), Of(g), g)
          /\ getter' = [getter EXCEPT ![g] = "susp"]
    /\ UNCHANGED <<sc, putDone, onPuts, gcVars, req, taskVars, env>>

-----------------------------------------------------------------------------
(***************************************************************************)
(* Get counts                                                              *)
(***************************************************************************)

GET_COUNTS(tags, safe) == [type |-> "GET_COUNTS", tags |-> tags, safe |-> safe]
ERASE(tags, safe) == [type |-> "ERASE", tags |-> tags, safe |-> safe]

AmOnlyConsumer(p, t) == Len(ConsumedOn(t)) = 1 /\ ConsumedOn(t)[1] \in {p, CONSUMER_LOCAL}

\* get_count_collector::send_getcounts: the collected counts go to the owners;
\* in the safe round every other process gets an empty message.
CollectorSends(c, safe) ==
    [q \in Procs |-> IF c[q] # <<>> \/ safe THEN <<GET_COUNTS(c[q], safe)>> ELSE <<>>]

\* send_erased( false ) for the tags in list.
EnoughErased(list) == Len(list) > CNC_ENABLE_GC \div 2

\* add_erased: what m_erasedSer holds after t was erased.
AddErased(p, t) == IF AmOnlyConsumer(p, t) THEN erased[p] ELSE Append(erased[p], t)

\* The owner's count has come to zero: the item goes, and so do its copies.
EraseOwned(p, t, send, c) ==
    LET list == AddErased(p, t)
        flush == send /\ ~AmOnlyConsumer(p, t) /\ EnoughErased(list)
    IN  /\ table' = [table EXCEPT ![p][t] = NoEntry]
        /\ erased' = [erased EXCEPT ![p] = IF flush THEN <<>> ELSE list]
        /\ chan' = IF flush THEN Sends(c, p, ToAll(ERASE(list, FALSE))) ELSE c
        /\ UNCHANGED <<coll, numgc>>

\* A plausible slip: the counts that were sent are not forgotten.
Collect_KeepsSent(p, t, o, c) ==
    LET list == [coll[p] EXCEPT ![o] = Append(@, t)]
    IN  /\ coll' = [coll EXCEPT ![p] = list]
        /\ numgc' = [numgc EXCEPT ![p] = 0]
        /\ chan' = Sends(c, p, CollectorSends(list, FALSE))
        /\ UNCHANGED <<table, erased>>

\* A copy counts below zero; collect moves the count to the owner's message.
Collect(p, t, o, c) ==
    LET list == [coll[p] EXCEPT ![o] = Append(@, t)]
        full == numgc[p] + 1 > CNC_ENABLE_GC
    IN  /\ coll' = [coll EXCEPT ![p] = IF full THEN [q \in Procs |-> <<>>] ELSE list]
        /\ numgc' = [numgc EXCEPT ![p] = IF full THEN 0 ELSE @ + 1]
        /\ chan' = IF full THEN Sends(c, p, CollectorSends(list, FALSE)) ELSE c
        /\ UNCHANGED <<table, erased>>

\* A plausible slip: the last get is not waited for.
Decrement_OneEarly(p, t, send, c) ==
    LET e == IF table[p][t].there THEN table[p][t] ELSE [Entry(NoEntry) EXCEPT !.gc = 0]
        left == SetOrIncrement(e.gc, -1)
    IN  \/ left \in {0, 1} /\ EraseOwned(p, t, send, c)
        \/ left < 0 /\ e.owner # NoPid /\ Collect(p, t, e.owner, c)
        \/ /\ left > 1 \/ (left < 0 /\ e.owner = NoPid)
           /\ table' = [table EXCEPT ![p][t] = [e EXCEPT !.gc = left]]
           /\ chan' = c
           /\ UNCHANGED gcVars

\* decrement_ref_count by one. Without an entry the count has come before the
\* item (only from a message): an entry is made that starts at zero.
Decrement(p, t, send, c) ==
    LET e == IF table[p][t].there THEN table[p][t] ELSE [Entry(NoEntry) EXCEPT !.gc = 0]
        left == SetOrIncrement(e.gc, -1)
    IN  \/ left = 0 /\ EraseOwned(p, t, send, c)
        \/ left < 0 /\ e.owner # NoPid /\ Collect(p, t, e.owner, c)
        \/ /\ left > 0 \/ (left < 0 /\ e.owner = NoPid)
           /\ table' = [table EXCEPT ![p][t] = [e EXCEPT !.gc = left]]
           /\ chan' = c
           /\ UNCHANGED gcVars

\* The step is done: its get list is decremented (tagged_step_instance.h).
Finish(g) ==
    /\ getter[g] = "got"
    /\ getter' = [getter EXCEPT ![g] = "done"]
    /\ \/ sc.getCount[Of(g)] # NO_GET_COUNT /\ Decrement(At(g), Of(g), TRUE, chan)
       \/ sc.getCount[Of(g)] = NO_GET_COUNT /\ UNCHANGED <<table, gcVars, chan>>
    /\ UNCHANGED <<sc, putDone, onPuts, req, taskVars, env>>

-----------------------------------------------------------------------------
(***************************************************************************)
(* recv_msg: one thread of q handles the messages from p in their order.   *)
(* Get counts and gathered items are handled one after the other.          *)
(***************************************************************************)

\* q handles a message from p: its receiver is not inside another handler.
Handles(p, q, type) ==
    chan[p][q] # <<>> /\ Head(chan[p][q]).type = type /\ req[q] = NoReq

Rest(p, q) == [chan EXCEPT ![p][q] = Tail(@)]

\* get_request, first lock: look the item up or subscribe.
RecvRequest(p, q) ==
    LET m == Head(chan[p][q])  e == table[q][m.tag]
    IN  /\ Handles(p, q, "REQUEST") \/ Handles(p, q, "PROBE")
        /\ chan' = Rest(p, q)
        /\ table' = IF e.item THEN table
                    ELSE [table EXCEPT ![q][m.tag] = [Entry(e) EXCEPT !.subs = Append(@, m.recpnt)]]
        /\ req' = [req EXCEPT ![q] = [tag |-> m.tag, to |-> m.recpnt,
                                      probe |-> m.type = "PROBE", found |-> e.item]]
        /\ UNCHANGED <<sc, putDone, onPuts, getter, gcVars, taskVars, env>>


\* get_request, second lock: the owner answers with what it found.
AnswerRequest(q) ==
    LET r == req[q]
        amOwner == table[q][r.tag].owner = q
    IN  /\ r # NoReq
        /\ req' = [req EXCEPT ![q] = NoReq]
        /\ chan' = IF amOwner /\ r.found THEN Sends(chan, q, ToOne(r.to, DELIVER(r.tag, q)))
                   ELSE IF r.probe THEN Sends(chan, q, ToOne(r.to, [type |-> "UNAVAIL"]))
                   ELSE chan
        /\ UNCHANGED <<sc, table, putDone, onPuts, getter, gcVars, taskVars, env>>

\* A plausible slip: whoever is sent an item becomes its owner.
RecvDeliver_TakesOwnership(p, q) ==
    /\ Handles(p, q, "DELIVER") \/ Handles(p, q, "DELIVER_TO_OWN")
    /\ Store(q, Head(chan[p][q]).tag, q, Rest(p, q))
    /\ UNCHANGED <<sc, putDone, gcVars, req, taskVars>>

RecvDeliver(p, q) ==
    LET m == Head(chan[p][q])
    IN  /\ \/ Handles(p, q, "DELIVER") /\ Store(q, m.tag, m.owner, Rest(p, q))
           \/ Handles(p, q, "DELIVER_TO_OWN") /\ Store(q, m.tag, q, Rest(p, q))
        /\ UNCHANGED <<sc, putDone, gcVars, req, taskVars>>

RecvUnavail(p, q) ==
    /\ Handles(p, q, "UNAVAIL")
    /\ chan' = Rest(p, q)
    /\ env' = [env EXCEPT !.waiting = @ + 1]
    /\ UNCHANGED <<sc, table, putDone, onPuts, getter, gcVars, req, taskVars>>

\* One get count of the message; the receiver keeps the others.
RecvGetCount(p, q) ==
    LET m == Head(chan[p][q])
        later == [chan EXCEPT ![p][q][1].tags = Tail(@)]
    IN  /\ Handles(p, q, "GET_COUNTS") /\ m.tags # <<>>
        /\ Decrement(q, Head(m.tags), FALSE, later)
        /\ UNCHANGED <<sc, putDone, onPuts, getter, req, taskVars, env>>

\* The end of the message: the safe round counts it, otherwise what has been
\* erased is announced.
RecvGetCountsEnd(p, q) ==
    LET m == Head(chan[p][q])
        flush == ~m.safe /\ EnoughErased(erased[q])
    IN  /\ Handles(p, q, "GET_COUNTS") /\ m.tags = <<>>
        /\ gCounting' = [gCounting EXCEPT ![q] = IF m.safe THEN @ + 1 ELSE @]
        /\ erased' = [erased EXCEPT ![q] = IF flush THEN <<>> ELSE @]
        /\ chan' = IF flush THEN Sends(Rest(p, q), q, ToAll(ERASE(erased[q], FALSE)))
                   ELSE Rest(p, q)
        /\ UNCHANGED <<sc, table, putDone, onPuts, getter, coll, numgc, req, env,
                       cleaning, gcTask, gathering, gatherTask>>

\* A plausible slip: the end of the round is signalled like a gathered answer.
RecvErase_AsGathered(p, q) ==
    LET m == Head(chan[p][q])
    IN  /\ Handles(p, q, "ERASE")
        /\ chan' = Rest(p, q)
        /\ table' = [table EXCEPT ![q] = [t \in Tags |-> IF t \in ToSet(m.tags) THEN NoEntry ELSE @[t]]]
        /\ gathering' = [gathering EXCEPT ![q] = IF m.safe THEN Append(@, 0) ELSE @]
        /\ UNCHANGED <<sc, putDone, onPuts, getter, gcVars, req, env,
                       cleaning, gcTask, gCounting, gatherTask>>

\* erase_alien for every tag of the message.
RecvErase(p, q) ==
    LET m == Head(chan[p][q])
    IN  /\ Handles(p, q, "ERASE")
        /\ chan' = Rest(p, q)
        /\ table' = [table EXCEPT ![q] = [t \in Tags |-> IF t \in ToSet(m.tags) THEN NoEntry ELSE @[t]]]
        /\ gathering' = [gathering EXCEPT ![q] = IF m.safe THEN Append(@, 2) ELSE @]
        /\ UNCHANGED <<sc, putDone, onPuts, getter, gcVars, req, env,
                       cleaning, gcTask, gCounting, gatherTask>>
\* One item of a gather response, and its end.
RecvGatherRes(p, q) ==
    LET m == Head(chan[p][q])
        later == [chan EXCEPT ![p][q][1].tags = Tail(@)]
    IN  /\ Handles(p, q, "GATHER_RES")
        /\ \/ /\ m.tags # <<>>
              /\ Store(q, Head(m.tags), p, later)
              /\ UNCHANGED gathering
           \/ /\ m.tags = <<>>
              /\ gathering' = [gathering EXCEPT ![q] = Append(@, 0)]
              /\ chan' = Rest(p, q)
              /\ UNCHANGED <<table, getter, env, onPuts>>
        /\ UNCHANGED <<sc, putDone, gcVars, req, cleaning, gcTask, gCounting, gatherTask>>

RecvReset(p, q) ==
    /\ Handles(p, q, "RESET")
    /\ chan' = Rest(p, q)
    /\ table' = [table EXCEPT ![q] = [t \in Tags |-> NoEntry]]
    /\ UNCHANGED <<sc, putDone, onPuts, getter, gcVars, req, taskVars, env>>

\* CLEANUP and GATHER_REQ only spawn a service task.
RecvSpawn(p, q) ==
    /\ \/ /\ Handles(p, q, "CLEANUP")
          /\ cleaning' = [cleaning EXCEPT ![q] = TRUE]
          /\ UNCHANGED gatherTask
       \/ /\ Handles(p, q, "GATHER_REQ")
          /\ gatherTask' = [gatherTask EXCEPT ![q] = p]
          /\ UNCHANGED cleaning
    /\ chan' = Rest(p, q)
    /\ UNCHANGED <<sc, table, putDone, onPuts, getter, gcVars, req, env,
                   gcTask, gCounting, gathering>>

-----------------------------------------------------------------------------
(***************************************************************************)
(* Service tasks: the safe round that ends a wait, and gather              *)
(***************************************************************************)

\* cleanup() is send_getcounts( true ), c being the channels before it.
CleanUp(p, c) ==
    /\ chan' = Sends(c, p, CollectorSends(coll[p], TRUE))
    /\ coll' = [coll EXCEPT ![p] = [q \in Procs |-> <<>>]]
    /\ gcTask' = [gcTask EXCEPT ![p] = "counting"]
    /\ UNCHANGED <<numgc, erased, gCounting, gathering, gatherTask>>

Cleaner(p) ==
    /\ cleaning[p]
    /\ cleaning' = [cleaning EXCEPT ![p] = FALSE]
    /\ CleanUp(p, chan)
    /\ UNCHANGED <<sc, table, putDone, onPuts, getter, req, env>>

\* A plausible slip: what was erased in the round is not announced.
GcCounted_Silent(p) ==
    /\ gcTask[p] = "counting" /\ gCounting[p] >= NumProcs - 1
    /\ gCounting' = [gCounting EXCEPT ![p] = @ - (NumProcs - 1)]
    /\ gcTask' = [gcTask EXCEPT ![p] = "erasing"]
    /\ chan' = Sends(chan, p, ToAll(ERASE(<<>>, TRUE)))
    /\ UNCHANGED <<sc, table, putDone, onPuts, getter, gcVars, req, env,
                   cleaning, gathering, gatherTask>>

\* wait_for_gc_to_complete: all others have sent their counts ...
GcCounted(p) ==
    /\ gcTask[p] = "counting" /\ gCounting[p] >= NumProcs - 1
    /\ gCounting' = [gCounting EXCEPT ![p] = @ - (NumProcs - 1)]
    /\ gcTask' = [gcTask EXCEPT ![p] = "erasing"]
    /\ chan' = Sends(chan, p, ToAll(ERASE(erased[p], TRUE)))
    /\ erased' = [erased EXCEPT ![p] = <<>>]
    /\ UNCHANGED <<sc, table, putDone, onPuts, getter, coll, numgc, req, env,
                   cleaning, gathering, gatherTask>>

\* ... and have named what they erased.
GcErased(p) ==
    /\ gcTask[p] = "erasing" /\ Len(gathering[p]) >= NumProcs - 1
    /\ gathering' = [gathering EXCEPT ![p] = SubSeq(@, NumProcs, Len(@))]
    /\ gcTask' = [gcTask EXCEPT ![p] = "none"]
    /\ UNCHANGED <<sc, table, putDone, onPuts, getter, gcVars, chan, req, env,
                   cleaning, gCounting, gatherTask>>

\* A plausible slip: the copies are gathered, not the owned items.
Owned_Copies(p) == {t \in Tags : table[p][t].item /\ table[p][t].owner # p}
Owned(p) == {t \in Tags : table[p][t].item /\ table[p][t].owner = p}

\* gather( root ): the items this process owns.
Gatherer(p) ==
    /\ gatherTask[p] # NoPid
    /\ gatherTask' = [gatherTask EXCEPT ![p] = NoPid]
    /\ chan' = Sends(chan, p, ToOne(gatherTask[p],
                  [type |-> "GATHER_RES", tags |-> SetToSeq(Owned(p))]))
    /\ UNCHANGED <<sc, table, putDone, onPuts, getter, gcVars, req, env,
                   cleaning, gcTask, gCounting, gathering>>

-----------------------------------------------------------------------------
(***************************************************************************)
(* The environment on process 0                                            *)
(***************************************************************************)

Runs(op) == env.st = "run" /\ env.ip <= Len(sc.main) /\ sc.main[env.ip][1] = op
EnvTag == sc.main[env.ip][2]
Continue == [env EXCEPT !.ip = @ + 1, !.st = "run", !.probed = FALSE]

\* scheduler().active(): the user steps and service tasks of this process.
Active(p) ==
    \/ \E g \in Getters : At(g) = p /\ getter[g] # "done"
    \/ \E t \in Tags : sc.putOn[t] = p /\ t \notin putDone
    \/ cleaning[p] \/ gcTask[p] # "none" \/ gatherTask[p] # NoPid

\* The environment's get: found; blocked until the put; or, when nothing runs
\* here, after asking every process; it polls once they have answered.
EnvGet ==
    LET t == EnvTag  e == table[Host][t]
        wait == [table EXCEPT ![Host][t] = [Entry(@) EXCEPT !.susp = @ \cup {Env}]]
    IN  /\ Runs("get")
        /\ \/ e.item /\ env' = Continue /\ UNCHANGED <<table, chan>>
           \/ /\ ~e.item /\ Active(Host)
              /\ table' = wait
              /\ chan' = Sends(chan, Host, PutRequest(Host, t, FALSE, NoPid))
              /\ env' = [env EXCEPT !.st = "blocked", !.left = 1]
           \/ /\ ~e.item /\ ~Active(Host) /\ ~env.probed
              /\ table' = wait
              /\ chan' = Sends(chan, Host, PutRequest(Host, t, TRUE, NoPid))
              /\ env' = [env EXCEPT !.st = "blocked", !.left = NumProcs - 1, !.probed = TRUE]
           \/ /\ ~e.item /\ ~Active(Host) /\ env.probed
              /\ env' = [env EXCEPT !.st = "poll"]
              /\ UNCHANGED <<table, chan>>
        /\ UNCHANGED <<sc, putDone, onPuts, getter, gcVars, req, taskVars>>

\* block_for_put takes one element of m_envIsWaiting.
EnvUnblock ==
    /\ env.st = "blocked" /\ env.waiting > 0
    /\ env' = [env EXCEPT !.waiting = @ - 1, !.left = @ - 1,
                          !.st = IF env.left = 1 THEN "run" ELSE "blocked"]
    /\ UNCHANGED <<sc, table, putDone, onPuts, getter, gcVars, chan, req, taskVars>>

\* Between two looks; after NUM_TRIALS looks get returns without an item.
EnvPoll ==
    /\ env.st = "poll"
    /\ env' = [env EXCEPT !.st = "run"]
    /\ UNCHANGED <<sc, table, putDone, onPuts, getter, gcVars, chan, req, taskVars>>

\* A plausible slip: the looks are not counted.
EnvGivesUp_Never == EnvPoll

EnvGivesUp ==
    /\ env.st = "poll"
    /\ env' = Continue
    /\ UNCHANGED <<sc, table, putDone, onPuts, getter, gcVars, chan, req, taskVars>>

\* What scheduler_i's distributed wait establishes (module DistWait).
Quiet ==
    /\ \A p, q \in Procs : chan[p][q] = <<>>
    /\ req = [p \in Procs |-> NoReq]
    /\ putDone = Tags
    /\ \A g \in Getters : getter[g] \in {"susp", "done"}
    /\ \A p \in Procs : ~cleaning[p] /\ gcTask[p] = "none" /\ gatherTask[p] = NoPid

\* context::wait: quiet, one safe round of every process, quiet again.
EnvWait ==
    /\ Runs("wait") /\ Quiet
    /\ CleanUp(Host, Sends(chan, Host, ToAll([type |-> "CLEANUP"])))
    /\ env' = [env EXCEPT !.st = "cleanup"]
    /\ UNCHANGED <<sc, table, putDone, onPuts, getter, req, cleaning>>

EnvWaitReturns ==
    /\ env.st = "cleanup" /\ Quiet
    /\ env' = Continue
    /\ UNCHANGED <<sc, table, putDone, onPuts, getter, gcVars, chan, req, taskVars>>

\* gather() in size(), begin() and empty(): everybody's items, or wait for them.
EnvGather ==
    /\ Runs("gather")
    /\ chan' = Sends(chan, Host, ToAll([type |-> "GATHER_REQ"]))
    /\ env' = [env EXCEPT !.st = "gather"]
    /\ UNCHANGED <<sc, table, putDone, onPuts, getter, gcVars, req, taskVars>>

EnvGathered ==
    /\ env.st = "gather" /\ Len(gathering[Host]) >= NumProcs - 1
    /\ gathering' = [gathering EXCEPT ![Host] = SubSeq(@, NumProcs, Len(@))]
    /\ env' = Continue
    /\ UNCHANGED <<sc, table, putDone, onPuts, getter, gcVars, chan, req,
                   cleaning, gcTask, gCounting, gatherTask>>

\* unsafe_reset( true ): all tables are emptied.
EnvReset ==
    /\ Runs("reset")
    /\ chan' = Sends(chan, Host, ToAll([type |-> "RESET"]))
    /\ table' = [table EXCEPT ![Host] = [t \in Tags |-> NoEntry]]
    /\ env' = Continue
    /\ UNCHANGED <<sc, putDone, onPuts, getter, gcVars, req, taskVars>>

EnvStep == EnvGet \/ EnvUnblock \/ EnvWait \/ EnvWaitReturns \/ EnvGather \/ EnvGathered \/ EnvReset

Receive(p, q) ==
    \/ RecvRequest(p, q) \/ RecvDeliver(p, q) \/ RecvUnavail(p, q)
    \/ RecvGetCount(p, q) \/ RecvGetCountsEnd(p, q) \/ RecvErase(p, q)
    \/ RecvGatherRes(p, q) \/ RecvReset(p, q) \/ RecvSpawn(p, q)

Task(p) == Cleaner(p) \/ GcCounted(p) \/ GcErased(p) \/ Gatherer(p)

\* main has ended and nothing is left to do.
Ended == env.st = "run" /\ env.ip > Len(sc.main) /\ Quiet /\ UNCHANGED vars

Next ==
    \/ \E t \in Tags : Put(t)
    \/ \E g \in Getters : Get(g) \/ Finish(g)
    \/ \E p, q \in Procs : Receive(p, q)
    \/ \E p \in Procs : AnswerRequest(p) \/ Task(p)
    \/ EnvStep \/ EnvPoll \/ EnvGivesUp \/ Ended

Spec == Init /\ [][Next]_vars

\* Steps are executed, messages arrive and service tasks run; the number of
\* times the environment polls is bounded.
FairSpec ==
    /\ Spec
    /\ \A t \in Tags : WF_vars(Put(t))
    /\ \A g \in Getters : WF_vars(Get(g) \/ Finish(g))
    /\ \A p, q \in Procs : WF_vars(Receive(p, q))
    /\ \A p \in Procs : WF_vars(AnswerRequest(p)) /\ WF_vars(Task(p))
    /\ WF_vars(EnvStep) /\ WF_vars(EnvPoll) /\ SF_vars(EnvGivesUp)

-----------------------------------------------------------------------------
(***************************************************************************)
(* Properties                                                              *)
(***************************************************************************)

IsCounted(t) == sc.getCount[t] # NO_GET_COUNT
Owner(t) == DeliverToConsumers(sc.putOn[t], t).owner
DoneGets(t) == Cardinality({g \in Getters : Of(g) = t /\ getter[g] = "done"})
InFlight(p, q) == ToSet(chan[p][q])

\* Types of the tables, of the collected counts and of the environment;
\* m_gathering holds what the assertions of its readers expect.
TypeOK ==
    /\ sc \in Scenarios
    /\ table \in [Procs -> [Tags -> [there : BOOLEAN, item : BOOLEAN, gc : Int,
                  owner : Procs \cup {NoPid}, susp : SUBSET (Getters \cup {Env}), subs : Seq(Procs)]]]
    /\ getter \in [Getters -> {"ready", "susp", "got", "done"}]
    /\ coll \in [Procs -> [Procs -> Seq(Tags)]] /\ erased \in [Procs -> Seq(Tags)]
    /\ \A p \in Procs : ToSet(gathering[p]) \subseteq IF env.st = "cleanup" THEN {2} ELSE {0}
    /\ gcTask \in [Procs -> {"none", "counting", "erasing"}]
    /\ env.st \in {"run", "blocked", "poll", "cleanup", "gather"} /\ env.waiting \in Nat

\* The processes that store an item agree on its owner, and nobody but the
\* process that deliver_to_consumers made the owner takes itself for it: two
\* owners would count the same item down twice.
CopiesAgreeOnOwner ==
    \A t \in Tags, p \in Procs : table[p][t].item => table[p][t].owner = Owner(t)

\* No get is counted twice and none is lost on its way: the gets of an item
\* that are done are those the owner has subtracted (before or after the item
\* came), those in m_gcColl of a process and those in GET_COUNTS messages.
CountsConserved ==
    \A t \in Tags : IsCounted(t) =>
        LET o == Owner(t)
            e == table[o][t]
            Named(s) == {i \in DOMAIN s : s[i] = t}
            collected == UNION {{<<p, i>> : i \in Named(coll[p][o])} : p \in Procs}
            sent == UNION {UNION {{<<p, k, i>> : i \in Named(chan[p][o][k].tags)} :
                       k \in {n \in DOMAIN chan[p][o] : chan[p][o][n].type = "GET_COUNTS"}} : p \in Procs}
            pending == Cardinality(collected) + Cardinality(sent)
            subtracted == IF e.item THEN sc.getCount[t] - e.gc
                          ELSE IF e.gc = UNSET_GET_COUNT THEN 0 ELSE -e.gc
        IN  \/ DoneGets(t) = pending + subtracted
            \/ ~e.item /\ DoneGets(t) = sc.getCount[t] /\ pending = 0

\* A counted item that a step still has to get is at its owner, or on its way
\* to it: the counts that come from other processes never erase it early. Nor
\* is it erased between the two locks of get_request, which sends what it
\* found under the first.
NeededItemKept ==
    /\ \A g \in Getters : LET t == Of(g) IN
        t \in putDone /\ getter[g] # "done" =>
            \/ table[Owner(t)][t].item
            \/ \E p \in Procs : \E m \in InFlight(p, Owner(t)) :
                  m.type \in {"DELIVER", "DELIVER_TO_OWN"} /\ m.tag = t
    /\ \A p \in Procs : req[p].found => table[p][req[p].tag].item

\* The on_put callbacks of an item are called on one process and once.
CallbacksOnce == \A t \in Tags : onPuts[t] <= 1 /\ (Quiet => onPuts[t] = 1)

\* An environment that polls for an item, when everything is quiet, has it as
\* soon as any process has it: every process was asked and every answer came,
\* whatever was left in m_envIsWaiting by earlier gets. It gives up only on
\* items that nobody has.
ProbeFindsItem ==
    env.st = "poll" /\ Quiet /\ (\E p \in Procs : table[p][EnvTag].item) => table[Host][EnvTag].item

\* After gather() process 0 has a copy of every item that any process has.
GatherComplete ==
    [][EnvGathered => \A p \in Procs, t \in Tags : table[p][t].item => table[Host][t].item]_vars

\* When wait returns, no process stores a counted item that was got as often
\* as its count says (item_collection_base.h:134-137).
CollectedAfterWait ==
    [][EnvWaitReturns => \A t \in Tags :
          IsCounted(t) /\ DoneGets(t) = sc.getCount[t] => \A p \in Procs : ~table[p][t].item]_vars

\* Every get is answered: a step that misses an item is executed again, on
\* whichever process it waits and wherever the item is put.
GettersFinish == \A g \in Getters : <>(getter[g] = "done")

\* Neither the environment's gets nor its waits nor its gathers hang.
EnvEnds == <>(env.ip > Len(sc.main))
=============================================================================
