-------------------------------- MODULE Join --------------------------------
(***************************************************************************)
(* The join graph of join.h: every tag put into collection a is paired     *)
(* with every tag put into b. A process keeps the tags that were put on it *)
(* and broadcasts each to the others, which pair it with theirs.           *)
(***************************************************************************)
EXTENDS Integers, Sequences, FiniteSets

CONSTANT Joins          \* what the program does, see MCGraphs

ASSUME JoinsAssumption ==
    \A j \in Joins : /\ j.procs \in Nat \ {0} /\ j.late \in BOOLEAN
                     /\ j.a \subseteq (0 .. j.procs - 1) \X Nat
                     /\ j.b \subseteq (0 .. j.procs - 1) \X Nat

VARIABLES
    join,       \* procs, a and b (sets of <<process, number>>), late (a after b)
    seta, setb, \* m_seta, m_setb of every process
    mail,       \* mail[p][q]: the tags sent from p to q
    putter,     \* the state of the thread that puts a tag
    pairs       \* how often each pair was put into c

joinVars == <<join, seta, setb, mail, putter, pairs>>

JProcs == 0 .. join.procs - 1
JTags == ({"a"} \X join.a) \cup ({"b"} \X join.b)
ProcOf(t) == t[2][1]

JoinInit ==
    /\ join \in Joins
    /\ seta = [p \in JProcs |-> {}]
    /\ setb = [p \in JProcs |-> {}]
    /\ mail = [p \in JProcs |-> [q \in JProcs |-> <<>>]]
    /\ putter = [t \in JTags |-> "send"]
    /\ pairs = [ab \in join.a \X join.b |-> 0]

NoMail == \A p, q \in JProcs : mail[p][q] = <<>>
Settled(c) == \A t \in JTags : t[1] = c => putter[t] = "end"

\* on_put: the tag is broadcast first,
ReceiversOf_AndSelf(p) == JProcs
ReceiversOf(p) == JProcs \ {p}
SendTag(t) ==
    /\ putter[t] = "send"
    /\ join.late /\ t[1] = "a" => Settled("b") /\ NoMail
    /\ mail' = [mail EXCEPT ![ProcOf(t)] =
            [q \in JProcs |-> IF q \in ReceiversOf(ProcOf(t)) THEN Append(@[q], t) ELSE @[q]]]
    /\ putter' = [putter EXCEPT ![t] = "join"]
    /\ UNCHANGED <<join, seta, setb, pairs>>

\* join_one with the tags process p keeps of the other collection.
Joined(p, t) ==
    [ab \in DOMAIN pairs |->
        pairs[ab] + IF \/ t[1] = "a" /\ ab[1] = t[2] /\ ab[2] \in setb[p]
                       \/ t[1] = "b" /\ ab[2] = t[2] /\ ab[1] \in seta[p] THEN 1 ELSE 0]

\* ... then, under the lock, joined and inserted.
Kept_NotB(p, t) == <<IF t[1] = "a" THEN seta[p] \cup {t[2]} ELSE seta[p], setb[p]>>
Kept(p, t) == <<IF t[1] = "a" THEN seta[p] \cup {t[2]} ELSE seta[p],
                IF t[1] = "b" THEN setb[p] \cup {t[2]} ELSE setb[p]>>
JoinTag(t) ==
    LET p == ProcOf(t)
    IN  /\ putter[t] = "join"
        /\ pairs' = Joined(p, t)
        /\ seta' = [seta EXCEPT ![p] = Kept(p, t)[1]]
        /\ setb' = [setb EXCEPT ![p] = Kept(p, t)[2]]
        /\ putter' = [putter EXCEPT ![t] = "end"]
        /\ UNCHANGED <<join, mail>>

\* recv_msg: joined, not kept.
RecvTag(p) ==
    \E q \in JProcs :
        /\ mail[q][p] # <<>>
        /\ pairs' = Joined(p, Head(mail[q][p]))
        /\ mail' = [mail EXCEPT ![q][p] = Tail(@)]
        /\ UNCHANGED <<join, seta, setb, putter>>

JoinNext == (\E t \in JTags : SendTag(t) \/ JoinTag(t)) \/ \E p \in JProcs : RecvTag(p)

JoinSpec == JoinInit /\ [][JoinNext]_joinVars

-----------------------------------------------------------------------------
(* Properties *)

JoinDone == Settled("a") /\ Settled("b") /\ NoMail

\* When all tags have been put and all messages received, every pair has been put
\* into the output collection.
JoinComplete == JoinDone => \A ab \in DOMAIN pairs : pairs[ab] >= 1

\* Duplicates come only from distribution: two tags put on the same process are
\* joined once.
JoinedOnceLocally == \A ab \in DOMAIN pairs : ab[1][1] = ab[2][1] => pairs[ab] <= 1

\* A join puts every pair, and a process puts it once.
JoinRight == JoinedOnceLocally /\ JoinComplete
=============================================================================
