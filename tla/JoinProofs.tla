----------------------------- MODULE JoinProofs -----------------------------
(***************************************************************************)
(* Proof that a join graph puts every pair, and no process puts it twice   *)
(* (JoinRight), for any number of processes and tags.                      *)
(*                                                                         *)
(* Two tags of one process meet there, in the lock: the one that is        *)
(* inserted second finds the first.  Two tags of different processes meet  *)
(* only in the message of one of them, which finds the other if it has     *)
(* been inserted already; so one collection has to be put before the other *)
(* (Apart).  MCGraphs_join_race shows what happens otherwise.              *)
(***************************************************************************)
EXTENDS Join, SequenceTheorems, TLAPS

TagA(x) == <<"a", x>>
TagB(y) == <<"b", y>>

\* Tags that are put on different processes are not put at the same time.
Apart == \A j \in Joins : j.late \/ \A x \in j.a, y \in j.b : x[1] = y[1]

Shape ==
    /\ join \in Joins
    /\ seta \in [JProcs -> SUBSET join.a] /\ setb \in [JProcs -> SUBSET join.b]
    /\ mail \in [JProcs -> [JProcs -> Seq(JTags)]]
    /\ putter \in [JTags -> {"send", "join", "end"}]
    /\ pairs \in [join.a \X join.b -> Nat]

\* A process keeps its own tags, from the moment their put returns.
KeepsOwn ==
    \A p \in JProcs :
        /\ \A x \in join.a : x \in seta[p] <=> x[1] = p /\ putter[TagA(x)] = "end"
        /\ \A y \in join.b : y \in setb[p] <=> y[1] = p /\ putter[TagB(y)] = "end"

\* It sends its own tags, and to others.
SendsOwn ==
    \A p, q \in JProcs : \A n \in 1 .. Len(mail[p][q]) : p # q /\ ProcOf(mail[p][q][n]) = p

\* Tags of one process meet once, when the second is inserted.
MeetHere ==
    \A x \in join.a, y \in join.b : x[1] = y[1] =>
        pairs[<<x, y>>] = IF putter[TagA(x)] = "end" /\ putter[TagB(y)] = "end" THEN 1 ELSE 0

InMail(t, q) == \E n \in 1 .. Len(mail[ProcOf(t)][q]) : mail[ProcOf(t)][q][n] = t

\* A late tag finds those of the other collection in place, where its message arrives.
MeetThere ==
    join.late => \A x \in join.a : putter[TagA(x)] # "send" =>
        /\ Settled("b")
        /\ \A y \in join.b : x[1] # y[1] => pairs[<<x, y>>] >= 1 \/ InMail(TagA(x), y[1])

JoinInv == Shape /\ KeepsOwn /\ SendsOwn /\ MeetHere /\ MeetThere

-----------------------------------------------------------------------------
\* The tags of both collections, and the processes they are put on.
LEMMA TagsAre ==
    ASSUME join \in Joins
    PROVE  /\ \A x \in join.a : TagA(x) \in JTags /\ x[1] \in JProcs /\ ProcOf(TagA(x)) = x[1]
           /\ \A y \in join.b : TagB(y) \in JTags /\ y[1] \in JProcs /\ ProcOf(TagB(y)) = y[1]
           /\ \A t \in JTags : \/ \E x \in join.a : t = TagA(x)
                               \/ \E y \in join.b : t = TagB(y)
           /\ \A t \in JTags : ProcOf(t) \in JProcs
           /\ \A x, y : TagA(x) # TagB(y) /\ TagA(x)[1] = "a" /\ TagB(y)[1] = "b"
           /\ \A x, z : TagA(x) = TagA(z) => x = z
           /\ \A x, z : TagB(x) = TagB(z) => x = z
           /\ \A x \in join.a, y \in join.b :
                <<x, y>> \in join.a \X join.b /\ <<x, y>>[1] = x /\ <<x, y>>[2] = y
<1>1. join.a \subseteq JProcs \X Nat /\ join.b \subseteq JProcs \X Nat
  BY JoinsAssumption DEF JProcs
<1>2. \A t \in JTags : \/ \E x \in join.a : t = TagA(x)
                       \/ \E y \in join.b : t = TagB(y)
  BY DEF JTags, TagA, TagB
<1>3. /\ \A x \in join.a : TagA(x) \in JTags /\ x[1] \in JProcs /\ ProcOf(TagA(x)) = x[1]
      /\ \A y \in join.b : TagB(y) \in JTags /\ y[1] \in JProcs /\ ProcOf(TagB(y)) = y[1]
  BY <1>1 DEF JTags, TagA, TagB, ProcOf
<1>4. \A t \in JTags : ProcOf(t) \in JProcs
  BY <1>2, <1>3
<1> QED BY <1>2, <1>3, <1>4 DEF TagA, TagB

\* Initially nothing is kept, sent or put.
LEMMA JoinInitInv ==
    ASSUME JoinInit
    PROVE  JoinInv
<1>a. join \in Joins
  BY DEF JoinInit
<1>1. Shape
  BY <1>a DEF JoinInit, Shape
<1>2. KeepsOwn
  BY <1>a, TagsAre DEF JoinInit, KeepsOwn
<1>3. SendsOwn
  BY DEF JoinInit, SendsOwn
<1>4. MeetHere
  BY <1>a, TagsAre DEF JoinInit, MeetHere
<1>5. MeetThere
  BY <1>a, TagsAre DEF JoinInit, MeetThere
<1> QED BY <1>1, <1>2, <1>3, <1>4, <1>5 DEF JoinInv

\* The broadcast of a tag.
LEMMA SendTagStep ==
    ASSUME JoinInv, NEW t \in JTags, SendTag(t)
    PROVE  JoinInv'
<1>a. join \in Joins /\ UNCHANGED <<join, seta, setb, pairs>>
  BY DEF SendTag, JoinInv, Shape
<1>b. JProcs' = JProcs /\ JTags' = JTags
  BY <1>a DEF JProcs, JTags
<1> DEFINE p == ProcOf(t)
<1>c. /\ putter[t] = "send" /\ putter' = [putter EXCEPT ![t] = "join"]
      /\ join.late /\ t[1] = "a" => Settled("b")
      /\ mail' = [mail EXCEPT ![p] = [q \in JProcs |->
                    IF q # p THEN Append(mail[p][q], t) ELSE mail[p][q]]]
  BY DEF SendTag, ReceiversOf
<1>d. p \in JProcs
  BY <1>a, TagsAre
<1>e. /\ mail \in [JProcs -> [JProcs -> Seq(JTags)]]
      /\ putter \in [JTags -> {"send", "join", "end"}]
  BY DEF JoinInv, Shape
<1>1. \A u, q \in JProcs :
        mail'[u][q] = IF u = p /\ q # p THEN Append(mail[u][q], t) ELSE mail[u][q]
  BY <1>c, <1>d, <1>e
<1>2. mail' \in [JProcs -> [JProcs -> Seq(JTags)]]
  <2>1. [q \in JProcs |-> IF q # p THEN Append(mail[p][q], t) ELSE mail[p][q]]
           \in [JProcs -> Seq(JTags)]
    BY <1>d, <1>e, AppendProperties
  <2> QED BY <1>c, <1>d, <1>e, <2>1
<1>3. Shape'
  BY <1>a, <1>b, <1>c, <1>e, <1>2 DEF JoinInv, Shape
<1>4. \A u \in JTags : (putter'[u] = "end" <=> putter[u] = "end")
  BY <1>c, <1>e
<1>5. KeepsOwn' /\ MeetHere'
  BY <1>a, <1>b, <1>4, TagsAre DEF JoinInv, KeepsOwn, MeetHere
<1>6. \A u, q \in JProcs : Len(mail[u][q]) \in Nat
  BY <1>e, LenProperties
<1>7. \A q \in JProcs : q # p =>
        /\ Len(mail'[p][q]) = Len(mail[p][q]) + 1
        /\ \A n \in 1 .. Len(mail[p][q]) : mail'[p][q][n] = mail[p][q][n]
        /\ mail'[p][q][Len(mail[p][q]) + 1] = t
  <2> SUFFICES ASSUME NEW q \in JProcs, q # p
               PROVE  /\ Len(mail'[p][q]) = Len(mail[p][q]) + 1
                      /\ \A n \in 1 .. Len(mail[p][q]) : mail'[p][q][n] = mail[p][q][n]
                      /\ mail'[p][q][Len(mail[p][q]) + 1] = t
    OBVIOUS
  <2>1. mail[p][q] \in Seq(JTags) /\ mail'[p][q] = Append(mail[p][q], t)
    BY <1>d, <1>e, <1>1
  <2> HIDE DEF p
  <2> QED BY <2>1, AppendProperties
<1>8. SendsOwn'
  <2> SUFFICES ASSUME NEW u \in JProcs, NEW q \in JProcs, NEW n \in 1 .. Len(mail'[u][q])
               PROVE  u # q /\ ProcOf(mail'[u][q][n]) = u
    BY <1>b DEF SendsOwn, ProcOf
  <2>1. CASE u = p /\ q # p
    <3>1. CASE n \in 1 .. Len(mail[p][q])
      BY <1>d, <1>7, <2>1, <3>1 DEF JoinInv, SendsOwn
    <3>2. CASE n = Len(mail[p][q]) + 1
      BY <1>7, <2>1, <3>2
    <3> QED BY <1>d, <1>6, <1>7, <2>1, <3>1, <3>2
  <2>2. CASE ~(u = p /\ q # p)
    BY <1>1, <2>2 DEF JoinInv, SendsOwn
  <2> QED BY <2>1, <2>2
<1>9. ASSUME NEW u \in JTags, NEW q \in JProcs, InMail(u, q) PROVE InMail(u, q)'
  <2>1. ProcOf(u) \in JProcs
    BY <1>a, TagsAre
  <2>2. PICK n \in 1 .. Len(mail[ProcOf(u)][q]) : mail[ProcOf(u)][q][n] = u
    BY <1>9 DEF InMail
  <2>3. n \in 1 .. Len(mail'[ProcOf(u)][q]) /\ mail'[ProcOf(u)][q][n] = u
    BY <1>1, <1>6, <1>7, <2>1, <2>2
  <2> QED BY <2>3 DEF InMail, ProcOf
<1>10. ASSUME NEW q \in JProcs, q # p PROVE InMail(t, q)'
  <2>1. Len(mail[p][q]) + 1 \in 1 .. Len(mail'[p][q])
    BY <1>d, <1>6, <1>7, <1>10
  <2> QED BY <1>7, <1>10, <2>1 DEF InMail, ProcOf
<1>11. Settled("b") => Settled("b")'
  BY <1>b, <1>4 DEF Settled
<1>12. MeetThere'
  <2> SUFFICES ASSUME join.late, NEW x \in join.a, putter'[TagA(x)] # "send"
               PROVE  /\ Settled("b")'
                      /\ \A y \in join.b : x[1] # y[1] =>
                            pairs[<<x, y>>] >= 1 \/ InMail(TagA(x), y[1])'
    BY <1>a DEF MeetThere
  <2>a. TagA(x) \in JTags /\ TagA(x)[1] = "a" /\ ProcOf(TagA(x)) = x[1]
    BY <1>a, TagsAre
  <2>b. \A y \in join.b : y[1] \in JProcs
    BY <1>a, TagsAre
  <2>1. CASE t = TagA(x)
    BY <1>c, <1>10, <1>11, <2>a, <2>b, <2>1
  <2>2. CASE t # TagA(x)
    <3>1. putter[TagA(x)] # "send"
      BY <1>c, <1>e, <2>a, <2>2
    <3> QED BY <1>9, <1>11, <2>a, <2>b, <3>1 DEF JoinInv, MeetThere
  <2> QED BY <2>1, <2>2
<1> QED BY <1>3, <1>5, <1>8, <1>12 DEF JoinInv

\* A tag is joined with those its process keeps, and inserted.
LEMMA JoinTagStep ==
    ASSUME JoinInv, NEW t \in JTags, JoinTag(t)
    PROVE  JoinInv'
<1>a. join \in Joins /\ UNCHANGED <<join, mail>>
  BY DEF JoinTag, JoinInv, Shape
<1>b. JProcs' = JProcs /\ JTags' = JTags
  BY <1>a DEF JProcs, JTags
<1> DEFINE p == ProcOf(t)
<1>c. /\ putter[t] = "join" /\ putter' = [putter EXCEPT ![t] = "end"]
      /\ seta' = [seta EXCEPT ![p] = IF t[1] = "a" THEN seta[p] \cup {t[2]} ELSE seta[p]]
      /\ setb' = [setb EXCEPT ![p] = IF t[1] = "b" THEN setb[p] \cup {t[2]} ELSE setb[p]]
      /\ pairs' = Joined(p, t)
  BY DEF JoinTag, Kept
<1>d. p \in JProcs
  BY <1>a, TagsAre
<1>e. /\ seta \in [JProcs -> SUBSET join.a] /\ setb \in [JProcs -> SUBSET join.b]
      /\ putter \in [JTags -> {"send", "join", "end"}]
      /\ pairs \in [join.a \X join.b -> Nat]
  BY DEF JoinInv, Shape
<1>1. /\ pairs' \in [join.a \X join.b -> Nat]
      /\ \A x \in join.a, y \in join.b :
            pairs'[<<x, y>>] = pairs[<<x, y>>] + IF \/ t = TagA(x) /\ y \in setb[p]
                                                    \/ t = TagB(y) /\ x \in seta[p] THEN 1 ELSE 0
  BY <1>a, <1>c, <1>e DEF Joined, TagA, TagB, JTags
<1>2. \A u \in JTags : putter'[u] = IF u = t THEN "end" ELSE putter[u]
  BY <1>c, <1>e
<1>3. \A u \in JProcs :
        /\ \A x \in join.a : x \in seta'[u] <=> x \in seta[u] \/ (u = p /\ t = TagA(x))
        /\ \A y \in join.b : y \in setb'[u] <=> y \in setb[u] \/ (u = p /\ t = TagB(y))
  BY <1>c, <1>d, <1>e DEF TagA, TagB, JTags
<1>4. Shape'
  <2>1. seta' \in [JProcs -> SUBSET join.a] /\ setb' \in [JProcs -> SUBSET join.b]
    BY <1>c, <1>d, <1>e DEF JTags
  <2> QED BY <1>a, <1>b, <1>c, <1>e, <1>1, <2>1 DEF JoinInv, Shape
<1>5. KeepsOwn'
  <2> SUFFICES ASSUME NEW u \in JProcs
               PROVE  /\ \A x \in join.a : x \in seta'[u] <=> x[1] = u /\ putter'[TagA(x)] = "end"
                      /\ \A y \in join.b : y \in setb'[u] <=> y[1] = u /\ putter'[TagB(y)] = "end"
    BY <1>a, <1>b DEF KeepsOwn
  <2>1. /\ \A x \in join.a : TagA(x) \in JTags /\ ProcOf(TagA(x)) = x[1]
        /\ \A y \in join.b : TagB(y) \in JTags /\ ProcOf(TagB(y)) = y[1]
    BY <1>a, TagsAre
  <2> QED BY <1>2, <1>3, <2>1 DEF JoinInv, KeepsOwn
<1>6. SendsOwn'
  BY <1>a, <1>b DEF JoinInv, SendsOwn, ProcOf
<1>7. MeetHere'
  <2> SUFFICES ASSUME NEW x \in join.a, NEW y \in join.b, x[1] = y[1]
               PROVE  pairs'[<<x, y>>] =
                        IF putter'[TagA(x)] = "end" /\ putter'[TagB(y)] = "end" THEN 1 ELSE 0
    BY <1>a DEF MeetHere
  <2>1. /\ TagA(x) \in JTags /\ ProcOf(TagA(x)) = x[1] /\ TagA(x) # TagB(y)
        /\ TagB(y) \in JTags /\ ProcOf(TagB(y)) = y[1] /\ x[1] \in JProcs
    BY <1>a, TagsAre
  <2>2. /\ x \in seta[x[1]] <=> putter[TagA(x)] = "end"
        /\ y \in setb[x[1]] <=> putter[TagB(y)] = "end"
    BY <2>1 DEF JoinInv, KeepsOwn
  <2>3. pairs[<<x, y>>] = IF putter[TagA(x)] = "end" /\ putter[TagB(y)] = "end" THEN 1 ELSE 0
    BY DEF JoinInv, MeetHere
  <2> QED BY <1>c, <1>1, <1>2, <2>1, <2>2, <2>3
<1>8. MeetThere'
  <2> SUFFICES ASSUME join.late, NEW x \in join.a, putter'[TagA(x)] # "send"
               PROVE  /\ Settled("b")'
                      /\ \A y \in join.b : x[1] # y[1] =>
                            pairs'[<<x, y>>] >= 1 \/ InMail(TagA(x), y[1])'
    BY <1>a DEF MeetThere
  <2>1. TagA(x) \in JTags
    BY <1>a, TagsAre
  <2>2. putter[TagA(x)] # "send"
    BY <1>c, <1>2, <2>1
  <2>3. Settled("b") /\ \A y \in join.b : x[1] # y[1] => pairs[<<x, y>>] >= 1 \/ InMail(TagA(x), y[1])
    BY <2>2 DEF JoinInv, MeetThere
  <2>4. Settled("b")'
    BY <1>b, <1>2, <2>3 DEF Settled
  <2>5. ASSUME NEW y \in join.b PROVE pairs'[<<x, y>>] >= pairs[<<x, y>>] /\ pairs[<<x, y>>] \in Nat
    BY <1>e, <1>1
  <2>6. ASSUME NEW y \in join.b, pairs[<<x, y>>] >= 1 PROVE pairs'[<<x, y>>] >= 1
    BY <1>1, <1>e, <2>5, <2>6
  <2>7. ASSUME NEW q, InMail(TagA(x), q) PROVE InMail(TagA(x), q)'
    BY <1>a, <2>7 DEF InMail, ProcOf
  <2> QED BY <2>3, <2>4, <2>6, <2>7
<1> QED BY <1>4, <1>5, <1>6, <1>7, <1>8 DEF JoinInv

\* A tag arrives and is joined with those the receiver keeps.
LEMMA RecvTagStep ==
    ASSUME JoinInv, NEW p \in JProcs, RecvTag(p)
    PROVE  JoinInv'
<1>a. join \in Joins /\ UNCHANGED <<join, seta, setb, putter>>
  BY DEF RecvTag, JoinInv, Shape
<1>b. JProcs' = JProcs /\ JTags' = JTags
  BY <1>a DEF JProcs, JTags
<1>c. PICK r \in JProcs : /\ mail[r][p] # <<>> /\ pairs' = Joined(p, Head(mail[r][p]))
                          /\ mail' = [mail EXCEPT ![r][p] = Tail(mail[r][p])]
  BY DEF RecvTag
<1> DEFINE t == Head(mail[r][p])
<1>e. /\ seta \in [JProcs -> SUBSET join.a] /\ setb \in [JProcs -> SUBSET join.b]
      /\ mail \in [JProcs -> [JProcs -> Seq(JTags)]]
      /\ putter \in [JTags -> {"send", "join", "end"}]
      /\ pairs \in [join.a \X join.b -> Nat]
  BY DEF JoinInv, Shape
<1>f. mail[r][p] \in Seq(JTags)
  BY <1>e
<1>1. /\ t \in JTags /\ Len(mail[r][p]) \in Nat /\ Len(mail[r][p]) >= 1 /\ t = mail[r][p][1]
      /\ Tail(mail[r][p]) \in Seq(JTags) /\ Len(Tail(mail[r][p])) = Len(mail[r][p]) - 1
      /\ \A n \in 1 .. Len(mail[r][p]) - 1 : Tail(mail[r][p])[n] = mail[r][p][n + 1]
  BY <1>c, <1>f, HeadTailProperties, LenProperties
<1>2. r # p /\ ProcOf(t) = r
  BY <1>1 DEF JoinInv, SendsOwn
<1>3. /\ mail' \in [JProcs -> [JProcs -> Seq(JTags)]]
      /\ mail'[r][p] = Tail(mail[r][p])
      /\ \A u, v \in JProcs : u # r \/ v # p => mail'[u][v] = mail[u][v]
  BY <1>c, <1>e, <1>1
<1>4. /\ pairs' \in [join.a \X join.b -> Nat]
      /\ \A x \in join.a, y \in join.b :
            pairs'[<<x, y>>] = pairs[<<x, y>>] + IF \/ t = TagA(x) /\ y \in setb[p]
                                                    \/ t = TagB(y) /\ x \in seta[p] THEN 1 ELSE 0
  BY <1>a, <1>c, <1>e, <1>1 DEF Joined, TagA, TagB, JTags
<1> HIDE DEF t
<1>5. Shape'
  BY <1>a, <1>b, <1>e, <1>3, <1>4 DEF JoinInv, Shape
<1>6. KeepsOwn'
  BY <1>a, <1>b DEF JoinInv, KeepsOwn
<1>7. SendsOwn'
  <2> SUFFICES ASSUME NEW u \in JProcs, NEW q \in JProcs, NEW n \in 1 .. Len(mail'[u][q])
               PROVE  u # q /\ ProcOf(mail'[u][q][n]) = u
    BY <1>b DEF SendsOwn, ProcOf
  <2>1. CASE u = r /\ q = p
    <3>0. Len(mail'[u][q]) = Len(mail[r][p]) - 1 /\ Len(mail[r][p]) \in Nat
      BY <1>1, <1>3, <2>1
    <3>1. n \in 1 .. Len(mail[r][p]) - 1 /\ n + 1 \in 1 .. Len(mail[r][p])
      BY <3>0, SMT
    <3>2. mail'[u][q][n] = mail[r][p][n + 1]
      BY <1>1, <1>3, <2>1, <3>1
    <3> QED BY <2>1, <3>1, <3>2 DEF JoinInv, SendsOwn
  <2>2. CASE u # r \/ q # p
    BY <1>3, <2>2 DEF JoinInv, SendsOwn
  <2> QED BY <2>1, <2>2
<1>8. MeetHere'
  <2> SUFFICES ASSUME NEW x \in join.a, NEW y \in join.b, x[1] = y[1]
               PROVE  pairs'[<<x, y>>] = pairs[<<x, y>>]
    BY <1>a DEF JoinInv, MeetHere
  <2>1. x \in seta[p] => x[1] = p
    BY DEF JoinInv, KeepsOwn
  <2>2. y \in setb[p] => y[1] = p
    BY DEF JoinInv, KeepsOwn
  <2>3. (t = TagA(x) => x[1] = r) /\ (t = TagB(y) => y[1] = r)
    BY <1>a, <1>2, TagsAre
  <2> QED BY <1>2, <1>4, <1>e, <2>1, <2>2, <2>3
<1>9. MeetThere'
  <2> SUFFICES ASSUME join.late, NEW x \in join.a, putter[TagA(x)] # "send"
               PROVE  /\ Settled("b")'
                      /\ \A y \in join.b : x[1] # y[1] =>
                            pairs'[<<x, y>>] >= 1 \/ InMail(TagA(x), y[1])'
    BY <1>a DEF MeetThere
  <2>1. /\ Settled("b")
        /\ \A y \in join.b : x[1] # y[1] => pairs[<<x, y>>] >= 1 \/ InMail(TagA(x), y[1])
    BY DEF JoinInv, MeetThere
  <2>2. Settled("b")'
    BY <1>a, <1>b, <2>1 DEF Settled
  <2>3. ASSUME NEW y \in join.b, x[1] # y[1]
        PROVE  pairs'[<<x, y>>] >= 1 \/ InMail(TagA(x), y[1])'
    <3>a. /\ ProcOf(TagA(x)) = x[1] /\ x[1] \in JProcs /\ y[1] \in JProcs
          /\ TagB(y) \in JTags /\ TagB(y)[1] = "b"
      BY <1>a, TagsAre
    <3>0. pairs[<<x, y>>] \in Nat /\ pairs'[<<x, y>>] \in Nat
      BY <1>e, <1>4, <3>a
    <3>1. pairs'[<<x, y>>] = pairs[<<x, y>>] + IF \/ t = TagA(x) /\ y \in setb[p]
                                                  \/ t = TagB(y) /\ x \in seta[p] THEN 1 ELSE 0
      BY <1>4
    <3>2. CASE pairs[<<x, y>>] >= 1
      BY <3>0, <3>1, <3>2
    <3>3. CASE InMail(TagA(x), y[1])
      <4>1. PICK n \in 1 .. Len(mail[x[1]][y[1]]) : mail[x[1]][y[1]][n] = TagA(x)
        BY <3>3, <3>a DEF InMail
      <4>2. CASE x[1] # r \/ y[1] # p
        <5>1. mail'[x[1]][y[1]] = mail[x[1]][y[1]]
          BY <1>3, <3>a, <4>2
        <5> QED BY <3>a, <4>1, <5>1 DEF InMail, ProcOf
      <4>3. CASE x[1] = r /\ y[1] = p /\ n # 1
        <5>1. n \in 1 .. Len(mail[r][p]) /\ mail[r][p][n] = TagA(x)
          BY <4>1, <4>3
        <5>2. n - 1 \in 1 .. Len(mail[r][p]) - 1
          BY <1>1, <4>3, <5>1
        <5>3. mail'[r][p][n - 1] = TagA(x) /\ n - 1 \in 1 .. Len(mail'[r][p])
          BY <1>1, <1>3, <5>1, <5>2
        <5> QED BY <3>a, <4>3, <5>3 DEF InMail, ProcOf
      <4>4. CASE x[1] = r /\ y[1] = p /\ n = 1
        <5>1. t = TagA(x)
          BY <1>1, <4>1, <4>4
        <5>2. putter[TagB(y)] = "end"
          BY <2>1, <3>a DEF Settled
        <5>3. y \in setb[p]
          BY <4>4, <5>2 DEF JoinInv, KeepsOwn
        <5> QED BY <3>0, <3>1, <5>1, <5>3
      <4> QED BY <4>2, <4>3, <4>4
    <3> QED BY <2>1, <2>3, <3>2, <3>3
  <2> QED BY <2>2, <2>3
<1> QED BY <1>5, <1>6, <1>7, <1>8, <1>9 DEF JoinInv

\* Every step keeps the invariant.
LEMMA JoinNextInv ==
    ASSUME JoinInv, [JoinNext]_joinVars
    PROVE  JoinInv'
<1>1. CASE UNCHANGED joinVars
  BY <1>1 DEF joinVars, JoinInv, Shape, KeepsOwn, SendsOwn, MeetHere, MeetThere, JProcs, JTags,
     ProcOf, Settled, InMail
<1>2. CASE \E t \in JTags : SendTag(t) \/ JoinTag(t)
  BY <1>2, SendTagStep, JoinTagStep
<1>3. CASE \E p \in JProcs : RecvTag(p)
  BY <1>3, RecvTagStep
<1> QED BY <1>1, <1>2, <1>3 DEF JoinNext

\* join.h with any number of processes and tags: tags of one process are joined
\* exactly once, and every pair is put, if tags of different processes do not race.
THEOREM JoinIsRight ==
    ASSUME Apart
    PROVE  JoinSpec => []JoinRight
<1>1. JoinInit => JoinInv
  BY JoinInitInv
<1>2. JoinInv /\ [JoinNext]_joinVars => JoinInv'
  BY JoinNextInv
<1>3. ASSUME JoinInv PROVE JoinRight
  <2>a. join \in Joins /\ pairs \in [join.a \X join.b -> Nat]
    BY <1>3 DEF JoinInv, Shape
  <2>b. \A ab \in DOMAIN pairs : \E x \in join.a, y \in join.b :
            ab = <<x, y>> /\ ab[1] = x /\ ab[2] = y
    BY <2>a
  <2>1. JoinedOnceLocally
    BY <1>3, <2>b DEF JoinInv, MeetHere, JoinedOnceLocally
  <2>2. JoinComplete
    <3> SUFFICES ASSUME JoinDone, NEW x \in join.a, NEW y \in join.b PROVE pairs[<<x, y>>] >= 1
      BY <2>b DEF JoinComplete
    <3>a. /\ TagA(x) \in JTags /\ TagB(y) \in JTags /\ TagA(x)[1] = "a" /\ TagB(y)[1] = "b"
          /\ ProcOf(TagA(x)) = x[1] /\ x[1] \in JProcs /\ y[1] \in JProcs
      BY <2>a, TagsAre
    <3>1. putter[TagA(x)] = "end" /\ putter[TagB(y)] = "end"
      BY <3>a DEF JoinDone, Settled
    <3>2. CASE x[1] = y[1]
      BY <1>3, <3>1, <3>2 DEF JoinInv, MeetHere
    <3>3. CASE x[1] # y[1]
      <4>1. join.late
        BY <2>a, <3>3 DEF Apart
      <4>2. pairs[<<x, y>>] >= 1 \/ InMail(TagA(x), y[1])
        BY <1>3, <3>1, <3>3, <4>1 DEF JoinInv, MeetThere
      <4>3. mail[x[1]][y[1]] = <<>>
        BY <3>a DEF JoinDone, NoMail
      <4> QED BY <3>a, <4>2, <4>3 DEF InMail
    <3> QED BY <3>2, <3>3
  <2> QED BY <2>1, <2>2 DEF JoinRight
<1> QED BY <1>1, <1>2, <1>3, PTL DEF JoinSpec
=============================================================================
