-------------------------- MODULE ItemTableProofs --------------------------
(***************************************************************************)
(* TableSound holds of both tables for any number of threads and tags, and *)
(* for every choice of counted tags and of their readers.                  *)
(***************************************************************************)
EXTENDS ItemTable, FiniteSetTheorems, TLAPS

\* Sets of threads are finite, and a get count is positive.
LEMMA Counts ==
  ASSUME ConstantsOK
  PROVE  /\ \A S \in SUBSET Callers : IsFiniteSet(S) /\ Cardinality(S) \in Nat
         /\ \A S \in SUBSET Callers : S # {} => Cardinality(S) > 0
         /\ \A t \in Metered : /\ Cardinality(Readers[t]) \in Nat \ {0}
                              /\ GetCount(t) = Cardinality(Readers[t])
<1>1. ASSUME NEW S \in SUBSET Callers PROVE IsFiniteSet(S) /\ Cardinality(S) \in Nat
  BY FS_Subset, FS_CardinalityType DEF ConstantsOK
<1>2. ASSUME NEW S \in SUBSET Callers, S # {} PROVE Cardinality(S) > 0
  <2>1. Cardinality(S) # 0
    BY <1>1, <1>2, FS_EmptySet
  <2> QED BY <2>1, <1>1
<1>3. ASSUME NEW t \in Metered
      PROVE  Cardinality(Readers[t]) \in Nat \ {0} /\ GetCount(t) = Cardinality(Readers[t])
  <2>1. Readers[t] \in SUBSET Callers /\ Readers[t] # {}
    BY DEF ConstantsOK
  <2> QED BY <2>1, <1>1, <1>2 DEF GetCount
<1> QED BY <1>1, <1>2, <1>3

\* The orders in which the two tables write, spelled out.
LEMMA Orders ==
  ASSUME ConstantsOK, Typed
  PROVE  /\ kind \in {"vec", "hash"}
         /\ PutOrder[kind].lock = IF kind = "vec" THEN "count" ELSE "store"
         /\ PutOrder[kind].count = "owner"
         /\ PutOrder[kind].owner = IF kind = "vec" THEN "store" ELSE "grow"
         /\ PutOrder[kind].store = IF kind = "vec" THEN "grow" ELSE "count"
         /\ EraseOrder[kind].decrement = IF kind = "vec" THEN "erase" ELSE "shrink"
         /\ EraseOrder[kind].shrink = IF kind = "vec" THEN "release" ELSE "erase"
<1>1. kind = "vec" \/ kind = "hash"
  BY DEF ConstantsOK, Typed
<1> QED BY <1>1 DEF PutOrder, EraseOrder

\* Whoever finds an item is told whether it is counted.
LEMMA Told ==
  ASSUME ConstantsOK, TableSound, NEW t \in Tags, item[t] # Null, ~(kind = "hash" /\ HeldAt(t, {"count"}))
  PROVE  /\ CountRight(t)
         /\ count[t] # NO_GET_COUNT <=> t \in Metered
         /\ t \in Metered => /\ ~Awaited(t)
                            /\ count[t] = Cardinality(toRead[t]) + stale[t]
                            /\ Cardinality(toRead[t]) \in Nat
                            /\ stale[t] \in Nat
<1>1. CountRight(t)
  BY DEF TableSound, ItemsWhole
<1>2. toRead[t] \in SUBSET Callers /\ stale[t] \in Nat
  BY DEF TableSound, Typed
<1>3. Cardinality(toRead[t]) \in Nat
  BY <1>2, Counts
<1>4. t \in Metered => ~Awaited(t)
  BY DEF TableSound, CountsRight
<1> QED BY <1>1, <1>2, <1>3, <1>4 DEF CountRight, NO_GET_COUNT

\* When a thread erases an item, nobody is left who relies on it.
LEMMA NoReaderLeft ==
  ASSUME ConstantsOK, TableSound, NEW th \in Callers, at[th] = "erase"
  PROVE  /\ tag[th] \in Metered /\ tag[th] \in Tags /\ lock[tag[th]] = th
         /\ item[tag[th]] # Null /\ ~Awaited(tag[th])
         /\ toRead[tag[th]] = {}
         /\ \A x \in Callers : at[x] \in Reading => tag[x] # tag[th]
<1> DEFINE t == tag[th]
<1>1. t \in Metered /\ t \in Tags /\ count[t] = 0 /\ item[t] # Null
  BY DEF TableSound, ErasedAtZero, AccessorsHeld
<1>2. lock[t] = th
  BY <1>1 DEF TableSound, AccessorsHeld, At, Holding
<1>3. ~HeldAt(t, {"count"})
  BY <1>2 DEF HeldAt
<1>4. count[t] = Cardinality(toRead[t]) + stale[t] /\ Cardinality(toRead[t]) \in Nat /\ stale[t] \in Nat /\ ~Awaited(t)
  BY <1>1, <1>3, Told
<1>5. toRead[t] \in SUBSET Callers
  BY <1>1 DEF TableSound, Typed
<1>6. toRead[t] = {}
  BY <1>1, <1>4, <1>5, Counts
<1>7. \A x \in Callers : at[x] \in Reading => tag[x] # t
  BY <1>1, <1>6 DEF TableSound, GetsServed
<1> QED BY <1>1, <1>2, <1>4, <1>6, <1>7

\* A put takes the accessor, which nobody else has, of an entry without readers.
LEMMA PutLockStep ==
  ASSUME ConstantsOK, TableSound, NEW th \in Callers, PutLock(th)
  PROVE  TableSound'
<1>a. tag[th] \in Tags /\ at[th] \in Labels /\ Null \notin Callers
  BY DEF PutLock, Acquire, TableSound, Typed, AccessorsHeld, ConstantsOK
<1>b. tag[th] \in Metered => item[tag[th]] = Null
  BY <1>a DEF PutLock, Acquire, Mine, TableSound, CountsRight, Awaited, Uncounted, HeldAt, At
<1>c. \A t \in Metered : Awaited(t)' <=> Awaited(t)
  BY <1>a, <1>b, Orders
     DEF PutLock, Acquire, Jump, Mine, program, TableSound, Typed, ConstantsOK, Awaited, Uncounted,
       At
<1> USE DEF PutLock, Acquire, Jump, Mine, entry, program
<1>1. Typed'
  BY <1>a, <1>b, <1>c, Orders DEF TableSound, ConstantsOK, Typed, Labels
<1>2. AccessorsHeld'
  BY <1>a, <1>b, <1>c, Orders DEF TableSound, ConstantsOK, Typed, AccessorsHeld, At, Holding
<1>3. EntriesExist'
  BY <1>a, <1>b, <1>c, Orders
     DEF TableSound, ConstantsOK, Typed, EntriesExist, AccessorsHeld, At, Holding
<1>4. OnePutter'
  BY <1>a, <1>b, <1>c, Orders DEF TableSound, ConstantsOK, Typed, OnePutter, At
<1>5. CountsRight'
  BY <1>a, <1>c, Orders
     DEF TableSound, ConstantsOK, Typed, AccessorsHeld, CountsRight, CountRight, HeldAt, At, Holding
<1>6. PutsInOrder'
  BY <1>a, <1>b, <1>c, Orders
     DEF TableSound, ConstantsOK, Typed, AccessorsHeld, PutsInOrder, Unstored, CountRight, At,
       Holding
<1>7. ItemsWhole'
  BY <1>a, <1>b, <1>c, Orders, Counts
     DEF TableSound, ConstantsOK, Typed, AccessorsHeld, PutsInOrder, ItemsWhole, CountRight,
       HeldAt, At, Holding
<1>8. GetsServed'
  BY <1>a, <1>b, <1>c, Orders
     DEF TableSound, ConstantsOK, Typed, AccessorsHeld, EntriesExist, PutsInOrder, Unstored,
       GetsServed, Reading, Claiming, At, Holding
<1>9. ErasedAtZero'
  BY <1>a, <1>c, Orders
     DEF TableSound, ConstantsOK, Typed, AccessorsHeld, ErasedAtZero, HeldAt, At, Holding
<1>10. SizeExact'
  <2>1. \A t \in Tags : Sized(t)' <=> Sized(t)
    BY <1>a, <1>b, <1>c, Orders
       DEF TableSound, ConstantsOK, Typed, AccessorsHeld, PutsInOrder, Unstored, ErasedAtZero,
         Sized, HeldAt, At, Holding, Unsized
  <2> QED BY <2>1 DEF TableSound, SizeExact
<1> QED BY <1>1, <1>2, <1>3, <1>4, <1>5, <1>6, <1>7, <1>8, <1>9, <1>10 DEF TableSound

\* The get count is set once, to the gets to come on top of what a reset left.
LEMMA SetCountStep ==
  ASSUME ConstantsOK, TableSound, NEW th \in Callers, SetCount(th)
  PROVE  TableSound'
<1>a. tag[th] \in Tags /\ at[th] \in Labels /\ Null \notin Callers
  BY DEF SetCount, TableSound, Typed, AccessorsHeld, ConstantsOK
<1>b. /\ lock[tag[th]] = th
      /\ GetCount(tag[th]) \in Int
      /\ tag[th] \notin Metered => GetCount(tag[th]) = NO_GET_COUNT
      /\ tag[th] \in Metered => GetCount(tag[th]) \in Nat \ {0} /\ GetCount(tag[th]) = Cardinality(Readers[tag[th]])
  BY <1>a, Counts DEF SetCount, GetCount, NO_GET_COUNT, TableSound, AccessorsHeld, At, Holding
<1>c. tag[th] \in Metered =>
        /\ toRead[tag[th]] = Readers[tag[th]] /\ stale[tag[th]] \in Nat
        /\ count[tag[th]] = stale[tag[th]] \/ (count[tag[th]] = UNSET_GET_COUNT /\ stale[tag[th]] = 0)
  BY <1>a DEF SetCount, TableSound, Typed, CountsRight, Awaited, Uncounted, At
<1>d. tag[th] \in Metered => ~Awaited(tag[th])'
  BY <1>a, Orders DEF SetCount, Jump, program, TableSound, Typed, OnePutter, Awaited, Uncounted, At
<1>e. /\ CountRight(tag[th])'
      /\ tag[th] \in Metered => count'[tag[th]] > 0
  <2>1. count'[tag[th]] = IF GetCount(tag[th]) = NO_GET_COUNT \/ count[tag[th]] = UNSET_GET_COUNT
                        THEN GetCount(tag[th]) ELSE count[tag[th]] + GetCount(tag[th])
    BY <1>a DEF SetCount, Mine, TableSound, Typed
  <2>2. toRead' = toRead /\ stale' = stale /\ tag' = tag
    BY DEF SetCount, program
  <2>3. CASE tag[th] \notin Metered
    BY <1>b, <2>1, <2>2, <2>3 DEF CountRight
  <2>4. CASE tag[th] \in Metered
    <3> DEFINE c == count[tag[th]] g == Cardinality(Readers[tag[th]]) s == stale[tag[th]]
    <3>1. g \in Nat \ {0} /\ s \in Nat /\ (c = s \/ (c = -999 /\ s = 0))
      BY <1>b, <1>c, <2>4 DEF UNSET_GET_COUNT
    <3>2. count'[tag[th]] = IF g = -1000 \/ c = -999 THEN g ELSE c + g
      BY <1>b, <2>1, <2>4 DEF UNSET_GET_COUNT, NO_GET_COUNT
    <3>3. count'[tag[th]] = g + s
      <4> HIDE DEF c, g, s
      <4> QED BY <3>1, <3>2
    <3>4. toRead[tag[th]] = Readers[tag[th]]
      BY <1>c, <2>4
    <3>5. count'[tag[th]] > 0
      BY <3>1, <3>3
    <3> QED BY <2>2, <2>4, <3>3, <3>4, <3>5 DEF CountRight
  <2> QED BY <2>3, <2>4
<1>f. \A u \in Tags : u # tag[th] =>
        /\ Awaited(u)' <=> Awaited(u)
        /\ CountRight(u)' <=> CountRight(u)
        /\ count'[u] = count[u] /\ item'[u] = item[u]
  BY <1>a, Orders
     DEF SetCount, Jump, Mine, program, TableSound, Typed, CountRight, Awaited, Uncounted, At
<1> USE DEF SetCount, Jump, Mine, entry, program
<1>1. Typed'
  BY <1>a, <1>b, <1>c, <1>d, <1>e, <1>f, Orders DEF TableSound, ConstantsOK, Typed, Labels
<1>2. AccessorsHeld'
  BY <1>a, <1>b, <1>c, <1>d, <1>e, <1>f, Orders
     DEF TableSound, ConstantsOK, Typed, AccessorsHeld, At, Holding
<1>3. EntriesExist'
  BY <1>a, <1>b, <1>c, <1>d, <1>e, <1>f, Orders
     DEF TableSound, ConstantsOK, Typed, EntriesExist, AccessorsHeld, At, Holding
<1>4. OnePutter'
  BY <1>a, <1>b, <1>c, <1>d, <1>e, <1>f, Orders DEF TableSound, ConstantsOK, Typed, OnePutter, At
<1>5. CountsRight'
  <2> SUFFICES ASSUME NEW t \in Metered
               PROVE  IF Awaited(t)' THEN /\ toRead'[t] = Readers[t]
                                          /\ item'[t] = Null \/ (kind' = "hash" /\ HeldAt(t, {"count"})')
                                          /\ count'[t] = stale'[t] \/ (count'[t] = UNSET_GET_COUNT /\ stale'[t] = 0)
                      ELSE kind' = "vec" \/ item'[t] # Null => CountRight(t)'
    BY DEF CountsRight
  <2>0. tag' = tag /\ toRead' = toRead /\ stale' = stale /\ kind' = kind /\ t \in Tags
    BY DEF ConstantsOK
  <2>1. CASE t = tag[th]
    <3>1. ~Awaited(t)' /\ CountRight(t)'
      BY <1>d, <1>e, <2>0, <2>1
    <3> QED BY <3>1
  <2>2. CASE t # tag[th]
    <3>1. HeldAt(t, {"count"}) => HeldAt(t, {"count"})'
      BY <1>a, <1>b, <2>0, <2>2 DEF TableSound, Typed, AccessorsHeld, HeldAt, At, Holding
    <3>2. Awaited(t)' <=> Awaited(t)
      BY <1>f, <2>0, <2>2 DEF Awaited
    <3>3. CountRight(t)' <=> CountRight(t)
      BY <1>f, <2>0, <2>2 DEF CountRight
    <3>4. count'[t] = count[t] /\ item'[t] = item[t]
      BY <1>f, <2>0, <2>2
    <3> QED BY <2>0, <3>1, <3>2, <3>3, <3>4 DEF TableSound, CountsRight
  <2> QED BY <2>1, <2>2
<1>6. PutsInOrder'
  BY <1>a, <1>b, <1>e, <1>f, Orders
     DEF TableSound, ConstantsOK, Typed, AccessorsHeld, PutsInOrder, Unstored, At, Holding
<1>7. ItemsWhole'
  BY <1>a, <1>b, <1>e, <1>f, Orders
     DEF TableSound, ConstantsOK, Typed, AccessorsHeld, PutsInOrder, Unstored, ItemsWhole, HeldAt,
       At, Holding
<1>8. GetsServed'
  BY <1>a, <1>b, <1>c, <1>d, <1>e, <1>f, Orders
     DEF TableSound, ConstantsOK, Typed, AccessorsHeld, EntriesExist, PutsInOrder, Unstored,
       GetsServed, Reading, Claiming, At, Holding
<1>9. ErasedAtZero'
  <2>1. ASSUME NEW t \in Metered, item'[t] # Null
        PROVE  Awaited(t)' \/ count'[t] > 0 \/ HeldAt(t, {"erase", "shrink"})'
    <3>1. CASE t = tag[th]
      BY <1>e, <3>1
    <3>2. CASE t # tag[th]
      <4>1. t \in Tags /\ (HeldAt(t, {"erase", "shrink"}) => HeldAt(t, {"erase", "shrink"})')
        BY <1>a, <1>b, <3>2 DEF TableSound, ConstantsOK, Typed, HeldAt
      <4>2. Awaited(t)' <=> Awaited(t)
        BY <1>f, <3>2, <4>1 DEF Awaited
      <4>3. count'[t] = count[t] /\ item'[t] = item[t]
        BY <1>f, <3>2, <4>1
      <4> QED BY <2>1, <4>1, <4>2, <4>3 DEF TableSound, ErasedAtZero
    <3> QED BY <3>1, <3>2
  <2>2. ASSUME NEW x \in Callers, at'[x] \in {"erase", "shrink"}
        PROVE  /\ tag'[x] \in Metered /\ count'[tag'[x]] = 0
               /\ item'[tag'[x]] = Null <=> kind' = "vec" /\ at'[x] = "shrink"
    <3>1. x # th /\ at[x] \in {"erase", "shrink"} /\ tag[x] \in Tags
      BY <1>a, <2>2, Orders DEF TableSound, Typed, AccessorsHeld
    <3>2. lock[tag[x]] = x
      BY <3>1 DEF TableSound, AccessorsHeld, At, Holding
    <3>3. tag[x] # tag[th]
      BY <3>1, <3>2, <1>b
    <3> QED BY <3>1, <3>3, <1>a, <1>f DEF TableSound, ErasedAtZero
  <2> QED BY <2>1, <2>2 DEF ErasedAtZero
<1>10. SizeExact'
  <2>1. \A t \in Tags : Sized(t)' <=> Sized(t)
    BY <1>a, <1>b, <1>c, <1>d, <1>e, <1>f, Orders
       DEF TableSound, ConstantsOK, Typed, AccessorsHeld, PutsInOrder, Unstored, ErasedAtZero,
         Sized, HeldAt, At, Holding, Unsized
  <2> QED BY <2>1 DEF TableSound, SizeExact
<1> QED BY <1>1, <1>2, <1>3, <1>4, <1>5, <1>6, <1>7, <1>8, <1>9, <1>10 DEF TableSound

\* The owner is set under the accessor.
LEMMA SetOwnerStep ==
  ASSUME ConstantsOK, TableSound, NEW th \in Callers, SetOwner(th)
  PROVE  TableSound'
<1>a. tag[th] \in Tags /\ at[th] \in Labels /\ Null \notin Callers
  BY DEF SetOwner, TableSound, Typed, AccessorsHeld, ConstantsOK
<1> USE DEF SetOwner, Jump, Mine, entry, program
<1>1. Typed'
  BY <1>a, Orders DEF TableSound, ConstantsOK, Typed, Labels
<1>2. AccessorsHeld'
  BY <1>a, Orders DEF TableSound, ConstantsOK, Typed, AccessorsHeld, At, Holding
<1>3. EntriesExist'
  BY <1>a, Orders DEF TableSound, ConstantsOK, Typed, EntriesExist, AccessorsHeld, At, Holding
<1>4. OnePutter'
  BY <1>a, Orders DEF TableSound, ConstantsOK, Typed, OnePutter, At
<1>5. CountsRight'
  BY <1>a, Orders, Counts
     DEF TableSound, ConstantsOK, Typed, AccessorsHeld, OnePutter, CountsRight, CountRight,
       Awaited, Uncounted, HeldAt, At, Holding
<1>6. PutsInOrder'
  BY <1>a, Orders
     DEF TableSound, ConstantsOK, Typed, AccessorsHeld, PutsInOrder, Unstored, CountRight, At,
       Holding
<1>7. ItemsWhole'
  BY <1>a, Orders, Counts
     DEF TableSound, ConstantsOK, Typed, AccessorsHeld, PutsInOrder, ItemsWhole, CountRight,
       HeldAt, At, Holding
<1>8. GetsServed'
  BY <1>a, Orders
     DEF TableSound, ConstantsOK, Typed, AccessorsHeld, EntriesExist, PutsInOrder, Unstored,
       GetsServed, Reading, Claiming, At, Holding
<1>9. ErasedAtZero'
  BY <1>a, Orders, Counts
     DEF TableSound, ConstantsOK, Typed, AccessorsHeld, ErasedAtZero, Awaited, Uncounted, HeldAt,
       At, Holding
<1>10. SizeExact'
  <2>1. \A t \in Tags : Sized(t)' <=> Sized(t)
    BY <1>a, Orders
       DEF TableSound, ConstantsOK, Typed, AccessorsHeld, PutsInOrder, Unstored, ErasedAtZero,
         Sized, HeldAt, At, Holding, Unsized
  <2> QED BY <2>1 DEF TableSound, SizeExact
<1> QED BY <1>1, <1>2, <1>3, <1>4, <1>5, <1>6, <1>7, <1>8, <1>9, <1>10 DEF TableSound

\* The item is published: for the lock-free readers of the vector it is complete.
LEMMA StoreStep ==
  ASSUME ConstantsOK, TableSound, NEW th \in Callers, Store(th)
  PROVE  TableSound'
<1>a. tag[th] \in Tags /\ at[th] \in Labels /\ Null \notin Callers
  BY DEF Store, TableSound, Typed, AccessorsHeld, ConstantsOK
<1>b. lock[tag[th]] = th /\ item[tag[th]] = Null
  BY <1>a, Orders DEF Store, TableSound, AccessorsHeld, PutsInOrder, Unstored, At, Holding
<1>c. \A t \in Tags : Awaited(t)' <=> Awaited(t)
  BY <1>a, <1>b, Orders DEF Store, Jump, program, TableSound, Typed, Awaited, Uncounted, At
<1>d. tag[th] \in Metered => Awaited(tag[th])' \/ count'[tag[th]] > 0
  BY <1>a, Orders DEF Store, Jump, TableSound, Typed, PutsInOrder, Awaited, Uncounted, At
<1> USE DEF Store, Jump, Mine, entry, program
<1>1. Typed'
  BY <1>a, <1>b, <1>c, <1>d, Orders DEF TableSound, ConstantsOK, Typed, Labels
<1>2. AccessorsHeld'
  BY <1>a, <1>b, <1>c, <1>d, Orders DEF TableSound, ConstantsOK, Typed, AccessorsHeld, At, Holding
<1>3. EntriesExist'
  BY <1>a, <1>b, <1>c, <1>d, Orders
     DEF TableSound, ConstantsOK, Typed, EntriesExist, AccessorsHeld, At, Holding
<1>4. OnePutter'
  BY <1>a, <1>b, <1>c, <1>d, Orders DEF TableSound, ConstantsOK, Typed, OnePutter, At
<1>5. CountsRight'
  BY <1>a, <1>b, <1>c, <1>d, Orders, Counts
     DEF TableSound, ConstantsOK, Typed, AccessorsHeld, OnePutter, CountsRight, CountRight,
       Awaited, Uncounted, HeldAt, At, Holding
<1>6. PutsInOrder'
  BY <1>a, <1>b, <1>c, <1>d, Orders
     DEF TableSound, ConstantsOK, Typed, AccessorsHeld, PutsInOrder, Unstored, CountRight, At,
       Holding
<1>7. ItemsWhole'
  BY <1>a, <1>b, <1>c, <1>d, Orders, Counts
     DEF TableSound, ConstantsOK, Typed, AccessorsHeld, PutsInOrder, ItemsWhole, CountRight,
       HeldAt, At, Holding
<1>8. GetsServed'
  BY <1>a, <1>b, <1>c, <1>d, Orders
     DEF TableSound, ConstantsOK, Typed, AccessorsHeld, EntriesExist, PutsInOrder, Unstored,
       GetsServed, Reading, Claiming, At, Holding
<1>9. ErasedAtZero'
  BY <1>a, <1>b, <1>c, <1>d, Orders
     DEF TableSound, ConstantsOK, Typed, AccessorsHeld, ErasedAtZero, HeldAt, At, Holding
<1>10. SizeExact'
  <2>1. \A t \in Tags : Sized(t)' <=> Sized(t)
    BY <1>a, <1>b, <1>c, <1>d, Orders
       DEF TableSound, ConstantsOK, Typed, AccessorsHeld, PutsInOrder, Unstored, ErasedAtZero,
         Sized, HeldAt, At, Holding, Unsized
  <2> QED BY <2>1 DEF TableSound, SizeExact
<1> QED BY <1>1, <1>2, <1>3, <1>4, <1>5, <1>6, <1>7, <1>8, <1>9, <1>10 DEF TableSound

\* The item is now one of those that m_size counts.
LEMMA GrowStep ==
  ASSUME ConstantsOK, TableSound, NEW th \in Callers, Grow(th)
  PROVE  TableSound'
<1>a. tag[th] \in Tags /\ at[th] \in Labels /\ Null \notin Callers
  BY DEF Grow, TableSound, Typed, AccessorsHeld, ConstantsOK
<1> USE DEF Grow, Jump, Mine, entry, program
<1>1. Typed'
  BY <1>a, Orders DEF TableSound, ConstantsOK, Typed, Labels
<1>2. AccessorsHeld'
  BY <1>a, Orders DEF TableSound, ConstantsOK, Typed, AccessorsHeld, At, Holding
<1>3. EntriesExist'
  BY <1>a, Orders DEF TableSound, ConstantsOK, Typed, EntriesExist, AccessorsHeld, At, Holding
<1>4. OnePutter'
  BY <1>a, Orders DEF TableSound, ConstantsOK, Typed, OnePutter, At
<1>5. CountsRight'
  BY <1>a, Orders, Counts
     DEF TableSound, ConstantsOK, Typed, AccessorsHeld, OnePutter, CountsRight, CountRight,
       Awaited, Uncounted, HeldAt, At, Holding
<1>6. PutsInOrder'
  BY <1>a, Orders
     DEF TableSound, ConstantsOK, Typed, AccessorsHeld, PutsInOrder, Unstored, CountRight, At,
       Holding
<1>7. ItemsWhole'
  BY <1>a, Orders, Counts
     DEF TableSound, ConstantsOK, Typed, AccessorsHeld, PutsInOrder, ItemsWhole, CountRight,
       HeldAt, At, Holding
<1>8. GetsServed'
  BY <1>a, Orders
     DEF TableSound, ConstantsOK, Typed, AccessorsHeld, EntriesExist, PutsInOrder, Unstored,
       GetsServed, Reading, Claiming, At, Holding
<1>9. ErasedAtZero'
  BY <1>a, Orders, Counts
     DEF TableSound, ConstantsOK, Typed, AccessorsHeld, ErasedAtZero, Awaited, Uncounted, HeldAt,
       At, Holding
<1>10. SizeExact'
  <2> DEFINE S == {t \in Tags : Sized(t)}
             T == {t \in Tags : Sized(t)'}
  <2>1. \A t \in Tags : t # tag[th] => (Sized(t)' <=> Sized(t))
    BY <1>a, Orders
       DEF TableSound, ConstantsOK, Typed, AccessorsHeld, Sized, HeldAt, At, Holding, Unsized
  <2>2. ~Sized(tag[th]) /\ Sized(tag[th])'
    BY <1>a, Orders
       DEF TableSound, ConstantsOK, Typed, AccessorsHeld, PutsInOrder, Unstored, ErasedAtZero,
         Sized, HeldAt, At, Holding, Unsized
  <2>3. IsFiniteSet(S) /\ Cardinality(S) \in Nat
    <3>1. S \subseteq Tags
      OBVIOUS
    <3> QED BY <3>1, FS_Subset, FS_CardinalityType DEF ConstantsOK
  <2>4. T = S \cup {tag[th]}
    BY <1>a, <2>1, <2>2
  <2>5. Cardinality(T) = Cardinality(S) + 1
    BY <2>2, <2>3, <2>4, <1>a, FS_AddElement
  <2> QED BY <2>5 DEF TableSound, SizeExact
<1> QED BY <1>1, <1>2, <1>3, <1>4, <1>5, <1>6, <1>7, <1>8, <1>9, <1>10 DEF TableSound

\* The lock-free look of the vector finds a complete item or none.
LEMMA LookVecStep ==
  ASSUME ConstantsOK, TableSound, NEW th \in Callers, LookVec(th)
  PROVE  TableSound'
<1>a. tag[th] \in Tags /\ at[th] \in Labels /\ Null \notin Callers
  BY DEF LookVec, TableSound, Typed, AccessorsHeld, ConstantsOK
<1> USE DEF LookVec, Jump, Mine, entry, program
<1>1. Typed'
  BY <1>a, Orders DEF TableSound, ConstantsOK, Typed, Labels
<1>2. AccessorsHeld'
  BY <1>a, Orders DEF TableSound, ConstantsOK, Typed, AccessorsHeld, At, Holding
<1>3. EntriesExist'
  BY <1>a, Orders DEF TableSound, ConstantsOK, Typed, EntriesExist, AccessorsHeld, At, Holding
<1>4. OnePutter'
  BY <1>a, Orders DEF TableSound, ConstantsOK, Typed, OnePutter, At
<1>5. CountsRight'
  BY <1>a, Orders, Counts
     DEF TableSound, ConstantsOK, Typed, AccessorsHeld, OnePutter, CountsRight, CountRight,
       Awaited, Uncounted, HeldAt, At, Holding
<1>6. PutsInOrder'
  BY <1>a, Orders
     DEF TableSound, ConstantsOK, Typed, AccessorsHeld, PutsInOrder, Unstored, CountRight, At,
       Holding
<1>7. ItemsWhole'
  BY <1>a, Orders, Counts
     DEF TableSound, ConstantsOK, Typed, AccessorsHeld, PutsInOrder, ItemsWhole, CountRight,
       HeldAt, At, Holding
<1>8. GetsServed'
  BY <1>a, Orders
     DEF TableSound, ConstantsOK, Typed, AccessorsHeld, EntriesExist, PutsInOrder, Unstored,
       GetsServed, Reading, Claiming, At, Holding
<1>9. ErasedAtZero'
  BY <1>a, Orders, Counts
     DEF TableSound, ConstantsOK, Typed, AccessorsHeld, ErasedAtZero, Awaited, Uncounted, HeldAt,
       At, Holding
<1>10. SizeExact'
  <2>1. \A t \in Tags : Sized(t)' <=> Sized(t)
    BY <1>a, Orders
       DEF TableSound, ConstantsOK, Typed, AccessorsHeld, PutsInOrder, Unstored, ErasedAtZero,
         Sized, HeldAt, At, Holding, Unsized
  <2> QED BY <2>1 DEF TableSound, SizeExact
<1> QED BY <1>1, <1>2, <1>3, <1>4, <1>5, <1>6, <1>7, <1>8, <1>9, <1>10 DEF TableSound

\* The look of the hash map waits until no accessor protects the entry.
LEMMA LookHashStep ==
  ASSUME ConstantsOK, TableSound, NEW th \in Callers, LookHash(th)
  PROVE  TableSound'
<1>a. tag[th] \in Tags /\ at[th] \in Labels /\ Null \notin Callers
  BY DEF LookHash, HandOut, TableSound, Typed, AccessorsHeld, ConstantsOK
<1>b. ASSUME item[tag[th]] # Null PROVE count[tag[th]] # NO_GET_COUNT <=> tag[th] \in Metered
  BY <1>a, <1>b, Told DEF HeldAt, LookHash, Mine
<1> USE DEF LookHash, HandOut, Jump, Mine, entry, program
<1>1. Typed'
  BY <1>a, <1>b, Orders DEF TableSound, ConstantsOK, Typed, Labels
<1>2. AccessorsHeld'
  BY <1>a, <1>b, Orders DEF TableSound, ConstantsOK, Typed, AccessorsHeld, At, Holding
<1>3. EntriesExist'
  BY <1>a, <1>b, Orders DEF TableSound, ConstantsOK, Typed, EntriesExist, AccessorsHeld, At, Holding
<1>4. OnePutter'
  BY <1>a, <1>b, Orders DEF TableSound, ConstantsOK, Typed, OnePutter, At
<1>5. CountsRight'
  BY <1>a, <1>b, Orders, Counts
     DEF TableSound, ConstantsOK, Typed, AccessorsHeld, OnePutter, CountsRight, CountRight,
       Awaited, Uncounted, HeldAt, At, Holding
<1>6. PutsInOrder'
  BY <1>a, <1>b, Orders
     DEF TableSound, ConstantsOK, Typed, AccessorsHeld, PutsInOrder, Unstored, CountRight, At,
       Holding
<1>7. ItemsWhole'
  BY <1>a, <1>b, Orders, Counts
     DEF TableSound, ConstantsOK, Typed, AccessorsHeld, PutsInOrder, ItemsWhole, CountRight,
       HeldAt, At, Holding
<1>8. GetsServed'
  BY <1>a, <1>b, Orders
     DEF TableSound, ConstantsOK, Typed, AccessorsHeld, EntriesExist, PutsInOrder, Unstored,
       GetsServed, Reading, Claiming, At, Holding
<1>9. ErasedAtZero'
  BY <1>a, <1>b, Orders, Counts
     DEF TableSound, ConstantsOK, Typed, AccessorsHeld, ErasedAtZero, Awaited, Uncounted, HeldAt,
       At, Holding
<1>10. SizeExact'
  <2>1. \A t \in Tags : Sized(t)' <=> Sized(t)
    BY <1>a, <1>b, Orders
       DEF TableSound, ConstantsOK, Typed, AccessorsHeld, PutsInOrder, Unstored, ErasedAtZero,
         Sized, HeldAt, At, Holding, Unsized
  <2> QED BY <2>1 DEF TableSound, SizeExact
<1> QED BY <1>1, <1>2, <1>3, <1>4, <1>5, <1>6, <1>7, <1>8, <1>9, <1>10 DEF TableSound

\* The second look has the accessor.
LEMMA LookLockedStep ==
  ASSUME ConstantsOK, TableSound, NEW th \in Callers, LookLocked(th)
  PROVE  TableSound'
<1>a. tag[th] \in Tags /\ at[th] \in Labels /\ Null \notin Callers
  BY DEF LookLocked, Acquire, TableSound, Typed, AccessorsHeld, ConstantsOK
<1> USE DEF LookLocked, Acquire, Jump, Mine, entry, program
<1>1. Typed'
  BY <1>a, Orders DEF TableSound, ConstantsOK, Typed, Labels
<1>2. AccessorsHeld'
  BY <1>a, Orders DEF TableSound, ConstantsOK, Typed, AccessorsHeld, At, Holding
<1>3. EntriesExist'
  BY <1>a, Orders DEF TableSound, ConstantsOK, Typed, EntriesExist, AccessorsHeld, At, Holding
<1>4. OnePutter'
  BY <1>a, Orders DEF TableSound, ConstantsOK, Typed, OnePutter, At
<1>5. CountsRight'
  BY <1>a, Orders, Counts
     DEF TableSound, ConstantsOK, Typed, AccessorsHeld, OnePutter, CountsRight, CountRight,
       Awaited, Uncounted, HeldAt, At, Holding
<1>6. PutsInOrder'
  BY <1>a, Orders
     DEF TableSound, ConstantsOK, Typed, AccessorsHeld, PutsInOrder, Unstored, CountRight, At,
       Holding
<1>7. ItemsWhole'
  BY <1>a, Orders, Counts
     DEF TableSound, ConstantsOK, Typed, AccessorsHeld, PutsInOrder, ItemsWhole, CountRight,
       HeldAt, At, Holding
<1>8. GetsServed'
  BY <1>a, Orders
     DEF TableSound, ConstantsOK, Typed, AccessorsHeld, EntriesExist, PutsInOrder, Unstored,
       GetsServed, Reading, Claiming, At, Holding
<1>9. ErasedAtZero'
  BY <1>a, Orders, Counts
     DEF TableSound, ConstantsOK, Typed, AccessorsHeld, ErasedAtZero, Awaited, Uncounted, HeldAt,
       At, Holding
<1>10. SizeExact'
  <2>1. \A t \in Tags : Sized(t)' <=> Sized(t)
    BY <1>a, Orders
       DEF TableSound, ConstantsOK, Typed, AccessorsHeld, PutsInOrder, Unstored, ErasedAtZero,
         Sized, HeldAt, At, Holding, Unsized
  <2> QED BY <2>1 DEF TableSound, SizeExact
<1> QED BY <1>1, <1>2, <1>3, <1>4, <1>5, <1>6, <1>7, <1>8, <1>9, <1>10 DEF TableSound

\* The item that was found stays when the accessor is given up: its get is to come.
LEMMA LookReleaseStep ==
  ASSUME ConstantsOK, TableSound, NEW th \in Callers, LookRelease(th)
  PROVE  TableSound'
<1>a. tag[th] \in Tags /\ at[th] \in Labels /\ Null \notin Callers
  BY DEF LookRelease, Unlock, HandOut, TableSound, Typed, AccessorsHeld, ConstantsOK
<1>b. count[tag[th]] # NO_GET_COUNT <=> tag[th] \in Metered
  BY <1>a, Told
     DEF HeldAt, LookRelease, TableSound, AccessorsHeld, At, Holding, GetsServed, Claiming
<1>c. \A t \in Tags : Awaited(t)' <=> Awaited(t)
  BY <1>a, Orders DEF LookRelease, HandOut, Jump, program, TableSound, Typed, Awaited, Uncounted, At
<1> USE DEF LookRelease, Unlock, HandOut, Jump, Mine, entry, program
<1>1. Typed'
  BY <1>a, <1>b, <1>c, Orders DEF TableSound, ConstantsOK, Typed, Labels
<1>2. AccessorsHeld'
  BY <1>a, <1>b, <1>c, Orders DEF TableSound, ConstantsOK, Typed, AccessorsHeld, At, Holding
<1>3. EntriesExist'
  BY <1>a, <1>b, <1>c, Orders
     DEF TableSound, ConstantsOK, Typed, EntriesExist, AccessorsHeld, At, Holding
<1>4. OnePutter'
  BY <1>a, <1>b, <1>c, Orders DEF TableSound, ConstantsOK, Typed, OnePutter, At
<1>5. CountsRight'
  BY <1>a, <1>c, Orders
     DEF TableSound, ConstantsOK, Typed, AccessorsHeld, CountsRight, CountRight, HeldAt, At, Holding
<1>6. PutsInOrder'
  BY <1>a, <1>b, <1>c, Orders
     DEF TableSound, ConstantsOK, Typed, AccessorsHeld, PutsInOrder, Unstored, CountRight, At,
       Holding
<1>7. ItemsWhole'
  BY <1>a, <1>b, <1>c, Orders, Counts
     DEF TableSound, ConstantsOK, Typed, AccessorsHeld, PutsInOrder, ItemsWhole, CountRight,
       HeldAt, At, Holding
<1>8. GetsServed'
  BY <1>a, <1>b, <1>c, Orders
     DEF TableSound, ConstantsOK, Typed, AccessorsHeld, EntriesExist, PutsInOrder, Unstored,
       GetsServed, Reading, Claiming, At, Holding
<1>9. ErasedAtZero'
  BY <1>a, <1>b, <1>c, Orders, Counts
     DEF TableSound, ConstantsOK, Typed, AccessorsHeld, ErasedAtZero, Awaited, Uncounted, HeldAt,
       At, Holding
<1>10. SizeExact'
  <2>1. \A t \in Tags : Sized(t)' <=> Sized(t)
    BY <1>a, <1>b, <1>c, Orders
       DEF TableSound, ConstantsOK, Typed, AccessorsHeld, PutsInOrder, Unstored, ErasedAtZero,
         Sized, HeldAt, At, Holding, Unsized
  <2> QED BY <2>1 DEF TableSound, SizeExact
<1> QED BY <1>1, <1>2, <1>3, <1>4, <1>5, <1>6, <1>7, <1>8, <1>9, <1>10 DEF TableSound

\* The lock-free second read returns the item that was seen before.
LEMMA RereadStep ==
  ASSUME ConstantsOK, TableSound, NEW th \in Callers, Reread(th)
  PROVE  TableSound'
<1>a. tag[th] \in Tags /\ at[th] \in Labels /\ Null \notin Callers
  BY DEF Reread, TableSound, Typed, AccessorsHeld, ConstantsOK
<1> USE DEF Reread, Jump, Mine, entry, program
<1>1. Typed'
  BY <1>a, Orders DEF TableSound, ConstantsOK, Typed, Labels
<1>2. AccessorsHeld'
  BY <1>a, Orders DEF TableSound, ConstantsOK, Typed, AccessorsHeld, At, Holding
<1>3. EntriesExist'
  BY <1>a, Orders DEF TableSound, ConstantsOK, Typed, EntriesExist, AccessorsHeld, At, Holding
<1>4. OnePutter'
  BY <1>a, Orders DEF TableSound, ConstantsOK, Typed, OnePutter, At
<1>5. CountsRight'
  BY <1>a, Orders, Counts
     DEF TableSound, ConstantsOK, Typed, AccessorsHeld, OnePutter, CountsRight, CountRight,
       Awaited, Uncounted, HeldAt, At, Holding
<1>6. PutsInOrder'
  BY <1>a, Orders
     DEF TableSound, ConstantsOK, Typed, AccessorsHeld, PutsInOrder, Unstored, CountRight, At,
       Holding
<1>7. ItemsWhole'
  BY <1>a, Orders, Counts
     DEF TableSound, ConstantsOK, Typed, AccessorsHeld, PutsInOrder, ItemsWhole, CountRight,
       HeldAt, At, Holding
<1>8. GetsServed'
  BY <1>a, Orders
     DEF TableSound, ConstantsOK, Typed, AccessorsHeld, EntriesExist, PutsInOrder, Unstored,
       GetsServed, Reading, Claiming, At, Holding
<1>9. ErasedAtZero'
  BY <1>a, Orders, Counts
     DEF TableSound, ConstantsOK, Typed, AccessorsHeld, ErasedAtZero, Awaited, Uncounted, HeldAt,
       At, Holding
<1>10. SizeExact'
  <2>1. \A t \in Tags : Sized(t)' <=> Sized(t)
    BY <1>a, Orders
       DEF TableSound, ConstantsOK, Typed, AccessorsHeld, PutsInOrder, Unstored, ErasedAtZero,
         Sized, HeldAt, At, Holding, Unsized
  <2> QED BY <2>1 DEF TableSound, SizeExact
<1> QED BY <1>1, <1>2, <1>3, <1>4, <1>5, <1>6, <1>7, <1>8, <1>9, <1>10 DEF TableSound

\* The get count that is read after the item tells whether it is counted.
LEMMA RecountStep ==
  ASSUME ConstantsOK, TableSound, NEW th \in Callers, Recount(th)
  PROVE  TableSound'
<1>a. tag[th] \in Tags /\ at[th] \in Labels /\ Null \notin Callers
  BY DEF Recount, HandOut, TableSound, Typed, AccessorsHeld, ConstantsOK
<1>b. count[tag[th]] # NO_GET_COUNT <=> tag[th] \in Metered
  BY <1>a, Told DEF Recount, TableSound, GetsServed, Claiming
<1> USE DEF Recount, HandOut, Jump, Mine, entry, program
<1>1. Typed'
  BY <1>a, <1>b, Orders DEF TableSound, ConstantsOK, Typed, Labels
<1>2. AccessorsHeld'
  BY <1>a, <1>b, Orders DEF TableSound, ConstantsOK, Typed, AccessorsHeld, At, Holding
<1>3. EntriesExist'
  BY <1>a, <1>b, Orders DEF TableSound, ConstantsOK, Typed, EntriesExist, AccessorsHeld, At, Holding
<1>4. OnePutter'
  BY <1>a, <1>b, Orders DEF TableSound, ConstantsOK, Typed, OnePutter, At
<1>5. CountsRight'
  BY <1>a, <1>b, Orders, Counts
     DEF TableSound, ConstantsOK, Typed, AccessorsHeld, OnePutter, CountsRight, CountRight,
       Awaited, Uncounted, HeldAt, At, Holding
<1>6. PutsInOrder'
  BY <1>a, <1>b, Orders
     DEF TableSound, ConstantsOK, Typed, AccessorsHeld, PutsInOrder, Unstored, CountRight, At,
       Holding
<1>7. ItemsWhole'
  BY <1>a, <1>b, Orders, Counts
     DEF TableSound, ConstantsOK, Typed, AccessorsHeld, PutsInOrder, ItemsWhole, CountRight,
       HeldAt, At, Holding
<1>8. GetsServed'
  BY <1>a, <1>b, Orders
     DEF TableSound, ConstantsOK, Typed, AccessorsHeld, EntriesExist, PutsInOrder, Unstored,
       GetsServed, Reading, Claiming, At, Holding
<1>9. ErasedAtZero'
  BY <1>a, <1>b, Orders, Counts
     DEF TableSound, ConstantsOK, Typed, AccessorsHeld, ErasedAtZero, Awaited, Uncounted, HeldAt,
       At, Holding
<1>10. SizeExact'
  <2>1. \A t \in Tags : Sized(t)' <=> Sized(t)
    BY <1>a, <1>b, Orders
       DEF TableSound, ConstantsOK, Typed, AccessorsHeld, PutsInOrder, Unstored, ErasedAtZero,
         Sized, HeldAt, At, Holding, Unsized
  <2> QED BY <2>1 DEF TableSound, SizeExact
<1> QED BY <1>1, <1>2, <1>3, <1>4, <1>5, <1>6, <1>7, <1>8, <1>9, <1>10 DEF TableSound

\* The caller is done with an item that is not counted, or goes on to drop it.
LEMMA UseStep ==
  ASSUME ConstantsOK, TableSound, NEW th \in Callers, Use(th)
  PROVE  TableSound'
<1>a. tag[th] \in Tags /\ at[th] \in Labels /\ Null \notin Callers
  BY DEF Use, Return, TableSound, Typed, AccessorsHeld, ConstantsOK
<1> USE DEF Use, Return, Jump, Mine, entry, program
<1>1. Typed'
  BY <1>a, Orders DEF TableSound, ConstantsOK, Typed, Labels
<1>2. AccessorsHeld'
  BY <1>a, Orders DEF TableSound, ConstantsOK, Typed, AccessorsHeld, At, Holding
<1>3. EntriesExist'
  BY <1>a, Orders DEF TableSound, ConstantsOK, Typed, EntriesExist, AccessorsHeld, At, Holding
<1>4. OnePutter'
  BY <1>a, Orders DEF TableSound, ConstantsOK, Typed, OnePutter, At
<1>5. CountsRight'
  BY SMTT(20), <1>a, Orders, Counts
     DEF TableSound, ConstantsOK, Typed, AccessorsHeld, OnePutter, CountsRight, CountRight,
       Awaited, Uncounted, HeldAt, At, Holding
<1>6. PutsInOrder'
  BY <1>a, Orders
     DEF TableSound, ConstantsOK, Typed, AccessorsHeld, PutsInOrder, Unstored, CountRight, At,
       Holding
<1>7. ItemsWhole'
  BY <1>a, Orders, Counts
     DEF TableSound, ConstantsOK, Typed, AccessorsHeld, PutsInOrder, ItemsWhole, CountRight,
       HeldAt, At, Holding
<1>8. GetsServed'
  BY <1>a, Orders
     DEF TableSound, ConstantsOK, Typed, AccessorsHeld, EntriesExist, PutsInOrder, Unstored,
       GetsServed, Reading, Claiming, At, Holding
<1>9. ErasedAtZero'
  BY <1>a, Orders, Counts
     DEF TableSound, ConstantsOK, Typed, AccessorsHeld, ErasedAtZero, Awaited, Uncounted, HeldAt,
       At, Holding
<1>10. SizeExact'
  <2>1. \A t \in Tags : Sized(t)' <=> Sized(t)
    BY <1>a, Orders
       DEF TableSound, ConstantsOK, Typed, AccessorsHeld, PutsInOrder, Unstored, ErasedAtZero,
         Sized, HeldAt, At, Holding, Unsized
  <2> QED BY <2>1 DEF TableSound, SizeExact
<1> QED BY <1>1, <1>2, <1>3, <1>4, <1>5, <1>6, <1>7, <1>8, <1>9, <1>10 DEF TableSound

\* A get of the environment holds the accessor while it looks.
LEMMA GetAndStep ==
  ASSUME ConstantsOK, TableSound, NEW th \in Callers, GetAnd(th)
  PROVE  TableSound'
<1>a. tag[th] \in Tags /\ at[th] \in Labels /\ Null \notin Callers
  BY DEF GetAnd, Acquire, TableSound, Typed, AccessorsHeld, ConstantsOK
<1> USE DEF GetAnd, Acquire, Jump, Mine, entry, program
<1>1. Typed'
  BY <1>a, Orders DEF TableSound, ConstantsOK, Typed, Labels
<1>2. AccessorsHeld'
  BY <1>a, Orders DEF TableSound, ConstantsOK, Typed, AccessorsHeld, At, Holding
<1>3. EntriesExist'
  BY <1>a, Orders DEF TableSound, ConstantsOK, Typed, EntriesExist, AccessorsHeld, At, Holding
<1>4. OnePutter'
  BY <1>a, Orders DEF TableSound, ConstantsOK, Typed, OnePutter, At
<1>5. CountsRight'
  BY <1>a, Orders, Counts
     DEF TableSound, ConstantsOK, Typed, AccessorsHeld, OnePutter, CountsRight, CountRight,
       Awaited, Uncounted, HeldAt, At, Holding
<1>6. PutsInOrder'
  BY <1>a, Orders
     DEF TableSound, ConstantsOK, Typed, AccessorsHeld, PutsInOrder, Unstored, CountRight, At,
       Holding
<1>7. ItemsWhole'
  BY <1>a, Orders, Counts
     DEF TableSound, ConstantsOK, Typed, AccessorsHeld, PutsInOrder, ItemsWhole, CountRight,
       HeldAt, At, Holding
<1>8. GetsServed'
  BY <1>a, Orders
     DEF TableSound, ConstantsOK, Typed, AccessorsHeld, EntriesExist, PutsInOrder, Unstored,
       GetsServed, Reading, Claiming, At, Holding
<1>9. ErasedAtZero'
  BY <1>a, Orders, Counts
     DEF TableSound, ConstantsOK, Typed, AccessorsHeld, ErasedAtZero, Awaited, Uncounted, HeldAt,
       At, Holding
<1>10. SizeExact'
  <2>1. \A t \in Tags : Sized(t)' <=> Sized(t)
    BY <1>a, Orders
       DEF TableSound, ConstantsOK, Typed, AccessorsHeld, PutsInOrder, Unstored, ErasedAtZero,
         Sized, HeldAt, At, Holding, Unsized
  <2> QED BY <2>1 DEF TableSound, SizeExact
<1> QED BY <1>1, <1>2, <1>3, <1>4, <1>5, <1>6, <1>7, <1>8, <1>9, <1>10 DEF TableSound

\* A drop finds the entry, because its own get keeps the count positive.
LEMMA GetAccessorStep ==
  ASSUME ConstantsOK, TableSound, NEW th \in Callers, GetAccessor(th)
  PROVE  TableSound'
<1>a. tag[th] \in Tags /\ at[th] \in Labels /\ Null \notin Callers
  BY DEF GetAccessor, HasContent, TableSound, Typed, AccessorsHeld, ConstantsOK
<1> USE DEF GetAccessor, HasContent, Jump, Mine, entry, program
<1>1. Typed'
  BY <1>a, Orders DEF TableSound, ConstantsOK, Typed, Labels
<1>2. AccessorsHeld'
  BY <1>a, Orders DEF TableSound, ConstantsOK, Typed, AccessorsHeld, At, Holding
<1>3. EntriesExist'
  BY <1>a, Orders DEF TableSound, ConstantsOK, Typed, EntriesExist, AccessorsHeld, At, Holding
<1>4. OnePutter'
  BY <1>a, Orders DEF TableSound, ConstantsOK, Typed, OnePutter, At
<1>5. CountsRight'
  BY SMTT(20), <1>a, Orders, Counts
     DEF TableSound, ConstantsOK, Typed, AccessorsHeld, OnePutter, CountsRight, CountRight,
       Awaited, Uncounted, HeldAt, At, Holding
<1>6. PutsInOrder'
  BY <1>a, Orders
     DEF TableSound, ConstantsOK, Typed, AccessorsHeld, PutsInOrder, Unstored, CountRight, At,
       Holding
<1>7. ItemsWhole'
  BY <1>a, Orders, Counts
     DEF TableSound, ConstantsOK, Typed, AccessorsHeld, PutsInOrder, ItemsWhole, CountRight,
       HeldAt, At, Holding
<1>8. GetsServed'
  BY <1>a, Orders
     DEF TableSound, ConstantsOK, Typed, AccessorsHeld, EntriesExist, PutsInOrder, Unstored,
       GetsServed, Reading, Claiming, At, Holding
<1>9. ErasedAtZero'
  BY <1>a, Orders, Counts
     DEF TableSound, ConstantsOK, Typed, AccessorsHeld, ErasedAtZero, Awaited, Uncounted, HeldAt,
       At, Holding
<1>10. SizeExact'
  <2>1. \A t \in Tags : Sized(t)' <=> Sized(t)
    BY <1>a, Orders
       DEF TableSound, ConstantsOK, Typed, AccessorsHeld, PutsInOrder, Unstored, ErasedAtZero,
         Sized, HeldAt, At, Holding, Unsized
  <2> QED BY <2>1 DEF TableSound, SizeExact
<1> QED BY <1>1, <1>2, <1>3, <1>4, <1>5, <1>6, <1>7, <1>8, <1>9, <1>10 DEF TableSound

\* A drop takes one from the count, and whoever takes the last one erases.
LEMMA DecrementStep ==
  ASSUME ConstantsOK, TableSound, NEW th \in Callers, Decrement(th)
  PROVE  TableSound'
<1>a. tag[th] \in Tags /\ at[th] \in Labels /\ Null \notin Callers
  BY DEF Decrement, TableSound, Typed, AccessorsHeld, ConstantsOK
<1>b. /\ tag[th] \in Metered /\ lock[tag[th]] = th /\ item[tag[th]] # Null
      /\ th \in toRead[tag[th]] /\ toRead[tag[th]] \in SUBSET Callers
  BY <1>a
     DEF Decrement, TableSound, Typed, AccessorsHeld, GetsServed, Reading, Claiming, At, Holding
<1>c. /\ ~Awaited(tag[th]) /\ stale[tag[th]] \in Nat
      /\ count[tag[th]] = Cardinality(toRead[tag[th]]) + stale[tag[th]]
  BY <1>a, <1>b, Told DEF Decrement, HeldAt
<1>d. /\ Cardinality(toRead[tag[th]]) \in Nat \ {0}
      /\ Cardinality(toRead[tag[th]] \ {th}) = Cardinality(toRead[tag[th]]) - 1
  BY <1>b, Counts, FS_RemoveElement
<1>e. /\ CountRight(tag[th])' /\ count'[tag[th]] = count[tag[th]] - 1
      /\ count[tag[th]] - 1 >= 0
  BY <1>a, <1>b, <1>c, <1>d DEF Decrement, Mine, TableSound, Typed, CountRight
<1>f. /\ \A u \in Tags : Awaited(u)' <=> Awaited(u)
      /\ \A u \in Tags : u # tag[th] =>
        /\ CountRight(u)' <=> CountRight(u)
        /\ count'[u] = count[u] /\ toRead'[u] = toRead[u]
  BY <1>a, Orders DEF Decrement, Jump, Mine, TableSound, Typed, CountRight, Awaited, Uncounted, At
<1> USE DEF Decrement, Jump, Mine, entry, program
<1>1. Typed'
  BY <1>a, <1>b, <1>c, <1>d, <1>e, <1>f, Orders DEF TableSound, ConstantsOK, Typed, Labels
<1>2. AccessorsHeld'
  BY <1>a, <1>b, <1>c, <1>d, <1>e, <1>f, Orders
     DEF TableSound, ConstantsOK, Typed, AccessorsHeld, At, Holding
<1>3. EntriesExist'
  BY <1>a, <1>b, <1>c, <1>d, <1>e, <1>f, Orders
     DEF TableSound, ConstantsOK, Typed, EntriesExist, AccessorsHeld, At, Holding
<1>4. OnePutter'
  BY <1>a, <1>b, <1>c, <1>d, <1>e, <1>f, Orders DEF TableSound, ConstantsOK, Typed, OnePutter, At
<1>5. CountsRight'
  BY <1>a, <1>b, <1>c, <1>e, <1>f, Orders DEF TableSound, ConstantsOK, Typed, CountsRight, HeldAt
<1>6. PutsInOrder'
  BY <1>a, <1>b, <1>e, <1>f, Orders
     DEF TableSound, ConstantsOK, Typed, AccessorsHeld, PutsInOrder, Unstored, At, Holding
<1>7. ItemsWhole'
  BY <1>a, <1>b, <1>e, <1>f, Orders
     DEF TableSound, ConstantsOK, Typed, AccessorsHeld, ItemsWhole, HeldAt, At, Holding
<1>8. GetsServed'
  BY <1>a, <1>b, <1>c, <1>d, <1>e, <1>f, Orders
     DEF TableSound, ConstantsOK, Typed, AccessorsHeld, EntriesExist, PutsInOrder, Unstored,
       GetsServed, Reading, Claiming, At, Holding
<1>9. ErasedAtZero'
  BY <1>a, <1>b, <1>c, <1>e, <1>f, Orders
     DEF TableSound, ConstantsOK, Typed, AccessorsHeld, ErasedAtZero, HeldAt, At, Holding
<1>10. SizeExact'
  <2>1. \A t \in Tags : Sized(t)' <=> Sized(t)
    <3>1. /\ UNCHANGED <<item, lock, kind>> /\ \A u \in Callers : u # th => at'[u] = at[u]
          /\ at[th] = "decrement" /\ kind \in {"vec", "hash"}
          /\ at'[th] \in {"release", IF kind = "vec" THEN "erase" ELSE "shrink"}
      BY <1>a, Orders DEF TableSound, Typed
    <3> QED BY <3>1 DEF Sized, HeldAt, Unsized
  <2> QED BY <2>1 DEF TableSound, SizeExact
<1> QED BY <1>1, <1>2, <1>3, <1>4, <1>5, <1>6, <1>7, <1>8, <1>9, <1>10 DEF TableSound

\* erase of the vector: nobody is left who would read the item.
LEMMA EraseVecStep ==
  ASSUME ConstantsOK, TableSound, NEW th \in Callers, EraseVec(th), UNCHANGED <<kind, size, program>>
  PROVE  TableSound'
<1>a. tag[th] \in Tags /\ at[th] \in Labels /\ Null \notin Callers
  BY DEF EraseVec, TableSound, Typed, AccessorsHeld, ConstantsOK
<1>b. /\ tag[th] \in Metered /\ lock[tag[th]] = th /\ item[tag[th]] # Null /\ ~Awaited(tag[th])
      /\ toRead[tag[th]] = {}
      /\ \A x \in Callers : at[x] \in Reading => tag[x] # tag[th]
  BY <1>a, NoReaderLeft DEF EraseVec
<1> USE DEF EraseVec, Jump, Mine, entry, program
<1>1. Typed'
  BY <1>a, <1>b, Orders DEF TableSound, ConstantsOK, Typed, Labels
<1>2. AccessorsHeld'
  BY <1>a, <1>b, Orders DEF TableSound, ConstantsOK, Typed, AccessorsHeld, At, Holding
<1>3. EntriesExist'
  BY <1>a, <1>b, Orders DEF TableSound, ConstantsOK, Typed, EntriesExist, AccessorsHeld, At, Holding
<1>4. OnePutter'
  BY <1>a, <1>b, Orders DEF TableSound, ConstantsOK, Typed, OnePutter, At
<1>5. CountsRight'
  BY <1>a, <1>b, Orders, Counts
     DEF TableSound, ConstantsOK, Typed, AccessorsHeld, OnePutter, CountsRight, CountRight,
       Awaited, Uncounted, HeldAt, At, Holding
<1>6. PutsInOrder'
  BY <1>a, <1>b, Orders
     DEF TableSound, ConstantsOK, Typed, AccessorsHeld, PutsInOrder, Unstored, CountRight, At,
       Holding
<1>7. ItemsWhole'
  BY <1>a, <1>b, Orders, Counts
     DEF TableSound, ConstantsOK, Typed, AccessorsHeld, PutsInOrder, ItemsWhole, CountRight,
       HeldAt, At, Holding
<1>8. GetsServed'
  BY <1>a, <1>b, Orders
     DEF TableSound, ConstantsOK, Typed, AccessorsHeld, EntriesExist, PutsInOrder, Unstored,
       GetsServed, Reading, Claiming, At, Holding
<1>9. ErasedAtZero'
  BY <1>a, <1>b, Orders, Counts
     DEF TableSound, ConstantsOK, Typed, AccessorsHeld, ErasedAtZero, Awaited, Uncounted, HeldAt,
       At, Holding
<1>10. SizeExact'
  <2>1. \A t \in Tags : Sized(t)' <=> Sized(t)
    BY <1>a, <1>b, Orders
       DEF TableSound, ConstantsOK, Typed, AccessorsHeld, PutsInOrder, Unstored, ErasedAtZero,
         Sized, HeldAt, At, Holding, Unsized
  <2> QED BY <2>1 DEF TableSound, SizeExact
<1> QED BY <1>1, <1>2, <1>3, <1>4, <1>5, <1>6, <1>7, <1>8, <1>9, <1>10 DEF TableSound

\* erase of the hash map gives up the accessor together with the entry.
LEMMA EraseHashStep ==
  ASSUME ConstantsOK, TableSound, NEW th \in Callers, EraseHash(th), UNCHANGED <<kind, size, program>>
  PROVE  TableSound'
<1>a. tag[th] \in Tags /\ at[th] \in Labels /\ Null \notin Callers
  BY DEF EraseHash, Unlock, Return, UNSET_GET_COUNT, TableSound, Typed, AccessorsHeld, ConstantsOK
<1>b. /\ tag[th] \in Metered /\ lock[tag[th]] = th /\ item[tag[th]] # Null /\ ~Awaited(tag[th])
      /\ toRead[tag[th]] = {}
      /\ \A x \in Callers : at[x] \in Reading => tag[x] # tag[th]
  BY <1>a, NoReaderLeft DEF EraseHash
<1> USE DEF EraseHash, Unlock, Return, UNSET_GET_COUNT, Jump, Mine, entry, program
<1>1. Typed'
  BY <1>a, <1>b, Orders DEF TableSound, ConstantsOK, Typed, Labels
<1>2. AccessorsHeld'
  BY <1>a, <1>b, Orders DEF TableSound, ConstantsOK, Typed, AccessorsHeld, At, Holding
<1>3. EntriesExist'
  BY <1>a, <1>b, Orders DEF TableSound, ConstantsOK, Typed, EntriesExist, AccessorsHeld, At, Holding
<1>4. OnePutter'
  BY <1>a, <1>b, Orders DEF TableSound, ConstantsOK, Typed, OnePutter, At
<1>5. CountsRight'
  BY <1>a, <1>b, Orders, Counts
     DEF TableSound, ConstantsOK, Typed, AccessorsHeld, OnePutter, CountsRight, CountRight,
       Awaited, Uncounted, HeldAt, At, Holding
<1>6. PutsInOrder'
  BY <1>a, <1>b, Orders
     DEF TableSound, ConstantsOK, Typed, AccessorsHeld, PutsInOrder, Unstored, CountRight, At,
       Holding
<1>7. ItemsWhole'
  BY <1>a, <1>b, Orders, Counts
     DEF TableSound, ConstantsOK, Typed, AccessorsHeld, PutsInOrder, ItemsWhole, CountRight,
       HeldAt, At, Holding
<1>8. GetsServed'
  BY <1>a, <1>b, Orders
     DEF TableSound, ConstantsOK, Typed, AccessorsHeld, EntriesExist, PutsInOrder, Unstored,
       GetsServed, Reading, Claiming, At, Holding
<1>9. ErasedAtZero'
  BY <1>a, <1>b, Orders, Counts
     DEF TableSound, ConstantsOK, Typed, AccessorsHeld, ErasedAtZero, Awaited, Uncounted, HeldAt,
       At, Holding
<1>10. SizeExact'
  <2>1. \A t \in Tags : Sized(t)' <=> Sized(t)
    BY <1>a, <1>b, Orders
       DEF TableSound, ConstantsOK, Typed, AccessorsHeld, PutsInOrder, Unstored, ErasedAtZero,
         Sized, HeldAt, At, Holding, Unsized
  <2> QED BY <2>1 DEF TableSound, SizeExact
<1> QED BY <1>1, <1>2, <1>3, <1>4, <1>5, <1>6, <1>7, <1>8, <1>9, <1>10 DEF TableSound

\* m_size loses the item that is being erased.
LEMMA ShrinkStep ==
  ASSUME ConstantsOK, TableSound, NEW th \in Callers, Shrink(th)
  PROVE  TableSound'
<1>a. tag[th] \in Tags /\ at[th] \in Labels /\ Null \notin Callers
  BY DEF Shrink, TableSound, Typed, AccessorsHeld, ConstantsOK
<1> USE DEF Shrink, Jump, Mine, entry, program
<1>1. Typed'
  BY <1>a, Orders DEF TableSound, ConstantsOK, Typed, Labels
<1>2. AccessorsHeld'
  BY <1>a, Orders DEF TableSound, ConstantsOK, Typed, AccessorsHeld, At, Holding
<1>3. EntriesExist'
  BY <1>a, Orders DEF TableSound, ConstantsOK, Typed, EntriesExist, AccessorsHeld, At, Holding
<1>4. OnePutter'
  BY <1>a, Orders DEF TableSound, ConstantsOK, Typed, OnePutter, At
<1>5. CountsRight'
  BY <1>a, Orders, Counts
     DEF TableSound, ConstantsOK, Typed, AccessorsHeld, OnePutter, CountsRight, CountRight,
       Awaited, Uncounted, HeldAt, At, Holding
<1>6. PutsInOrder'
  BY <1>a, Orders
     DEF TableSound, ConstantsOK, Typed, AccessorsHeld, PutsInOrder, Unstored, CountRight, At,
       Holding
<1>7. ItemsWhole'
  BY <1>a, Orders, Counts
     DEF TableSound, ConstantsOK, Typed, AccessorsHeld, PutsInOrder, ItemsWhole, CountRight,
       HeldAt, At, Holding
<1>8. GetsServed'
  BY <1>a, Orders
     DEF TableSound, ConstantsOK, Typed, AccessorsHeld, EntriesExist, PutsInOrder, Unstored,
       GetsServed, Reading, Claiming, At, Holding
<1>9. ErasedAtZero'
  BY <1>a, Orders, Counts
     DEF TableSound, ConstantsOK, Typed, AccessorsHeld, ErasedAtZero, Awaited, Uncounted, HeldAt,
       At, Holding
<1>10. SizeExact'
  <2> DEFINE S == {t \in Tags : Sized(t)}
             T == {t \in Tags : Sized(t)'}
  <2>1. \A t \in Tags : t # tag[th] => (Sized(t)' <=> Sized(t))
    BY <1>a, Orders
       DEF TableSound, ConstantsOK, Typed, AccessorsHeld, Sized, HeldAt, At, Holding, Unsized
  <2>2. Sized(tag[th]) /\ ~Sized(tag[th])'
    BY <1>a, Orders
       DEF TableSound, ConstantsOK, Typed, AccessorsHeld, PutsInOrder, Unstored, ErasedAtZero,
         Sized, HeldAt, At, Holding, Unsized
  <2>3. IsFiniteSet(S) /\ Cardinality(S) \in Nat
    <3>1. S \subseteq Tags
      OBVIOUS
    <3> QED BY <3>1, FS_Subset, FS_CardinalityType DEF ConstantsOK
  <2>4. T = S \ {tag[th]}
    BY <1>a, <2>1, <2>2
  <2>5. Cardinality(T) = Cardinality(S) - 1
    BY <2>2, <2>3, <2>4, <1>a, FS_RemoveElement
  <2> QED BY <2>5 DEF TableSound, SizeExact
<1> QED BY <1>1, <1>2, <1>3, <1>4, <1>5, <1>6, <1>7, <1>8, <1>9, <1>10 DEF TableSound

\* The accessor is given up.
LEMMA ReleaseStep ==
  ASSUME ConstantsOK, TableSound, NEW th \in Callers, Release(th)
  PROVE  TableSound'
<1>a. tag[th] \in Tags /\ at[th] \in Labels /\ Null \notin Callers
  BY DEF Release, Unlock, Return, TableSound, Typed, AccessorsHeld, ConstantsOK
<1>c. \A t \in Tags : Awaited(t)' <=> Awaited(t)
  BY <1>a, Orders DEF Release, Jump, Return, program, TableSound, Typed, Awaited, Uncounted, At
<1> USE DEF Release, Unlock, Return, Jump, Mine, entry, program
<1>1. Typed'
  BY <1>a, <1>c, Orders DEF TableSound, ConstantsOK, Typed, Labels
<1>2. AccessorsHeld'
  BY <1>a, <1>c, Orders DEF TableSound, ConstantsOK, Typed, AccessorsHeld, At, Holding
<1>3. EntriesExist'
  BY <1>a, <1>c, Orders DEF TableSound, ConstantsOK, Typed, EntriesExist, AccessorsHeld, At, Holding
<1>4. OnePutter'
  BY <1>a, <1>c, Orders DEF TableSound, ConstantsOK, Typed, OnePutter, At
<1>5. CountsRight'
  BY <1>a, <1>c, Orders
     DEF TableSound, ConstantsOK, Typed, AccessorsHeld, CountsRight, CountRight, HeldAt, At, Holding
<1>6. PutsInOrder'
  BY <1>a, <1>c, Orders
     DEF TableSound, ConstantsOK, Typed, AccessorsHeld, PutsInOrder, Unstored, CountRight, At,
       Holding
<1>7. ItemsWhole'
  BY <1>a, <1>c, Orders, Counts
     DEF TableSound, ConstantsOK, Typed, AccessorsHeld, PutsInOrder, ItemsWhole, CountRight,
       HeldAt, At, Holding
<1>8. GetsServed'
  BY <1>a, <1>c, Orders
     DEF TableSound, ConstantsOK, Typed, AccessorsHeld, EntriesExist, PutsInOrder, Unstored,
       GetsServed, Reading, Claiming, At, Holding
<1>9. ErasedAtZero'
  BY <1>a, <1>c, Orders, Counts
     DEF TableSound, ConstantsOK, Typed, AccessorsHeld, ErasedAtZero, Awaited, Uncounted, HeldAt,
       At, Holding
<1>10. SizeExact'
  <2>1. \A t \in Tags : Sized(t)' <=> Sized(t)
    BY <1>a, <1>c, Orders
       DEF TableSound, ConstantsOK, Typed, AccessorsHeld, PutsInOrder, Unstored, ErasedAtZero,
         Sized, HeldAt, At, Holding, Unsized
  <2> QED BY <2>1 DEF TableSound, SizeExact
<1> QED BY <1>1, <1>2, <1>3, <1>4, <1>5, <1>6, <1>7, <1>8, <1>9, <1>10 DEF TableSound

\* A put that begins has its tag to itself when the item is counted.
LEMMA BeginPutStep ==
  ASSUME ConstantsOK, TableSound, NEW th \in Callers, NEW t \in Tags, BeginPut(th, t)
  PROVE  TableSound'
<1>a. at[th] = "idle" /\ Null \notin Callers /\ Metered \subseteq Tags
  BY DEF BeginPut, Enter, ConstantsOK
<1>b. \A u \in Tags : lock[u] # th
  BY <1>a DEF TableSound, AccessorsHeld, At, Holding
<1>c. \A u \in Metered : Awaited(u)' <=> Awaited(u)
  BY <1>a DEF BeginPut, Enter, Jump, TableSound, Typed, Awaited, Uncounted, At
<1>d. \A u \in Tags : CountRight(u)' <=> CountRight(u)
  BY DEF BeginPut, Enter, entry, CountRight
<1> USE DEF BeginPut, Enter, Jump, entry
<1>1. Typed'
  BY <1>a, <1>b, <1>c, <1>d DEF TableSound, Typed, Labels
<1>2. AccessorsHeld'
  BY <1>a, <1>b, <1>c, <1>d DEF TableSound, Typed, AccessorsHeld, At, Holding
<1>3. EntriesExist'
  BY <1>a, <1>b, <1>c, <1>d DEF TableSound, Typed, EntriesExist, AccessorsHeld, At, Holding
<1>4. OnePutter'
  BY <1>a, <1>b, <1>c, <1>d DEF TableSound, Typed, OnePutter, At
<1>5. CountsRight'
  BY <1>a, <1>b, <1>c, <1>d
     DEF TableSound, Typed, AccessorsHeld, OnePutter, CountsRight, HeldAt, At, Holding
<1>6. PutsInOrder'
  BY <1>a, <1>b, <1>c, <1>d DEF TableSound, Typed, AccessorsHeld, PutsInOrder, Unstored, At, Holding
<1>7. ItemsWhole'
  BY <1>a, <1>b, <1>c, <1>d
     DEF TableSound, Typed, AccessorsHeld, PutsInOrder, ItemsWhole, HeldAt, At, Holding
<1>8. GetsServed'
  BY <1>a, <1>b, <1>c, <1>d
     DEF TableSound, Typed, AccessorsHeld, EntriesExist, PutsInOrder, Unstored, GetsServed,
       Reading, Claiming, At, Holding
<1>9. ErasedAtZero'
  BY <1>a, <1>b, <1>c, <1>d DEF TableSound, Typed, AccessorsHeld, ErasedAtZero, HeldAt, At, Holding
<1>10. SizeExact'
  <2>1. \A u \in Tags : Sized(u)' <=> Sized(u)
    BY <1>a, <1>b DEF TableSound, Typed, Sized, HeldAt, Unsized
  <2> QED BY <2>1 DEF TableSound, SizeExact
<1> QED BY <1>1, <1>2, <1>3, <1>4, <1>5, <1>6, <1>7, <1>8, <1>9, <1>10 DEF TableSound

\* A get that begins is one of those that are still to come.
LEMMA BeginGetStep ==
  ASSUME ConstantsOK, TableSound, NEW th \in Callers, NEW t \in Tags, BeginGet(th, t)
  PROVE  TableSound'
<1>a. at[th] = "idle" /\ Null \notin Callers /\ Metered \subseteq Tags
  BY DEF BeginGet, Enter, ConstantsOK
<1>b. \A u \in Tags : lock[u] # th
  BY <1>a DEF TableSound, AccessorsHeld, At, Holding
<1>c. \A u \in Metered : Awaited(u)' <=> Awaited(u)
  BY <1>a DEF BeginGet, Enter, Jump, TableSound, Typed, Awaited, Uncounted, At
<1>d. \A u \in Tags : CountRight(u)' <=> CountRight(u)
  BY DEF BeginGet, Enter, entry, CountRight
<1> USE DEF BeginGet, Enter, Jump, entry
<1>1. Typed'
  BY <1>a, <1>b, <1>c, <1>d DEF TableSound, Typed, Labels
<1>2. AccessorsHeld'
  BY <1>a, <1>b, <1>c, <1>d DEF TableSound, Typed, AccessorsHeld, At, Holding
<1>3. EntriesExist'
  BY <1>a, <1>b, <1>c, <1>d DEF TableSound, Typed, EntriesExist, AccessorsHeld, At, Holding
<1>4. OnePutter'
  BY <1>a, <1>b, <1>c, <1>d DEF TableSound, Typed, OnePutter, At
<1>5. CountsRight'
  BY <1>a, <1>b, <1>c, <1>d
     DEF TableSound, Typed, AccessorsHeld, OnePutter, CountsRight, HeldAt, At, Holding
<1>6. PutsInOrder'
  BY <1>a, <1>b, <1>c, <1>d DEF TableSound, Typed, AccessorsHeld, PutsInOrder, Unstored, At, Holding
<1>7. ItemsWhole'
  BY <1>a, <1>b, <1>c, <1>d
     DEF TableSound, Typed, AccessorsHeld, PutsInOrder, ItemsWhole, HeldAt, At, Holding
<1>8. GetsServed'
  BY <1>a, <1>b, <1>c, <1>d
     DEF TableSound, Typed, AccessorsHeld, EntriesExist, PutsInOrder, Unstored, GetsServed,
       Reading, Claiming, At, Holding
<1>9. ErasedAtZero'
  BY <1>a, <1>b, <1>c, <1>d DEF TableSound, Typed, AccessorsHeld, ErasedAtZero, HeldAt, At, Holding
<1>10. SizeExact'
  <2>1. \A u \in Tags : Sized(u)' <=> Sized(u)
    BY <1>a, <1>b DEF TableSound, Typed, Sized, HeldAt, Unsized
  <2> QED BY <2>1 DEF TableSound, SizeExact
<1> QED BY <1>1, <1>2, <1>3, <1>4, <1>5, <1>6, <1>7, <1>8, <1>9, <1>10 DEF TableSound

\* A get of the environment has not seen anything yet.
LEMMA BeginEnvGetStep ==
  ASSUME ConstantsOK, TableSound, NEW th \in Callers, NEW t \in Tags, BeginEnvGet(th, t)
  PROVE  TableSound'
<1>a. at[th] = "idle" /\ Null \notin Callers /\ Metered \subseteq Tags
  BY DEF BeginEnvGet, Enter, ConstantsOK
<1>b. \A u \in Tags : lock[u] # th
  BY <1>a DEF TableSound, AccessorsHeld, At, Holding
<1>c. \A u \in Metered : Awaited(u)' <=> Awaited(u)
  BY <1>a DEF BeginEnvGet, Enter, Jump, TableSound, Typed, Awaited, Uncounted, At
<1>d. \A u \in Tags : CountRight(u)' <=> CountRight(u)
  BY DEF BeginEnvGet, Enter, entry, CountRight
<1> USE DEF BeginEnvGet, Enter, Jump, entry
<1>1. Typed'
  BY <1>a, <1>b, <1>c, <1>d DEF TableSound, Typed, Labels
<1>2. AccessorsHeld'
  BY <1>a, <1>b, <1>c, <1>d DEF TableSound, Typed, AccessorsHeld, At, Holding
<1>3. EntriesExist'
  BY <1>a, <1>b, <1>c, <1>d DEF TableSound, Typed, EntriesExist, AccessorsHeld, At, Holding
<1>4. OnePutter'
  BY <1>a, <1>b, <1>c, <1>d DEF TableSound, Typed, OnePutter, At
<1>5. CountsRight'
  BY <1>a, <1>b, <1>c, <1>d
     DEF TableSound, Typed, AccessorsHeld, OnePutter, CountsRight, HeldAt, At, Holding
<1>6. PutsInOrder'
  BY <1>a, <1>b, <1>c, <1>d DEF TableSound, Typed, AccessorsHeld, PutsInOrder, Unstored, At, Holding
<1>7. ItemsWhole'
  BY <1>a, <1>b, <1>c, <1>d
     DEF TableSound, Typed, AccessorsHeld, PutsInOrder, ItemsWhole, HeldAt, At, Holding
<1>8. GetsServed'
  BY <1>a, <1>b, <1>c, <1>d
     DEF TableSound, Typed, AccessorsHeld, EntriesExist, PutsInOrder, Unstored, GetsServed,
       Reading, Claiming, At, Holding
<1>9. ErasedAtZero'
  BY <1>a, <1>b, <1>c, <1>d DEF TableSound, Typed, AccessorsHeld, ErasedAtZero, HeldAt, At, Holding
<1>10. SizeExact'
  <2>1. \A u \in Tags : Sized(u)' <=> Sized(u)
    BY <1>a, <1>b DEF TableSound, Typed, Sized, HeldAt, Unsized
  <2> QED BY <2>1 DEF TableSound, SizeExact
<1> QED BY <1>1, <1>2, <1>3, <1>4, <1>5, <1>6, <1>7, <1>8, <1>9, <1>10 DEF TableSound

\* A reset finds no method under way, so that no accessor is held and every
\* item is counted by m_size; the vector keeps what is left of a get count.
LEMMA ClearStep ==
  ASSUME ConstantsOK, TableSound, Clear
  PROVE  TableSound'
<1>a. /\ \A th \in Callers : at[th] = "idle"
      /\ \A t \in Tags : lock[t] = Null
      /\ Metered \subseteq Tags /\ kind \in {"vec", "hash"}
  BY DEF Clear, Quiet, TableSound, Typed, AccessorsHeld, At, Holding, ConstantsOK
<1>b. \A t \in Metered : /\ stale'[t] \in Nat
                         /\ count'[t] = stale'[t] \/ (count'[t] = UNSET_GET_COUNT /\ stale'[t] = 0)
  <2> SUFFICES ASSUME NEW t \in Metered
               PROVE  /\ stale'[t] \in Nat
                      /\ count'[t] = stale'[t] \/ (count'[t] = UNSET_GET_COUNT /\ stale'[t] = 0)
    OBVIOUS
  <2>0. t \in Tags
    BY <1>a
  <2>1. stale'[t] = IF count'[t] # UNSET_GET_COUNT THEN count'[t] ELSE 0
    BY <2>0 DEF Clear
  <2>2. CASE kind = "hash"
    <3>1. count'[t] = UNSET_GET_COUNT
      BY <2>0, <2>2 DEF Clear, ClearVec, ClearHash
    <3> QED BY <2>1, <3>1
  <2>3. CASE kind = "vec"
    <3>1. count' = count
      BY <2>3 DEF Clear, ClearVec, ClearHash
    <3>2. toRead[t] \in SUBSET Callers /\ stale[t] \in Nat /\ count[t] \in Int
      BY <2>0 DEF TableSound, Typed
    <3>3. Cardinality(toRead[t]) \in Nat
      BY <3>2, Counts
    <3>4. count[t] = UNSET_GET_COUNT \/ count[t] \in Nat
      <4>1. CASE Awaited(t)
        BY <3>2, <4>1 DEF TableSound, CountsRight
      <4>2. CASE ~Awaited(t)
        BY <2>3, <3>2, <3>3, <4>2 DEF TableSound, CountsRight, CountRight
      <4> QED BY <4>1, <4>2
    <3> QED BY <2>1, <3>1, <3>2, <3>4
  <2> QED BY <1>a, <2>2, <2>3
<1>c. /\ at' = at /\ tag' = tag /\ got' = got /\ lock' = lock /\ kind' = kind
      /\ begun' = {} /\ clears' = clears + 1 /\ clears < MaxClears /\ size' = 0
      /\ item' = [t \in Tags |-> Null]
      /\ toRead' = [t \in Tags |-> IF t \in Metered THEN Readers[t] ELSE {}]
  BY DEF Clear
<1>d. there' \in [Tags -> BOOLEAN] /\ owned' \in [Tags -> BOOLEAN] /\ count' \in [Tags -> Int]
  <2>1. CASE ClearVec
    BY <2>1 DEF ClearVec, TableSound, Typed
  <2>2. CASE ClearHash
    BY <2>2 DEF ClearHash, UNSET_GET_COUNT
  <2> QED BY <2>1, <2>2 DEF Clear
<1>e. stale' \in [Tags -> Nat]
  <2>1. stale' = [t \in Tags |-> IF t \in Metered /\ count'[t] # UNSET_GET_COUNT THEN count'[t] ELSE 0]
    BY DEF Clear
  <2>2. \A t \in Tags : (IF t \in Metered /\ count'[t] # UNSET_GET_COUNT THEN count'[t] ELSE 0) \in Nat
    BY <1>a, <1>b, <2>1
  <2> QED BY <2>1, <2>2
<1>1. Typed'
  BY <1>a, <1>c, <1>d, <1>e DEF TableSound, Typed, ConstantsOK
<1>2. AccessorsHeld'
  BY <1>a, <1>c DEF TableSound, AccessorsHeld, At
<1>3. EntriesExist'
  BY <1>a, <1>c DEF Clear, ClearVec, ClearHash, TableSound, EntriesExist
<1>4. OnePutter'
  BY <1>a, <1>c DEF OnePutter, At
<1>5. CountsRight'
  <2> SUFFICES ASSUME NEW t \in Metered
               PROVE  /\ Awaited(t)' /\ toRead'[t] = Readers[t] /\ item'[t] = Null
                      /\ count'[t] = stale'[t] \/ (count'[t] = UNSET_GET_COUNT /\ stale'[t] = 0)
    BY DEF CountsRight
  <2>1. Awaited(t)'
    BY <1>c DEF Awaited
  <2> QED BY <1>a, <1>b, <1>c, <2>1
<1>6. PutsInOrder'
  BY <1>a, <1>c DEF PutsInOrder
<1>7. ItemsWhole'
  BY <1>c DEF ItemsWhole
<1>8. GetsServed'
  BY <1>a, <1>c DEF GetsServed, Reading, Claiming
<1>9. ErasedAtZero'
  BY <1>a, <1>c DEF ErasedAtZero
<1>10. SizeExact'
  <2>1. {t \in Tags : Sized(t)'} = {}
    BY <1>a, <1>c DEF Sized, HeldAt, TableSound, Typed, ConstantsOK
  <2> QED BY <1>c, <2>1, FS_EmptySet DEF SizeExact
<1> QED BY <1>1, <1>2, <1>3, <1>4, <1>5, <1>6, <1>7, <1>8, <1>9, <1>10 DEF TableSound

\* Both tables are sound when they are empty.
LEMMA InitSound ==
  ASSUME ConstantsOK, TableInit
  PROVE  TableSound
<1>a. Null \notin Callers /\ Metered \subseteq Tags /\ kind \in {"vec", "hash"}
  BY DEF ConstantsOK, TableInit
<1>b. /\ at = [th \in Callers |-> "idle"] /\ tag = [th \in Callers |-> Null] /\ got = [th \in Callers |-> Null]
      /\ lock = [t \in Tags |-> Null] /\ item = [t \in Tags |-> Null]
      /\ there = [t \in Tags |-> kind = "vec"] /\ owned = [t \in Tags |-> FALSE]
      /\ count = [t \in Tags |-> UNSET_GET_COUNT] /\ stale = [t \in Tags |-> 0]
      /\ begun = {} /\ size = 0
      /\ toRead = [t \in Tags |-> IF t \in Metered THEN Readers[t] ELSE {}]
  BY DEF TableInit
<1>1. Typed
  <2>1. there \in [Tags -> BOOLEAN] /\ owned \in [Tags -> BOOLEAN]
    BY <1>b
  <2>2. toRead \in [Tags -> SUBSET Callers]
    BY <1>b DEF ConstantsOK
  <2> QED BY <1>b, <2>1, <2>2 DEF TableInit, Typed, Labels, UNSET_GET_COUNT, ConstantsOK
<1>2. AccessorsHeld
  BY <1>a, <1>b DEF AccessorsHeld, At, Holding
<1>3. EntriesExist
  BY <1>b DEF EntriesExist
<1>4. OnePutter
  BY <1>b DEF OnePutter, At
<1>5. CountsRight
  BY <1>a, <1>b DEF CountsRight, Awaited
<1>6. PutsInOrder
  BY <1>b DEF PutsInOrder
<1>7. ItemsWhole
  BY <1>b DEF ItemsWhole
<1>8. GetsServed
  BY <1>b DEF GetsServed, Reading, Claiming
<1>9. ErasedAtZero
  BY <1>a, <1>b DEF ErasedAtZero
<1>10. SizeExact
  <2>1. {t \in Tags : Sized(t)} = {}
    BY <1>a, <1>b DEF Sized, HeldAt
  <2> QED BY <1>b, <2>1, FS_EmptySet DEF SizeExact
<1> QED BY <1>1, <1>2, <1>3, <1>4, <1>5, <1>6, <1>7, <1>8, <1>9, <1>10 DEF TableSound

\* Every step of every thread, and a reset, keeps the tables sound.
LEMMA NextSound ==
  ASSUME ConstantsOK, TableSound, [TableNext]_tableVars
  PROVE  TableSound'
<1>1. CASE Clear
  BY <1>1, ClearStep
<1>2. ASSUME NEW th \in Callers, Start(th) PROVE TableSound'
  BY <1>2, BeginPutStep, BeginGetStep, BeginEnvGetStep DEF Start
<1>3. ASSUME NEW th \in Callers, PutStep(th) PROVE TableSound'
  BY <1>3, PutLockStep, SetCountStep, SetOwnerStep, StoreStep, GrowStep DEF PutStep
<1>4. ASSUME NEW th \in Callers, GetStep(th) PROVE TableSound'
  BY <1>4, LookVecStep, LookHashStep, LookLockedStep, LookReleaseStep, RereadStep, RecountStep,
       UseStep, GetAndStep
     DEF GetStep
<1>5. ASSUME NEW th \in Callers, DropStep(th) PROVE TableSound'
  BY <1>5, GetAccessorStep, DecrementStep, EraseVecStep, EraseHashStep, ShrinkStep, ReleaseStep
     DEF DropStep, Erase
<1>6. CASE UNCHANGED tableVars
  BY <1>6
     DEF tableVars, entry, program, TableSound, Typed, AccessorsHeld, EntriesExist, OnePutter,
       CountsRight, PutsInOrder,
       ItemsWhole, GetsServed, ErasedAtZero, SizeExact, Sized, CountRight, Awaited, Uncounted, Unstored, Unsized, HeldAt, At
<1> QED BY <1>1, <1>2, <1>3, <1>4, <1>5, <1>6 DEF TableNext

\* The tables behind an item collection, vec_item_table and hash_item_table:
\* whatever the interleaving of lock-free reads, puts and erases, an accessor
\* is exclusive, an item that is found is complete and stays until its last
\* get has dropped it, the get count is exact, and m_size counts the items.
THEOREM TablesSound ==
  ASSUME ConstantsOK
  PROVE  TableSpec => []TableSound
<1>1. TableInit => TableSound
  BY InitSound
<1>2. TableSound /\ [TableNext]_tableVars => TableSound'
  BY NextSound
<1> QED BY <1>1, <1>2, PTL DEF TableSpec

\* Between two computations nothing is left over: no accessor is held, every
\* item is complete with its get count and its owner, the counts are those of
\* the gets to come, and size() is the number of items.
QuietTable ==
  Quiet => /\ \A t \in Tags : lock[t] = Null
           /\ \A t \in Tags : item[t] # Null => CountRight(t) /\ owned[t]
           /\ \A t \in Metered : item[t] # Null => toRead[t] # {} \/ stale[t] > 0
           /\ size = Cardinality({t \in Tags : item[t] # Null})

\* What the table methods leave behind once all of them have returned, which is
\* what reset, size and the iterators of an item collection rely on.
THEOREM QuietTables ==
  ASSUME ConstantsOK
  PROVE  TableSpec => []QuietTable
<1>1. TableSound => QuietTable
  <2> SUFFICES ASSUME TableSound, Quiet
               PROVE  /\ \A t \in Tags : lock[t] = Null
                      /\ \A t \in Tags : item[t] # Null => CountRight(t) /\ owned[t]
                      /\ \A t \in Metered : item[t] # Null => toRead[t] # {} \/ stale[t] > 0
                      /\ size = Cardinality({t \in Tags : item[t] # Null})
    BY DEF QuietTable
  <2>1. \A t \in Tags : lock[t] = Null
    BY DEF Quiet, TableSound, Typed, AccessorsHeld, At, Holding
  <2>3. \A t \in Tags : item[t] # Null => CountRight(t) /\ owned[t]
    BY <2>1 DEF HeldAt, ConstantsOK, TableSound, ItemsWhole
  <2>4. ASSUME NEW t \in Metered, item[t] # Null, toRead[t] = {} PROVE stale[t] > 0
    <3>1. t \in Tags
      BY DEF ConstantsOK
    <3>2. ~HeldAt(t, {"count"}) /\ ~HeldAt(t, {"erase", "shrink"})
      BY <2>1, <3>1 DEF HeldAt, ConstantsOK
    <3>3. ~Awaited(t) /\ count[t] = Cardinality(toRead[t]) + stale[t] /\ stale[t] \in Nat
      BY <2>4, <3>1, <3>2, Told
    <3>4. count[t] > 0
      BY <2>4, <3>2, <3>3 DEF TableSound, ErasedAtZero
    <3> QED BY <2>4, <3>3, <3>4, FS_EmptySet
  <2>5. {t \in Tags : Sized(t)} = {t \in Tags : item[t] # Null}
    BY <2>1 DEF Sized, HeldAt, ConstantsOK
  <2> QED BY <2>1, <2>3, <2>4, <2>5 DEF TableSound, SizeExact
<1> QED BY <1>1, TablesSound, PTL
=============================================================================
