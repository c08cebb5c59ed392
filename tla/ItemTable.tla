------------------------------ MODULE ItemTable ------------------------------
(***************************************************************************)
(* The table behind an item collection: vec_item_table, a vector with a    *)
(* spin lock per entry and lock-free reads, and hash_item_table, on top of *)
(* tbb::concurrent_hash_map.  Threads put, get and collect items the way   *)
(* item_collection_base does; every access to an atomic or to the lock is  *)
(* a step of its own.  A program reads a counted item as often as its get  *)
(* count says and puts it once; an item that is not counted may be put     *)
(* again, which the table refuses.                                         *)
(***************************************************************************)
EXTENDS Integers, FiniteSets

CONSTANTS
  Callers,
  Tags,
  Metered,        \* the tags whose tuner gives a get count ...
  Readers,        \* ... which is the number of steps that get the item
  Kinds,          \* the tables to look at, a subset of {"vec", "hash"}
  MaxClears,      \* bound: how often the environment resets the collection
  Null

NO_GET_COUNT == -1000
UNSET_GET_COUNT == -999

\* The names are those of the code: an entry has an item, a get count and an
\* owner; no thread is Null.
ConstantsOK ==
  /\ IsFiniteSet(Tags) /\ IsFiniteSet(Callers)
  /\ Null \notin Callers
  /\ Metered \subseteq Tags
  /\ Readers \in [Metered -> SUBSET Callers]
  /\ \A t \in Metered : Readers[t] # {}
  /\ Kinds \subseteq {"vec", "hash"}
  /\ MaxClears \in Nat

VARIABLES
  kind,      \* which of the two tables
  there,     \* tag -> does the map have an entry (a vector always has)
  item,      \* tag -> m_item: the thread that put it, or Null
  count,     \* tag -> m_prop.m_getCount
  owned,     \* tag -> has m_prop.m_owner been set
  lock,      \* tag -> the thread whose accessor protects the entry, or Null
  size,      \* m_size
  at, tag, got,  \* per thread: next step, tag, the item a get has returned
  begun,     \* the tags some thread has begun to put
  toRead,    \* tag -> the steps that are still to get the item and to drop it
  stale,     \* tag -> what a reset left in m_getCount
  clears     \* number of resets so far

entry == <<there, item, count, owned, size>>
program == <<begun, toRead, stale, clears>>
tableVars == <<kind, entry, lock, at, tag, got, program>>

GetCount(t) == IF t \in Metered THEN Cardinality(Readers[t]) ELSE NO_GET_COUNT

\* Mutant: put_item of the vector publishes the item before its properties.
PutOrder_ItemFirst ==
  [vec |-> [lock |-> "store", store |-> "count", count |-> "owner", owner |-> "grow"],
   hash |-> [lock |-> "store", store |-> "count", count |-> "owner", owner |-> "grow"]]

\* put_item: the vector publishes the item last, the hash map writes it first.
PutOrder ==
  [vec |-> [lock |-> "count", count |-> "owner", owner |-> "store", store |-> "grow"],
   hash |-> [lock |-> "store", store |-> "count", count |-> "owner", owner |-> "grow"]]
\* erase: the vector clears the entry before m_size, the hash map after it.
EraseOrder ==
  [vec |-> [decrement |-> "erase", shrink |-> "release"],
   hash |-> [decrement |-> "shrink", shrink |-> "erase"]]

TableInit ==
  /\ kind \in Kinds
  /\ there = [t \in Tags |-> kind = "vec"]
  /\ item = [t \in Tags |-> Null]
  /\ count = [t \in Tags |-> UNSET_GET_COUNT]
  /\ owned = [t \in Tags |-> FALSE]
  /\ lock = [t \in Tags |-> Null]
  /\ size = 0
  /\ at = [th \in Callers |-> "idle"]
  /\ tag = [th \in Callers |-> Null]
  /\ got = [th \in Callers |-> Null]
  /\ begun = {}
  /\ toRead = [t \in Tags |-> IF t \in Metered THEN Readers[t] ELSE {}]
  /\ stale = [t \in Tags |-> 0]
  /\ clears = 0

Jump(th, l) == at' = [at EXCEPT ![th] = l]
Return(th) ==
  /\ Jump(th, "idle")
  /\ tag' = [tag EXCEPT ![th] = Null]
  /\ got' = [got EXCEPT ![th] = Null]
Mine(th) == tag[th]
Unlock(th) == lock' = [lock EXCEPT ![Mine(th)] = Null]

\* An accessor is acquired: scoped_lock::acquire of the entry's spin mutex, or
\* concurrent_hash_map::insert, which makes the entry if there is none.
Acquire(th) ==
  /\ lock[Mine(th)] = Null
  /\ lock' = [lock EXCEPT ![Mine(th)] = th]
  /\ there' = [there EXCEPT ![Mine(th)] = TRUE]
  /\ UNCHANGED <<item, count, owned, size>>

-----------------------------------------------------------------------------
\* What the program does next: a put, the get of a step, a get of the
\* environment.
Enter(th, l, t) ==
  /\ at[th] = "idle"
  /\ Jump(th, l)
  /\ tag' = [tag EXCEPT ![th] = t]
  /\ UNCHANGED <<kind, entry, lock, got, toRead, stale, clears>>

BeginPut(th, t) ==
  /\ t \in Metered => t \notin begun
  /\ Enter(th, "put", t)
  /\ begun' = begun \cup {t}

BeginGet(th, t) ==
  /\ t \in Metered => th \in toRead[t]
  /\ Enter(th, "look", t)
  /\ UNCHANGED begun

BeginEnvGet(th, t) == Enter(th, "get_and", t) /\ UNCHANGED begun

-----------------------------------------------------------------------------
\* put_item: with the entry locked, an item that is there is left alone.
PutLock(th) ==
  /\ at[th] = "put"
  /\ Acquire(th)
  /\ Jump(th, IF item[Mine(th)] # Null THEN "release" ELSE PutOrder[kind].lock)
  /\ UNCHANGED <<kind, tag, got, program>>

\* set_or_increment_get_count: requests to decrement may have come first.
SetCount(th) ==
  /\ at[th] = "count"
  /\ count' = [count EXCEPT ![Mine(th)] =
       IF GetCount(Mine(th)) = NO_GET_COUNT \/ @ = UNSET_GET_COUNT
       THEN GetCount(Mine(th)) ELSE @ + GetCount(Mine(th))]
  /\ Jump(th, PutOrder[kind].count)
  /\ UNCHANGED <<kind, there, item, owned, size, lock, tag, got, program>>

SetOwner(th) ==
  /\ at[th] = "owner"
  /\ owned' = [owned EXCEPT ![Mine(th)] = TRUE]
  /\ Jump(th, PutOrder[kind].owner)
  /\ UNCHANGED <<kind, there, item, count, size, lock, tag, got, program>>

Store(th) ==
  /\ at[th] = "store"
  /\ item' = [item EXCEPT ![Mine(th)] = th]
  /\ Jump(th, PutOrder[kind].store)
  /\ UNCHANGED <<kind, there, count, owned, size, lock, tag, got, program>>

Grow(th) ==
  /\ at[th] = "grow"
  /\ size' = size + 1
  /\ Jump(th, "release")
  /\ UNCHANGED <<kind, there, item, count, owned, lock, tag, got, program>>

-----------------------------------------------------------------------------
\* The caller is told whether the item has a get count.
HandOut(t) == IF count[t] # NO_GET_COUNT THEN "use_counted" ELSE "use"

\* get_item_or_accessor, first look.  The vector reads m_item without the
\* lock; the hash map reads the entry under a const_accessor, for which it
\* waits until no accessor protects the entry.
LookVec(th) ==
  /\ at[th] = "look" /\ kind = "vec"
  /\ Jump(th, IF item[Mine(th)] # Null THEN "reread" ELSE "get_or")
  /\ UNCHANGED <<kind, entry, lock, tag, got, program>>

LookHash(th) ==
  /\ at[th] = "look" /\ kind = "hash"
  /\ lock[Mine(th)] = Null
  /\ got' = [got EXCEPT ![th] = item[Mine(th)]]
  /\ Jump(th, IF item[Mine(th)] # Null THEN HandOut(Mine(th)) ELSE "get_or")
  /\ UNCHANGED <<kind, entry, lock, tag, program>>

\* Second look, with the accessor.  A missing item leaves it with the caller,
\* who queues his step and releases it.
LookLocked(th) ==
  /\ at[th] = "get_or"
  /\ Acquire(th)
  /\ got' = [got EXCEPT ![th] = IF kind = "hash" THEN item[Mine(th)] ELSE @]
  /\ Jump(th, IF item[Mine(th)] # Null THEN "unlock" ELSE "release")
  /\ UNCHANGED <<kind, tag, program>>

LookRelease(th) ==
  /\ at[th] = "unlock"
  /\ Unlock(th)
  /\ Jump(th, IF kind = "hash" THEN HandOut(Mine(th)) ELSE "reread")
  /\ UNCHANGED <<kind, entry, tag, got, program>>

\* The vector reads the item once more for the caller, and then its get count,
\* both without the lock.
Reread(th) ==
  /\ at[th] = "reread"
  /\ got' = [got EXCEPT ![th] = item[Mine(th)]]
  /\ Jump(th, "recount")
  /\ UNCHANGED <<kind, entry, lock, tag, program>>

Recount(th) ==
  /\ at[th] = "recount"
  /\ Jump(th, HandOut(Mine(th)))
  /\ UNCHANGED <<kind, entry, lock, tag, got, program>>

\* The caller is done with the item.  If it is counted, the step's get list
\* drops it, otherwise that was all.
Use(th) ==
  /\ \/ at[th] = "use" /\ Return(th)
     \/ at[th] = "use_counted" /\ Jump(th, "get_accessor") /\ UNCHANGED <<tag, got>>
  /\ UNCHANGED <<kind, entry, lock, program>>

\* get_item_and_accessor, for the environment: the accessor in any case.
GetAnd(th) ==
  /\ at[th] = "get_and"
  /\ Acquire(th)
  /\ got' = [got EXCEPT ![th] = item[Mine(th)]]
  /\ Jump(th, "release")
  /\ UNCHANGED <<kind, tag, program>>

-----------------------------------------------------------------------------
\* decrement_ref_count: get_accessor finds nothing to lock in an entry that
\* has neither an item nor a count (vector) or that does not exist (map):
\* "initial ref count of item was too low", and the program is aborted.
HasContent(t) == IF kind = "vec" THEN item[t] # Null \/ count[t] # UNSET_GET_COUNT ELSE there[t]

GetAccessor(th) ==
  /\ at[th] = "get_accessor"
  /\ lock[Mine(th)] = Null
  /\ IF HasContent(Mine(th))
     THEN lock' = [lock EXCEPT ![Mine(th)] = th] /\ Jump(th, "decrement")
     ELSE Jump(th, "abort") /\ UNCHANGED lock
  /\ UNCHANGED <<kind, entry, tag, got, program>>

Decrement(th) ==
  /\ at[th] = "decrement"
  /\ count' = [count EXCEPT ![Mine(th)] = @ - 1]
  /\ Jump(th, IF count[Mine(th)] - 1 = 0 THEN EraseOrder[kind].decrement ELSE "release")
  /\ toRead' = [toRead EXCEPT ![Mine(th)] = @ \ {th}]
  /\ UNCHANGED <<kind, there, item, owned, size, lock, tag, got, begun, stale, clears>>

\* erase of the vector empties the entry and keeps its properties; erase of
\* the hash map removes the entry, and with it the accessor.
EraseVec(th) ==
  /\ at[th] = "erase" /\ kind = "vec"
  /\ item' = [item EXCEPT ![Mine(th)] = Null]
  /\ Jump(th, "shrink")
  /\ UNCHANGED <<there, count, owned, lock, tag, got>>

EraseHash(th) ==
  /\ at[th] = "erase" /\ kind = "hash"
  /\ there' = [there EXCEPT ![Mine(th)] = FALSE]
  /\ item' = [item EXCEPT ![Mine(th)] = Null]
  /\ count' = [count EXCEPT ![Mine(th)] = UNSET_GET_COUNT]
  /\ owned' = [owned EXCEPT ![Mine(th)] = FALSE]
  /\ Unlock(th)
  /\ Return(th)

Erase(th) ==
  /\ EraseVec(th) \/ EraseHash(th)
  /\ UNCHANGED <<kind, size, program>>

Shrink(th) ==
  /\ at[th] = "shrink"
  /\ size' = size - 1
  /\ Jump(th, EraseOrder[kind].shrink)
  /\ UNCHANGED <<kind, there, item, count, owned, lock, tag, got, program>>

\* The accessor goes out of scope.
Release(th) ==
  /\ at[th] = "release"
  /\ Unlock(th)
  /\ Return(th)
  /\ UNCHANGED <<kind, entry, program>>

-----------------------------------------------------------------------------
\* clear, between two computations: the hash map is emptied, the vector keeps
\* the properties of its entries and thus what is left of their get counts.
Quiet == \A th \in Callers : at[th] = "idle"

ClearVec == kind = "vec" /\ UNCHANGED <<there, count, owned>>

ClearHash ==
  /\ kind = "hash"
  /\ there' = [t \in Tags |-> FALSE]
  /\ count' = [t \in Tags |-> UNSET_GET_COUNT]
  /\ owned' = [t \in Tags |-> FALSE]

Clear ==
  /\ Quiet
  /\ clears < MaxClears
  /\ clears' = clears + 1
  /\ ClearVec \/ ClearHash
  /\ item' = [t \in Tags |-> Null]
  /\ size' = 0
  /\ begun' = {}
  /\ toRead' = [t \in Tags |-> IF t \in Metered THEN Readers[t] ELSE {}]
  /\ stale' = [t \in Tags |-> IF t \in Metered /\ count'[t] # UNSET_GET_COUNT THEN count'[t] ELSE 0]
  /\ UNCHANGED <<kind, lock, at, tag, got>>

Start(th) == \E t \in Tags : BeginPut(th, t) \/ BeginGet(th, t) \/ BeginEnvGet(th, t)
PutStep(th) == PutLock(th) \/ SetCount(th) \/ SetOwner(th) \/ Store(th) \/ Grow(th)
GetStep(th) == LookVec(th) \/ LookHash(th) \/ LookLocked(th) \/ LookRelease(th) \/ Reread(th)
               \/ Recount(th) \/ Use(th) \/ GetAnd(th)
DropStep(th) == GetAccessor(th) \/ Decrement(th) \/ Erase(th) \/ Shrink(th) \/ Release(th)

TableNext == Clear \/ \E th \in Callers : Start(th) \/ PutStep(th) \/ GetStep(th) \/ DropStep(th)
TableSpec == TableInit /\ [][TableNext]_tableVars

-----------------------------------------------------------------------------
Labels == {"idle", "put", "count", "owner", "store", "grow", "look", "reread", "recount", "get_or",
           "unlock", "use", "use_counted", "get_and", "get_accessor", "decrement", "erase", "shrink",
           "release", "abort"}
\* Where a thread holds the accessor of its entry, where it is to read the
\* item, where it relies on the item it has seen, and where it has put nothing
\* but a lock on the entry yet.
Holding == {"count", "owner", "store", "grow", "unlock", "decrement", "erase", "shrink", "release"}
Claiming == {"reread", "recount", "unlock", "use", "use_counted", "get_accessor", "decrement"}
Reading == Claiming \cup {"look", "get_or"}
Uncounted == IF kind = "vec" THEN {"put", "count"} ELSE {"put", "store", "count"}
\* The item has not been written yet; it has, but m_size is still without it.
Unstored == IF kind = "vec" THEN {"count", "owner", "store"} ELSE {"store"}
Unsized == IF kind = "vec" THEN {"grow"} ELSE {"count", "owner", "grow"}

At(th, t, labels) == tag[th] = t /\ at[th] \in labels
\* The thread that holds the entry is at one of these labels.
HeldAt(t, labels) == lock[t] \in Callers /\ at[lock[t]] \in labels

Typed ==
  /\ kind \in Kinds
  /\ there \in [Tags -> BOOLEAN] /\ owned \in [Tags -> BOOLEAN]
  /\ item \in [Tags -> Callers \cup {Null}] /\ lock \in [Tags -> Callers \cup {Null}]
  /\ count \in [Tags -> Int] /\ stale \in [Tags -> Nat] /\ size \in Int
  /\ at \in [Callers -> Labels]
  /\ tag \in [Callers -> Tags \cup {Null}] /\ got \in [Callers -> Callers \cup {Null}]
  /\ begun \subseteq Tags /\ toRead \in [Tags -> SUBSET Callers] /\ clears \in 0..MaxClears

\* A thread inside a method has a tag, and it holds the accessor exactly where
\* it should: no entry has two writers, and no accessor is forgotten.
AccessorsHeld ==
  \A th \in Callers :
    /\ at[th] # "idle" => tag[th] \in Tags
    /\ \A t \in Tags : lock[t] = th <=> At(th, t, Holding)

\* What is locked or has an item is in the table.
EntriesExist == \A t \in Tags : kind = "vec" \/ item[t] # Null \/ lock[t] # Null => there[t]

\* A counted item has one putter, whose put is the one that has begun.
OnePutter ==
  \A t \in Metered, th \in Callers : At(th, t, {"put", "count", "owner", "store", "grow"}) =>
    /\ t \in begun
    /\ \A x \in Callers : At(x, t, {"put", "count", "owner", "store", "grow"}) => x = th

\* The get count of t as it must be once it has been set.
CountRight(t) ==
  IF t \in Metered THEN count[t] = Cardinality(toRead[t]) + stale[t] ELSE count[t] = NO_GET_COUNT
Awaited(t) == t \notin begun \/ \E th \in Callers : At(th, t, Uncounted)

\* Before a put has set the get count of an entry, nobody has taken from it;
\* afterwards it is the number of gets to come and what a reset left behind.
CountsRight ==
  \A t \in Metered :
    IF Awaited(t) THEN /\ toRead[t] = Readers[t]
                       /\ item[t] = Null \/ (kind = "hash" /\ HeldAt(t, {"count"}))
                       /\ count[t] = stale[t] \/ (count[t] = UNSET_GET_COUNT /\ stale[t] = 0)
    ELSE kind = "vec" \/ item[t] # Null => CountRight(t)

\* A put fills an entry that is empty and that stays so until it stores the
\* item, in the vector after its get count and its owner.
PutsInOrder ==
  \A th \in Callers :
    /\ at[th] \in {"count", "owner", "store", "grow"} => (item[tag[th]] = Null <=> at[th] \in Unstored)
    /\ kind = "vec" /\ at[th] \in {"owner", "store"} =>
         CountRight(tag[th]) /\ (tag[th] \in Metered => count[tag[th]] > 0)
    /\ kind = "vec" /\ at[th] = "store" => owned[tag[th]]

\* Whoever finds an item finds its get count and its owner with it, although
\* the vector is read without a lock: only the put that is under way, under
\* its lock, has an item that is not complete.
ItemsWhole ==
  \A t \in Tags : item[t] # Null =>
    \/ CountRight(t) /\ owned[t]
    \/ kind = "hash" /\ HeldAt(t, {"count"})
    \/ kind = "hash" /\ HeldAt(t, {"owner"}) /\ CountRight(t)

\* A get that returns without an accessor returns an item, that item stays in
\* the table until the caller has dropped it, and the caller is told the truth
\* about its being counted. A drop never finds the entry gone.
GetsServed ==
  \A th \in Callers :
    /\ at[th] # "abort"
    /\ at[th] \in Reading /\ tag[th] \in Metered => th \in toRead[tag[th]]
    /\ at[th] \in Claiming => item[tag[th]] # Null
    /\ at[th] \in {"recount", "use", "use_counted"} => got[th] = item[tag[th]]
    /\ at[th] = "unlock" /\ kind = "hash" => got[th] = item[tag[th]]
    /\ at[th] \in {"reread", "recount"} => kind = "vec"
    /\ at[th] = "use" => tag[th] \notin Metered
    /\ at[th] \in {"use_counted", "get_accessor", "decrement"} => tag[th] \in Metered

\* A counted item is in the table as long as its count is positive, and is
\* erased by the one thread that took the count to zero.
ErasedAtZero ==
  /\ \A t \in Metered : item[t] # Null =>
       Awaited(t) \/ count[t] > 0 \/ HeldAt(t, {"erase", "shrink"})
  /\ \A th \in Callers : at[th] \in {"erase", "shrink"} =>
       /\ tag[th] \in Metered /\ count[tag[th]] = 0
       /\ item[tag[th]] = Null <=> kind = "vec" /\ at[th] = "shrink"

\* m_size is the number of items, up to the puts and erases under way.
Sized(t) ==
  \/ item[t] # Null /\ ~HeldAt(t, Unsized) /\ ~(kind = "hash" /\ HeldAt(t, {"erase"}))
  \/ kind = "vec" /\ HeldAt(t, {"shrink"})
SizeExact == size = Cardinality({t \in Tags : Sized(t)})

\* What the collection relies on, of either table and whatever its threads do:
\* exclusive accessors, complete items, gets that are served, get counts that
\* erase an item after its last get, and a size that counts the items.
TableSound ==
  /\ Typed /\ AccessorsHeld /\ EntriesExist /\ OnePutter
  /\ CountsRight /\ PutsInOrder /\ ItemsWhole /\ GetsServed /\ ErasedAtZero
  /\ SizeExact
=============================================================================
