------------------------ MODULE VersionedGraph_proofs ------------------------
(***************************************************************************)
(* Aspen's versions, for every number of readers, updates and queries and  *)
(* every size of the table: until one of the three failures of Sane has    *)
(* happened, held versions stay intact, roots are freed once, no version   *)
(* is forgotten, and acquire_version implements SnapshotStore.             *)
(***************************************************************************)
EXTENDS VersionedGraph, FiniteSetTheorems, TLAPS

USE ThreadAssumption, SizeAssumption, BoundAssumption

Filler == {"setWord", "setRoot", "publish"}
Releasing == {"isLatest", "reread", "drop"}
Removing == {"free", "tombstone"}
Seeking == {"find", "check", "count", "cas"}
Pcs == {"idle", "latest", "zero", "null"} \cup Seeking \cup Holding \cup Releasing \cup Removing

Words == [ts : Nat, ct : Nat]
Entries == [key : Nat, word : Words, root : Nat \cup {nullptr}]
Handles == [timestamp : Nat \cup {-1}, table_entry : Slot, root : Nat \cup {nullptr}]

TypeOK ==
    /\ current_timestamp \in Nat \ {0}
    /\ table \in [Slot -> Entries]
    /\ freed \subseteq Nat
    /\ pc \in [Thread -> Pcs]
    /\ made \in [Thread -> Nat]
    /\ latest_ts \in [Thread -> Nat]
    /\ h \in [Thread -> Slot]
    /\ refct_and_ts \in [Thread -> Words]
    /\ S \in [Thread -> Handles]
    /\ since \in [Thread -> Nat]

\* The writer is filling the entry of a version that is not visible yet.
Filling(s) == pc[Writer] \in Filler /\ h[Writer] = s
HoldersAt(s) == {t \in Thread : pc[t] \in Holding /\ S[t].table_entry = s}
Vacant == {max_ts, tombstone}

\* How many versions there are.
Clock ==
    /\ made[Writer] <= MaxUpdates
    /\ current_timestamp =
          IF pc[Writer] \in {"latest", "root", "build"} \cup Seeking \cup Filler
          THEN made[Writer] ELSE made[Writer] + 1

\* An entry that is being filled, and any other: its count is one more than the
\* threads that hold it, until the last of them takes the version away.
FillingOK(s) ==
    /\ table[s].key = current_timestamp
    /\ table[s].word = IF pc[Writer] = "setWord" THEN Zero ELSE make_refct(current_timestamp, 1)
    /\ table[s].root = IF pc[Writer] = "publish" THEN current_timestamp ELSE nullptr
    /\ HoldersAt(s) = {}
FilledOK(s) ==
    /\ table[s].word.ct > 0 =>
          /\ table[s].key = table[s].word.ts /\ table[s].key \notin Vacant
          /\ table[s].root = table[s].key
          /\ table[s].word.ct = Cardinality(HoldersAt(s)) + 1
    /\ table[s].word.ct = 0 => HoldersAt(s) = {}
    /\ table[s].key \in Vacant => table[s].word = Zero /\ table[s].root = nullptr
    /\ table[s].key \notin Vacant => table[s].key < current_timestamp
    /\ table[s].root \in {nullptr, table[s].key}
SlotOK(s) == IF Filling(s) THEN FillingOK(s) ELSE FilledOK(s)

\* A version has one entry.
Distinct ==
    \A s \in Slot, u \in Slot : table[s].key = table[u].key /\ table[s].key \notin Vacant => s = u

FreedOK == \A v \in freed : v < current_timestamp /\ \A s \in Slot : table[s].root # v

\* What a thread knows of the entry it is at.
HolderOK(t) ==
    /\ S[t].timestamp \in Nat
    /\ table[S[t].table_entry].key = S[t].timestamp
    /\ pc[t] = "root" => h[t] = S[t].table_entry
    /\ pc[t] # "root" => S[t].root = S[t].timestamp
ReleaserOK(t) ==
    /\ S[t].timestamp \in Nat /\ S[t].timestamp < current_timestamp
    /\ S[t].root = S[t].timestamp
    /\ \A s \in Slot : table[s].key = S[t].timestamp => s = S[t].table_entry
    /\ pc[t] = "drop" =>
          /\ refct_and_ts[t].ct = 1
          /\ table[S[t].table_entry].key = S[t].timestamp => refct_and_ts[t].ts = S[t].timestamp
RemoverOK(t) ==
    /\ S[t].timestamp \in Nat /\ S[t].timestamp < current_timestamp
    /\ pc[t] = "free" =>
          /\ table[S[t].table_entry] = Entry(S[t].timestamp, make_refct(S[t].timestamp, 0), S[t].timestamp)
          /\ S[t].root = S[t].timestamp
    /\ pc[t] = "tombstone" =>
          table[S[t].table_entry] = Entry(S[t].timestamp, Zero, nullptr)
SeekerOK(t) ==
    /\ since[t] < current_timestamp
    /\ pc[t] \in Seeking => since[t] <= latest_ts[t] /\ latest_ts[t] < current_timestamp
    /\ pc[t] \in {"check", "count", "cas"} => latest_ts[t] <= table[h[t]].key
    /\ pc[t] = "cas" => refct_and_ts[t].ct > 0
ThreadOK(t) ==
    /\ pc[t] \in Holding => HolderOK(t)
    /\ pc[t] \in Releasing => ReleaserOK(t)
    /\ pc[t] \in Removing => RemoverOK(t)
    /\ pc[t] \in {"latest"} \cup Seeking => SeekerOK(t)

RemoverUnique ==
    \A t \in Thread, u \in Thread :
        pc[t] \in Removing /\ pc[u] \in Removing /\ S[t].table_entry = S[u].table_entry => t = u

\* The writer builds on the latest version.
WriterOK ==
    /\ pc[Writer] \in {"latest"} \cup Seeking => since[Writer] = latest_timestamp
    /\ pc[Writer] \in {"root", "build"} \cup Filler => S[Writer].timestamp = latest_timestamp

\* Reclaimed, entry by entry.
Kept(s) ==
    table[s].word.ct > 0 /\ table[s].key < latest_timestamp =>
        \/ HoldersAt(s) # {}
        \/ \E t \in Thread : pc[t] \in Releasing /\ S[t].timestamp = table[s].key

Good ==
    /\ TypeOK /\ Clock
    /\ \A s \in Slot : SlotOK(s)
    /\ Distinct /\ FreedOK
    /\ \A t \in Thread : ThreadOK(t)
    /\ RemoverUnique /\ WriterOK
    /\ \A s \in Slot : Kept(s)

Inv == Sane => Good

---------------------------------------------------------------------------
(* What one step leaves alone.                                              *)

\* A step of thread t does not touch the locals of another.
Others(t) ==
    \A u \in Thread \ {t} :
        /\ pc'[u] = pc[u] /\ made'[u] = made[u] /\ latest_ts'[u] = latest_ts[u]
        /\ h'[u] = h[u] /\ refct_and_ts'[u] = refct_and_ts[u]
        /\ S'[u] = S[u] /\ since'[u] = since[u]

\* Thread t holds the entry it held, and none that it did not.
SameHold(t, s) ==
    (pc'[t] \in Holding /\ S'[t].table_entry = s) <=> (pc[t] \in Holding /\ S[t].table_entry = s)

\* Only entry s changes, and if its key does, it is to one nobody goes by.
OnlySlot(x) == \A s \in Slot \ {x} : table'[s] = table[s]
KeyKept(x) ==
    \/ table'[x].key = table[x].key
    \/ table'[x].key >= current_timestamp /\ HoldersAt(x) = {}
NotRemoved(t, x) == \A u \in Thread \ {t} : pc[u] \in Removing => S[u].table_entry # x

LEMMA ThreadFacts == Writer \in Thread /\ IsFiniteSet(Thread)
  BY FS_Singleton, FS_Union DEF Thread

\* Versions stay below the two keys that are not versions.
LEMMA ClockBound ==
    ASSUME TypeOK, Clock
    PROVE  /\ current_timestamp <= tombstone
           /\ pc[Writer] \in {"latest", "root", "build"} \cup Seeking \cup Filler =>
                 current_timestamp < tombstone
           /\ tombstone \in Nat /\ max_ts = tombstone + 1
  BY ThreadFacts DEF TypeOK, Clock, tombstone

LEMMA HoldersFinite ==
    ASSUME NEW s
    PROVE  IsFiniteSet(HoldersAt(s))
  BY ThreadFacts, FS_Subset DEF HoldersAt

\* The entry of a version that is being removed has a count of 0, and the key.
LEMMA RemoverAt ==
    ASSUME Good, NEW u \in Thread, pc[u] \in Removing
    PROVE  /\ S[u].table_entry \in Slot
           /\ table[S[u].table_entry].key = S[u].timestamp
           /\ table[S[u].table_entry].word.ct = 0
           /\ S[u].timestamp \in Nat
           /\ S[u].timestamp < current_timestamp
           /\ S[u].timestamp \notin Vacant
           /\ ~ Filling(S[u].table_entry)
  <1>1. S[u] \in Handles /\ RemoverOK(u) /\ current_timestamp \in Nat
    BY DEF Good, TypeOK, ThreadOK
  <1>2. S[u].table_entry \in Slot
    BY <1>1 DEF Handles
  <1>3. pc[u] = "free" \/ pc[u] = "tombstone"
    BY DEF Removing
  <1>4. /\ table[S[u].table_entry].key = S[u].timestamp
        /\ table[S[u].table_entry].word.ct = 0
        /\ S[u].timestamp \in Nat
        /\ S[u].timestamp < current_timestamp
    BY <1>1, <1>3 DEF RemoverOK, Entry, make_refct, Zero
  <1>5. S[u].timestamp \notin Vacant
    BY <1>1, <1>4, ClockBound DEF Vacant, Good
  <1>6. ~ Filling(S[u].table_entry)
    <2>1. SUFFICES ASSUME Filling(S[u].table_entry) PROVE FALSE
      OBVIOUS
    <2>2. FillingOK(S[u].table_entry)
      BY <1>2, <2>1 DEF Good, SlotOK
    <2> QED BY <2>2, <1>4, <1>1 DEF FillingOK
  <1> QED BY <1>2, <1>4, <1>5, <1>6

LEMMA SameHolders ==
    ASSUME NEW t \in Thread, NEW s, Others(t), SameHold(t, s)
    PROVE  HoldersAt(s)' = HoldersAt(s)
  <1>1. \A u \in Thread :
            (pc'[u] \in Holding /\ S'[u].table_entry = s) <=> (pc[u] \in Holding /\ S[u].table_entry = s)
    BY DEF Others, SameHold
  <1> QED BY <1>1 DEF HoldersAt

\* An entry that no step touches stays in order.
LEMMA SlotKept ==
    ASSUME NEW s \in Slot, SlotOK(s), HoldersAt(s)' = HoldersAt(s),
           current_timestamp' = current_timestamp, table'[s] = table[s],
           Filling(s)' <=> Filling(s), Filling(s) => pc'[Writer] = pc[Writer]
    PROVE  SlotOK(s)'
  <1>1. CASE Filling(s)
    BY <1>1 DEF SlotOK, FillingOK
  <1>2. CASE ~ Filling(s)
    BY <1>2 DEF SlotOK, FilledOK
  <1> QED BY <1>1, <1>2

\* What the other threads know stays true.
LEMMA OthersOK ==
    ASSUME TypeOK, TypeOK', \A u \in Thread : ThreadOK(u),
           NEW t \in Thread, NEW x \in Slot, Others(t),
           current_timestamp' >= current_timestamp, OnlySlot(x), KeyKept(x),
           table'[x] = table[x] \/ NotRemoved(t, x),
           NEW u \in Thread \ {t}
    PROVE  ThreadOK(u)'
  <1>1. /\ pc'[u] = pc[u] /\ latest_ts'[u] = latest_ts[u]
        /\ h'[u] = h[u] /\ refct_and_ts'[u] = refct_and_ts[u]
        /\ S'[u] = S[u] /\ since'[u] = since[u]
    BY DEF Others
  <1>2. /\ S[u] \in Handles /\ h[u] \in Slot /\ latest_ts[u] \in Nat /\ since[u] \in Nat
        /\ current_timestamp \in Nat /\ current_timestamp' \in Nat
        /\ S[u].table_entry \in Slot
    BY DEF TypeOK, Handles
  <1>3. \A s \in Slot : table[s].key \in Nat /\ table'[s].key \in Nat
    BY DEF TypeOK, Entries
  <1>4. \A s \in Slot :
            \/ table'[s].key = table[s].key
            \/ s = x /\ table'[s].key >= current_timestamp /\ HoldersAt(x) = {}
    BY DEF OnlySlot, KeyKept
  <1>5. ThreadOK(u)
    OBVIOUS
  <1>6. ASSUME pc[u] \in Holding PROVE HolderOK(u)'
    <2>1. u \in HoldersAt(S[u].table_entry)
      BY <1>6 DEF HoldersAt
    <2>2. table'[S[u].table_entry].key = table[S[u].table_entry].key
      BY <2>1, <1>4, <1>2
    <2> QED BY <1>1, <1>5, <1>6, <2>2 DEF ThreadOK, HolderOK
  <1>7. ASSUME pc[u] \in Releasing PROVE ReleaserOK(u)'
    <2>1. ReleaserOK(u)
      BY <1>5, <1>7 DEF ThreadOK
    <2>2. \A s \in Slot : table'[s].key = S[u].timestamp => table[s].key = S[u].timestamp
      BY <1>2, <1>3, <1>4, <2>1 DEF ReleaserOK
    <2> QED BY <1>1, <1>2, <2>1, <2>2 DEF ReleaserOK
  <1>8. ASSUME pc[u] \in Removing PROVE RemoverOK(u)'
    <2>1. table'[S[u].table_entry] = table[S[u].table_entry]
      BY <1>8, <1>2 DEF OnlySlot, NotRemoved
    <2> QED BY <1>1, <1>2, <1>5, <1>8, <2>1 DEF ThreadOK, RemoverOK
  <1>9. ASSUME pc[u] \in {"latest"} \cup Seeking PROVE SeekerOK(u)'
    <2>1. SeekerOK(u)
      BY <1>5, <1>9 DEF ThreadOK
    <2>2. since[u] < current_timestamp'
      BY <2>1, <1>2 DEF SeekerOK
    <2>3. ASSUME pc[u] \in Seeking
          PROVE  since[u] <= latest_ts[u] /\ latest_ts[u] < current_timestamp'
      BY <2>1, <1>2, <2>3 DEF SeekerOK
    <2>4. ASSUME pc[u] \in {"check", "count", "cas"}
          PROVE  latest_ts[u] <= table'[h[u]].key
      <3>1. latest_ts[u] <= table[h[u]].key /\ latest_ts[u] < current_timestamp
        BY <2>1, <2>4 DEF SeekerOK, Seeking
      <3> QED BY <3>1, <1>2, <1>3, <1>4
    <2>5. pc[u] = "cas" => refct_and_ts[u].ct > 0
      BY <2>1 DEF SeekerOK
    <2> QED BY <1>1, <2>2, <2>3, <2>4, <2>5 DEF SeekerOK
  <1> QED BY <1>1, <1>6, <1>7, <1>8, <1>9 DEF ThreadOK

LEMMA RemoversKept ==
    ASSUME RemoverUnique, NEW t \in Thread, Others(t),
           \/ pc'[t] \notin Removing
           \/ pc[t] \in Removing /\ S'[t] = S[t]
           \/ NotRemoved(t, S'[t].table_entry)
    PROVE  RemoverUnique'
  <1>1. SUFFICES ASSUME NEW u \in Thread, NEW w \in Thread,
                        pc'[u] \in Removing, pc'[w] \in Removing,
                        S'[u].table_entry = S'[w].table_entry
                 PROVE  u = w
    BY DEF RemoverUnique
  <1>2. \A v \in Thread \ {t} : pc'[v] = pc[v] /\ S'[v] = S[v]
    BY DEF Others
  <1>3. CASE u # t /\ w # t
    BY <1>1, <1>2, <1>3 DEF RemoverUnique
  <1>4. CASE u = t
    BY <1>1, <1>2, <1>4 DEF RemoverUnique, NotRemoved
  <1>5. CASE w = t
    BY <1>1, <1>2, <1>5 DEF RemoverUnique, NotRemoved
  <1> QED BY <1>3, <1>4, <1>5

LEMMA WriterKept ==
    ASSUME WriterOK, NEW t \in Reader, Others(t), current_timestamp' = current_timestamp
    PROVE  WriterOK'
  <1>1. pc'[Writer] = pc[Writer] /\ S'[Writer] = S[Writer] /\ since'[Writer] = since[Writer]
    BY DEF Others, Thread
  <1> QED BY <1>1 DEF WriterOK, latest_timestamp

LEMMA ClockKept ==
    ASSUME Clock, NEW t \in Thread, Others(t), current_timestamp' = current_timestamp,
           t = Writer => /\ made'[t] = made[t]
                         /\ pc'[t] \in {"latest", "root", "build"} \cup Seeking \cup Filler <=>
                            pc[t] \in {"latest", "root", "build"} \cup Seeking \cup Filler
    PROVE  Clock'
  <1>1. made'[Writer] = made[Writer]
    BY ThreadFacts DEF Others
  <1>2. (pc'[Writer] \in {"latest", "root", "build"} \cup Seeking \cup Filler) <=>
        (pc[Writer] \in {"latest", "root", "build"} \cup Seeking \cup Filler)
    BY ThreadFacts DEF Others
  <1> QED BY <1>1, <1>2 DEF Clock

LEMMA KeptSlot ==
    ASSUME NEW s \in Slot, Kept(s), NEW t \in Thread, Others(t),
           current_timestamp' = current_timestamp, table'[s] = table[s],
           HoldersAt(s)' = HoldersAt(s),
           \/ pc[t] \notin Releasing
           \/ pc'[t] \in Releasing /\ S'[t] = S[t]
           \/ table[s].key # S[t].timestamp
    PROVE  Kept(s)'
  <1>1. SUFFICES ASSUME table[s].word.ct > 0, table[s].key < latest_timestamp,
                        HoldersAt(s) = {}
                 PROVE  \E w \in Thread : pc'[w] \in Releasing /\ S'[w].timestamp = table[s].key
    BY DEF Kept, latest_timestamp
  <1>2. PICK w \in Thread : pc[w] \in Releasing /\ S[w].timestamp = table[s].key
    BY <1>1 DEF Kept
  <1>3. pc'[w] \in Releasing /\ S'[w] = S[w]
    BY <1>2 DEF Others
  <1> QED BY <1>2, <1>3

\* A step of t that stores nothing and does not change what t holds.
LEMMA Quiet ==
    ASSUME Good, TypeOK', Clock', NEW t \in Thread, Others(t),
           table' = table, current_timestamp' = current_timestamp, freed' = freed,
           \A s \in Slot : SameHold(t, s),
           t = Writer => pc[t] \notin Filler /\ pc'[t] \notin Filler,
           pc'[t] \notin Removing,
           ThreadOK(t)', t = Writer => WriterOK',
           \/ pc[t] \notin Releasing
           \/ pc'[t] \in Releasing /\ S'[t] = S[t]
           \/ \A s \in Slot : Kept(s)'
    PROVE  Good'
  <1>1. \A s \in Slot : HoldersAt(s)' = HoldersAt(s)
    BY SameHolders
  <1>2. \A s \in Slot : (Filling(s)' <=> Filling(s)) /\ (Filling(s) => pc'[Writer] = pc[Writer])
    BY ThreadFacts DEF Filling, Others
  <1>3. \A s \in Slot : SlotOK(s)'
    BY <1>1, <1>2, SlotKept DEF Good
  <1>4. Distinct' /\ FreedOK'
    BY DEF Good, Distinct, FreedOK
  <1>5. PICK x \in Slot : x = 0
    BY DEF Slot
  <1>6. current_timestamp \in Nat /\ OnlySlot(x) /\ KeyKept(x)
    BY DEF OnlySlot, KeyKept, Good, TypeOK
  <1>7. \A u \in Thread \ {t} : ThreadOK(u)'
    BY <1>6, OthersOK DEF Good
  <1>8. \A u \in Thread : ThreadOK(u)'
    BY <1>7
  <1>9. RemoverUnique'
    BY RemoversKept DEF Good
  <1>10. WriterOK'
    BY WriterKept DEF Good, Thread
  <1>11. \A s \in Slot : Kept(s)'
    BY <1>1, KeptSlot DEF Good
  <1> QED BY <1>3, <1>4, <1>8, <1>9, <1>10, <1>11 DEF Good

\* A step of t that changes entry x only.
LEMMA OneSlot ==
    ASSUME Good, TypeOK', NEW t \in Thread, Others(t), NEW x \in Slot,
           current_timestamp' = current_timestamp, OnlySlot(x), KeyKept(x), NotRemoved(t, x),
           \A s \in Slot \ {x} : SameHold(t, s),
           t = Writer => (pc[t] \in Filler => h[t] = x) /\ (pc'[t] \in Filler => h'[t] = x),
           \/ pc[t] \notin Releasing
           \/ \A s \in Slot \ {x} : table[s].key # S[t].timestamp
    PROVE  /\ \A s \in Slot \ {x} : SlotOK(s)' /\ Kept(s)'
           /\ \A u \in Thread \ {t} : ThreadOK(u)'
           /\ t \in Reader => WriterOK'
  <1>1. \A s \in Slot \ {x} : HoldersAt(s)' = HoldersAt(s)
    BY SameHolders
  <1>2. \A s \in Slot \ {x} : (Filling(s)' <=> Filling(s)) /\ (Filling(s) => pc'[Writer] = pc[Writer])
    BY ThreadFacts DEF Filling, Others
  <1>3. \A s \in Slot \ {x} : SlotOK(s)'
    BY <1>1, <1>2, SlotKept DEF Good, OnlySlot
  <1>4. \A s \in Slot \ {x} : Kept(s)'
    BY <1>1, KeptSlot DEF Good, OnlySlot
  <1>5. current_timestamp' >= current_timestamp
    BY DEF Good, TypeOK
  <1>6. \A u \in Thread \ {t} : ThreadOK(u)'
    BY <1>5, OthersOK DEF Good
  <1>7. t \in Reader => WriterOK'
    BY WriterKept DEF Good
  <1> QED BY <1>3, <1>4, <1>6, <1>7

---------------------------------------------------------------------------
(* Every step keeps the types and the locals of the other threads.          *)

LEMMA LocalSteps ==
    ASSUME TypeOK, NEW t \in Thread, Acquire(t) \/ Release(t)
    PROVE  Others(t)
  <1>1. CASE Call(t)
    BY <1>1 DEF TypeOK, Others, Call, Go, sharedVars, localVars, historyVars
  <1>2. CASE ReadLatest(t)
    BY <1>2 DEF TypeOK, Others, ReadLatest, Go, sharedVars, localVars, historyVars
  <1>3. CASE Find(t)
    BY <1>3 DEF TypeOK, Others, Find, Go, sharedVars, localVars, historyVars, Forget, ForgetWord
  <1>4. CASE CheckKey(t)
    BY <1>4 DEF TypeOK, Others, CheckKey, Go, sharedVars, localVars, historyVars, Forget, ForgetWord
  <1>5. CASE ReadCount(t)
    BY <1>5 DEF TypeOK, Others, ReadCount, Go, sharedVars, localVars, historyVars, Forget, ForgetWord
  <1>6. CASE Cas(t)
    BY <1>6 DEF TypeOK, Others, Cas, Go, sharedVars, localVars, historyVars, ForgetWord
  <1>7. CASE ReadRoot(t)
    BY <1>7 DEF TypeOK, Others, ReadRoot, Go, sharedVars, localVars, historyVars, Forget, ForgetWord
  <1>8. CASE Decrement(t)
    BY <1>8 DEF TypeOK, Others, Decrement, Go, sharedVars, localVars, historyVars, Return
  <1>9. CASE IsLatest(t)
    BY <1>9 DEF TypeOK, Others, IsLatest, Go, sharedVars, localVars, historyVars, Return
  <1>10. CASE Reread(t)
    BY <1>10 DEF TypeOK, Others, Reread, Go, sharedVars, localVars, historyVars, Return
  <1>11. CASE Drop(t)
    BY <1>11 DEF TypeOK, Others, Drop, Go, sharedVars, localVars, historyVars, Return, ForgetWord
  <1>12. CASE Free(t)
    BY <1>12 DEF TypeOK, Others, Free, Go, sharedVars, localVars, historyVars
  <1>13. CASE StoreTombstone(t)
    BY <1>13 DEF TypeOK, Others, StoreTombstone, Go, sharedVars, localVars, historyVars
  <1>14. CASE StoreZero(t)
    BY <1>14 DEF TypeOK, Others, StoreZero, Go, sharedVars, localVars, historyVars
  <1>15. CASE StoreNull(t)
    BY <1>15 DEF TypeOK, Others, StoreNull, Go, sharedVars, localVars, historyVars, Return
  <1> QED BY <1>1, <1>2, <1>3, <1>4, <1>5, <1>6, <1>7, <1>8, <1>9, <1>10, <1>11, <1>12, <1>13, <1>14, <1>15 DEF Acquire, Release

LEMMA UpdateLocals ==
    ASSUME TypeOK, Update
    PROVE  Others(Writer)
  <1>1. CASE Insert
    BY <1>1, ThreadFacts DEF TypeOK, Others, Insert, Go, sharedVars, localVars, historyVars
  <1>2. CASE SetWord
    BY <1>2, ThreadFacts DEF TypeOK, Others, SetWord, Go, sharedVars, localVars, historyVars
  <1>3. CASE SetRoot
    BY <1>3, ThreadFacts DEF TypeOK, Others, SetRoot, Go, sharedVars, localVars, historyVars
  <1>4. CASE Publish
    BY <1>4, ThreadFacts DEF TypeOK, Others, Publish, Go, sharedVars, localVars, historyVars, Forget, ForgetWord
  <1> QED BY <1>1, <1>2, <1>3, <1>4 DEF Update

LEMMA Typed ==
    /\ Zero \in Words /\ NoVersion \in Handles /\ tombstone \in Nat
    /\ 0 \in Slot /\ \A s \in Slot : (s + 1) % m \in Slot
    /\ \A w \in Words : Minus1(w) \in Words
  BY DEF Zero, Words, NoVersion, Handles, Slot, nullptr, Minus1, make_refct, tombstone

LEMMA TypeSteps ==
    ASSUME Good, NEW t \in Thread, Acquire(t) \/ Release(t)
    PROVE  TypeOK'
  <1>0. TypeOK
    BY DEF Good
  <1>1. CASE Call(t)
    <2>1. pc' \in [Thread -> Pcs]
      BY <1>0, <1>1, ThreadFacts DEF Call, TypeOK, Go, Pcs, Seeking, Holding, Releasing, Removing
    <2>2. made' \in [Thread -> Nat]
      BY <1>0, <1>1, Typed, ThreadFacts DEF Call, TypeOK, sharedVars, localVars, historyVars
    <2>3. since' \in [Thread -> Nat]
      BY <1>0, <1>1, Typed, ThreadFacts DEF Call, TypeOK, sharedVars, localVars, historyVars, latest_timestamp
    <2>4. UNCHANGED <<current_timestamp, table, freed, latest_ts, h, refct_and_ts, S>>
      BY <1>1 DEF Call, sharedVars, localVars, historyVars
    <2> QED BY <1>0, <2>1, <2>2, <2>3, <2>4 DEF TypeOK
  <1>2. CASE ReadLatest(t)
    <2>1. pc' \in [Thread -> Pcs]
      BY <1>0, <1>2, ThreadFacts DEF ReadLatest, TypeOK, Go, Pcs, Seeking, Holding, Releasing, Removing
    <2>2. latest_ts' \in [Thread -> Nat]
      BY <1>0, <1>2, Typed, ThreadFacts DEF ReadLatest, TypeOK, sharedVars, localVars, historyVars, latest_timestamp
    <2>3. h' \in [Thread -> Slot]
      BY <1>0, <1>2, Typed, ThreadFacts DEF ReadLatest, TypeOK, sharedVars, localVars, historyVars, Slot
    <2>4. UNCHANGED <<current_timestamp, table, freed, made, refct_and_ts, S, since>>
      BY <1>2 DEF ReadLatest, sharedVars, localVars, historyVars
    <2> QED BY <1>0, <2>1, <2>2, <2>3, <2>4 DEF TypeOK
  <1>3. CASE Find(t)
    <2>1. pc' \in [Thread -> Pcs]
      BY <1>0, <1>3, ThreadFacts DEF Find, TypeOK, Go, Pcs, Seeking, Holding, Releasing, Removing
    <2>2. latest_ts' \in [Thread -> Nat]
      BY <1>0, <1>3, Typed, ThreadFacts DEF Find, TypeOK, sharedVars, localVars, historyVars, Forget
    <2>3. h' \in [Thread -> Slot]
      BY <1>0, <1>3, Typed, ThreadFacts DEF Find, TypeOK, sharedVars, localVars, historyVars, Forget, Slot
    <2>4. refct_and_ts' \in [Thread -> Words]
      BY <1>0, <1>3, Typed, ThreadFacts DEF Find, TypeOK, sharedVars, localVars, historyVars, Forget, ForgetWord
    <2>5. UNCHANGED <<current_timestamp, table, freed, made, S, since>>
      BY <1>3 DEF Find, sharedVars, localVars, historyVars
    <2> QED BY <1>0, <2>1, <2>2, <2>3, <2>4, <2>5 DEF TypeOK
  <1>4. CASE CheckKey(t)
    <2>1. pc' \in [Thread -> Pcs]
      BY <1>0, <1>4, ThreadFacts DEF CheckKey, TypeOK, Go, Pcs, Seeking, Holding, Releasing, Removing
    <2>2. latest_ts' \in [Thread -> Nat]
      BY <1>0, <1>4, Typed, ThreadFacts DEF CheckKey, TypeOK, sharedVars, localVars, historyVars, Forget
    <2>3. h' \in [Thread -> Slot]
      BY <1>0, <1>4, Typed, ThreadFacts DEF CheckKey, TypeOK, sharedVars, localVars, historyVars, Forget, Slot
    <2>4. refct_and_ts' \in [Thread -> Words]
      BY <1>0, <1>4, Typed, ThreadFacts DEF CheckKey, TypeOK, sharedVars, localVars, historyVars, Forget, ForgetWord
    <2>5. UNCHANGED <<current_timestamp, table, freed, made, S, since>>
      BY <1>4 DEF CheckKey, sharedVars, localVars, historyVars
    <2> QED BY <1>0, <2>1, <2>2, <2>3, <2>4, <2>5 DEF TypeOK
  <1>5. CASE ReadCount(t)
    <2>1. pc' \in [Thread -> Pcs]
      BY <1>0, <1>5, ThreadFacts DEF ReadCount, TypeOK, Go, Pcs, Seeking, Holding, Releasing, Removing
    <2>2. latest_ts' \in [Thread -> Nat]
      BY <1>0, <1>5, Typed, ThreadFacts DEF ReadCount, TypeOK, sharedVars, localVars, historyVars, Forget
    <2>3. h' \in [Thread -> Slot]
      BY <1>0, <1>5, Typed, ThreadFacts DEF ReadCount, TypeOK, sharedVars, localVars, historyVars, Forget, Slot
    <2>4. refct_and_ts' \in [Thread -> Words]
      BY <1>0, <1>5, Typed, ThreadFacts DEF ReadCount, TypeOK, sharedVars, localVars, historyVars, Forget, ForgetWord, Entries
    <2>5. UNCHANGED <<current_timestamp, table, freed, made, S, since>>
      BY <1>5 DEF ReadCount, sharedVars, localVars, historyVars
    <2> QED BY <1>0, <2>1, <2>2, <2>3, <2>4, <2>5 DEF TypeOK
  <1>6. CASE Cas(t)
    <2>1. table' \in [Slot -> Entries]
      <3>1. table' = table \/ table' = [table EXCEPT ![h[t]].word.ct = @ + 1]
        BY <1>6 DEF Cas
      <3>2. h[t] \in Slot /\ table \in [Slot -> Entries]
        BY <1>0 DEF TypeOK
      <3> QED BY <3>1, <3>2 DEF Entries, Words
    <2>2. pc' \in [Thread -> Pcs]
      BY <1>0, <1>6, ThreadFacts DEF Cas, TypeOK, Go, Pcs, Seeking, Holding, Releasing, Removing
    <2>3. refct_and_ts' \in [Thread -> Words]
      BY <1>0, <1>6, Typed, ThreadFacts DEF Cas, TypeOK, sharedVars, localVars, historyVars, ForgetWord
    <2>4. S' \in [Thread -> Handles]
      <3>1. \/ S' = S
            \/ S' = [S EXCEPT ![t] = [timestamp |-> table[h[t]].key, table_entry |-> h[t], root |-> nullptr]]
        BY <1>6 DEF Cas
      <3>2. h[t] \in Slot /\ table[h[t]].key \in Nat /\ S \in [Thread -> Handles]
        BY <1>0 DEF TypeOK, Entries
      <3> QED BY <3>1, <3>2 DEF Handles, nullptr
    <2>5. since' \in [Thread -> Nat]
      BY <1>0, <1>6, Typed, ThreadFacts DEF Cas, TypeOK, sharedVars, localVars, historyVars
    <2>6. UNCHANGED <<current_timestamp, freed, made, latest_ts, h>>
      BY <1>6 DEF Cas, sharedVars, localVars, historyVars
    <2> QED BY <1>0, <2>1, <2>2, <2>3, <2>4, <2>5, <2>6 DEF TypeOK
  <1>7. CASE ReadRoot(t)
    <2>1. pc' \in [Thread -> Pcs]
      BY <1>0, <1>7, ThreadFacts DEF ReadRoot, TypeOK, Go, Pcs, Seeking, Holding, Releasing, Removing
    <2>2. latest_ts' \in [Thread -> Nat]
      BY <1>0, <1>7, Typed, ThreadFacts DEF ReadRoot, TypeOK, sharedVars, localVars, historyVars, Forget
    <2>3. h' \in [Thread -> Slot]
      BY <1>0, <1>7, Typed, ThreadFacts DEF ReadRoot, TypeOK, sharedVars, localVars, historyVars, Forget, Slot
    <2>4. refct_and_ts' \in [Thread -> Words]
      BY <1>0, <1>7, Typed, ThreadFacts DEF ReadRoot, TypeOK, sharedVars, localVars, historyVars, Forget, ForgetWord
    <2>5. S' \in [Thread -> Handles]
      BY <1>0, <1>7, Typed, ThreadFacts DEF ReadRoot, TypeOK, sharedVars, localVars, historyVars, Handles, Entries
    <2>6. UNCHANGED <<current_timestamp, table, freed, made, since>>
      BY <1>7 DEF ReadRoot, sharedVars, localVars, historyVars
    <2> QED BY <1>0, <2>1, <2>2, <2>3, <2>4, <2>5, <2>6 DEF TypeOK
  <1>8. CASE Decrement(t)
    <2>1. table' \in [Slot -> Entries]
      BY <1>0, <1>8, Typed, ThreadFacts DEF Decrement, TypeOK, sharedVars, localVars, historyVars, Entries, Handles
    <2>2. pc' \in [Thread -> Pcs]
      BY <1>0, <1>8, ThreadFacts DEF Decrement, TypeOK, Go, Return, Pcs, Seeking, Holding, Releasing, Removing
    <2>3. S' \in [Thread -> Handles]
      BY <1>0, <1>8, Typed, ThreadFacts DEF Decrement, TypeOK, sharedVars, localVars, historyVars, Return
    <2>4. UNCHANGED <<current_timestamp, freed, made, latest_ts, h, refct_and_ts, since>>
      BY <1>8 DEF Decrement, sharedVars, localVars, historyVars
    <2> QED BY <1>0, <2>1, <2>2, <2>3, <2>4 DEF TypeOK
  <1>9. CASE IsLatest(t)
    <2>1. pc' \in [Thread -> Pcs]
      BY <1>0, <1>9, ThreadFacts DEF IsLatest, TypeOK, Go, Return, Pcs, Seeking, Holding, Releasing, Removing
    <2>2. S' \in [Thread -> Handles]
      BY <1>0, <1>9, Typed, ThreadFacts DEF IsLatest, TypeOK, sharedVars, localVars, historyVars, Return
    <2>3. UNCHANGED <<current_timestamp, table, freed, made, latest_ts, h, refct_and_ts, since>>
      BY <1>9 DEF IsLatest, sharedVars, localVars, historyVars
    <2> QED BY <1>0, <2>1, <2>2, <2>3 DEF TypeOK
  <1>10. CASE Reread(t)
    <2>1. pc' \in [Thread -> Pcs]
      BY <1>0, <1>10, ThreadFacts DEF Reread, TypeOK, Go, Return, Pcs, Seeking, Holding, Releasing, Removing
    <2>2. refct_and_ts' \in [Thread -> Words]
      BY <1>0, <1>10, Typed, ThreadFacts DEF Reread, TypeOK, sharedVars, localVars, historyVars, Entries, Handles
    <2>3. S' \in [Thread -> Handles]
      BY <1>0, <1>10, Typed, ThreadFacts DEF Reread, TypeOK, sharedVars, localVars, historyVars, Return
    <2>4. UNCHANGED <<current_timestamp, table, freed, made, latest_ts, h, since>>
      BY <1>10 DEF Reread, sharedVars, localVars, historyVars
    <2> QED BY <1>0, <2>1, <2>2, <2>3, <2>4 DEF TypeOK
  <1>11. CASE Drop(t)
    <2>1. table' \in [Slot -> Entries]
      <3>1. table' = table \/ table' = [table EXCEPT ![S[t].table_entry].word = Minus1(@)]
        BY <1>11 DEF Drop
      <3>2. S[t].table_entry \in Slot /\ table \in [Slot -> Entries]
        BY <1>0 DEF TypeOK, Handles
      <3> QED BY <3>1, <3>2, Typed DEF Entries
    <2>2. pc' \in [Thread -> Pcs]
      BY <1>0, <1>11, ThreadFacts DEF Drop, TypeOK, Go, Return, Pcs, Seeking, Holding, Releasing, Removing
    <2>3. refct_and_ts' \in [Thread -> Words]
      BY <1>0, <1>11, Typed, ThreadFacts DEF Drop, TypeOK, sharedVars, localVars, historyVars, ForgetWord
    <2>4. S' \in [Thread -> Handles]
      BY <1>0, <1>11, Typed, ThreadFacts DEF Drop, TypeOK, sharedVars, localVars, historyVars, Return
    <2>5. UNCHANGED <<current_timestamp, freed, made, latest_ts, h, since>>
      BY <1>11 DEF Drop, sharedVars, localVars, historyVars
    <2> QED BY <1>0, <2>1, <2>2, <2>3, <2>4, <2>5 DEF TypeOK
  <1>12. CASE Free(t)
    <2> S[t].timestamp \in Nat
      BY <1>12, RemoverAt DEF Free, Go, Removing
    <2>1. table' \in [Slot -> Entries]
      BY <1>0, <1>12, Typed, ThreadFacts DEF Free, TypeOK, sharedVars, localVars, historyVars, Entries, Handles, Entry, nullptr
    <2>2. freed' \subseteq Nat
      BY <1>0, <1>12, Typed, ThreadFacts DEF Free, TypeOK, sharedVars, localVars, historyVars, Handles
    <2>3. pc' \in [Thread -> Pcs]
      BY <1>0, <1>12, ThreadFacts DEF Free, TypeOK, Go, Pcs, Seeking, Holding, Releasing, Removing
    <2>4. UNCHANGED <<current_timestamp, made, latest_ts, h, refct_and_ts, S, since>>
      BY <1>12 DEF Free, sharedVars, localVars, historyVars
    <2> QED BY <1>0, <2>1, <2>2, <2>3, <2>4 DEF TypeOK
  <1>13. CASE StoreTombstone(t)
    <2>1. table' \in [Slot -> Entries]
      BY <1>0, <1>13, Typed, ThreadFacts DEF StoreTombstone, TypeOK, sharedVars, localVars, historyVars, Entries, Handles
    <2>2. pc' \in [Thread -> Pcs]
      BY <1>0, <1>13, ThreadFacts DEF StoreTombstone, TypeOK, Go, Pcs, Seeking, Holding, Releasing, Removing
    <2>3. UNCHANGED <<current_timestamp, freed, made, latest_ts, h, refct_and_ts, S, since>>
      BY <1>13 DEF StoreTombstone, sharedVars, localVars, historyVars
    <2> QED BY <1>0, <2>1, <2>2, <2>3 DEF TypeOK
  <1>14. CASE StoreZero(t)
    <2>1. table' \in [Slot -> Entries]
      BY <1>0, <1>14, Typed, ThreadFacts DEF StoreZero, TypeOK, sharedVars, localVars, historyVars, Entries, Handles
    <2>2. pc' \in [Thread -> Pcs]
      BY <1>0, <1>14, ThreadFacts DEF StoreZero, TypeOK, Go, Pcs, Seeking, Holding, Releasing, Removing
    <2>3. UNCHANGED <<current_timestamp, freed, made, latest_ts, h, refct_and_ts, S, since>>
      BY <1>14 DEF StoreZero, sharedVars, localVars, historyVars
    <2> QED BY <1>0, <2>1, <2>2, <2>3 DEF TypeOK
  <1>15. CASE StoreNull(t)
    <2>1. table' \in [Slot -> Entries]
      BY <1>0, <1>15, Typed, ThreadFacts DEF StoreNull, TypeOK, sharedVars, localVars, historyVars, Entries, Handles, nullptr
    <2>2. pc' \in [Thread -> Pcs]
      BY <1>0, <1>15, ThreadFacts DEF StoreNull, TypeOK, Go, Return, Pcs, Seeking, Holding, Releasing, Removing
    <2>3. S' \in [Thread -> Handles]
      BY <1>0, <1>15, Typed, ThreadFacts DEF StoreNull, TypeOK, sharedVars, localVars, historyVars, Return
    <2>4. UNCHANGED <<current_timestamp, freed, made, latest_ts, h, refct_and_ts, since>>
      BY <1>15 DEF StoreNull, sharedVars, localVars, historyVars
    <2> QED BY <1>0, <2>1, <2>2, <2>3, <2>4 DEF TypeOK
  <1> QED BY <1>1, <1>2, <1>3, <1>4, <1>5, <1>6, <1>7, <1>8, <1>9, <1>10, <1>11, <1>12, <1>13, <1>14, <1>15 DEF Acquire, Release

LEMMA UpdateTypes ==
    ASSUME Good, Update
    PROVE  TypeOK'
  <1>0. TypeOK
    BY DEF Good
  <1>1. CASE Insert
    <2>1. table' \in [Slot -> Entries]
      <3>1. table' = table \/ table' = [table EXCEPT ![h[Writer]].key = current_timestamp]
        BY <1>1 DEF Insert
      <3>2. h[Writer] \in Slot /\ table \in [Slot -> Entries] /\ current_timestamp \in Nat
        BY <1>0, ThreadFacts DEF TypeOK
      <3> QED BY <3>1, <3>2 DEF Entries
    <2>2. pc' \in [Thread -> Pcs]
      BY <1>0, <1>1, ThreadFacts DEF Insert, TypeOK, Go, Pcs, Seeking, Holding, Releasing, Removing
    <2>3. h' \in [Thread -> Slot]
      BY <1>0, <1>1, Typed, ThreadFacts DEF Insert, TypeOK, sharedVars, localVars, historyVars, Slot
    <2>4. UNCHANGED <<current_timestamp, freed, made, latest_ts, refct_and_ts, S, since>>
      BY <1>1 DEF Insert, sharedVars, localVars, historyVars
    <2> QED BY <1>0, <2>1, <2>2, <2>3, <2>4 DEF TypeOK
  <1>2. CASE SetWord
    <2>1. table' \in [Slot -> Entries]
      BY <1>0, <1>2, Typed, ThreadFacts DEF SetWord, TypeOK, sharedVars, localVars, historyVars, Entries, Words, make_refct
    <2>2. pc' \in [Thread -> Pcs]
      BY <1>0, <1>2, ThreadFacts DEF SetWord, TypeOK, Go, Pcs, Seeking, Holding, Releasing, Removing
    <2>3. UNCHANGED <<current_timestamp, freed, made, latest_ts, h, refct_and_ts, S, since>>
      BY <1>2 DEF SetWord, sharedVars, localVars, historyVars
    <2> QED BY <1>0, <2>1, <2>2, <2>3 DEF TypeOK
  <1>3. CASE SetRoot
    <2>1. table' \in [Slot -> Entries]
      BY <1>0, <1>3, Typed, ThreadFacts DEF SetRoot, TypeOK, sharedVars, localVars, historyVars, Entries
    <2>2. pc' \in [Thread -> Pcs]
      BY <1>0, <1>3, ThreadFacts DEF SetRoot, TypeOK, Go, Pcs, Seeking, Holding, Releasing, Removing
    <2>3. UNCHANGED <<current_timestamp, freed, made, latest_ts, h, refct_and_ts, S, since>>
      BY <1>3 DEF SetRoot, sharedVars, localVars, historyVars
    <2> QED BY <1>0, <2>1, <2>2, <2>3 DEF TypeOK
  <1>4. CASE Publish
    <2>1. current_timestamp' \in Nat \ {0}
      BY <1>0, <1>4, Typed, ThreadFacts DEF Publish, TypeOK, sharedVars, localVars, historyVars
    <2>2. pc' \in [Thread -> Pcs]
      BY <1>0, <1>4, ThreadFacts DEF Publish, TypeOK, Go, Pcs, Seeking, Holding, Releasing, Removing
    <2>3. latest_ts' \in [Thread -> Nat]
      BY <1>0, <1>4, Typed, ThreadFacts DEF Publish, TypeOK, sharedVars, localVars, historyVars, Forget
    <2>4. h' \in [Thread -> Slot]
      BY <1>0, <1>4, Typed, ThreadFacts DEF Publish, TypeOK, sharedVars, localVars, historyVars, Forget, Slot
    <2>5. refct_and_ts' \in [Thread -> Words]
      BY <1>0, <1>4, Typed, ThreadFacts DEF Publish, TypeOK, sharedVars, localVars, historyVars, Forget, ForgetWord
    <2>6. UNCHANGED <<table, freed, made, S, since>>
      BY <1>4 DEF Publish, sharedVars, localVars, historyVars
    <2> QED BY <1>0, <2>1, <2>2, <2>3, <2>4, <2>5, <2>6 DEF TypeOK
  <1> QED BY <1>1, <1>2, <1>3, <1>4 DEF Update

---------------------------------------------------------------------------
(* acquire_version up to its compare-and-swap, which stores nothing.        *)

LEMMA Seek ==
    ASSUME Good, TypeOK', NEW t \in Thread, Others(t), UNCHANGED <<sharedVars, made, since, S>>,
           pc[t] \in {"latest"} \cup Seeking, pc'[t] \in {"latest"} \cup Seeking,
           SeekerOK(t)'
    PROVE  Good'
  <1>1. UNCHANGED <<current_timestamp, table, freed, made, since, S>>
    BY DEF sharedVars
  <1>2. /\ pc[t] \notin Holding \cup Releasing \cup Removing \cup Filler
        /\ pc'[t] \notin Holding \cup Releasing \cup Removing \cup Filler
    BY DEF Seeking, Holding, Releasing, Removing, Filler
  <1>3. Clock'
    BY <1>1, ClockKept DEF Good
  <1>4. \A s \in Slot : SameHold(t, s)
    BY <1>2 DEF SameHold
  <1>5. ThreadOK(t)'
    BY <1>2 DEF ThreadOK
  <1>6. t = Writer => WriterOK'
    BY <1>1, <1>2 DEF Good, WriterOK, latest_timestamp, Filler, Holding, Seeking
  <1> QED BY <1>1, <1>2, <1>3, <1>4, <1>5, <1>6, Quiet

LEMMA CallStep ==
    ASSUME Good, NEW t \in Thread, Call(t)
    PROVE  Good'
  <1>1. TypeOK /\ TypeOK' /\ Others(t)
    BY TypeSteps, LocalSteps DEF Good, Acquire
  <1>2. /\ pc[t] = "idle" /\ pc'[t] = "latest"
        /\ made[t] < Limit(t) /\ made'[t] = made[t] + 1
        /\ since'[t] = latest_timestamp
        /\ UNCHANGED <<current_timestamp, table, freed, S>>
    BY <1>1 DEF Call, Go, sharedVars, localVars, TypeOK
  <1>3. /\ pc[t] \notin Holding \cup Releasing \cup Removing \cup Filler \cup Seeking
        /\ pc'[t] \notin Holding \cup Releasing \cup Removing \cup Filler \cup Seeking
    BY <1>2 DEF Seeking, Holding, Releasing, Removing, Filler
  <1>4. current_timestamp \in Nat \ {0} /\ made[t] \in Nat
    BY <1>1 DEF TypeOK
  <1>5. Clock'
    <2>1. CASE t = Writer
      <3>1. made[t] < MaxUpdates
        BY <1>2, <2>1 DEF Limit
      <3>2. current_timestamp = made[t] + 1
        BY <1>2, <1>3, <2>1 DEF Good, Clock
      <3> QED BY <3>1, <3>2, <1>2, <1>4, <2>1 DEF Clock
    <2>2. CASE t # Writer
      BY <1>1, <1>2, <2>2, ClockKept DEF Good
    <2> QED BY <2>1, <2>2
  <1>6. \A s \in Slot : SameHold(t, s)
    BY <1>3 DEF SameHold
  <1>7. ThreadOK(t)'
    <2>1. SeekerOK(t)'
      BY <1>2, <1>3, <1>4 DEF SeekerOK, latest_timestamp
    <2> QED BY <2>1, <1>3 DEF ThreadOK
  <1>8. t = Writer => WriterOK'
    BY <1>2, <1>3 DEF WriterOK, latest_timestamp
  <1> QED BY <1>1, <1>2, <1>3, <1>5, <1>6, <1>7, <1>8, Quiet

LEMMA ReadLatestStep ==
    ASSUME Good, NEW t \in Thread, ReadLatest(t)
    PROVE  Good'
  <1>1. TypeOK /\ TypeOK' /\ Others(t)
    BY TypeSteps, LocalSteps DEF Good, Acquire
  <1>2. /\ pc[t] = "latest" /\ pc'[t] = "find" /\ latest_ts'[t] = latest_timestamp
        /\ UNCHANGED <<current_timestamp, table, freed, made, since, S>>
    BY <1>1 DEF ReadLatest, Go, sharedVars, historyVars, TypeOK
  <1>3. current_timestamp \in Nat \ {0} /\ since[t] \in Nat /\ SeekerOK(t)
    BY <1>1, <1>2 DEF TypeOK, Good, ThreadOK
  <1>4. SeekerOK(t)'
    BY <1>2, <1>3 DEF SeekerOK, latest_timestamp
  <1> QED BY <1>1, <1>2, <1>4, Seek DEF Seeking, sharedVars

LEMMA FindStep ==
    ASSUME Good, NEW t \in Thread, Find(t)
    PROVE  Good'
  <1>1. TypeOK /\ TypeOK' /\ Others(t)
    BY TypeSteps, LocalSteps DEF Good, Acquire
  <1>2. /\ pc[t] = "find" /\ pc'[t] \in {"latest", "find", "check"}
        /\ UNCHANGED <<current_timestamp, table, freed, made, since, S>>
    BY <1>1 DEF Find, Go, sharedVars, historyVars, TypeOK
  <1>3. SeekerOK(t)
    BY <1>2 DEF Good, ThreadOK, Seeking
  <1>4. /\ h[t] \in Slot /\ table[h[t]].key \in Nat
        /\ latest_ts[t] \in Nat /\ latest_ts \in [Thread -> Nat]
    BY <1>1 DEF TypeOK, Entries
  <1>5. pc'[t] # "latest" => latest_ts'[t] = latest_ts[t]
    BY <1>1, <1>4 DEF Find, Go, TypeOK
  <1>6. pc'[t] = "check" => h' = h /\ table[h[t]].key = latest_ts[t]
    BY <1>1 DEF Find, Go, TypeOK
  <1>7. SeekerOK(t)'
    BY <1>2, <1>3, <1>4, <1>5, <1>6 DEF SeekerOK, Seeking
  <1> QED BY <1>1, <1>2, <1>7, Seek DEF Seeking, sharedVars

LEMMA CheckKeyStep ==
    ASSUME Good, NEW t \in Thread, CheckKey(t)
    PROVE  Good'
  <1>1. TypeOK /\ TypeOK' /\ Others(t)
    BY TypeSteps, LocalSteps DEF Good, Acquire
  <1>2. /\ pc[t] = "check" /\ pc'[t] \in {"latest", "count"}
        /\ UNCHANGED <<current_timestamp, table, freed, made, since, S>>
    BY <1>1 DEF CheckKey, Go, sharedVars, historyVars, TypeOK
  <1>3. SeekerOK(t)
    BY <1>2 DEF Good, ThreadOK, Seeking
  <1>4. pc'[t] = "count" => UNCHANGED <<latest_ts, h>>
    BY <1>1 DEF CheckKey, Go, TypeOK
  <1>5. SeekerOK(t)'
    BY <1>2, <1>3, <1>4 DEF SeekerOK, Seeking
  <1> QED BY <1>1, <1>2, <1>5, Seek DEF Seeking, sharedVars

LEMMA ReadCountStep ==
    ASSUME Good, NEW t \in Thread, ReadCount(t)
    PROVE  Good'
  <1>1. TypeOK /\ TypeOK' /\ Others(t)
    BY TypeSteps, LocalSteps DEF Good, Acquire
  <1>2. /\ pc[t] = "count" /\ pc'[t] \in {"latest", "cas"}
        /\ UNCHANGED <<current_timestamp, table, freed, made, since, S>>
    BY <1>1 DEF ReadCount, Go, sharedVars, historyVars, TypeOK
  <1>3. SeekerOK(t)
    BY <1>2 DEF Good, ThreadOK, Seeking
  <1>4. pc'[t] = "cas" => UNCHANGED <<latest_ts, h>> /\ refct_and_ts'[t].ct > 0
    BY <1>1 DEF ReadCount, Go, TypeOK
  <1>5. SeekerOK(t)'
    BY <1>2, <1>3, <1>4 DEF SeekerOK, Seeking
  <1> QED BY <1>1, <1>2, <1>5, Seek DEF Seeking, sharedVars

---------------------------------------------------------------------------
(* The compare-and-swap, and the root.                                      *)

LEMMA CasFails ==
    ASSUME Good, NEW t \in Thread, Cas(t), pc'[t] = "check"
    PROVE  Good'
  <1>1. TypeOK /\ TypeOK' /\ Others(t)
    BY TypeSteps, LocalSteps DEF Good, Acquire
  <1>2. /\ pc[t] = "cas"
        /\ UNCHANGED <<current_timestamp, table, freed, made, since, S, latest_ts, h>>
    BY <1>1 DEF Cas, Go, TypeOK
  <1>3. SeekerOK(t)
    BY <1>2 DEF Good, ThreadOK, Seeking
  <1>4. SeekerOK(t)'
    BY <1>2, <1>3 DEF SeekerOK, Seeking
  <1> QED BY <1>1, <1>2, <1>4, Seek DEF Seeking, sharedVars

\* The count a thread raises is the count of a visible version that has an
\* entry, at or after the one it read.
LEMMA CasTakes ==
    ASSUME Good, Sane', NEW t \in Thread, Cas(t), pc'[t] # "check"
    PROVE  /\ pc[t] = "cas" /\ pc'[t] = "root" /\ h[t] \in Slot
           /\ table' = [table EXCEPT ![h[t]].word.ct = @ + 1]
           /\ S'[t] = [timestamp |-> table[h[t]].key, table_entry |-> h[t], root |-> nullptr]
           /\ UNCHANGED <<current_timestamp, freed, h, made>>
           /\ ~ Filling(h[t]) /\ FilledOK(h[t])
           /\ table[h[t]].word.ct > 0 /\ table[h[t]].key \in Nat
           /\ since[t] \in Nat /\ since[t] <= table[h[t]].key
           /\ table[h[t]].key < current_timestamp
  <1>1. TypeOK
    BY DEF Good
  <1>2. /\ pc[t] = "cas" /\ pc'[t] = "root"
        /\ table' = [table EXCEPT ![h[t]].word.ct = @ + 1]
        /\ S'[t] = [timestamp |-> table[h[t]].key, table_entry |-> h[t], root |-> nullptr]
        /\ table[h[t]].word = refct_and_ts[t]
        /\ UNCHANGED <<current_timestamp, freed, h, made>>
    BY <1>1 DEF Cas, Go, TypeOK
  <1>3. /\ h[t] \in Slot /\ table[h[t]].key \in Nat /\ current_timestamp \in Nat
        /\ since[t] \in Nat /\ latest_ts[t] \in Nat
    BY <1>1 DEF TypeOK, Entries
  <1>4. ~(table[h[t]].key > latest_timestamp)
    BY <1>1, <1>2 DEF Cas, Go, Notice, Sane, TypeOK
  <1>5. table[h[t]].key < current_timestamp
    BY <1>3, <1>4 DEF latest_timestamp
  <1>6. SeekerOK(t)
    BY <1>2 DEF Good, ThreadOK, Seeking
  <1>7. table[h[t]].word.ct > 0 /\ since[t] <= table[h[t]].key
    BY <1>2, <1>3, <1>6 DEF SeekerOK, Seeking
  <1>8. ~ Filling(h[t])
    BY <1>3, <1>5 DEF Good, SlotOK, FillingOK
  <1>9. FilledOK(h[t])
    BY <1>3, <1>8 DEF Good, SlotOK
  <1> QED BY <1>2, <1>3, <1>5, <1>7, <1>8, <1>9

LEMMA CasStep ==
    ASSUME Good, Sane', NEW t \in Thread, Cas(t), pc'[t] # "check"
    PROVE  Good'
  <1>1. TypeOK /\ TypeOK' /\ Others(t)
    BY TypeSteps, LocalSteps DEF Good, Acquire
  <1>x. PICK x \in Slot : x = h[t]
    BY <1>1 DEF TypeOK
  <1>2. /\ pc[t] = "cas" /\ pc'[t] = "root" /\ h[t] = x /\ h'[t] = x
        /\ table' = [table EXCEPT ![x].word.ct = @ + 1]
        /\ S'[t].timestamp = table[x].key /\ S'[t].table_entry = x
        /\ UNCHANGED <<current_timestamp, freed, made>>
        /\ ~ Filling(x) /\ FilledOK(x)
        /\ table[x].word.ct > 0 /\ table[x].key \in Nat
        /\ since[t] \in Nat /\ since[t] <= table[x].key
        /\ table[x].key < current_timestamp /\ current_timestamp \in Nat
    BY <1>x, CasTakes, <1>1 DEF TypeOK
  <1>3. /\ OnlySlot(x)
        /\ table'[x].key = table[x].key /\ table'[x].root = table[x].root
        /\ table'[x].word.ts = table[x].word.ts /\ table'[x].word.ct = table[x].word.ct + 1
        /\ table[x].word.ct \in Nat
    BY <1>1, <1>2 DEF TypeOK, OnlySlot, Entries, Words
  <1>4. KeyKept(x)
    BY <1>3 DEF KeyKept
  <1>5. NotRemoved(t, x)
    BY <1>2, RemoverAt DEF NotRemoved
  <1>6. /\ pc[t] \notin Holding \cup Releasing \cup Filler \cup Removing
        /\ pc'[t] \in Holding /\ pc'[t] \notin Releasing \cup Filler \cup Removing \cup Seeking
        /\ pc'[t] # "latest"
    BY <1>2 DEF Holding, Releasing, Filler, Removing, Seeking
  <1>7. \A s \in Slot \ {x} : SameHold(t, s)
    BY <1>2, <1>6 DEF SameHold
  <1>8. /\ \A s \in Slot \ {x} : SlotOK(s)' /\ Kept(s)'
        /\ \A u \in Thread \ {t} : ThreadOK(u)'
        /\ t \in Reader => WriterOK'
    BY <1>1, <1>2, <1>3, <1>4, <1>5, <1>6, <1>7, OneSlot
  <1>9. Clock'
    BY <1>1, <1>2, ClockKept DEF Good, Seeking
  <1>10. HoldersAt(x)' = HoldersAt(x) \cup {t} /\ t \notin HoldersAt(x)
    <2>1. \A u \in Thread \ {t} : pc'[u] = pc[u] /\ S'[u] = S[u]
      BY <1>1 DEF Others
    <2> QED BY <1>2, <1>6, <2>1 DEF HoldersAt
  <1>11. /\ Cardinality(HoldersAt(x)') = Cardinality(HoldersAt(x)) + 1
         /\ Cardinality(HoldersAt(x)) \in Nat
    BY <1>10, HoldersFinite, FS_AddElement, FS_CardinalityType
  <1>12. ~ Filling(x)'
    BY <1>1, <1>2, <1>6, ThreadFacts DEF Filling, Others
  <1>13. SlotOK(x)'
    <2>1. FilledOK(x)'
      BY <1>2, <1>3, <1>11 DEF FilledOK, Vacant
    <2> QED BY <2>1, <1>12 DEF SlotOK
  <1>14. Kept(x)'
    BY <1>10 DEF Kept
  <1>15. ThreadOK(t)'
    <2>1. HolderOK(t)'
      BY <1>2, <1>3 DEF HolderOK
    <2> QED BY <2>1, <1>6 DEF ThreadOK
  <1>16. t = Writer => WriterOK'
    BY <1>2, <1>6 DEF Good, WriterOK, latest_timestamp, Seeking
  <1>17. Distinct' /\ FreedOK'
    <2>1. \A s \in Slot : table'[s].key = table[s].key /\ table'[s].root = table[s].root
      BY <1>3 DEF OnlySlot
    <2> QED BY <1>2, <2>1 DEF Good, Distinct, FreedOK
  <1>18. RemoverUnique'
    BY <1>1, <1>6, RemoversKept DEF Good
  <1> QED BY <1>1, <1>8, <1>9, <1>13, <1>14, <1>15, <1>16, <1>17, <1>18 DEF Good, Thread

LEMMA ReadRootStep ==
    ASSUME Good, NEW t \in Thread, ReadRoot(t)
    PROVE  Good'
  <1>1. TypeOK /\ TypeOK' /\ Others(t)
    BY TypeSteps, LocalSteps DEF Good, Acquire
  <1>2. /\ pc[t] = "root" /\ pc'[t] = IF t = Writer THEN "build" ELSE "held"
        /\ UNCHANGED <<current_timestamp, table, freed, made, since>>
    BY <1>1 DEF ReadRoot, Go, sharedVars, historyVars, TypeOK
  <1>3. /\ S'[t].timestamp = S[t].timestamp /\ S'[t].table_entry = S[t].table_entry
        /\ S'[t].root = table[h[t]].root
    BY <1>1 DEF ReadRoot, TypeOK, Handles
  <1>4. /\ pc[t] \in Holding /\ pc[t] \notin Releasing \cup Removing \cup Filler \cup Seeking
        /\ pc'[t] \in Holding /\ pc'[t] \notin Releasing \cup Removing \cup Filler \cup Seeking
        /\ pc'[t] # "latest" /\ pc'[t] # "root"
    BY <1>2 DEF Seeking, Holding, Releasing, Removing, Filler
  <1>5. Clock'
    BY <1>1, <1>2, ClockKept DEF Good
  <1>6. \A s \in Slot : SameHold(t, s)
    BY <1>3, <1>4 DEF SameHold
  <1>7. HolderOK(t) /\ h[t] = S[t].table_entry /\ S[t].table_entry \in Slot
    BY <1>1, <1>2, <1>4 DEF Good, ThreadOK, HolderOK, TypeOK, Handles
  <1>8. table[h[t]].root = S[t].timestamp
    <2>1. t \in HoldersAt(h[t])
      BY <1>4, <1>7 DEF HoldersAt
    <2>2. FilledOK(h[t])
      BY <1>7, <2>1 DEF Good, SlotOK, FillingOK
    <2>3. table[h[t]].word.ct \in Nat
      BY <1>1, <1>7 DEF TypeOK, Entries, Words
    <2> QED BY <1>7, <2>1, <2>2, <2>3 DEF FilledOK, HolderOK
  <1>9. ThreadOK(t)'
    <2>1. HolderOK(t)'
      BY <1>2, <1>3, <1>4, <1>7, <1>8 DEF HolderOK
    <2> QED BY <2>1, <1>4 DEF ThreadOK
  <1>10. t = Writer => WriterOK'
    BY <1>2, <1>3, <1>4 DEF Good, WriterOK, latest_timestamp
  <1> QED BY <1>1, <1>2, <1>4, <1>5, <1>6, <1>9, <1>10, Quiet

---------------------------------------------------------------------------
(* insert_edges_batch: the entry of the next version.                       *)

LEMMA InsertMoves ==
    ASSUME Good, Insert, pc'[Writer] = "build"
    PROVE  Good'
  <1>1. TypeOK /\ TypeOK' /\ Others(Writer) /\ Writer \in Thread
    BY UpdateTypes, UpdateLocals, ThreadFacts DEF Good, Update
  <1>2. /\ pc[Writer] = "build"
        /\ UNCHANGED <<current_timestamp, table, freed, made, since, S>>
    BY <1>1 DEF Insert, Go, historyVars, TypeOK
  <1>3. /\ pc[Writer] \in Holding
        /\ pc[Writer] \notin Releasing \cup Removing \cup Filler \cup Seeking \cup {"latest", "root"}
    BY <1>2 DEF Seeking, Holding, Releasing, Removing, Filler
  <1>4. Clock'
    BY <1>1, <1>2, ClockKept DEF Good
  <1>5. \A s \in Slot : SameHold(Writer, s)
    BY <1>2 DEF SameHold
  <1>6. ThreadOK(Writer)'
    <2>1. HolderOK(Writer)
      BY <1>1, <1>3 DEF Good, ThreadOK
    <2>2. HolderOK(Writer)'
      BY <2>1, <1>2, <1>3 DEF HolderOK
    <2> QED BY <2>2, <1>2, <1>3 DEF ThreadOK
  <1>7. WriterOK'
    BY <1>2, <1>3 DEF Good, WriterOK, latest_timestamp
  <1> QED BY <1>1, <1>2, <1>3, <1>4, <1>5, <1>6, <1>7, Quiet

\* The writer stores into the entry it fills, which nobody else is at.
LEMMA Fill ==
    ASSUME Good, TypeOK', Others(Writer), NEW x \in Slot,
           UNCHANGED <<current_timestamp, freed, made, since, S, h>>,
           h[Writer] = x, pc[Writer] \in {"build"} \cup Filler, pc'[Writer] \in Filler,
           OnlySlot(x), KeyKept(x), NotRemoved(Writer, x), HoldersAt(x) = {},
           HoldersAt(x)' = {} => FillingOK(x)',
           \A s \in Slot \ {x} : table[s].key # current_timestamp,
           table'[x].root \in {table[x].root, current_timestamp}
    PROVE  Good'
  <1>1. Writer \in Thread
    BY ThreadFacts
  <1>2. /\ pc[Writer] \in Holding /\ pc[Writer] \notin Releasing \cup {"root"}
        /\ pc'[Writer] \in Holding
        /\ pc'[Writer] \notin Releasing \cup Removing \cup Seeking \cup {"root", "latest"}
    BY DEF Seeking, Holding, Releasing, Removing, Filler
  <1>3. \A s \in Slot : SameHold(Writer, s)
    BY <1>2 DEF SameHold
  <1>4. /\ \A s \in Slot \ {x} : SlotOK(s)' /\ Kept(s)'
        /\ \A u \in Thread \ {Writer} : ThreadOK(u)'
    BY <1>1, <1>2, <1>3, OneSlot
  <1>5. Clock'
    BY <1>1, ClockKept DEF Good
  <1>6. FillingOK(x)'
    BY <1>1, <1>3, SameHolders
  <1>7. SlotOK(x)'
    BY <1>6 DEF SlotOK, Filling
  <1>8. Kept(x)'
    BY <1>6 DEF Kept, FillingOK, latest_timestamp, TypeOK
  <1>9. Distinct'
    BY <1>6 DEF Good, Distinct, OnlySlot, FillingOK
  <1>10. FreedOK'
    <2>1. \A v \in freed : v < current_timestamp /\ v \in Nat
      BY DEF Good, FreedOK, TypeOK
    <2>2. current_timestamp \in Nat
      BY DEF Good, TypeOK
    <2>3. \A s \in Slot : table'[s].root = table[s].root \/ table'[s].root = current_timestamp
      BY DEF OnlySlot
    <2> QED BY <2>1, <2>2, <2>3 DEF Good, FreedOK
  <1>11. ThreadOK(Writer)'
    <2>1. HolderOK(Writer) /\ S[Writer].table_entry \in Slot
      BY <1>1, <1>2 DEF Good, ThreadOK, TypeOK, Handles
    <2>2. S[Writer].table_entry # x
      BY <1>1, <1>2 DEF HoldersAt
    <2>3. HolderOK(Writer)'
      BY <2>1, <2>2, <1>2 DEF HolderOK, OnlySlot
    <2> QED BY <2>3, <1>2 DEF ThreadOK
  <1>12. RemoverUnique'
    BY <1>1, <1>2, RemoversKept DEF Good
  <1>13. WriterOK'
    BY <1>2 DEF Good, WriterOK, latest_timestamp
  <1> QED BY <1>4, <1>5, <1>7, <1>8, <1>9, <1>10, <1>11, <1>12, <1>13 DEF Good

LEMMA InsertStep ==
    ASSUME Good, Insert, pc'[Writer] # "build"
    PROVE  Good'
  <1>1. TypeOK /\ TypeOK' /\ Others(Writer) /\ Writer \in Thread
    BY UpdateTypes, UpdateLocals, ThreadFacts DEF Good, Update
  <1>x. PICK x \in Slot : x = h[Writer]
    BY <1>1 DEF TypeOK
  <1>2. /\ pc[Writer] = "build" /\ pc'[Writer] = "setWord" /\ table[x].key \in Vacant
        /\ table' = [table EXCEPT ![x].key = current_timestamp]
        /\ UNCHANGED <<current_timestamp, freed, made, since, S, h>>
    BY <1>1, <1>x DEF Insert, Go, historyVars, TypeOK, Vacant
  <1>3. /\ OnlySlot(x) /\ table'[x].key = current_timestamp
        /\ table'[x].word = table[x].word /\ table'[x].root = table[x].root
    BY <1>1, <1>2 DEF TypeOK, OnlySlot, Entries
  <1>4. \A s \in Slot : FilledOK(s)
    BY <1>2 DEF Good, SlotOK, Filling, Filler
  <1>5. table[x].word = Zero /\ table[x].root = nullptr /\ HoldersAt(x) = {}
    BY <1>2, <1>4 DEF FilledOK, Zero
  <1>6. current_timestamp \in Nat /\ current_timestamp < tombstone
        /\ tombstone \in Nat /\ max_ts = tombstone + 1
    BY <1>1, <1>2, ClockBound DEF Good, TypeOK
  <1>7. KeyKept(x)
    BY <1>3, <1>5, <1>6 DEF KeyKept
  <1>8. NotRemoved(Writer, x)
    BY <1>2, RemoverAt DEF NotRemoved
  <1>9. \A s \in Slot \ {x} : table[s].key # current_timestamp
    BY <1>4, <1>6 DEF FilledOK, Vacant
  <1>10. HoldersAt(x)' = {} => FillingOK(x)'
    BY <1>2, <1>3, <1>5 DEF FillingOK
  <1> QED BY <1>1, <1>x, <1>2, <1>3, <1>5, <1>7, <1>8, <1>9, <1>10, Fill DEF Filler

\* Nobody else goes by the entry that is being filled.
LEMMA FillerAlone ==
    ASSUME Good, pc[Writer] \in Filler, NEW x \in Slot, x = h[Writer]
    PROVE  /\ FillingOK(x) /\ NotRemoved(Writer, x)
           /\ \A s \in Slot \ {x} : table[s].key # current_timestamp
  <1>1. Filling(x)
    BY DEF Filling
  <1>2. FillingOK(x)
    BY <1>1 DEF Good, SlotOK
  <1>3. NotRemoved(Writer, x)
    BY <1>1, RemoverAt DEF NotRemoved
  <1>4. current_timestamp < tombstone /\ tombstone \in Nat /\ max_ts = tombstone + 1
        /\ current_timestamp \in Nat
    BY ClockBound DEF Good, TypeOK
  <1>5. \A s \in Slot \ {x} : table[s].key # current_timestamp
    BY <1>2, <1>4 DEF Good, Distinct, FillingOK, Vacant
  <1> QED BY <1>2, <1>3, <1>5

LEMMA SetWordStep ==
    ASSUME Good, SetWord
    PROVE  Good'
  <1>1. TypeOK /\ TypeOK' /\ Others(Writer) /\ Writer \in Thread
    BY UpdateTypes, UpdateLocals, ThreadFacts DEF Good, Update
  <1>x. PICK x \in Slot : x = h[Writer]
    BY <1>1 DEF TypeOK
  <1>2. /\ pc[Writer] = "setWord" /\ pc'[Writer] = "setRoot"
        /\ table' = [table EXCEPT ![x].word = make_refct(current_timestamp, 1)]
        /\ UNCHANGED <<current_timestamp, freed, made, since, S, h>>
    BY <1>1, <1>x DEF SetWord, Go, historyVars, localVars, TypeOK
  <1>3. /\ OnlySlot(x) /\ table'[x].key = table[x].key
        /\ table'[x].word = make_refct(current_timestamp, 1) /\ table'[x].root = table[x].root
    BY <1>1, <1>2 DEF TypeOK, OnlySlot, Entries
  <1>4. /\ FillingOK(x) /\ NotRemoved(Writer, x)
        /\ \A s \in Slot \ {x} : table[s].key # current_timestamp
    BY <1>x, <1>2, FillerAlone DEF Filler
  <1>5. HoldersAt(x) = {} /\ (HoldersAt(x)' = {} => FillingOK(x)')
    BY <1>2, <1>3, <1>4 DEF FillingOK
  <1> QED BY <1>1, <1>x, <1>2, <1>3, <1>4, <1>5, Fill DEF Filler, KeyKept

LEMMA SetRootStep ==
    ASSUME Good, SetRoot
    PROVE  Good'
  <1>1. TypeOK /\ TypeOK' /\ Others(Writer) /\ Writer \in Thread
    BY UpdateTypes, UpdateLocals, ThreadFacts DEF Good, Update
  <1>x. PICK x \in Slot : x = h[Writer]
    BY <1>1 DEF TypeOK
  <1>2. /\ pc[Writer] = "setRoot" /\ pc'[Writer] = "publish"
        /\ table' = [table EXCEPT ![x].root = current_timestamp]
        /\ UNCHANGED <<current_timestamp, freed, made, since, S, h>>
    BY <1>1, <1>x DEF SetRoot, Go, historyVars, localVars, TypeOK
  <1>3. /\ OnlySlot(x) /\ table'[x].key = table[x].key
        /\ table'[x].word = table[x].word /\ table'[x].root = current_timestamp
    BY <1>1, <1>2 DEF TypeOK, OnlySlot, Entries
  <1>4. /\ FillingOK(x) /\ NotRemoved(Writer, x)
        /\ \A s \in Slot \ {x} : table[s].key # current_timestamp
    BY <1>x, <1>2, FillerAlone DEF Filler
  <1>5. HoldersAt(x) = {} /\ (HoldersAt(x)' = {} => FillingOK(x)')
    BY <1>2, <1>3, <1>4 DEF FillingOK
  <1> QED BY <1>1, <1>x, <1>2, <1>3, <1>4, <1>5, Fill DEF Filler, KeyKept

\* The version becomes visible in order, and the one before it is still held.
LEMMA PublishStep ==
    ASSUME Good, Publish
    PROVE  Good'
  <1>1. TypeOK /\ TypeOK' /\ Others(Writer) /\ Writer \in Thread
    BY UpdateTypes, UpdateLocals, ThreadFacts DEF Good, Update
  <1>x. PICK x \in Slot : x = h[Writer]
    BY <1>1 DEF TypeOK
  <1>2. /\ pc[Writer] = "publish" /\ pc'[Writer] = "held"
        /\ current_timestamp' = current_timestamp + 1
        /\ UNCHANGED <<table, freed, made, since, S>>
    BY <1>1 DEF Publish, Go, historyVars, TypeOK
  <1>3. /\ pc[Writer] \in Holding /\ pc[Writer] \in Filler
        /\ pc[Writer] \notin Releasing \cup {"root"}
        /\ pc'[Writer] \in Holding
        /\ pc'[Writer] \notin
              Filler \cup Releasing \cup Removing \cup Seeking \cup {"root", "latest", "build"}
    BY <1>2 DEF Seeking, Holding, Releasing, Removing, Filler
  <1>4. /\ current_timestamp \in Nat /\ current_timestamp < tombstone
        /\ tombstone \in Nat /\ max_ts = tombstone + 1
    BY <1>1, <1>3, ClockBound DEF Good, TypeOK
  <1>5. \A s \in Slot : SameHold(Writer, s)
    BY <1>2, <1>3 DEF SameHold
  <1>6. \A s \in Slot : HoldersAt(s)' = HoldersAt(s)
    BY <1>1, <1>5, SameHolders
  <1>7. FillingOK(x)
    BY <1>x, <1>3, FillerAlone
  <1>8. \A s \in Slot : SlotOK(s)'
    <2>1. SUFFICES ASSUME NEW s \in Slot PROVE FilledOK(s)'
      BY <1>3 DEF SlotOK, Filling
    <2>2. CASE s = x
      <3>1. /\ table[x].key = current_timestamp /\ table[x].root = current_timestamp
            /\ table[x].word.ts = current_timestamp /\ table[x].word.ct = 1
            /\ HoldersAt(x)' = {}
        BY <1>2, <1>6, <1>7 DEF FillingOK, make_refct
      <3>2. Cardinality(HoldersAt(x)') = 0
        BY <3>1, FS_EmptySet
      <3> QED BY <2>2, <3>1, <3>2, <1>2, <1>4 DEF FilledOK, Vacant
    <2>3. CASE s # x
      <3>1. FilledOK(s)
        BY <1>x, <2>3 DEF Good, SlotOK, Filling
      <3>2. table[s].key \in Nat
        BY <1>1 DEF TypeOK, Entries
      <3> QED BY <3>1, <3>2, <1>2, <1>4, <1>6 DEF FilledOK
    <2> QED BY <2>2, <2>3
  <1>9. Clock'
    BY <1>1, <1>2, <1>3, <1>4 DEF Good, Clock
  <1>10. Distinct'
    BY <1>2 DEF Good, Distinct
  <1>11. FreedOK'
    BY <1>1, <1>2, <1>4 DEF Good, FreedOK, TypeOK
  <1>12. \A u \in Thread \ {Writer} : ThreadOK(u)'
    <2>1. OnlySlot(x) /\ KeyKept(x) /\ table'[x] = table[x]
      BY <1>2 DEF OnlySlot, KeyKept
    <2>2. current_timestamp' >= current_timestamp
      BY <1>2, <1>4
    <2> QED BY <1>1, <2>1, <2>2, OthersOK DEF Good
  <1>13. HolderOK(Writer) /\ S[Writer].table_entry \in Slot
    BY <1>1, <1>3 DEF Good, ThreadOK, TypeOK, Handles
  <1>14. ThreadOK(Writer)'
    <2>1. HolderOK(Writer)'
      BY <1>2, <1>3, <1>13 DEF HolderOK
    <2> QED BY <2>1, <1>3 DEF ThreadOK
  <1>15. RemoverUnique'
    BY <1>1, <1>3, RemoversKept DEF Good
  <1>16. WriterOK'
    BY <1>3 DEF WriterOK
  <1>17. \A s \in Slot : Kept(s)'
    <2>1. SUFFICES ASSUME NEW s \in Slot, table[s].word.ct > 0, table[s].key < current_timestamp,
                          HoldersAt(s) = {}
                   PROVE  \E w \in Thread : pc'[w] \in Releasing /\ S'[w].timestamp = table[s].key
      <3>1. latest_timestamp' = current_timestamp
        BY <1>2, <1>4 DEF latest_timestamp
      <3> QED BY <3>1, <1>2, <1>6 DEF Kept
    <2>2. S[Writer].timestamp = current_timestamp - 1
      BY <1>3 DEF Good, WriterOK, latest_timestamp
    <2>3. table[s].key # current_timestamp - 1
      <3>1. SUFFICES ASSUME table[s].key = current_timestamp - 1 PROVE FALSE
        OBVIOUS
      <3>2. table[s].key \notin Vacant
        BY <3>1, <1>4 DEF Vacant
      <3>3. s = S[Writer].table_entry
        BY <3>1, <3>2, <2>2, <1>13 DEF Good, Distinct, HolderOK
      <3> QED BY <3>3, <1>1, <1>3, <2>1 DEF HoldersAt
    <2>4. table[s].key < latest_timestamp
      <3>1. table[s].key \in Nat
        BY <1>1 DEF TypeOK, Entries
      <3> QED BY <3>1, <2>1, <2>3, <1>4 DEF latest_timestamp
    <2>5. PICK w \in Thread : pc[w] \in Releasing /\ S[w].timestamp = table[s].key
      BY <2>1, <2>4 DEF Good, Kept
    <2>6. pc'[w] = pc[w] /\ S'[w] = S[w]
      BY <2>5, <1>1, <1>3 DEF Others
    <2> QED BY <2>5, <2>6
  <1> QED BY <1>1, <1>8, <1>9, <1>10, <1>11, <1>12, <1>14, <1>15, <1>16, <1>17 DEF Good

---------------------------------------------------------------------------
(* release_version: the count.                                              *)

\* The entry of a held version counts its holders.
LEMMA HeldEntry ==
    ASSUME Good, NEW t \in Thread, pc[t] \in Holding, NEW x \in Slot, x = S[t].table_entry
    PROVE  /\ ~ Filling(x) /\ FilledOK(x) /\ HolderOK(t) /\ t \in HoldersAt(x)
           /\ table[x].word.ct \in Nat /\ table[x].word.ct > 0
           /\ table[x].key = S[t].timestamp /\ table[x].word.ts = S[t].timestamp
           /\ table[x].root = S[t].timestamp
           /\ S[t].timestamp \in Nat /\ S[t].timestamp < current_timestamp
           /\ S[t].timestamp \notin Vacant
  <1>1. t \in HoldersAt(x)
    BY DEF HoldersAt
  <1>2. ~ Filling(x) /\ FilledOK(x)
    BY <1>1 DEF Good, SlotOK, FillingOK
  <1>3. HolderOK(t)
    BY DEF Good, ThreadOK
  <1>4. table[x].word.ct \in Nat
    BY DEF Good, TypeOK, Entries, Words
  <1>5. table[x].word.ct > 0
    BY <1>1, <1>2, <1>4 DEF FilledOK
  <1> QED BY <1>1, <1>2, <1>3, <1>4, <1>5 DEF FilledOK, HolderOK

LEMMA DecrementStep ==
    ASSUME Good, NEW t \in Thread, Decrement(t)
    PROVE  Good'
  <1>1. TypeOK /\ TypeOK' /\ Others(t)
    BY TypeSteps, LocalSteps DEF Good, Release
  <1>x. PICK x \in Slot : x = S[t].table_entry
    BY <1>1 DEF TypeOK, Handles
  <1>2. /\ pc[t] = "held"
        /\ table' = [table EXCEPT ![x].word = Minus1(@)]
        /\ UNCHANGED <<current_timestamp, freed, made, since>>
        /\ \/ pc'[t] = "isLatest" /\ S' = S /\ table[x].word.ct = 2
           \/ pc'[t] = "idle" /\ table[x].word.ct # 2
    BY <1>1, <1>x DEF Decrement, Return, Go, historyVars, TypeOK
  <1>3. /\ pc[t] \in Holding /\ pc[t] \notin Releasing \cup Filler \cup Removing \cup Seeking \cup {"latest", "root", "build"}
        /\ pc'[t] \notin Holding \cup Removing \cup Filler \cup Seeking \cup {"latest", "root", "build"}
        /\ pc'[t] \in Releasing => pc'[t] = "isLatest"
    BY <1>2 DEF Seeking, Holding, Releasing, Removing, Filler
  <1>4. /\ ~ Filling(x) /\ FilledOK(x) /\ HolderOK(t) /\ t \in HoldersAt(x)
        /\ table[x].word.ct \in Nat /\ table[x].word.ct > 0
        /\ table[x].key = S[t].timestamp /\ table[x].word.ts = S[t].timestamp
        /\ table[x].root = S[t].timestamp
        /\ S[t].timestamp \in Nat /\ S[t].timestamp < current_timestamp
        /\ S[t].timestamp \notin Vacant
    BY <1>x, <1>3, HeldEntry
  <1>5. Minus1(table[x].word) = make_refct(table[x].word.ts, table[x].word.ct - 1)
    BY <1>4 DEF Minus1
  <1>6. table' = [table EXCEPT ![x].word = make_refct(table[x].word.ts, table[x].word.ct - 1)]
    BY <1>1, <1>2, <1>5 DEF TypeOK
  <1>7. /\ OnlySlot(x)
        /\ table'[x].key = table[x].key /\ table'[x].root = table[x].root
        /\ table'[x].word.ts = table[x].word.ts /\ table'[x].word.ct = table[x].word.ct - 1
    BY <1>1, <1>6 DEF TypeOK, OnlySlot, Entries, make_refct
  <1>8. HoldersAt(x)' = HoldersAt(x) \ {t}
    <2>1. \A u \in Thread \ {t} : pc'[u] = pc[u] /\ S'[u] = S[u]
      BY <1>1 DEF Others
    <2> QED BY <1>3, <2>1 DEF HoldersAt
  <1>9. /\ Cardinality(HoldersAt(x)') = Cardinality(HoldersAt(x)) - 1
        /\ Cardinality(HoldersAt(x)) \in Nat /\ Cardinality(HoldersAt(x)') \in Nat
        /\ IsFiniteSet(HoldersAt(x)')
    BY <1>4, <1>8, HoldersFinite, FS_RemoveElement, FS_CardinalityType
  <1>10. /\ table[x].word.ct = Cardinality(HoldersAt(x)) + 1
         /\ table'[x].word.ct = Cardinality(HoldersAt(x)') + 1
    BY <1>4, <1>7, <1>9 DEF FilledOK
  <1>11. KeyKept(x) /\ NotRemoved(t, x)
    BY <1>4, <1>7, RemoverAt DEF KeyKept, NotRemoved
  <1>12. \A s \in Slot \ {x} : SameHold(t, s)
    BY <1>x, <1>3 DEF SameHold
  <1>13. /\ \A s \in Slot \ {x} : SlotOK(s)' /\ Kept(s)'
         /\ \A u \in Thread \ {t} : ThreadOK(u)'
         /\ t \in Reader => WriterOK'
    BY <1>1, <1>2, <1>3, <1>7, <1>11, <1>12, OneSlot
  <1>14. SlotOK(x)'
    <2>1. ~ Filling(x)'
      BY <1>1, <1>3, <1>4, ThreadFacts DEF Filling, Others
    <2>2. FilledOK(x)'
      BY <1>2, <1>4, <1>7, <1>9, <1>10 DEF FilledOK
    <2> QED BY <2>1, <2>2 DEF SlotOK
  <1>15. Kept(x)'
    <2>1. CASE table[x].word.ct = 2
      BY <2>1, <1>2, <1>4, <1>7 DEF Kept, Releasing
    <2>2. CASE table[x].word.ct # 2
      <3>1. Cardinality(HoldersAt(x)') # 0
        BY <2>2, <1>4, <1>7, <1>9, <1>10
      <3> QED BY <3>1, FS_EmptySet DEF Kept
    <2> QED BY <2>1, <2>2
  <1>16. ThreadOK(t)'
    <2>1. ASSUME pc'[t] = "isLatest" PROVE ReleaserOK(t)'
      <3>1. S' = S
        BY <1>2, <2>1
      <3>2. \A s \in Slot : table'[s].key = table[s].key
        BY <1>7 DEF OnlySlot
      <3>3. \A s \in Slot : table'[s].key = S[t].timestamp => s = x
        BY <3>2, <1>4 DEF Good, Distinct
      <3> QED BY <3>1, <3>3, <2>1, <1>x, <1>2, <1>3, <1>4 DEF ReleaserOK, HolderOK
    <2> QED BY <2>1, <1>3 DEF ThreadOK
  <1>17. Clock'
    BY <1>1, <1>2, <1>3, ClockKept DEF Good
  <1>18. WriterOK'
    <2>1. t = Writer => WriterOK'
      BY <1>3 DEF WriterOK
    <2> QED BY <2>1, <1>13 DEF Thread
  <1>19. Distinct' /\ FreedOK'
    <2>1. \A s \in Slot : table'[s].key = table[s].key /\ table'[s].root = table[s].root
      BY <1>7 DEF OnlySlot
    <2> QED BY <1>2, <2>1 DEF Good, Distinct, FreedOK
  <1>20. RemoverUnique'
    BY <1>1, <1>3, RemoversKept DEF Good
  <1> QED BY <1>1, <1>13, <1>14, <1>15, <1>16, <1>17, <1>18, <1>19, <1>20 DEF Good

---------------------------------------------------------------------------
(* release_version: the last one to leave.                                  *)

\* A thread may leave a version alone that is the latest, or is counted still.
LEMMA LeftKept ==
    ASSUME Good, NEW t \in Thread, Others(t), pc[t] \in Releasing, pc'[t] = "idle",
           table' = table, current_timestamp' = current_timestamp,
           \A s \in Slot : table[s].key = S[t].timestamp /\ table[s].key < latest_timestamp =>
               ~ Filling(s) /\ table[s].word.ct # 1
    PROVE  \A s \in Slot : Kept(s)'
  <1>1. SUFFICES ASSUME NEW s \in Slot PROVE Kept(s)'
    OBVIOUS
  <1>2. SameHold(t, s)
    BY DEF SameHold, Holding, Releasing
  <1>3. HoldersAt(s)' = HoldersAt(s)
    BY <1>2, SameHolders
  <1>4. CASE table[s].key # S[t].timestamp
    BY <1>3, <1>4, KeptSlot DEF Good
  <1>5. CASE table[s].key = S[t].timestamp
    <2>1. SUFFICES ASSUME table[s].word.ct > 0, table[s].key < latest_timestamp
                   PROVE  HoldersAt(s) # {}
      BY <1>3 DEF Kept, latest_timestamp
    <2>2. ~ Filling(s) /\ table[s].word.ct # 1
      BY <1>5, <2>1
    <2>3. FilledOK(s)
      BY <2>2 DEF Good, SlotOK
    <2>4. table[s].word.ct = Cardinality(HoldersAt(s)) + 1
      BY <2>1, <2>3 DEF FilledOK
    <2>5. SUFFICES ASSUME HoldersAt(s) = {} PROVE FALSE
      OBVIOUS
    <2>6. Cardinality(HoldersAt(s)) = 0
      BY <2>5, FS_EmptySet
    <2> QED BY <2>2, <2>4, <2>6
  <1> QED BY <1>4, <1>5

\* A step of a thread that has given its version back and stores nothing.
LEMMA Leave ==
    ASSUME Good, TypeOK', NEW t \in Thread, Others(t),
           UNCHANGED <<current_timestamp, table, freed, made, since>>,
           pc[t] \in Releasing \cup {"zero", "null"},
           pc'[t] \in Releasing \cup {"idle", "zero", "null"},
           pc'[t] \in Releasing => ReleaserOK(t)',
           \/ pc[t] \notin Releasing
           \/ pc'[t] \in Releasing /\ S'[t] = S[t]
           \/ \A s \in Slot : Kept(s)'
    PROVE  Good'
  <1>1. /\ pc[t] \notin Holding \cup Removing \cup Filler \cup Seeking \cup {"latest", "root", "build"}
        /\ pc'[t] \notin Holding \cup Removing \cup Filler \cup Seeking \cup {"latest", "root", "build"}
    BY DEF Seeking, Holding, Releasing, Removing, Filler
  <1>2. Clock'
    BY <1>1, ClockKept DEF Good
  <1>3. \A s \in Slot : SameHold(t, s)
    BY <1>1 DEF SameHold
  <1>4. ThreadOK(t)'
    BY <1>1 DEF ThreadOK
  <1>5. t = Writer => WriterOK'
    BY <1>1 DEF WriterOK
  <1> QED BY <1>1, <1>2, <1>3, <1>4, <1>5, Quiet

LEMMA IsLatestStep ==
    ASSUME Good, NEW t \in Thread, IsLatest(t)
    PROVE  Good'
  <1>1. TypeOK /\ TypeOK' /\ Others(t)
    BY TypeSteps, LocalSteps DEF Good, Release
  <1>2. /\ pc[t] = "isLatest"
        /\ UNCHANGED <<current_timestamp, table, freed, made, since, refct_and_ts>>
        /\ \/ pc'[t] = "reread" /\ S' = S
           \/ pc'[t] = "idle" /\ S[t].timestamp = latest_timestamp
    BY <1>1 DEF IsLatest, Return, Go, sharedVars, historyVars, TypeOK
  <1>3. pc[t] \in Releasing /\ ReleaserOK(t)
    BY <1>2 DEF Good, ThreadOK, Releasing
  <1>4. CASE pc'[t] = "reread"
    <2>1. S' = S /\ pc'[t] \in Releasing /\ pc'[t] # "drop"
      BY <1>2, <1>4 DEF Releasing
    <2>2. ReleaserOK(t)'
      BY <1>2, <1>3, <2>1 DEF ReleaserOK
    <2> QED BY <1>1, <1>2, <1>3, <2>1, <2>2, Leave
  <1>5. CASE pc'[t] = "idle"
    <2>1. S[t].timestamp = latest_timestamp /\ pc'[t] \notin Releasing
      BY <1>2, <1>5 DEF Releasing
    <2>2. \A s \in Slot : ~(table[s].key = S[t].timestamp /\ table[s].key < latest_timestamp)
      BY <1>1, <2>1 DEF latest_timestamp, TypeOK
    <2>3. \A s \in Slot : Kept(s)'
      BY <1>1, <1>2, <1>3, <1>5, <2>2, LeftKept
    <2> QED BY <1>1, <1>2, <1>3, <1>5, <2>1, <2>3, Leave
  <1> QED BY <1>2, <1>4, <1>5

\* A releasing thread's version is not the one that is being filled.
LEMMA NotFilled ==
    ASSUME Good, NEW t \in Thread, pc[t] \in Releasing, NEW s \in Slot,
           table[s].key = S[t].timestamp
    PROVE  ~ Filling(s) /\ FilledOK(s) /\ s = S[t].table_entry
  <1>1. ReleaserOK(t)
    BY DEF Good, ThreadOK
  <1>2. current_timestamp \in Nat /\ S[t].timestamp \in Nat /\ S[t].timestamp < current_timestamp
    BY <1>1 DEF ReleaserOK, Good, TypeOK
  <1>3. ~ Filling(s)
    BY <1>2 DEF Good, SlotOK, FillingOK
  <1> QED BY <1>1, <1>3 DEF ReleaserOK, Good, SlotOK

LEMMA RereadStep ==
    ASSUME Good, NEW t \in Thread, Reread(t)
    PROVE  Good'
  <1>1. TypeOK /\ TypeOK' /\ Others(t)
    BY TypeSteps, LocalSteps DEF Good, Release
  <1>x. PICK x \in Slot : x = S[t].table_entry
    BY <1>1 DEF TypeOK, Handles
  <1>2. /\ pc[t] = "reread"
        /\ UNCHANGED <<current_timestamp, table, freed, made, since>>
        /\ \/ pc'[t] = "drop" /\ S' = S /\ table[x].word.ct = 1 /\ refct_and_ts'[t] = table[x].word
           \/ pc'[t] = "idle" /\ table[x].word.ct # 1
    BY <1>1, <1>x DEF Reread, Return, Go, sharedVars, historyVars, TypeOK
  <1>3. pc[t] \in Releasing /\ ReleaserOK(t)
    BY <1>2 DEF Good, ThreadOK, Releasing
  <1>4. CASE pc'[t] = "drop"
    <2>1. /\ S' = S /\ pc'[t] \in Releasing
          /\ table[x].word.ct = 1 /\ refct_and_ts'[t] = table[x].word
      BY <1>2, <1>4 DEF Releasing
    <2>2. table[x].key = S[t].timestamp => refct_and_ts'[t].ts = S[t].timestamp
      BY <1>3, <2>1, NotFilled DEF FilledOK
    <2>3. ReleaserOK(t)'
      BY <1>x, <1>2, <1>3, <2>1, <2>2 DEF ReleaserOK
    <2> QED BY <1>1, <1>2, <1>3, <2>1, <2>3, Leave
  <1>5. CASE pc'[t] = "idle"
    <2>1. table[x].word.ct # 1 /\ pc'[t] \notin Releasing
      BY <1>2, <1>5 DEF Releasing
    <2>2. \A s \in Slot : table[s].key = S[t].timestamp => ~ Filling(s) /\ table[s].word.ct # 1
      BY <1>x, <1>3, <2>1, NotFilled
    <2>3. \A s \in Slot : Kept(s)'
      BY <1>1, <1>2, <1>3, <1>5, <2>2, LeftKept
    <2> QED BY <1>1, <1>2, <1>3, <1>5, <2>1, <2>3, Leave
  <1> QED BY <1>2, <1>4, <1>5

LEMMA DropFails ==
    ASSUME Good, NEW t \in Thread, Drop(t), pc'[t] = "idle"
    PROVE  Good'
  <1>1. TypeOK /\ TypeOK' /\ Others(t)
    BY TypeSteps, LocalSteps DEF Good, Release
  <1>x. PICK x \in Slot : x = S[t].table_entry
    BY <1>1 DEF TypeOK, Handles
  <1>2. /\ pc[t] = "drop" /\ table[x].word # refct_and_ts[t]
        /\ UNCHANGED <<current_timestamp, table, freed, made, since>>
    BY <1>1, <1>x DEF Drop, Return, Go, TypeOK
  <1>3. pc[t] \in Releasing /\ ReleaserOK(t) /\ pc'[t] \notin Releasing
    BY <1>2 DEF Good, ThreadOK, Releasing
  <1>4. ASSUME table[x].key = S[t].timestamp PROVE ~ Filling(x) /\ table[x].word.ct # 1
    <2>1. ~ Filling(x) /\ FilledOK(x)
      BY <1>3, <1>4, NotFilled
    <2>2. refct_and_ts[t].ct = 1 /\ refct_and_ts[t].ts = S[t].timestamp
      BY <1>x, <1>2, <1>3, <1>4 DEF ReleaserOK
    <2>3. SUFFICES ASSUME table[x].word.ct = 1 PROVE FALSE
      BY <2>1
    <2>4. table[x].word.ts = S[t].timestamp
      BY <1>4, <2>1, <2>3 DEF FilledOK
    <2>5. table[x].word \in Words /\ refct_and_ts[t] \in Words
      BY <1>1 DEF TypeOK, Entries
    <2>6. table[x].word = refct_and_ts[t]
      BY <2>2, <2>3, <2>4, <2>5 DEF Words
    <2> QED BY <2>6, <1>2
  <1>5. \A s \in Slot : table[s].key = S[t].timestamp => ~ Filling(s) /\ table[s].word.ct # 1
    BY <1>x, <1>3, <1>4, NotFilled
  <1>6. \A s \in Slot : Kept(s)'
    BY <1>1, <1>2, <1>3, <1>5, LeftKept
  <1> QED BY <1>1, <1>2, <1>3, <1>6, Leave

LEMMA StoreZeroStep ==
    ASSUME Good, Sane', NEW t \in Thread, StoreZero(t)
    PROVE  Good'
  <1>1. TypeOK /\ TypeOK' /\ Others(t)
    BY TypeSteps, LocalSteps DEF Good, Release
  <1>x. PICK x \in Slot : x = S[t].table_entry
    BY <1>1 DEF TypeOK, Handles
  <1>2. /\ pc[t] = "zero" /\ pc'[t] = "null" /\ table' = [table EXCEPT ![x].word = Zero]
        /\ UNCHANGED <<current_timestamp, freed, made, since>>
    BY <1>1, <1>x DEF StoreZero, Go, localVars, TypeOK
  <1>3. table[x].word = Zero
    BY <1>x DEF StoreZero, Notice, Sane
  <1>4. table[x] \in Entries /\ table \in [Slot -> Entries]
    BY <1>1 DEF TypeOK
  <1>5. [table[x] EXCEPT !.word = Zero] = table[x]
    BY <1>3, <1>4 DEF Entries
  <1>6. table' = table
    BY <1>2, <1>4, <1>5
  <1>7. pc[t] \notin Releasing /\ pc'[t] \notin Releasing
    BY <1>2 DEF Releasing
  <1> QED BY <1>1, <1>2, <1>6, <1>7, Leave

LEMMA StoreNullStep ==
    ASSUME Good, Sane', NEW t \in Thread, StoreNull(t)
    PROVE  Good'
  <1>1. TypeOK /\ TypeOK' /\ Others(t)
    BY TypeSteps, LocalSteps DEF Good, Release
  <1>x. PICK x \in Slot : x = S[t].table_entry
    BY <1>1 DEF TypeOK, Handles
  <1>2. /\ pc[t] = "null" /\ pc'[t] = "idle" /\ table' = [table EXCEPT ![x].root = nullptr]
        /\ UNCHANGED <<current_timestamp, freed, made, since>>
    BY <1>1, <1>x DEF StoreNull, Return, Go, TypeOK
  <1>3. table[x].root = nullptr
    BY <1>x DEF StoreNull, Notice, Sane
  <1>4. table[x] \in Entries /\ table \in [Slot -> Entries]
    BY <1>1 DEF TypeOK
  <1>5. [table[x] EXCEPT !.root = nullptr] = table[x]
    BY <1>3, <1>4 DEF Entries
  <1>6. table' = table
    BY <1>2, <1>4, <1>5
  <1>7. pc[t] \notin Releasing /\ pc'[t] \notin Releasing
    BY <1>2 DEF Releasing
  <1> QED BY <1>1, <1>2, <1>6, <1>7, Leave

---------------------------------------------------------------------------
(* release_version: the version goes.                                       *)

\* The count that is taken to 0 is the thread's own version's, and nobody
\* holds that any more.
LEMMA DropStep ==
    ASSUME Good, Sane', NEW t \in Thread, Drop(t), pc'[t] # "idle"
    PROVE  Good'
  <1>1. TypeOK /\ TypeOK' /\ Others(t)
    BY TypeSteps, LocalSteps DEF Good, Release
  <1>x. PICK x \in Slot : x = S[t].table_entry
    BY <1>1 DEF TypeOK, Handles
  <1>2. /\ pc[t] = "drop" /\ pc'[t] = "free" /\ table[x].word = refct_and_ts[t]
        /\ table' = [table EXCEPT ![x].word = Minus1(@)]
        /\ UNCHANGED <<current_timestamp, freed, made, since, S>>
    BY <1>1, <1>x DEF Drop, Return, Go, TypeOK
  <1>3. table[x].word.ts = S[t].timestamp
    BY <1>1, <1>x, <1>2 DEF Drop, Return, Go, Notice, Sane, TypeOK
  <1>4. /\ pc[t] \in Releasing
        /\ pc[t] \notin Holding \cup Filler \cup Removing \cup Seeking \cup {"latest", "root", "build"}
        /\ pc'[t] \in Removing
        /\ pc'[t] \notin Holding \cup Filler \cup Releasing \cup Seeking \cup {"latest", "root", "build"}
    BY <1>2 DEF Seeking, Holding, Releasing, Removing, Filler
  <1>5. ReleaserOK(t)
    BY <1>4 DEF Good, ThreadOK
  <1>6. /\ S[t].timestamp \in Nat /\ S[t].timestamp < current_timestamp
        /\ S[t].root = S[t].timestamp /\ current_timestamp \in Nat
        /\ table[x].word.ct = 1
    BY <1>1, <1>2, <1>5 DEF ReleaserOK, TypeOK
  <1>7. ~ Filling(x)
    <2>1. SUFFICES ASSUME Filling(x) PROVE FALSE
      OBVIOUS
    <2>2. table[x].word = Zero \/ table[x].word = make_refct(current_timestamp, 1)
      BY <2>1 DEF Good, SlotOK, FillingOK
    <2> QED BY <2>2, <1>3, <1>6 DEF Zero, make_refct
  <1>8. FilledOK(x)
    BY <1>7 DEF Good, SlotOK
  <1>9. /\ table[x].key = S[t].timestamp /\ S[t].timestamp \notin Vacant
        /\ table[x].root = S[t].timestamp /\ Cardinality(HoldersAt(x)) + 1 = 1
    BY <1>3, <1>6, <1>8 DEF FilledOK
  <1>10. HoldersAt(x) = {}
    <2>1. Cardinality(HoldersAt(x)) = 0
      BY <1>9, HoldersFinite, FS_CardinalityType
    <2> QED BY <2>1, HoldersFinite, FS_EmptySet
  <1>11. Minus1(table[x].word) = make_refct(S[t].timestamp, 0)
    BY <1>3, <1>6 DEF Minus1
  <1>12. /\ OnlySlot(x)
         /\ table'[x].key = S[t].timestamp /\ table'[x].root = S[t].timestamp
         /\ table'[x].word = make_refct(S[t].timestamp, 0)
    BY <1>1, <1>2, <1>9, <1>11 DEF TypeOK, OnlySlot, Entries
  <1>13. table'[x] = Entry(S[t].timestamp, make_refct(S[t].timestamp, 0), S[t].timestamp)
    <2>1. table'[x] \in Entries
      BY <1>1 DEF TypeOK
    <2> QED BY <1>12, <2>1 DEF Entries, Entry
  <1>14. KeyKept(x) /\ NotRemoved(t, x)
    BY <1>6, <1>9, <1>12, RemoverAt DEF KeyKept, NotRemoved
  <1>15. \A s \in Slot : SameHold(t, s)
    BY <1>4 DEF SameHold
  <1>16. HoldersAt(x)' = {}
    BY <1>1, <1>10, <1>15, SameHolders
  <1>17. \A s \in Slot \ {x} : table[s].key # S[t].timestamp
    BY <1>x, <1>5 DEF ReleaserOK
  <1>18. /\ \A s \in Slot \ {x} : SlotOK(s)' /\ Kept(s)'
         /\ \A u \in Thread \ {t} : ThreadOK(u)'
         /\ t \in Reader => WriterOK'
    BY <1>1, <1>2, <1>4, <1>12, <1>14, <1>15, <1>17, OneSlot
  <1>19. SlotOK(x)'
    <2>1. ~ Filling(x)'
      BY <1>1, <1>4, <1>7, ThreadFacts DEF Filling, Others
    <2>2. FilledOK(x)'
      BY <1>2, <1>6, <1>9, <1>12, <1>16 DEF FilledOK, make_refct
    <2> QED BY <2>1, <2>2 DEF SlotOK
  <1>20. Kept(x)'
    BY <1>12 DEF Kept, make_refct
  <1>21. ThreadOK(t)'
    <2>1. RemoverOK(t)'
      BY <1>x, <1>2, <1>6, <1>13 DEF RemoverOK
    <2> QED BY <2>1, <1>4 DEF ThreadOK
  <1>22. Clock'
    BY <1>1, <1>2, <1>4, ClockKept DEF Good
  <1>23. WriterOK'
    <2>1. t = Writer => WriterOK'
      BY <1>4 DEF WriterOK
    <2> QED BY <2>1, <1>18 DEF Thread
  <1>24. Distinct' /\ FreedOK'
    <2>1. \A s \in Slot : table'[s].key = table[s].key /\ table'[s].root = table[s].root
      BY <1>9, <1>12 DEF OnlySlot
    <2> QED BY <1>2, <2>1 DEF Good, Distinct, FreedOK
  <1>25. RemoverUnique'
    BY <1>x, <1>1, <1>2, <1>14, RemoversKept DEF Good
  <1> QED BY <1>1, <1>18, <1>19, <1>20, <1>21, <1>22, <1>23, <1>24, <1>25 DEF Good

\* The two stores of a thread that takes its version away.
LEMMA Remove ==
    ASSUME Good, TypeOK', NEW t \in Thread, Others(t), NEW x \in Slot, x = S[t].table_entry,
           UNCHANGED <<current_timestamp, made, since, S>>,
           pc[t] \in Removing, pc'[t] \in {"tombstone", "zero"},
           OnlySlot(x), table'[x].key \in {S[t].timestamp, tombstone},
           table'[x].word = Zero, table'[x].root = nullptr,
           pc'[t] = "tombstone" => table'[x] = Entry(S[t].timestamp, Zero, nullptr),
           FreedOK'
    PROVE  Good'
  <1>1. /\ pc[t] \notin Holding \cup Filler \cup Releasing \cup Seeking \cup {"latest", "root", "build"}
        /\ pc'[t] \notin Holding \cup Filler \cup Releasing \cup Seeking \cup {"latest", "root", "build"}
    BY DEF Seeking, Holding, Releasing, Removing, Filler
  <1>2. /\ table[x].key = S[t].timestamp /\ table[x].word.ct = 0
        /\ S[t].timestamp \in Nat /\ S[t].timestamp < current_timestamp
        /\ S[t].timestamp \notin Vacant /\ ~ Filling(x)
    BY RemoverAt
  <1>3. current_timestamp \in Nat /\ current_timestamp <= tombstone /\ tombstone \in Nat
    BY ClockBound DEF Good, TypeOK
  <1>4. FilledOK(x) /\ HoldersAt(x) = {}
    BY <1>2 DEF Good, SlotOK, FilledOK
  <1>5. KeyKept(x)
    BY <1>2, <1>3, <1>4 DEF KeyKept
  <1>6. NotRemoved(t, x)
    BY DEF NotRemoved, Good, RemoverUnique
  <1>7. \A s \in Slot : SameHold(t, s)
    BY <1>1 DEF SameHold
  <1>8. HoldersAt(x)' = {}
    BY <1>4, <1>7, SameHolders
  <1>9. /\ \A s \in Slot \ {x} : SlotOK(s)' /\ Kept(s)'
        /\ \A u \in Thread \ {t} : ThreadOK(u)'
        /\ t \in Reader => WriterOK'
    BY <1>1, <1>5, <1>6, <1>7, OneSlot
  <1>10. SlotOK(x)'
    <2>1. ~ Filling(x)'
      BY <1>1, <1>2, ThreadFacts DEF Filling, Others
    <2>2. FilledOK(x)'
      BY <1>2, <1>8 DEF FilledOK, Zero, Vacant
    <2> QED BY <2>1, <2>2 DEF SlotOK
  <1>11. Kept(x)'
    BY DEF Kept, Zero
  <1>12. ThreadOK(t)'
    <2>1. ASSUME pc'[t] \in Removing PROVE RemoverOK(t)'
      <3>1. pc'[t] = "tombstone"
        BY <2>1 DEF Removing
      <3> QED BY <3>1, <1>2 DEF RemoverOK
    <2> QED BY <2>1, <1>1 DEF ThreadOK
  <1>13. Clock'
    BY <1>1, ClockKept DEF Good
  <1>14. WriterOK'
    <2>1. t = Writer => WriterOK'
      BY <1>1 DEF WriterOK
    <2> QED BY <2>1, <1>9 DEF Thread
  <1>15. Distinct'
    BY <1>2 DEF Good, Distinct, OnlySlot, Vacant
  <1>16. RemoverUnique'
    BY RemoversKept DEF Good
  <1> QED BY <1>9, <1>10, <1>11, <1>12, <1>13, <1>14, <1>15, <1>16 DEF Good

LEMMA FreeStep ==
    ASSUME Good, NEW t \in Thread, Free(t)
    PROVE  Good'
  <1>1. TypeOK /\ TypeOK' /\ Others(t)
    BY TypeSteps, LocalSteps DEF Good, Release
  <1>x. PICK x \in Slot : x = S[t].table_entry
    BY <1>1 DEF TypeOK, Handles
  <1>2. /\ pc[t] = "free" /\ pc'[t] = "tombstone"
        /\ freed' = freed \cup ({S[t].root} \ {nullptr})
        /\ table' = [table EXCEPT ![x] = Entry(S[t].timestamp, Zero, nullptr)]
        /\ UNCHANGED <<current_timestamp, made, since, S>>
    BY <1>1, <1>x DEF Free, Go, localVars, historyVars, TypeOK
  <1>3. pc[t] \in Removing /\ RemoverOK(t)
    BY <1>2 DEF Good, ThreadOK, Removing
  <1>4. /\ S[t].root = S[t].timestamp /\ S[t].timestamp \in Nat
        /\ S[t].timestamp < current_timestamp
        /\ table[x] = Entry(S[t].timestamp, make_refct(S[t].timestamp, 0), S[t].timestamp)
    BY <1>x, <1>2, <1>3 DEF RemoverOK
  <1>5. OnlySlot(x) /\ table'[x] = Entry(S[t].timestamp, Zero, nullptr)
    BY <1>1, <1>2 DEF TypeOK, OnlySlot
  <1>6. table'[x].key = S[t].timestamp /\ table'[x].word = Zero /\ table'[x].root = nullptr
    BY <1>5 DEF Entry
  <1>7. S[t].timestamp \notin Vacant /\ table[x].key = S[t].timestamp
    BY <1>x, <1>3, RemoverAt
  <1>8. FreedOK'
    <2>1. \A v \in freed' : v \in freed \/ v = S[t].timestamp
      BY <1>2, <1>4
    <2>2. \A v \in freed' : v < current_timestamp
      BY <1>4, <2>1 DEF Good, FreedOK
    <2>3. ASSUME NEW v \in freed', NEW s \in Slot PROVE table'[s].root # v
      <3>1. v \in Nat
        BY <1>1, <1>4, <2>1 DEF TypeOK
      <3>2. CASE s = x
        BY <3>1, <3>2, <1>6 DEF nullptr
      <3>3. CASE s # x /\ v \in freed
        BY <3>3, <1>5 DEF Good, FreedOK, OnlySlot
      <3>4. CASE s # x /\ v = S[t].timestamp
        <4>1. table[s].root \in {nullptr, table[s].key} \/ table[s].root \in {nullptr, current_timestamp}
          BY DEF Good, SlotOK, FilledOK, FillingOK
        <4>2. table[s].key # v
          BY <3>4, <1>7 DEF Good, Distinct
        <4>3. v # current_timestamp /\ v # nullptr
          BY <3>1, <3>4, <1>1, <1>4 DEF TypeOK, nullptr
        <4> QED BY <4>1, <4>2, <4>3, <3>4, <1>5 DEF OnlySlot
      <3> QED BY <3>2, <3>3, <3>4, <2>1
    <2> QED BY <1>2, <2>2, <2>3 DEF FreedOK
  <1> QED BY <1>x, <1>1, <1>2, <1>3, <1>5, <1>6, <1>8, Remove

LEMMA StoreTombstoneStep ==
    ASSUME Good, NEW t \in Thread, StoreTombstone(t)
    PROVE  Good'
  <1>1. TypeOK /\ TypeOK' /\ Others(t)
    BY TypeSteps, LocalSteps DEF Good, Release
  <1>x. PICK x \in Slot : x = S[t].table_entry
    BY <1>1 DEF TypeOK, Handles
  <1>2. /\ pc[t] = "tombstone" /\ pc'[t] = "zero"
        /\ table' = [table EXCEPT ![x].key = tombstone]
        /\ UNCHANGED <<current_timestamp, freed, made, since, S>>
    BY <1>1, <1>x DEF StoreTombstone, Go, localVars, historyVars, TypeOK
  <1>3. pc[t] \in Removing /\ RemoverOK(t)
    BY <1>2 DEF Good, ThreadOK, Removing
  <1>4. table[x].word = Zero /\ table[x].root = nullptr
    BY <1>x, <1>2, <1>3 DEF RemoverOK, Entry
  <1>5. /\ OnlySlot(x) /\ table'[x].key = tombstone
        /\ table'[x].word = Zero /\ table'[x].root = nullptr
    BY <1>1, <1>2, <1>4 DEF TypeOK, OnlySlot, Entries
  <1>6. FreedOK'
    <2>1. \A s \in Slot : table'[s].root = table[s].root
      BY <1>4, <1>5 DEF OnlySlot
    <2> QED BY <2>1, <1>2 DEF Good, FreedOK
  <1> QED BY <1>x, <1>1, <1>2, <1>3, <1>5, <1>6, Remove

---------------------------------------------------------------------------
(* The invariant.                                                           *)

LEMMA InitInv == Init => Inv
  <1>1. SUFFICES ASSUME Init PROVE Good
    BY DEF Inv
  <1>2. Writer \in Thread /\ 0 \in Slot /\ tombstone \in Nat /\ max_ts = tombstone + 1 /\ tombstone > 0
    BY ThreadFacts, Typed DEF tombstone
  <1>3. \A s \in Slot : table[s] = IF s = 0 THEN Entry(0, make_refct(0, 1), 0)
                                   ELSE Entry(max_ts, Zero, nullptr)
    BY <1>1 DEF Init
  <1>4. /\ Entry(0, make_refct(0, 1), 0) \in Entries
        /\ Entry(max_ts, Zero, nullptr) \in Entries
    BY DEF Entry, make_refct, Entries, Words, Zero, nullptr
  <1>5. TypeOK
    BY <1>1, <1>2, <1>4, Typed DEF Init, TypeOK, Pcs
  <1>6. \A t \in Thread : pc[t] = "idle"
    BY <1>1 DEF Init
  <1>7. \A t \in Thread : pc[t] \notin
            Holding \cup Releasing \cup Removing \cup Filler \cup Seeking \cup {"latest", "root", "build"}
    BY <1>6 DEF Seeking, Holding, Releasing, Removing, Filler
  <1>8. Clock
    BY <1>1, <1>2, <1>7 DEF Init, Clock
  <1>9. \A s \in Slot : HoldersAt(s) = {} /\ Cardinality(HoldersAt(s)) = 0
    BY <1>7, FS_EmptySet DEF HoldersAt
  <1>10. \A s \in Slot : SlotOK(s)
    <2>1. SUFFICES ASSUME NEW s \in Slot PROVE FilledOK(s)
      BY <1>2, <1>7 DEF SlotOK, Filling
    <2>2. CASE s = 0
      <3>1. /\ table[s].key = 0 /\ table[s].word.ts = 0 /\ table[s].word.ct = 1 /\ table[s].root = 0
        BY <1>3, <2>2 DEF Entry, make_refct
      <3>2. 0 \notin Vacant /\ current_timestamp = 1
        BY <1>1, <1>2 DEF Vacant, Init
      <3> QED BY <3>1, <3>2, <1>9 DEF FilledOK
    <2>3. CASE s # 0
      <3>1. /\ table[s].key = max_ts /\ table[s].word = Zero /\ table[s].root = nullptr
        BY <1>3, <2>3 DEF Entry
      <3> QED BY <3>1, <1>9 DEF FilledOK, Zero, Vacant
    <2> QED BY <2>2, <2>3
  <1>11. Distinct
    BY <1>3 DEF Distinct, Vacant, Entry
  <1>12. FreedOK
    BY <1>1 DEF Init, FreedOK
  <1>13. \A t \in Thread : ThreadOK(t)
    BY <1>7 DEF ThreadOK
  <1>14. RemoverUnique /\ WriterOK
    BY <1>2, <1>7 DEF RemoverUnique, WriterOK
  <1>15. \A s \in Slot : Kept(s)
    <2>1. SUFFICES ASSUME NEW s \in Slot PROVE ~(table[s].key < latest_timestamp)
      BY DEF Kept
    <2>2. latest_timestamp = 0
      BY <1>1 DEF Init, latest_timestamp
    <2>3. table[s].key \in Nat
      BY <1>5 DEF TypeOK, Entries
    <2> QED BY <2>2, <2>3
  <1> QED BY <1>5, <1>8, <1>10, <1>11, <1>12, <1>13, <1>14, <1>15 DEF Good

\* What went wrong is not forgotten.
LEMMA SaneBefore == Sane' /\ [Next]_vars => Sane
  <1>1. SUFFICES ASSUME [Next]_vars PROVE damage \subseteq damage'
    BY DEF Sane
  <1>2. CASE UNCHANGED vars
    BY <1>2 DEF vars, historyVars
  <1>3. CASE Update
    BY <1>3 DEF Update, Insert, SetWord, SetRoot, Publish, historyVars
  <1>4. ASSUME NEW t \in Thread, Acquire(t) PROVE damage \subseteq damage'
    BY <1>4 DEF Acquire, Call, ReadLatest, Find, CheckKey, ReadCount, Cas, ReadRoot,
       historyVars, Notice
  <1>5. ASSUME NEW t \in Thread, Release(t) PROVE damage \subseteq damage'
    BY <1>5 DEF Release, Decrement, IsLatest, Reread, Drop, Free, StoreTombstone, StoreZero,
       StoreNull, historyVars, Notice
  <1> QED BY <1>1, <1>2, <1>3, <1>4, <1>5 DEF Next

LEMMA NextGood ==
    ASSUME Good, Sane', [Next]_vars
    PROVE  Good'
  <1>1. CASE UNCHANGED vars
    <2>1. UNCHANGED <<current_timestamp, table, freed, pc, made, latest_ts, h, refct_and_ts, S, since>>
      BY <1>1 DEF vars, sharedVars, localVars, historyVars
    <2>2. TypeOK' /\ Clock' /\ Distinct' /\ FreedOK' /\ RemoverUnique' /\ WriterOK'
      BY <2>1 DEF Good, TypeOK, Clock, Distinct, FreedOK, RemoverUnique, WriterOK, latest_timestamp
    <2>3. \A s \in Slot : HoldersAt(s)' = HoldersAt(s) /\ (Filling(s)' <=> Filling(s))
      BY <2>1 DEF HoldersAt, Filling
    <2>4. \A s \in Slot : SlotOK(s)'
      BY <2>1, <2>3, SlotKept DEF Good
    <2>5. \A s \in Slot : Kept(s)'
      BY <2>1, <2>3 DEF Good, Kept, latest_timestamp
    <2>6. \A t \in Thread : ThreadOK(t)'
      BY <2>1 DEF Good, ThreadOK, HolderOK, ReleaserOK, RemoverOK, SeekerOK
    <2> QED BY <2>2, <2>4, <2>5, <2>6 DEF Good
  <1>2. CASE Update
    BY <1>2, InsertMoves, InsertStep, SetWordStep, SetRootStep, PublishStep DEF Update
  <1>3. ASSUME NEW t \in Thread, Acquire(t) PROVE Good'
    BY <1>3, CallStep, ReadLatestStep, FindStep, CheckKeyStep, ReadCountStep, CasFails, CasStep,
       ReadRootStep DEF Acquire
  <1>4. ASSUME NEW t \in Thread, Release(t) PROVE Good'
    BY <1>4, DecrementStep, IsLatestStep, RereadStep, DropFails, DropStep, FreeStep,
       StoreTombstoneStep, StoreZeroStep, StoreNullStep DEF Release
  <1> QED BY <1>1, <1>2, <1>3, <1>4 DEF Next

LEMMA NextInv == Inv /\ [Next]_vars => Inv'
  BY NextGood, SaneBefore DEF Inv

\* The inductive invariant holds in every reachable state.
THEOREM InvCorrect == Spec => []Inv
  BY InitInv, NextInv, PTL DEF Spec

\* Whatever is published, released and reused, a version that a thread holds
\* keeps its entry, its count and its root until the thread gives it back.
THEOREM HeldCorrect == Spec => []HeldIntact
  <1>1. Inv => HeldIntact
    <2>1. SUFFICES ASSUME Good, NEW t \in Thread, pc[t] \in Holding, NEW x \in Slot, x = S[t].table_entry
                   PROVE  /\ table[x].key = S[t].timestamp /\ table[x].word.ts = S[t].timestamp
                          /\ table[x].root = S[t].timestamp
                          /\ pc[t] # "root" => S[t].root = table[x].root
                          /\ S[t].timestamp \notin freed
      <3>1. Good => \A t \in Thread : S[t].table_entry \in Slot
        BY DEF Good, TypeOK, Handles
      <3> QED BY <3>1 DEF Inv, HeldIntact
    <2>2. /\ HolderOK(t) /\ table[x].key = S[t].timestamp /\ table[x].word.ts = S[t].timestamp
          /\ table[x].root = S[t].timestamp
      BY <2>1, HeldEntry
    <2>3. S[t].timestamp \notin freed
      BY <2>1, <2>2 DEF Good, FreedOK
    <2> QED BY <2>2, <2>3 DEF HolderOK
  <1> QED BY <1>1, InvCorrect, PTL

\* The thread that calls decrement_recursive on a root is the only one ever to
\* do so, and nobody holds the version then.
THEOREM FreedCorrect == Spec => []FreedOnce
  <1>1. Inv => FreedOnce
    <2>1. SUFFICES ASSUME Good, NEW t \in Thread, pc[t] = "free"
                   PROVE  /\ S[t].root = S[t].timestamp /\ S[t].root \notin freed
                          /\ Holders(S[t].timestamp) = {}
                          /\ \A u \in Thread : pc[u] = "free" /\ S[u].timestamp = S[t].timestamp => u = t
      BY DEF Inv, FreedOnce
    <2>2. PICK x \in Slot : x = S[t].table_entry
      BY <2>1 DEF Good, TypeOK, Handles
    <2>3. pc[t] \in Removing
      BY <2>1 DEF Removing
    <2>4. /\ table[x].key = S[t].timestamp /\ table[x].word.ct = 0
          /\ S[t].timestamp \notin Vacant
      BY <2>1, <2>2, <2>3, RemoverAt
    <2>5. S[t].root = S[t].timestamp /\ table[x].root = S[t].timestamp
      <3>1. RemoverOK(t)
        BY <2>1, <2>3 DEF Good, ThreadOK
      <3> QED BY <3>1, <2>1, <2>2 DEF RemoverOK, Entry
    <2>6. S[t].root \notin freed
      BY <2>1, <2>5 DEF Good, FreedOK
    <2>7. ASSUME NEW u \in Thread, pc[u] \in Holding, S[u].timestamp = S[t].timestamp PROVE FALSE
      <3>1. PICK y \in Slot : y = S[u].table_entry
        BY <2>1 DEF Good, TypeOK, Handles
      <3>2. table[y].key = S[u].timestamp /\ table[y].word.ct > 0
        BY <2>1, <2>7, <3>1, HeldEntry
      <3>3. y = x
        BY <2>1, <2>4, <2>7, <3>2 DEF Good, Distinct
      <3> QED BY <3>2, <3>3, <2>4
    <2>8. ASSUME NEW u \in Thread, pc[u] = "free", S[u].timestamp = S[t].timestamp PROVE u = t
      <3>1. pc[u] \in Removing
        BY <2>8 DEF Removing
      <3>2. S[u].table_entry \in Slot /\ table[S[u].table_entry].key = S[u].timestamp
        BY <2>1, <3>1, RemoverAt
      <3>3. S[u].table_entry = x
        BY <2>1, <2>4, <2>8, <3>2 DEF Good, Distinct
      <3> QED BY <2>1, <2>2, <2>3, <3>1, <3>3 DEF Good, RemoverUnique
    <2> QED BY <2>5, <2>6, <2>7, <2>8 DEF Holders
  <1> QED BY <1>1, InvCorrect, PTL

\* An old version whose entry still has a count is held, or a thread is on its
\* way to free it: release_version forgets none.
THEOREM ReclaimedCorrect == Spec => []Reclaimed
  <1>1. Inv => Reclaimed
    <2>1. SUFFICES ASSUME Good, NEW s \in Slot, table[s].word.ct > 0,
                          table[s].key < latest_timestamp
                   PROVE  \/ Holders(table[s].key) # {}
                          \/ \E t \in Thread : /\ pc[t] \in {"isLatest", "reread", "drop"}
                                               /\ S[t].timestamp = table[s].key
      BY DEF Inv, Reclaimed, Live
    <2>2. CASE HoldersAt(s) # {}
      <3>1. PICK t \in Thread : pc[t] \in Holding /\ S[t].table_entry = s
        BY <2>2 DEF HoldersAt
      <3>2. S[t].timestamp = table[s].key
        BY <2>1, <3>1, HeldEntry
      <3> QED BY <3>1, <3>2 DEF Holders
    <2>3. CASE HoldersAt(s) = {}
      BY <2>1, <2>3 DEF Good, Kept, Releasing
    <2> QED BY <2>2, <2>3
  <1> QED BY <1>1, InvCorrect, PTL

---------------------------------------------------------------------------
(* The refinement of SnapshotStore.                                         *)

Held == [t \in Thread |-> IF pc[t] \in Holding THEN S[t].timestamp ELSE -1]

\* A step that neither takes a version nor gives one back.
LEMMA Hidden ==
    ASSUME NEW t \in Thread, Others(t), UNCHANGED <<current_timestamp, since>>,
           (pc'[t] \in Holding) <=> (pc[t] \in Holding),
           pc[t] \in Holding => S'[t].timestamp = S[t].timestamp
    PROVE  UNCHANGED Versions!vars
  <1>1. \A u \in Thread : (IF pc'[u] \in Holding THEN S'[u].timestamp ELSE -1)
                        = (IF pc[u] \in Holding THEN S[u].timestamp ELSE -1)
    BY DEF Others
  <1>2. Held' = Held
    BY <1>1 DEF Held
  <1> QED BY <1>2 DEF Versions!vars, Held, latest_timestamp

LEMMA HiddenUpdate ==
    ASSUME Good, Insert \/ SetWord \/ SetRoot
    PROVE  UNCHANGED Versions!vars
  <1>1. TypeOK /\ Others(Writer) /\ Writer \in Thread
    BY UpdateLocals, ThreadFacts DEF Good, Update
  <1>2. /\ UNCHANGED <<current_timestamp, since, S>>
        /\ pc[Writer] \in {"build", "setWord", "setRoot"}
        /\ pc'[Writer] \in {"build", "setWord", "setRoot", "publish"}
    BY <1>1 DEF Insert, SetWord, SetRoot, Go, localVars, historyVars, TypeOK
  <1> QED BY <1>1, <1>2, Hidden DEF Holding

\* Only the writer, and only on the latest version.
LEMMA PublishRefines ==
    ASSUME Good, Publish
    PROVE  Versions!Next
  <1>1. TypeOK /\ Others(Writer) /\ Writer \in Thread
    BY UpdateLocals, ThreadFacts DEF Good, Update
  <1>2. /\ pc[Writer] = "publish" /\ pc'[Writer] = "held"
        /\ current_timestamp' = current_timestamp + 1 /\ UNCHANGED <<S, since>>
        /\ current_timestamp \in Nat
    BY <1>1 DEF Publish, Go, historyVars, TypeOK
  <1>3. \A u \in Thread : (IF pc'[u] \in Holding THEN S'[u].timestamp ELSE -1)
                        = (IF pc[u] \in Holding THEN S[u].timestamp ELSE -1)
    BY <1>1, <1>2 DEF Others, Holding
  <1>4. Held' = Held
    BY <1>3 DEF Held
  <1>5. Held[Writer] = latest_timestamp
    BY <1>1, <1>2 DEF Held, Good, WriterOK, Filler, Holding
  <1>6. latest_timestamp' = latest_timestamp + 1
    BY <1>2 DEF latest_timestamp
  <1>7. Versions!Publish(Writer)
    BY <1>2, <1>4, <1>5, <1>6 DEF Versions!Publish, Held
  <1> QED BY <1>1, <1>7 DEF Versions!Next

LEMMA CallRefines ==
    ASSUME Good, NEW t \in Thread, Call(t)
    PROVE  Versions!Next
  <1>1. TypeOK /\ Others(t)
    BY LocalSteps DEF Good, Acquire
  <1>2. /\ pc[t] = "idle" /\ pc'[t] = "latest"
        /\ since' = [since EXCEPT ![t] = latest_timestamp]
        /\ UNCHANGED <<current_timestamp, S>>
    BY <1>1 DEF Call, Go, sharedVars, localVars, TypeOK
  <1>3. \A u \in Thread : (IF pc'[u] \in Holding THEN S'[u].timestamp ELSE -1)
                        = (IF pc[u] \in Holding THEN S[u].timestamp ELSE -1)
    BY <1>1, <1>2 DEF Others, Holding
  <1>4. Held' = Held /\ Held[t] = -1 /\ latest_timestamp' = latest_timestamp
    BY <1>2, <1>3 DEF Held, Holding, latest_timestamp
  <1>5. Versions!Call(t)
    BY <1>2, <1>4 DEF Versions!Call, Held
  <1> QED BY <1>5 DEF Versions!Next

\* The compare-and-swap decides which version acquire_version returns.
LEMMA CasRefines ==
    ASSUME Good, Sane', NEW t \in Thread, Cas(t), pc'[t] # "check"
    PROVE  Versions!Next
  <1>1. TypeOK /\ Others(t)
    BY LocalSteps DEF Good, Acquire
  <1>x. PICK v \in Nat : v = table[h[t]].key
    BY CasTakes
  <1>2. /\ pc[t] = "cas" /\ pc'[t] = "root" /\ S'[t].timestamp = v
        /\ current_timestamp' = current_timestamp /\ since[t] \in Nat
        /\ since[t] <= v /\ v < current_timestamp /\ current_timestamp \in Nat
    <2>1. /\ pc[t] = "cas" /\ pc'[t] = "root" /\ current_timestamp' = current_timestamp
          /\ S'[t] = [timestamp |-> v, table_entry |-> h[t], root |-> nullptr]
          /\ since[t] \in Nat /\ since[t] <= v /\ v < current_timestamp
      BY <1>x, CasTakes
    <2>2. current_timestamp \in Nat
      BY <1>1 DEF TypeOK
    <2> QED BY <2>1, <2>2
  <1>3. since' = [since EXCEPT ![t] = 0]
    BY <1>1, <1>2 DEF Cas, Go, TypeOK
  <1>4. pc[t] \notin Holding /\ pc'[t] \in Holding
    BY <1>2 DEF Holding
  <1>5. Held' = [Held EXCEPT ![t] = v]
    <2>1. \A u \in Thread : (IF pc'[u] \in Holding THEN S'[u].timestamp ELSE -1)
                          = IF u = t THEN v ELSE IF pc[u] \in Holding THEN S[u].timestamp ELSE -1
      BY <1>1, <1>2, <1>4 DEF Others
    <2> QED BY <2>1 DEF Held
  <1>6. Held[t] = -1 /\ latest_timestamp' = latest_timestamp
    BY <1>2, <1>4 DEF Held, latest_timestamp
  <1>7. v \in since[t] .. latest_timestamp
    BY <1>2 DEF latest_timestamp
  <1>8. Versions!Acquire(t)
    BY <1>3, <1>5, <1>6, <1>7 DEF Versions!Acquire, Held
  <1> QED BY <1>8 DEF Versions!Next

LEMMA DecrementRefines ==
    ASSUME Good, NEW t \in Thread, Decrement(t)
    PROVE  Versions!Next
  <1>1. TypeOK /\ Others(t)
    BY LocalSteps DEF Good, Release
  <1>2. pc[t] = "held" /\ pc'[t] \in {"isLatest", "idle"} /\ UNCHANGED <<current_timestamp, since>>
    BY <1>1 DEF Decrement, Return, Go, historyVars, TypeOK
  <1>3. pc[t] \in Holding /\ pc'[t] \notin Holding
    BY <1>2 DEF Holding
  <1>4. S[t].timestamp \in Nat
    BY <1>3 DEF Good, ThreadOK, HolderOK
  <1>5. Held' = [Held EXCEPT ![t] = -1]
    <2>1. \A u \in Thread : (IF pc'[u] \in Holding THEN S'[u].timestamp ELSE -1)
                          = IF u = t THEN -1 ELSE IF pc[u] \in Holding THEN S[u].timestamp ELSE -1
      BY <1>1, <1>3 DEF Others
    <2> QED BY <2>1 DEF Held
  <1>6. Held[t] # -1 /\ latest_timestamp' = latest_timestamp
    BY <1>2, <1>3, <1>4 DEF Held, latest_timestamp
  <1>7. Versions!Release(t)
    BY <1>2, <1>5, <1>6 DEF Versions!Release, Held
  <1> QED BY <1>7 DEF Versions!Next

LEMMA HiddenAcquire ==
    ASSUME Good, NEW t \in Thread,
           \/ ReadLatest(t) \/ Find(t) \/ CheckKey(t) \/ ReadCount(t) \/ ReadRoot(t)
           \/ Cas(t) /\ pc'[t] = "check"
    PROVE  UNCHANGED Versions!vars
  <1>1. TypeOK /\ Others(t)
    BY LocalSteps DEF Good, Acquire
  <1>2. CASE ReadRoot(t)
    <2>1. /\ UNCHANGED <<current_timestamp, since>>
          /\ pc[t] = "root" /\ pc'[t] \in {"build", "held"}
          /\ S'[t].timestamp = S[t].timestamp
      BY <1>1, <1>2 DEF ReadRoot, Go, sharedVars, historyVars, TypeOK, Handles
    <2> QED BY <1>1, <2>1, Hidden DEF Holding
  <1>3. CASE ~ ReadRoot(t)
    <2>1. /\ UNCHANGED <<current_timestamp, since>>
          /\ pc[t] \in {"latest"} \cup Seeking /\ pc'[t] \in {"latest"} \cup Seeking
      BY <1>1, <1>3 DEF ReadLatest, Find, CheckKey, ReadCount, Cas, Go, sharedVars, historyVars,
         TypeOK, Seeking
    <2>2. pc[t] \notin Holding /\ pc'[t] \notin Holding
      BY <2>1 DEF Holding, Seeking
    <2> QED BY <1>1, <2>1, <2>2, Hidden
  <1> QED BY <1>2, <1>3

LEMMA HiddenRelease ==
    ASSUME Good, NEW t \in Thread, Release(t), ~ Decrement(t)
    PROVE  UNCHANGED Versions!vars
  <1>1. TypeOK /\ Others(t)
    BY LocalSteps DEF Good
  <1>2. /\ UNCHANGED <<current_timestamp, since>>
        /\ pc[t] \in Releasing \cup Removing \cup {"zero", "null"}
        /\ pc'[t] \in Releasing \cup Removing \cup {"zero", "null", "idle"}
    BY <1>1 DEF Release, IsLatest, Reread, Drop, Free, StoreTombstone, StoreZero, StoreNull, Return,
       Go, sharedVars, historyVars, TypeOK, Releasing, Removing
  <1>3. pc[t] \notin Holding /\ pc'[t] \notin Holding
    BY <1>2 DEF Holding, Releasing, Removing
  <1> QED BY <1>1, <1>2, <1>3, Hidden

LEMMA NextSnapshots == Inv /\ [Next]_vars => [Sane' => Versions!Next]_(Versions!vars)
  <1>1. SUFFICES ASSUME Inv, [Next]_vars, Sane'
                 PROVE  Versions!Next \/ UNCHANGED Versions!vars
    OBVIOUS
  <1>2. Good
    BY <1>1, SaneBefore DEF Inv
  <1>3. CASE UNCHANGED vars
    <2>1. UNCHANGED <<current_timestamp, pc, S, since>>
      BY <1>3 DEF vars, sharedVars, localVars, historyVars
    <2> QED BY <2>1 DEF Versions!vars, latest_timestamp
  <1>4. CASE Update
    BY <1>2, <1>4, HiddenUpdate, PublishRefines DEF Update
  <1>5. ASSUME NEW t \in Thread, Acquire(t) PROVE Versions!Next \/ UNCHANGED Versions!vars
    BY <1>1, <1>2, <1>5, CallRefines, CasRefines, HiddenAcquire DEF Acquire
  <1>6. ASSUME NEW t \in Thread, Release(t) PROVE Versions!Next \/ UNCHANGED Versions!vars
    BY <1>2, <1>6, DecrementRefines, HiddenRelease
  <1> QED BY <1>1, <1>3, <1>4, <1>5, <1>6 DEF Next

\* acquire_version returns a version that was the latest at some moment since
\* the call, and versions are published on top of the latest one.
THEOREM SnapshotsCorrect == Spec => ImplementsSnapshots
  BY InvCorrect, NextSnapshots, PTL DEF Spec, ImplementsSnapshots

=============================================================================
