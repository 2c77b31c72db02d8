--------------------------- MODULE VersionedGraph ---------------------------
(***************************************************************************)
(* Aspen's versioned_graph (versioned_graph.h) and the hash table of live  *)
(* versions it keeps (sequentialHT.h), used by one updating thread and any *)
(* number of readers (run_simultaneous_updates_queries.cpp has one).       *)
(*                                                                         *)
(* An entry of the table is (key, (timestamp and count, root)).  The key   *)
(* of every version hashes to the same first index, because firstIndex     *)
(* drops the low 32 bits and timestamps have no others.  The table has no  *)
(* lock: an action is one access of a thread to a shared word, in program  *)
(* order, and the assignment of an entry is one store per word.  The root  *)
(* of version n is written n.                                              *)
(***************************************************************************)
EXTENDS Integers, FiniteSets

CONSTANTS
    Reader, Writer, \* the querying threads and the updating one
    m,              \* size of the table, 512 in the code
    max_ts,         \* 2^32 - 1, the key of an entry never used
    MaxUpdates,     \* bound: batches the writer makes
    MaxQueries      \* bound: queries a reader makes (-queryiters)

ASSUME ThreadAssumption == IsFiniteSet(Reader) /\ Writer \notin Reader
ASSUME SizeAssumption == m \in Nat \ {0}
ASSUME BoundAssumption ==
    MaxUpdates \in Nat /\ MaxQueries \in Nat /\ max_ts \in Nat /\ MaxUpdates < max_ts - 1

VARIABLES
    current_timestamp,
    table,              \* live_versions.table
    freed,              \* roots that decrement_recursive finished off
    pc, made,           \* what a thread does; its calls of acquire_version
    latest_ts, h,       \* locals of acquire_version and find: a slot is
                        \* table_ref once it is found
    refct_and_ts,       \* local of acquire_version; cur_val of release_version
    S,                  \* the version a thread has acquired
    since,              \* history: the latest version when the call was made
    damage              \* history: what went wrong, see Sane

sharedVars == <<current_timestamp, table, freed>>
localVars == <<latest_ts, h, refct_and_ts, S>>
historyVars == <<made, since, damage>>
vars == <<sharedVars, pc, localVars, historyVars>>

Thread == Reader \cup {Writer}
Slot == 0 .. m - 1
tombstone == max_ts - 1
nullptr == -1
Zero == [ts |-> 0, ct |-> 0]
NoVersion == [timestamp |-> -1, table_entry |-> 0, root |-> nullptr]
latest_timestamp == current_timestamp - 1

\* The count is the low half of a word, the timestamp the high half.
make_refct(ts, ct) == [ts |-> ts, ct |-> ct]
Minus1(word) ==
    IF word.ct > 0 THEN make_refct(word.ts, word.ct - 1)
    ELSE make_refct(IF word.ts > 0 THEN word.ts - 1 ELSE max_ts, max_ts)

Entry(key, word, root) == [key |-> key, word |-> word, root |-> root]

\* The constructor inserts the initial graph as version 0.
Init ==
    /\ current_timestamp = 1
    /\ table = [s \in Slot |-> IF s = 0 THEN Entry(0, make_refct(0, 1), 0)
                                        ELSE Entry(max_ts, Zero, nullptr)]
    /\ freed = {}
    /\ pc = [t \in Thread |-> "idle"]
    /\ made = [t \in Thread |-> 0]
    /\ latest_ts = [t \in Thread |-> 0]
    /\ h = [t \in Thread |-> 0]
    /\ refct_and_ts = [t \in Thread |-> Zero]
    /\ S = [t \in Thread |-> NoVersion]
    /\ since = [t \in Thread |-> 0]
    /\ damage = {}

Go(t, from, to) == pc[t] = from /\ pc' = [pc EXCEPT ![t] = to]
ForgetWord(t) == refct_and_ts' = [refct_and_ts EXCEPT ![t] = Zero]
Forget(t) ==
    /\ latest_ts' = [latest_ts EXCEPT ![t] = 0]
    /\ h' = [h EXCEPT ![t] = 0]
    /\ ForgetWord(t)
Notice(what, happened) == damage' = IF happened THEN damage \cup {what} ELSE damage

---------------------------------------------------------------------------
(* acquire_version *)

Limit(t) == IF t = Writer THEN MaxUpdates ELSE MaxQueries

\* The call, by a query or by insert_edges_batch or delete_edges_batch.
Call(t) ==
    /\ Go(t, "idle", "latest")
    /\ made[t] < Limit(t)
    /\ made' = [made EXCEPT ![t] = @ + 1]
    /\ since' = [since EXCEPT ![t] = latest_timestamp]
    /\ UNCHANGED <<sharedVars, localVars, damage>>

ReadLatest(t) ==
    /\ Go(t, "latest", "find")
    /\ latest_ts' = [latest_ts EXCEPT ![t] = latest_timestamp]
    /\ h' = [h EXCEPT ![t] = 0]
    /\ UNCHANGED <<sharedVars, refct_and_ts, S, historyVars>>

\* Mutant of Find: any version in use is taken for the one looked for.
FindAny(t) ==
    LET key == table[h[t]].key IN
    /\ \/ Go(t, "find", "latest") /\ key = max_ts /\ Forget(t)
       \/ /\ Go(t, "find", "check")
          /\ key \notin {max_ts, tombstone}
          /\ UNCHANGED <<latest_ts, h, refct_and_ts>>
       \/ /\ Go(t, "find", "find")
          /\ key = tombstone
          /\ h' = [h EXCEPT ![t] = (@ + 1) % m]
          /\ UNCHANGED <<latest_ts, refct_and_ts>>
    /\ UNCHANGED <<sharedVars, S, historyVars>>

\* find: an entry never used ends the search, and acquire_version starts again.
Find(t) ==
    LET key == table[h[t]].key IN
    /\ \/ Go(t, "find", "latest") /\ key = max_ts /\ Forget(t)
       \/ /\ Go(t, "find", "check")
          /\ key # max_ts /\ key = latest_ts[t]
          /\ UNCHANGED <<latest_ts, h, refct_and_ts>>
       \/ /\ Go(t, "find", "find")
          /\ key \notin {max_ts, latest_ts[t]}
          /\ h' = [h EXCEPT ![t] = (@ + 1) % m]
          /\ UNCHANGED <<latest_ts, refct_and_ts>>
    /\ UNCHANGED <<sharedVars, S, historyVars>>

\* Mutant of CheckKey: an entry freed meanwhile is looked at again, instead of
\* starting over with the latest version.
CheckKeyAgain(t) ==
    /\ \/ Go(t, "check", "check") /\ table[h[t]].key = tombstone
       \/ Go(t, "check", "count") /\ table[h[t]].key # tombstone
    /\ UNCHANGED <<sharedVars, localVars, historyVars>>

CheckKey(t) ==
    /\ \/ Go(t, "check", "latest") /\ table[h[t]].key = tombstone /\ Forget(t)
       \/ /\ Go(t, "check", "count")
          /\ table[h[t]].key # tombstone
          /\ UNCHANGED <<latest_ts, h, refct_and_ts>>
    /\ UNCHANGED <<sharedVars, S, historyVars>>

\* Mutant of ReadCount: a count of 0 is taken too.
ReadCountAny(t) ==
    /\ Go(t, "count", "cas")
    /\ refct_and_ts' = [refct_and_ts EXCEPT ![t] = table[h[t]].word]
    /\ UNCHANGED <<sharedVars, latest_ts, h, S, historyVars>>

ReadCount(t) ==
    LET word == table[h[t]].word IN
    /\ \/ Go(t, "count", "latest") /\ word.ct = 0 /\ Forget(t)
       \/ /\ Go(t, "count", "cas")
          /\ word.ct > 0
          /\ refct_and_ts' = [refct_and_ts EXCEPT ![t] = word]
          /\ UNCHANGED <<latest_ts, h>>
    /\ UNCHANGED <<sharedVars, S, historyVars>>

\* The key is read before the compare-and-swap that makes it count: a word
\* (timestamp, count) above 0 is only ever in an entry with that key.
Cas(t) ==
    LET e == table[h[t]] IN
    /\ \/ /\ Go(t, "cas", "root")
          /\ e.word = refct_and_ts[t]
          /\ table' = [table EXCEPT ![h[t]].word.ct = @ + 1]
          /\ S' = [S EXCEPT ![t] = [timestamp |-> e.key, table_entry |-> h[t], root |-> nullptr]]
          /\ since' = [since EXCEPT ![t] = 0]
          /\ Notice("early", e.key > latest_timestamp)
       \/ /\ Go(t, "cas", "check")
          /\ e.word # refct_and_ts[t]
          /\ UNCHANGED <<table, S, since, damage>>
    /\ ForgetWord(t)
    /\ UNCHANGED <<current_timestamp, freed, latest_ts, h, made>>

\* The version is returned: a reader has it, the writer builds the next one.
ReadRoot(t) ==
    /\ Go(t, "root", IF t = Writer THEN "build" ELSE "held")
    /\ S' = [S EXCEPT ![t].root = table[h[t]].root]
    /\ Forget(t)
    /\ UNCHANGED <<sharedVars, historyVars>>

Acquire(t) ==
    \/ Call(t) \/ ReadLatest(t) \/ Find(t) \/ CheckKey(t)
    \/ ReadCount(t) \/ Cas(t) \/ ReadRoot(t)

---------------------------------------------------------------------------
(* insert_edges_batch and delete_edges_batch *)

\* The next graph is built; insert takes the first entry that was never used
\* or is free again (no entry has the key already: the timestamp is new) ...
Insert ==
    LET key == table[h[Writer]].key IN
    /\ \/ /\ Go(Writer, "build", "setWord")
          /\ key \in {max_ts, tombstone}
          /\ table' = [table EXCEPT ![h[Writer]].key = current_timestamp]
          /\ UNCHANGED h
       \/ /\ Go(Writer, "build", "build")
          /\ key \notin {max_ts, tombstone}
          /\ h' = [h EXCEPT ![Writer] = (@ + 1) % m]
          /\ UNCHANGED table
    /\ UNCHANGED <<current_timestamp, freed, latest_ts, refct_and_ts, S, historyVars>>

\* ... and stores the rest of the entry.
SetWord ==
    /\ Go(Writer, "setWord", "setRoot")
    /\ table' = [table EXCEPT ![h[Writer]].word = make_refct(current_timestamp, 1)]
    /\ UNCHANGED <<current_timestamp, freed, localVars, historyVars>>

SetRoot ==
    /\ Go(Writer, "setRoot", "publish")
    /\ table' = [table EXCEPT ![h[Writer]].root = current_timestamp]
    /\ UNCHANGED <<current_timestamp, freed, localVars, historyVars>>

\* The new version becomes visible.
Publish ==
    /\ Go(Writer, "publish", "held")
    /\ current_timestamp' = current_timestamp + 1
    /\ Forget(Writer)
    /\ UNCHANGED <<table, freed, S, historyVars>>

Update == Insert \/ SetWord \/ SetRoot \/ Publish

---------------------------------------------------------------------------
(* release_version *)

Return(t, from) ==
    /\ Go(t, from, "idle")
    /\ S' = [S EXCEPT ![t] = NoVersion]

\* Mutant of Decrement: the count after the decrement is tested, not before.
DecrementNew(t) ==
    LET s == S[t].table_entry IN
    /\ \/ Go(t, "held", "isLatest") /\ table[s].word.ct = 3 /\ UNCHANGED S
       \/ Return(t, "held") /\ table[s].word.ct # 3
    /\ table' = [table EXCEPT ![s].word = Minus1(@)]
    /\ UNCHANGED <<current_timestamp, freed, latest_ts, h, refct_and_ts, historyVars>>

\* The count goes down; the last but one to go may have to free the version.
Decrement(t) ==
    LET s == S[t].table_entry IN
    /\ \/ Go(t, "held", "isLatest") /\ table[s].word.ct = 2 /\ UNCHANGED S
       \/ Return(t, "held") /\ table[s].word.ct # 2
    /\ table' = [table EXCEPT ![s].word = Minus1(@)]
    /\ UNCHANGED <<current_timestamp, freed, latest_ts, h, refct_and_ts, historyVars>>

IsLatest(t) ==
    /\ \/ Go(t, "isLatest", "reread") /\ S[t].timestamp # latest_timestamp /\ UNCHANGED S
       \/ Return(t, "isLatest") /\ S[t].timestamp = latest_timestamp
    /\ UNCHANGED <<sharedVars, latest_ts, h, refct_and_ts, historyVars>>

Reread(t) ==
    LET word == table[S[t].table_entry].word IN
    /\ \/ /\ Go(t, "reread", "drop")
          /\ word.ct = 1
          /\ refct_and_ts' = [refct_and_ts EXCEPT ![t] = word]
          /\ UNCHANGED S
       \/ Return(t, "reread") /\ word.ct # 1 /\ UNCHANGED refct_and_ts
    /\ UNCHANGED <<sharedVars, latest_ts, h, historyVars>>

\* Mutant of Drop: the count is stored without comparing it first.
DropStore(t) ==
    LET s == S[t].table_entry IN
    /\ Go(t, "drop", "free")
    /\ table' = [table EXCEPT ![s].word = Minus1(refct_and_ts[t])]
    /\ Notice("stolen", refct_and_ts[t].ts # S[t].timestamp)
    /\ ForgetWord(t)
    /\ UNCHANGED <<current_timestamp, freed, latest_ts, h, S, made, since>>

Drop(t) ==
    LET s == S[t].table_entry IN
    /\ \/ /\ Go(t, "drop", "free")
          /\ table[s].word = refct_and_ts[t]
          /\ table' = [table EXCEPT ![s].word = Minus1(@)]
          /\ Notice("stolen", table[s].word.ts # S[t].timestamp)
          /\ UNCHANGED S
       \/ /\ Return(t, "drop")
          /\ table[s].word # refct_and_ts[t]
          /\ UNCHANGED <<table, damage>>
    /\ ForgetWord(t)
    /\ UNCHANGED <<current_timestamp, freed, latest_ts, h, made, since>>

\* decrement_recursive, and the store of first_empty: the key stays and no
\* thread takes the rest, the count being 0 already.  The root is not shared with
\* another version, or release_version would exit(0): only a batch without edges
\* makes it so, which is AspenIngest's FlushExits.  The updates here have edges.
Free(t) ==
    /\ Go(t, "free", "tombstone")
    /\ freed' = freed \cup ({S[t].root} \ {nullptr})
    /\ table' = [table EXCEPT ![S[t].table_entry] = Entry(S[t].timestamp, Zero, nullptr)]
    /\ UNCHANGED <<current_timestamp, localVars, historyVars>>

\* empty is stored, the key first: from here on insert may fill the entry.
StoreTombstone(t) ==
    /\ Go(t, "tombstone", "zero")
    /\ table' = [table EXCEPT ![S[t].table_entry].key = tombstone]
    /\ UNCHANGED <<current_timestamp, freed, localVars, historyVars>>

StoreZero(t) ==
    LET s == S[t].table_entry IN
    /\ Go(t, "zero", "null")
    /\ table' = [table EXCEPT ![s].word = Zero]
    /\ Notice("torn", table[s].word # Zero)
    /\ UNCHANGED <<current_timestamp, freed, localVars, made, since>>

StoreNull(t) ==
    LET s == S[t].table_entry IN
    /\ Return(t, "null")
    /\ table' = [table EXCEPT ![s].root = nullptr]
    /\ Notice("torn", table[s].root # nullptr)
    /\ UNCHANGED <<current_timestamp, freed, latest_ts, h, refct_and_ts, made, since>>

Release(t) ==
    \/ Decrement(t) \/ IsLatest(t) \/ Reread(t) \/ Drop(t) \/ Free(t)
    \/ StoreTombstone(t) \/ StoreZero(t) \/ StoreNull(t)

---------------------------------------------------------------------------
Finished == \A t \in Thread : pc[t] = "idle" /\ made[t] = Limit(t)

Next == Update \/ \E t \in Thread : Acquire(t) \/ Release(t)

Fairness == WF_vars(Update) /\ \A t \in Thread : WF_vars(Acquire(t) \/ Release(t))
Spec == Init /\ [][Next]_vars /\ Fairness

---------------------------------------------------------------------------
(* Properties.  Three things go wrong in this code, all because an entry    *)
(* is filled again while a thread still goes by what it had been.  A reader *)
(* may take, through the reference find gave it, a version that is not yet  *)
(* visible ("early").  A release that reads the count again may take the    *)
(* count of the next version for its own and free both ("stolen").  And     *)
(* insert may fill an entry as soon as its key is stored, so that the rest  *)
(* of release_version's assignment falls on the new version ("torn").       *)
(* What follows is true until one of the three happens.                     *)
Sane == damage = {}

Holding == {"root", "held", "build", "setWord", "setRoot", "publish"}
Holders(v) == {t \in Thread : pc[t] \in Holding /\ S[t].timestamp = v}
Live == {table[s].key : s \in {u \in Slot : table[u].word.ct > 0}}

\* A version a thread holds stays what it was when it was acquired, whatever
\* is published, released and reused meanwhile: its entry is its own, its root
\* is its root and has not been freed.
HeldIntact ==
    Sane => \A t \in Thread : pc[t] \in Holding =>
        LET e == table[S[t].table_entry] IN
        /\ e.key = S[t].timestamp /\ e.word.ts = S[t].timestamp
        /\ e.root = S[t].timestamp
        /\ pc[t] # "root" => S[t].root = e.root
        /\ S[t].timestamp \notin freed

\* A root is freed once, by one thread, when nobody can take it any more.
FreedOnce ==
    Sane => \A t \in Thread : pc[t] = "free" =>
        /\ S[t].root = S[t].timestamp /\ S[t].root \notin freed
        /\ Holders(S[t].timestamp) = {}
        /\ \A u \in Thread : pc[u] = "free" /\ S[u].timestamp = S[t].timestamp => u = t

\* No memory is lost: an old version whose entry is in the table is held, or
\* some thread is on its way to free it.
Reclaimed ==
    Sane => \A v \in Live : v < latest_timestamp =>
        \/ Holders(v) # {}
        \/ \E t \in Thread : pc[t] \in {"isLatest", "reread", "drop"} /\ S[t].timestamp = v

\* Every call returns: the writer's, and so the update, and the readers'.
Terminates == <>(Finished \/ ~Sane)

Versions == INSTANCE SnapshotStore WITH
    latest <- latest_timestamp,
    held <- [t \in Thread |-> IF pc[t] \in Holding THEN S[t].timestamp ELSE -1],
    NoVersion <- -1

\* acquire_version returns a version that was the latest at some moment since
\* the call, and the writer builds on the latest.
ImplementsSnapshots == [][Sane' => Versions!Next]_(Versions!vars)

=============================================================================
