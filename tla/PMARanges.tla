----------------------------- MODULE PMARanges -----------------------------
(***************************************************************************)
(* Terrace's packed memory array under parallel updates (PMA.cc): how the  *)
(* tasks of add_edge_batch_update or of remove_edge_batch take, give back  *)
(* and take again ranges of the nodes' locks while they rewrite parts of   *)
(* the array, move the nodes within it, and double or halve it.            *)
(*                                                                         *)
(* Of the array only the place of every node's sentinel is kept.  Which    *)
(* leaf is full or which part too dense is left open.  A lock is taken or  *)
(* released in one step (PMALock has the accesses within), and locks that  *)
(* are released in a row are released in one step: nobody can tell.  The   *)
(* nodes a task does not own may be rewritten while it looks at them, and  *)
(* what it finds is then arbitrary.  Leaves keep their size.               *)
(***************************************************************************)
EXTENDS Integers, FiniteSets

CONSTANTS
    Task,       \* task ids
    none,       \* 0, no task
    V,          \* nodes.size()
    logN,       \* size of a leaf
    MinN, MaxN, \* bounds on the size of the array
    MaxCalls    \* bound: updates a task makes, each under an id of its own

ASSUME TaskAssumption == IsFiniteSet(Task) /\ none \notin Task
ASSUME SizeAssumption == {V, logN, MinN, MaxN} \subseteq Nat \ {0} /\ MinN >= 2 * logN
ASSUME CallsAssumption == MaxCalls \in Nat

VARIABLES
    batch,      \* "insert" or "remove": what the running batch does
    N,          \* edges.N
    beginning,  \* nodes[v].beginning, where node v's sentinel is
    lock,       \* nodes[v].lock, with the task that has it
    pc, local,  \* what a task does, and its local variables
    made,
    stale       \* history: tasks about to resize the array whose count of the
                \* elements others have overtaken

vars == <<batch, N, beginning, lock, pc, local, made, stale>>

Node == 0 .. V - 1
last == V - 1
GENERAL == 0
REBALANCE == 1
DOUBLE == 2
SAME == 3

end(v) == IF v = last THEN N - 1 ELSE beginning[v + 1]
find_leaf(p) == p - (p % logN)
next_leaf(p) == find_leaf(p) + logN
find_node(p, n) == (p \div n) * n

Range(x, y) == [x |-> x, y |-> y]
In(r) == {v \in Node : r.x <= v /\ v <= r.y}
NoRange == Range(V, 0)      \* {0xFFFFFFFF, 0}
Larger(a, b) == IF a > b THEN a ELSE b
Smaller(a, b) == IF a < b THEN a ELSE b

NoLocal ==
    [src |-> 0, loc |-> 0, index |-> 0, len |-> 0, orig_n |-> 0, grab_n |-> 0,
     i |-> 0, ends |-> NoRange, held |-> NoRange, span |-> NoRange, sealed |-> FALSE]

\* Places of the sentinels, in order.
Layouts(n) ==
    {b \in [Node -> 0 .. n - 1] : b[0] = 0 /\ \A v \in Node \ {0} : b[v - 1] < b[v]}

Init ==
    /\ batch \in {"insert", "remove"}
    /\ N = IF batch = "insert" THEN MinN ELSE MaxN
    /\ beginning \in Layouts(N)
    /\ lock = [v \in Node |-> [owner |-> none, reason |-> GENERAL, reason_set_by |-> none]]
    /\ pc = [t \in Task |-> "idle"]
    /\ local = [t \in Task |-> NoLocal]
    /\ made = [t \in Task |-> 0]
    /\ stale = {}

---------------------------------------------------------------------------
(* Locks *)

\* Mutant of Free: the reason is not looked at.
FreeAnyReason(v, reason) == lock[v].owner = none

\* try_lock and lock succeed when the lock is free and asks for no more than
\* the task's reason.
Free(v, reason) == lock[v].owner = none /\ reason >= lock[v].reason

\* A task whose reason is too small has x for a moment before it looks at the
\* reason and gives x back: another's try_lock may fail on it.
InPassing(t, v) ==
    lock[v].reason # GENERAL /\ \E u \in Task \ {t} : pc[u] = "leafTry" /\ local[u].i = v

unlock(l, t, r) ==
    IF r # SAME /\ (l.reason_set_by = t \/ l.reason = GENERAL \/ l.reason_set_by = none)
    THEN [owner |-> none, reason |-> r, reason_set_by |-> IF r # GENERAL THEN t ELSE none]
    ELSE [l EXCEPT !.owner = none]

\* Several nodes, each with a reason.
Unlock(t, vs, reason(_)) ==
    lock' = [v \in Node |-> IF v \in vs THEN unlock(lock[v], t, reason(v)) ELSE lock[v]]

release_locks_in_range(t, r, reason) == LET Same(v) == reason IN Unlock(t, In(r), Same)

\* The task goes on: its next step and new values of its local variables.
Go(t, to, l) ==
    /\ pc' = [pc EXCEPT ![t] = to]
    /\ local' = [local EXCEPT ![t] = l]
Return(t) == Go(t, "idle", NoLocal)
OnlyLocks == UNCHANGED <<batch, N, beginning, made, stale>>

---------------------------------------------------------------------------
(* Which locks a task wants *)

Rewriting == {"write", "rebalance", "resize"}
Racing(t) == \E u \in Task \ {t} : pc[u] \in Rewriting
Owned(t) == {v \in Node : lock[v].owner = t}

Containing(p) == CHOOSE v \in Node :
    beginning[v] <= p /\ (v = last \/ p < beginning[v + 1])

\* find_contaning_node, and the shorter searches around a guess.  The nodes the
\* task owns do not move, so a wrong answer is on the right side of them.
find_contaning_node(t, p) ==
    LET c == Containing(p) IN
    IF ~Racing(t) \/ c \in Owned(t) THEN {c}
    ELSE {v \in Node : \A o \in Owned(t) : o < c <=> o < v}

which_locks_in_range(t, p, n) ==
    LET starts == {IF p = beginning[v] /\ v > 0 THEN v - 1 ELSE v : v \in find_contaning_node(t, p)}
        end_index == next_leaf(p + n) - 1
        stops(x) == IF end_index < end(x) THEN {x} ELSE find_contaning_node(t, end_index)
    IN  {r \in [x : starts, y : Node] : r.x <= r.y /\ r.y \in stops(r.x)}

LeafLocksOf(s) ==
    LET before == {v \in 0 .. s : beginning[v] <= find_leaf(beginning[s])}
        after == {v \in s .. last : v = last \/ end(v) >= next_leaf(end(s))}
    IN  Range(CHOOSE x \in before : \A v \in before : v <= x,
              CHOOSE y \in after : \A v \in after : y <= v)

which_locks_for_leaf(t, s) ==
    IF Racing(t) THEN [x : 0 .. s, y : s .. last] ELSE {LeafLocksOf(s)}

\* A try_lock of a loop over the range ends that succeeds ...
Take(t, from, reason, then) ==
    LET l == local[t] IN
    /\ pc[t] = from
    /\ Free(l.i, reason)
    /\ Go(t, IF l.i = l.ends.y THEN then ELSE from, [l EXCEPT !.i = @ + 1])
    /\ lock' = [lock EXCEPT ![l.i].owner = t]
    /\ OnlyLocks

\* ... and one that fails: the locks are given back and looked up again.
Reset(t, from, reason, again) ==
    LET l == local[t] IN
    /\ pc[t] = from
    /\ ~Free(l.i, reason) \/ InPassing(t, l.i)
    /\ Go(t, again, [l EXCEPT !.i = 0, !.ends = NoRange])
    /\ release_locks_in_range(t, Range(l.ends.x, l.i - 1), SAME)
    /\ OnlyLocks

---------------------------------------------------------------------------
(* add_edge_update_fast and remove_edge_fast *)

Call(t) ==
    /\ pc[t] = "idle"
    /\ made[t] < MaxCalls
    /\ \E s \in Node : Go(t, "leaf", [NoLocal EXCEPT !.src = s])
    /\ made' = [made EXCEPT ![t] = @ + 1]
    /\ UNCHANGED <<batch, N, beginning, lock, stale>>

\* grab_locks_for_leaf_with_resets
LeafLocks(t) ==
    /\ pc[t] = "leaf"
    /\ \E r \in which_locks_for_leaf(t, local[t].src) :
          Go(t, "leafTry", [local[t] EXCEPT !.ends = r, !.i = r.x])
    /\ UNCHANGED lock
    /\ OnlyLocks

LeafTake(t) == Take(t, "leafTry", GENERAL, "leafCheck")
LeafReset(t) == Reset(t, "leafTry", GENERAL, "leaf")

LeafCheck(t) ==
    LET l == local[t]
        done == [l EXCEPT !.i = 0, !.ends = NoRange]
    IN
    /\ pc[t] = "leafCheck"
    /\ \/ /\ LeafLocksOf(l.src) = l.ends
          /\ Go(t, "locate", [done EXCEPT !.held = l.ends])
          /\ UNCHANGED lock
       \/ /\ LeafLocksOf(l.src) # l.ends
          /\ Go(t, "leaf", done)
          /\ release_locks_in_range(t, l.ends, GENERAL)
    /\ OnlyLocks

\* Nothing to do: the edge is there already, or there is none to remove.
NothingToDo(t) ==
    /\ pc[t] = "locate"
    /\ Return(t)
    /\ release_locks_in_range(t, local[t].held, GENERAL)
    /\ OnlyLocks

\* The place is found, and the locks of other leaves are given back.
Locate(t) ==
    LET l == local[t] IN
    /\ pc[t] = "locate"
    /\ \E p \in beginning[l.src] + 1 .. end(l.src) - (IF batch = "insert" THEN 0 ELSE 1) :
       \E needed \in which_locks_in_range(t, find_leaf(p), logN) :
          LET kept == Range(Larger(l.held.x, needed.x), Smaller(l.held.y, needed.y))
              General(v) == GENERAL
          IN  /\ Go(t, "write", [l EXCEPT !.held = kept, !.loc = p])
              /\ Unlock(t, In(l.held) \ In(kept), General)
    /\ OnlyLocks

---------------------------------------------------------------------------
(* insert and remove *)

\* Sentinels behind the place move by one within the leaf.
Slides(p) ==
    LET by == IF batch = "insert" THEN 1 ELSE -1
        Moves(v) == p <= beginning[v] /\ beginning[v] < next_leaf(p)
    IN  {b \in Layouts(N) : \A v \in Node :
           IF Moves(v) THEN b[v] \in {beginning[v], beginning[v] + by} /\ p <= b[v] /\ b[v] < next_leaf(p)
           ELSE b[v] = beginning[v]}

\* redistribute: the first element of the part is put first.
Spreads(p, n) ==
    {b \in Layouts(N) : \A v \in Node :
        IF p < beginning[v] /\ beginning[v] < p + n THEN p <= b[v] /\ b[v] < p + n
        ELSE b[v] = beginning[v]}

Overtake(t) == stale' = stale \cup {u \in Task \ {t} : pc[u] = "lockAll"}

\* The leaf is written; a full or empty one is rebalanced with its neighbour.
Write(t) ==
    LET l == local[t] IN
    /\ pc[t] = "write"
    /\ beginning' \in Slides(l.loc)
    /\ \E n \in {logN, 2 * logN} :
          Go(t, "handBack",
             [l EXCEPT !.loc = 0, !.len = n, !.index = find_node(find_leaf(l.loc), n), !.orig_n = N])
    /\ Overtake(t)
    /\ UNCHANGED <<batch, N, lock, made>>

\* Mutant of HandBack: every lock for the rebalancing is given back, held or not.
HandBackAll(t) ==
    LET l == local[t] IN
    /\ pc[t] = "handBack"
    /\ \E r \in which_locks_in_range(t, l.index, l.len) :
          LET Why(v) == IF v \in In(r) THEN REBALANCE ELSE GENERAL
              span == Range(Larger(r.x, l.held.x), Larger(r.y, l.held.y))
          IN  /\ Go(t, "range", [l EXCEPT !.held = NoRange, !.span = span])
              /\ Unlock(t, In(l.held) \cup In(r), Why)
    /\ OnlyLocks

\* The locks are given back, those for the rebalancing with that reason.
HandBack(t) ==
    LET l == local[t] IN
    /\ pc[t] = "handBack"
    /\ \E r \in which_locks_in_range(t, l.index, l.len) :
          LET Why(v) == IF v \in In(r) THEN REBALANCE ELSE GENERAL
              span == Range(Larger(r.x, l.held.x), Larger(r.y, l.held.y))
          IN  /\ Go(t, "range", [l EXCEPT !.held = NoRange, !.span = span])
              /\ Unlock(t, {v \in Node : l.held.x <= v /\ v < r.x}
                             \cup (In(l.held) \cap In(r))
                             \cup {v \in Node : r.y < v /\ v <= l.held.y}, Why)
    /\ OnlyLocks

\* grab_locks_in_range_with_resets: grab_n is its orig_n, 0 at the call.
RangeLocks(t) ==
    LET l == local[t] IN
    /\ pc[t] = "range"
    /\ \/ l.grab_n \notin {0, N} /\ Go(t, "grabbed", [l EXCEPT !.grab_n = 0])
       \/ /\ l.grab_n \in {0, N}
          /\ \E r \in which_locks_in_range(t, l.index, l.len) :
                Go(t, "rangeTry", [l EXCEPT !.ends = r, !.i = r.x, !.grab_n = N])
    /\ UNCHANGED lock
    /\ OnlyLocks

RangeTake(t) == Take(t, "rangeTry", REBALANCE, "rangeCheck")
RangeReset(t) == Reset(t, "rangeTry", REBALANCE, "range")

\* Mutant of StillCovers: what was looked up is trusted.
StillCoversAlways(r, p, n) == TRUE

StillCovers(r, p, n) == beginning[r.x] <= p /\ (p + n <= end(r.y) \/ r.y = last)

\* Mutant of Grown: the left end is forgotten.
GrownRight(span, r) == Range(span.x, Larger(span.y, r.y))

Grown(span, r) == Range(Smaller(span.x, r.x), Larger(span.y, r.y))

RangeCheck(t) ==
    LET l == local[t]
        done == [l EXCEPT !.i = 0, !.ends = NoRange]
    IN
    /\ pc[t] = "rangeCheck"
    /\ \/ /\ StillCovers(l.ends, l.index, l.len)
          /\ Go(t, "grabbed",
                [done EXCEPT !.held = l.ends, !.span = Grown(l.span, l.ends), !.grab_n = 0])
          /\ UNCHANGED lock
       \/ /\ ~StillCovers(l.ends, l.index, l.len)
          /\ Go(t, "range", done)
          /\ release_locks_in_range(t, l.ends, SAME)
    /\ OnlyLocks

\* The last locks are given back; those of the span come next.
LeaveTo(t) ==
    LET l == local[t] IN
    /\ Go(t, "cleanUp", [NoLocal EXCEPT !.held = l.held, !.span = l.span, !.i = l.span.x])
    /\ release_locks_in_range(t, l.held, GENERAL)

\* Somebody resized the array meanwhile, or the leaf needs nothing more.
GiveUp(t) ==
    /\ pc[t] = "grabbed"
    /\ local[t].orig_n # N \/ local[t].len = logN
    /\ LeaveTo(t)
    /\ OnlyLocks

\* The part is dense (sparse), and there is a larger one.
GoUp(t) ==
    LET l == local[t]
        n == 2 * l.len
    IN
    /\ pc[t] = "grabbed"
    /\ l.orig_n = N /\ n <= N
    /\ Go(t, "range",
          [l EXCEPT !.len = n, !.index = find_node(l.index, n), !.held = NoRange])
    /\ release_locks_in_range(t, l.held, REBALANCE)
    /\ OnlyLocks

StartRebalance(t) ==
    /\ pc[t] = "grabbed"
    /\ local[t].orig_n = N /\ local[t].len > logN
    /\ Go(t, "rebalance", local[t])
    /\ UNCHANGED lock
    /\ OnlyLocks

Rebalance(t) ==
    /\ pc[t] = "rebalance"
    /\ beginning' \in Spreads(local[t].index, local[t].len)
    /\ LeaveTo(t)
    /\ Overtake(t)
    /\ UNCHANGED <<batch, N, made>>

\* Mutant of CleanUp: the reason is left as it is.
CleanUpSame(t) ==
    LET l == local[t] IN
    /\ pc[t] = "cleanUp"
    /\ \/ l.i > l.span.y /\ Return(t)
       \/ /\ l.i <= l.span.y
          /\ l.i \in In(l.held) \/ Free(l.i, REBALANCE)
          /\ Go(t, "cleanUp", [l EXCEPT !.i = @ + 1])
    /\ UNCHANGED lock
    /\ OnlyLocks

\* The rest of the span: taken, and given back so that no reason stays.
CleanUp(t) ==
    LET l == local[t] IN
    /\ pc[t] = "cleanUp"
    /\ \/ l.i > l.span.y /\ Return(t) /\ UNCHANGED lock
       \/ /\ l.i <= l.span.y /\ l.i \in In(l.held)
          /\ Go(t, "cleanUp", [l EXCEPT !.i = @ + 1])
          /\ UNCHANGED lock
       \/ /\ l.i <= l.span.y /\ l.i \notin In(l.held)
          /\ Free(l.i, REBALANCE)
          /\ Go(t, "cleanUp", [l EXCEPT !.i = @ + 1])
          /\ release_locks_in_range(t, Range(l.i, l.i), GENERAL)
    /\ OnlyLocks

---------------------------------------------------------------------------
(* double_list and half_list *)

NewN == IF batch = "insert" THEN 2 * N ELSE N \div 2

\* The whole array is too dense (sparse).
GoToRoot(t) ==
    LET l == local[t]
        Taken(v) == unlock(lock[v], t, DOUBLE).reason_set_by = t
    IN
    /\ pc[t] = "grabbed"
    /\ l.orig_n = N /\ 2 * l.len > N
    /\ MinN <= NewN /\ NewN <= MaxN
    /\ Go(t, "lockAll",
          [NoLocal EXCEPT !.sealed = (\A v \in Node : v \in In(l.held) /\ Taken(v))
                                     /\ \A u \in Task \ {t} : pc[u] # "lockAll"])
    /\ release_locks_in_range(t, l.held, DOUBLE)
    /\ OnlyLocks

LockAll(t) ==
    LET l == local[t] IN
    /\ pc[t] = "lockAll"
    /\ Free(l.i, DOUBLE)
    /\ Go(t, IF l.i = last THEN "resize" ELSE "lockAll", [l EXCEPT !.i = @ + 1])
    /\ lock' = [lock EXCEPT ![l.i].owner = t]
    /\ OnlyLocks

Resize(t) ==
    /\ pc[t] = "resize"
    /\ Return(t)
    /\ N' = NewN
    /\ beginning' \in Layouts(NewN)
    /\ release_locks_in_range(t, Range(0, last), GENERAL)
    /\ stale' = (stale \ {t}) \cup {u \in Task \ {t} : pc[u] = "lockAll"}
    /\ UNCHANGED <<batch, made>>

---------------------------------------------------------------------------
Work(t) ==
    \/ LeafLocks(t) \/ LeafReset(t) \/ LeafCheck(t) \/ NothingToDo(t) \/ Locate(t)
    \/ Write(t) \/ HandBack(t) \/ RangeLocks(t) \/ RangeReset(t) \/ RangeCheck(t)
    \/ GiveUp(t) \/ GoUp(t) \/ StartRebalance(t) \/ Rebalance(t) \/ GoToRoot(t) \/ Resize(t)

TakesLock(t) == LeafTake(t) \/ RangeTake(t) \/ CleanUp(t) \/ LockAll(t)

Next == \E t \in Task : Call(t) \/ Work(t) \/ TakesLock(t)
Spec == Init /\ [][Next]_vars

---------------------------------------------------------------------------
\* Nodes with a slot in lo .. hi - 1.
Touched(lo, hi) ==
    {v \in Node : beginning[v] < hi /\ (v = last \/ beginning[v + 1] > lo)}

\* A task owns every node that has a slot in the part of the array it rewrites,
\* whatever other tasks moved between its look at the nodes and its last lock:
\* two tasks never rewrite the same slot, and no node moves under its owner.
\* (PMA.cc asserts check_every_lock_in_leaf.)
Covered ==
    \A t \in Task :
        /\ pc[t] = "write" =>
              {local[t].src} \cup Touched(find_leaf(local[t].loc), next_leaf(local[t].loc)) \subseteq Owned(t)
        /\ pc[t] = "rebalance" =>
              Touched(local[t].index, local[t].index + local[t].len) \subseteq Owned(t)
        /\ pc[t] = "resize" => Owned(t) = Node

\* What a task's local variables say it has.
Holds(t) ==
    LET l == local[t] IN
    CASE pc[t] \in {"leafTry", "leafCheck", "rangeTry", "rangeCheck"} -> l.ends.x .. l.i - 1
      [] pc[t] \in {"locate", "write", "handBack", "grabbed", "rebalance"} -> In(l.held)
      [] pc[t] = "lockAll" -> 0 .. l.i - 1
      [] pc[t] = "resize" -> Node
      [] OTHER -> {}

\* A task has the locks it believes it has and no others: it never releases one
\* of another task, nor one twice, and goes into a new search with none.
\* (PMA_Lock.cc asserts the owner in unlock.)
HeldExactly == \A t \in Task : Owned(t) = Holds(t)

\* When the update is done no lock keeps a reason of the task, on whichever way
\* it got out: a reason left behind keeps the others out for ever.
\* (PMA.cc asserts check_no_node_locks_for_me.)
NothingLeft == \A t \in Task : pc[t] = "idle" => \A v \in Node : lock[v].reason_set_by # t

\* The count a task made before it gave its locks back to double or halve the
\* array is still right when it has them all again, if every lock took the
\* reason DOUBLE and no other task was about to resize.  Otherwise (another's
\* reason stood on some of the locks) it may be stale, and is used all the same.
SealedCount == \A t \in Task : pc[t] = "resize" /\ local[t].sealed => t \notin stale

Waiting == {"leaf", "leafTry", "range", "rangeTry", "cleanUp", "lockAll"}
RangeOf(p, n) == Range(Containing(p), Containing(next_leaf(p + n) - 1))

\* The locks a waiting task still has to take, and its reason.
Wants(t) ==
    LET l == local[t] IN
    CASE pc[t] \in {"leaf", "leafTry"} -> In(LeafLocksOf(l.src))
      [] pc[t] \in {"range", "rangeTry"} -> In(RangeOf(l.index, l.len))
      [] pc[t] = "cleanUp" -> In(Range(l.i, l.span.y)) \ In(l.held)
      [] OTHER -> l.i .. last
Reason(t) ==
    CASE pc[t] \in {"leaf", "leafTry"} -> GENERAL
      [] pc[t] = "lockAll" -> DOUBLE
      [] OTHER -> REBALANCE

\* A task waits in vain while a lock it wants asks for another reason or is held
\* by a task that waits without giving it back.
Blocked(t) ==
    /\ pc[t] \in Waiting
    /\ \E v \in Wants(t) :
          \/ Reason(t) < lock[v].reason
          \/ \E u \in Task \ {t} : lock[v].owner = u /\ pc[u] = "lockAll"

Calls == {t \in Task : pc[t] # "idle"}
\* The tasks never wait for each other's reasons and locks all round: there is
\* always one that could go on.
NoStandstill == Calls # {} => \E t \in Calls : ~Blocked(t)

=============================================================================
