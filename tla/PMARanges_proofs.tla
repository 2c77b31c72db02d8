-------------------------- MODULE PMARanges_proofs --------------------------
(***************************************************************************)
(* The locks of Terrace's packed memory array, for every number of tasks,  *)
(* nodes and updates and every size of a leaf and of the array: the tasks  *)
(* own every node they rewrite (Covered), have exactly the locks they      *)
(* believe they have (HeldExactly), leave no reason behind (NothingLeft),  *)
(* resize with a count nobody overtook (SealedCount) and never wait for    *)
(* each other all round (NoStandstill).  The first two cannot be proved    *)
(* apart: HandBack releases what lies between two ranges, and these locks  *)
(* are the task's own only because the ranges overlap, which rests on the  *)
(* leaf it has written.                                                    *)
(***************************************************************************)
EXTENDS PMARanges, WellFoundedInduction, TLAPS

USE TaskAssumption, SizeAssumption, CallsAssumption

Trying == {"leafTry", "rangeTry"}
Checking == {"leafCheck", "rangeCheck"}
Holding == {"locate", "write", "handBack", "grabbed", "rebalance"}
Empty == {"idle", "leaf", "range", "cleanUp"}
Searching == {"range", "rangeTry", "rangeCheck"}
Pc == Trying \cup Checking \cup Holding \cup Empty \cup {"lockAll", "resize"}

Ranges == [x : Nat, y : Nat]
Locals ==
    [src : Node, loc : Nat, index : Nat, len : Nat, orig_n : Nat, grab_n : Nat,
     i : Nat, ends : Ranges, held : Ranges, span : Ranges, sealed : BOOLEAN]
Locks ==
    [owner : Task \cup {none}, reason : {GENERAL, REBALANCE, DOUBLE},
     reason_set_by : Task \cup {none}]

TypeOK ==
    /\ batch \in {"insert", "remove"}
    /\ N \in Nat \ {0}
    /\ beginning \in Layouts(N)
    /\ lock \in [Node -> Locks]
    /\ pc \in [Task -> Pc]
    /\ local \in [Task -> Locals]
    /\ made \in [Task -> Nat]
    /\ stale \subseteq Task

\* What a task at p with the local variables l owns: Holds.
HoldsAt(p, l, own) ==
    /\ p \in Trying \cup Checking => own = l.ends.x .. l.i - 1
    /\ p \in Holding => own = In(l.held)
    /\ p = "lockAll" => own = 0 .. l.i - 1
    /\ p = "resize" => own = Node
    /\ p \in Empty => own = {}

\* How far its loop over a range of locks is; it starts a search with none.
Loop(p, l) ==
    /\ p \in Searching => In(l.held) = {}
    /\ p \in Trying => l.ends.x <= l.i /\ l.i <= l.ends.y /\ l.ends.y < V
    /\ p \in Checking => l.ends.x <= l.ends.y /\ l.i = l.ends.y + 1 /\ l.ends.y < V
    /\ p = "lockAll" => l.i < V

\* Size n comes no later than m: the array only grows, or only shrinks.
Older(n, m) == IF batch = "insert" THEN n <= m ELSE m <= n

\* What it knows of the sizes the array had.
Sizes(p, l) ==
    /\ p \in {"leaf", "leafTry", "leafCheck", "locate", "write", "handBack", "grabbed"}
          => l.grab_n = 0
    /\ p \in Searching \cup {"handBack", "grabbed", "rebalance"} =>
          /\ Older(l.orig_n, N)
          /\ l.grab_n # 0 => Older(l.orig_n, l.grab_n) /\ Older(l.grab_n, N)
          /\ l.len > 0

\* Where the nodes it owns are.
Place(p, l) ==
    /\ p = "locate" =>
          /\ l.held.x <= l.src /\ l.src <= l.held.y /\ l.held.y < V
          /\ beginning[l.held.x] <= find_leaf(beginning[l.src])
          /\ l.held.y = last \/ end(l.held.y) >= next_leaf(end(l.src))
    /\ p = "write" =>
          /\ l.loc > beginning[l.src] /\ l.loc <= end(l.src)
          /\ {l.src} \cup Touched(find_leaf(l.loc), next_leaf(l.loc)) \subseteq In(l.held)
    /\ p = "handBack" => Touched(l.index, l.index + l.len) \cap In(l.held) # {}
    /\ p = "grabbed" /\ l.orig_n = N => Touched(l.index, l.index + l.len) \subseteq In(l.held)
    /\ p = "rebalance" => Touched(l.index, l.index + l.len) \subseteq In(l.held)

Fits(p, l, own) == HoldsAt(p, l, own) /\ Loop(p, l) /\ Sizes(p, l) /\ Place(p, l)

Inv == TypeOK /\ \A t \in Task : Fits(pc[t], local[t], Owned(t))

\* Whether a task at p with the local variables l may have set the reason of v:
\* none before it hands back, then one of the span, which the clean-up walks along.
MaySet(p, l, v) ==
    /\ p \notin {"idle", "leaf", "leafTry", "leafCheck", "locate", "write", "handBack"}
    /\ p \in Searching \cup {"grabbed", "rebalance"} => v \in In(l.span)
    /\ p = "cleanUp" => v \in In(l.span) \ In(l.held) /\ v >= l.i

WithinSpan(p, l) == p \in {"grabbed", "rebalance"} => In(l.held) \subseteq In(l.span)

Reasons ==
    \A t \in Task :
        /\ \A v \in Node : lock[v].reason_set_by = t => MaySet(pc[t], local[t], v)
        /\ WithinSpan(pc[t], local[t])

Root == {"lockAll", "resize"}

\* A task sealed the array: every lock asks for its reason, so no other task has
\* one or can get one; none is about to resize, and its count is not overtaken.
SealedBy(t) ==
    /\ \A v \in Node :
          /\ lock[v].owner \in {t, none}
          /\ lock[v].reason = DOUBLE /\ lock[v].reason_set_by = t
    /\ \A u \in Task \ {t} : pc[u] # "lockAll"
    /\ t \notin stale

Seals ==
    /\ \A t \in stale : pc[t] \in Root
    /\ \A t \in Task : pc[t] \in Root /\ local[t].sealed => SealedBy(t)

\* Every reason is some task's, and DOUBLE that of one that is at the root.
Raised ==
    \A v \in Node : lock[v].reason # GENERAL =>
        /\ lock[v].reason_set_by \in Task
        /\ lock[v].reason = DOUBLE => pc[lock[v].reason_set_by] \in Root

---------------------------------------------------------------------------
(* Arithmetic of leaves and of the layout *)

\* A slot is in its leaf.
LEMMA LeafBounds ==
    ASSUME NEW p \in Nat
    PROVE  /\ find_leaf(p) \in Nat /\ next_leaf(p) \in Nat
           /\ find_leaf(p) <= p /\ p < next_leaf(p)
           /\ next_leaf(p) = find_leaf(p) + logN
  <1>1. p % logN \in 0 .. logN - 1
    BY DEF next_leaf
  <1>2. p % logN <= p
    OBVIOUS
  <1> QED BY <1>1, <1>2 DEF find_leaf, next_leaf

\* Dividend, quotient and remainder.
LEMMA DivMod ==
    ASSUME NEW x \in Nat, NEW n \in Nat \ {0}
    PROVE  x - (x % n) = n * (x \div n)
  OBVIOUS

\* The leaves are in the order of their slots.
LEMMA LeafOrder ==
    ASSUME NEW p \in Nat, NEW q \in Nat, p <= q
    PROVE  find_leaf(p) <= find_leaf(q)
  <1> DEFINE a == p \div logN
             b == q \div logN
  <1>1. a \in Nat /\ b \in Nat
    OBVIOUS
  <1>2. find_leaf(p) = logN * a /\ find_leaf(q) = logN * b
    BY DivMod DEF find_leaf
  <1>3. logN * a <= p /\ q < logN * b + logN
    BY <1>2, LeafBounds DEF next_leaf
  <1> HIDE DEF a, b
  <1>4. a < b + 1
    <2> SUFFICES ASSUME a >= b + 1 PROVE FALSE
      BY <1>1
    <2>1. logN * a >= logN * (b + 1)
      BY <1>1
    <2>2. logN * (b + 1) = logN * b + logN
      BY <1>1
    <2> QED BY <1>1, <1>3, <2>1, <2>2
  <1>5. logN * a <= logN * b
    BY <1>1, <1>4
  <1> QED BY <1>2, <1>5

\* A slot is in the part of the array that find_node finds.
LEMMA PartBounds ==
    ASSUME NEW p \in Nat, NEW n \in Nat \ {0}
    PROVE  /\ find_node(p, n) \in Nat
           /\ find_node(p, n) <= p /\ p < find_node(p, n) + n
  BY DEF find_node

\* A set of nodes has a least and a greatest element.
LEMMA LeastNode ==
    ASSUME NEW S, S \subseteq Node, S # {}
    PROVE  \E x \in S : \A y \in S : x <= y
  <1>1. S \subseteq Nat
    BY DEF Node
  <1>2. PICK x \in S : \A y \in S : ~(<<y, x>> \in OpToRel(<, Nat))
    BY <1>1, NatLessThanWellFounded, WFMin
  <1>3. ASSUME NEW y \in S PROVE x <= y
    <2>1. ~(y < x)
      BY <1>1, <1>2 DEF OpToRel
    <2> QED BY <1>1, <2>1
  <1> QED BY <1>3

LEMMA GreatestNode ==
    ASSUME NEW S, S \subseteq Node, S # {}
    PROVE  \E x \in S : \A y \in S : y <= x
  <1> DEFINE T == {V - 1 - v : v \in S}
  <1>0. \A v \in Node : V - 1 - v \in Node
    BY DEF Node
  <1>1. T \subseteq Node /\ T # {}
    BY <1>0
  <1>2. PICK z \in T : \A y \in T : z <= y
    BY <1>1, LeastNode
  <1>3. PICK x \in S : z = V - 1 - x
    BY <1>2
  <1>4. ASSUME NEW y \in S PROVE y <= x
    <2>1. z <= V - 1 - y
      BY <1>2
    <2> QED BY <1>3, <2>1 DEF Node
  <1> QED BY <1>4

\* The sentinels are in the order of their nodes.
LEMMA LayoutOrder ==
    ASSUME NEW n \in Nat, NEW b \in Layouts(n), NEW v \in Node, NEW w \in Node, v < w
    PROVE  b[v] < b[w]
  <1> DEFINE S == {u \in Node : v < u /\ ~(b[v] < b[u])}
  <1> SUFFICES ASSUME S # {} PROVE FALSE
    OBVIOUS
  <1>1. PICK u \in S : \A y \in S : u <= y
    BY LeastNode
  <1>2. u \in Node /\ v < u /\ u - 1 \in Node /\ u \in Node \ {0} /\ u - 1 < u /\ v <= u - 1
    BY DEF Node
  <1>3. b[u - 1] < b[u] /\ b \in [Node -> 0 .. n - 1]
    BY <1>2 DEF Layouts
  <1>4. u - 1 \notin S
    BY <1>1, <1>2 DEF Node
  <1>5. u - 1 = v \/ b[v] < b[u - 1]
    BY <1>2, <1>4 DEF Node
  <1>6. b[v] \in Nat /\ b[u] \in Nat /\ b[u - 1] \in Nat
    BY <1>2, <1>3
  <1>7. b[v] < b[u]
    BY <1>3, <1>5, <1>6
  <1> QED BY <1>1, <1>7

---------------------------------------------------------------------------
(* Which locks a task finds *)

\* The types of the places of sentinels.
LEMMA Places ==
    ASSUME TypeOK
    PROVE  /\ \A v \in Node : beginning[v] \in Nat /\ end(v) \in Nat
           /\ \A v \in Node, w \in Node : v < w => beginning[v] < beginning[w]
           /\ beginning[0] = 0 /\ 0 \in Node /\ last \in Node
           /\ \A v \in Node : v # last => v + 1 \in Node /\ end(v) = beginning[v + 1]
  <1>1. beginning \in [Node -> 0 .. N - 1] /\ beginning[0] = 0 /\ N \in Nat \ {0}
    BY DEF TypeOK, Layouts
  <1>2. \A v \in Node : v # last => v + 1 \in Node
    BY DEF Node, last
  <1>3. \A v \in Node : beginning[v] \in Nat /\ end(v) \in Nat
    BY <1>1, <1>2 DEF end
  <1>4. \A v \in Node, w \in Node : v < w => beginning[v] < beginning[w]
    BY <1>1, LayoutOrder DEF TypeOK
  <1> QED BY <1>1, <1>2, <1>3, <1>4 DEF Node, last, end

\* Every slot is a node's.
LEMMA ContainingSlot ==
    ASSUME TypeOK, NEW p \in Nat
    PROVE  /\ Containing(p) \in Node /\ beginning[Containing(p)] <= p
           /\ Containing(p) = last \/ p < beginning[Containing(p) + 1]
  <1> DEFINE S == {v \in Node : beginning[v] <= p}
  <1>1. 0 \in S
    BY Places
  <1>2. PICK x \in S : \A y \in S : y <= x
    BY <1>1, GreatestNode
  <1>3. x # last => p < beginning[x + 1]
    <2> SUFFICES ASSUME x # last, ~(p < beginning[x + 1]) PROVE FALSE
      OBVIOUS
    <2>1. x + 1 \in Node /\ beginning[x + 1] \in Nat
      BY Places
    <2>2. x + 1 \in S
      BY <2>1
    <2> QED BY <1>2, <2>2 DEF Node
  <1>4. x \in Node /\ beginning[x] <= p
    OBVIOUS
  <1> QED BY <1>3, <1>4 DEF Containing

\* A node that starts before a slot, or ends behind it, is on that side of the
\* node of the slot.
LEMMA ContainingOrder ==
    ASSUME TypeOK, NEW p \in Nat, NEW w \in Node
    PROVE  /\ beginning[w] <= p => w <= Containing(p)
           /\ w = last \/ beginning[w + 1] > p => Containing(p) <= w
  <1> DEFINE c == Containing(p)
  <1>1. c \in Node /\ beginning[c] <= p /\ (c = last \/ p < beginning[c + 1])
    BY ContainingSlot
  <1> HIDE DEF c
  <1>2. ASSUME beginning[w] <= p, ~(w <= c) PROVE FALSE
    <2>1. c # last /\ c + 1 \in Node /\ c + 1 <= w
      BY <1>1, <1>2 DEF Node, last
    <2>2. beginning[c + 1] <= beginning[w] /\ beginning[w] \in Nat /\ beginning[c + 1] \in Nat
      <3>1. CASE c + 1 = w
        BY <2>1, <3>1, Places
      <3>2. CASE c + 1 < w
        BY <2>1, <3>2, Places
      <3> QED BY <2>1, <3>1, <3>2 DEF Node
    <2> QED BY <1>1, <1>2, <2>1, <2>2
  <1>3. ASSUME w = last \/ beginning[w + 1] > p, ~(c <= w) PROVE FALSE
    <2>1. w # last /\ w + 1 \in Node /\ w + 1 <= c
      BY <1>1, <1>3 DEF Node, last
    <2>2. beginning[w + 1] <= beginning[c] /\ beginning[c] \in Nat /\ beginning[w + 1] \in Nat
      <3>1. CASE w + 1 = c
        BY <1>1, <2>1, <3>1, Places
      <3>2. CASE w + 1 < c
        BY <1>1, <2>1, <3>2, Places
      <3> QED BY <1>1, <2>1, <3>1, <3>2 DEF Node
    <2> QED BY <1>1, <1>3, <2>1, <2>2
  <1> QED BY <1>2, <1>3 DEF c

\* The node of a slot has a slot in every part that has it.
LEMMA ContainingTouched ==
    ASSUME TypeOK, NEW lo \in Nat, NEW hi \in Nat, NEW p \in Nat, lo <= p, p < hi
    PROVE  Containing(p) \in Touched(lo, hi)
  <1> DEFINE c == Containing(p)
  <1>1. c \in Node /\ beginning[c] <= p /\ (c = last \/ p < beginning[c + 1])
    BY ContainingSlot
  <1>2. beginning[c] \in Nat /\ (c # last => beginning[c + 1] \in Nat)
    BY <1>1, Places
  <1> HIDE DEF c
  <1>3. beginning[c] < hi /\ (c = last \/ beginning[c + 1] > lo)
    BY <1>1, <1>2
  <1> QED BY <1>1, <1>3 DEF Touched, c

\* Even when other nodes move, what a task finds is on the right side of the
\* nodes it owns.
LEMMA Found ==
    ASSUME TypeOK, NEW t \in Task, NEW p \in Nat, NEW v \in find_contaning_node(t, p)
    PROVE  /\ v \in Node
           /\ \A o \in Owned(t) : o <= Containing(p) => o <= v
           /\ \A o \in Owned(t) : Containing(p) <= o => v <= o
           /\ Containing(p) \in Owned(t) => v = Containing(p)
  <1>1. Containing(p) \in Node
    BY ContainingSlot
  <1>2. Owned(t) \subseteq Node
    BY DEF Owned
  <1>3. CASE v = Containing(p)
    BY <1>1, <1>3
  <1>4. CASE v # Containing(p)
    <2>1. /\ Containing(p) \notin Owned(t) /\ v \in Node
          /\ \A o \in Owned(t) : o < Containing(p) <=> o < v
      BY <1>4 DEF find_contaning_node
    <2> QED BY <1>1, <1>2, <2>1 DEF Node
  <1> QED BY <1>3, <1>4

\* What which_locks_in_range can answer.
LEMMA LocksInRange ==
    ASSUME TypeOK, NEW t \in Task, NEW p \in Nat, NEW n \in Nat,
           NEW r \in which_locks_in_range(t, p, n)
    PROVE  /\ r.x \in Node /\ r.y \in Node /\ r.x <= r.y /\ r \in Ranges
           /\ \A o \in Owned(t) : Containing(p) <= o => r.x <= o
           /\ \A o \in Owned(t) : o + 1 = Containing(p) /\ beginning[o + 1] = p
                 /\ o + 1 \in Owned(t) => r.x <= o
           /\ \A o \in Owned(t) : beginning[o] <= p + n => o <= r.y
  <1> DEFINE start(v) == IF p = beginning[v] /\ v > 0 THEN v - 1 ELSE v
             starts == {start(v) : v \in find_contaning_node(t, p)}
             end_index == next_leaf(p + n) - 1
             stops(x) == IF end_index < end(x) THEN {x} ELSE find_contaning_node(t, end_index)
  <1>1. r \in [x : starts, y : Node] /\ r.x <= r.y /\ r.y \in stops(r.x)
    BY DEF which_locks_in_range
  <1>2. r = Range(r.x, r.y) /\ r.x \in starts /\ r.y \in Node
    BY <1>1 DEF Range
  <1>3. PICK v \in find_contaning_node(t, p) : r.x = start(v)
    BY <1>2
  <1>4. /\ v \in Node
        /\ \A o \in Owned(t) : Containing(p) <= o => v <= o
        /\ Containing(p) \in Owned(t) => v = Containing(p)
    BY Found
  <1>5. r.x \in Node /\ r.x <= v /\ (p = beginning[v] /\ v > 0 => r.x = v - 1)
    BY <1>3, <1>4 DEF Node
  <1>6. Owned(t) \subseteq Node
    BY DEF Owned
  <1>7. end_index \in Nat /\ p + n <= end_index
    <2>1. next_leaf(p + n) \in Nat /\ p + n < next_leaf(p + n)
      BY LeafBounds
    <2> QED BY <2>1
  <1> HIDE DEF end_index
  <1>8. \A o \in Owned(t) : Containing(p) <= o => r.x <= o
    BY <1>4, <1>5, <1>6 DEF Node
  <1>9. ASSUME NEW o \in Owned(t), o + 1 = Containing(p), beginning[o + 1] = p,
               o + 1 \in Owned(t)
        PROVE  r.x <= o
    BY <1>4, <1>5, <1>6, <1>9 DEF Node
  <1>10. r.y \in Node /\ \A o \in Owned(t) : beginning[o] <= p + n => o <= r.y
    <2>1. CASE end_index < end(r.x)
      <3>1. r.y = r.x
        BY <1>1, <2>1
      <3>2. ASSUME NEW o \in Owned(t), beginning[o] <= p + n, ~(o <= r.x) PROVE FALSE
        <4>1. r.x # last /\ r.x + 1 \in Node /\ r.x + 1 <= o
          BY <1>5, <1>6, <3>2 DEF Node, last
        <4>2. end(r.x) = beginning[r.x + 1] /\ beginning[r.x + 1] \in Nat /\ beginning[o] \in Nat
          BY <1>5, <1>6, <4>1, Places
        <4>3. beginning[r.x + 1] <= beginning[o]
          <5>1. CASE r.x + 1 < o
            BY <1>6, <4>1, <4>2, <5>1, Places
          <5> QED BY <1>6, <4>1, <4>2, <5>1 DEF Node
        <4> QED BY <1>7, <2>1, <3>2, <4>2, <4>3
      <3> QED BY <1>5, <3>1, <3>2
    <2>2. CASE ~(end_index < end(r.x))
      <3>1. r.y \in find_contaning_node(t, end_index)
        BY <1>1, <2>2
      <3>2. r.y \in Node /\ \A o \in Owned(t) : o <= Containing(end_index) => o <= r.y
        BY <1>7, <3>1, Found
      <3>3. ASSUME NEW o \in Owned(t), beginning[o] <= p + n PROVE o <= Containing(end_index)
        <4>1. beginning[o] <= end_index
          BY <1>6, <1>7, <3>3, Places
        <4> QED BY <1>6, <1>7, <4>1, ContainingOrder
      <3> QED BY <3>2, <3>3
    <2> QED BY <2>1, <2>2
  <1>11. r \in Ranges
    BY <1>2, <1>5, <1>10 DEF Range, Ranges, Node
  <1> QED BY <1>1, <1>5, <1>8, <1>9, <1>10, <1>11

\* The locks of the leaves that a node's elements are in.
LEMMA LeafRange ==
    ASSUME TypeOK, NEW s \in Node
    PROVE  LET r == LeafLocksOf(s) IN
           /\ r \in Ranges /\ r.x <= s /\ s <= r.y /\ r.y < V
           /\ beginning[r.x] <= find_leaf(beginning[s])
           /\ r.y = last \/ end(r.y) >= next_leaf(end(s))
  <1> DEFINE before == {v \in 0 .. s : beginning[v] <= find_leaf(beginning[s])}
             after == {v \in s .. last : v = last \/ end(v) >= next_leaf(end(s))}
             x == CHOOSE z \in before : \A v \in before : v <= z
             y == CHOOSE z \in after : \A v \in after : z <= v
  <1>1. before \subseteq Node /\ after \subseteq Node
    BY DEF Node, last
  <1>2. 0 \in before
    <2>1. find_leaf(beginning[s]) \in Nat
      BY Places, LeafBounds
    <2> QED BY <2>1, Places DEF Node
  <1>3. last \in after
    BY DEF Node, last
  <1>4. x \in before
    BY <1>1, <1>2, GreatestNode
  <1>5. y \in after
    BY <1>1, <1>3, LeastNode
  <1>6. LeafLocksOf(s) = Range(x, y)
    BY DEF LeafLocksOf
  <1> HIDE DEF x, y
  <1> QED BY <1>4, <1>5, <1>6 DEF Range, Ranges, Node, last

\* What which_locks_for_leaf can answer.
LEMMA LocksForLeaf ==
    ASSUME TypeOK, NEW t \in Task, NEW s \in Node, NEW r \in which_locks_for_leaf(t, s)
    PROVE  r \in Ranges /\ r.x <= s /\ s <= r.y /\ r.y < V
  <1>1. CASE Racing(t)
    BY <1>1 DEF which_locks_for_leaf, Node, last, Ranges
  <1>2. CASE ~Racing(t)
    <2>1. r = LeafLocksOf(s)
      BY <1>2 DEF which_locks_for_leaf
    <2> QED BY <2>1, LeafRange
  <1> QED BY <1>1, <1>2

---------------------------------------------------------------------------
(* Locks *)

AnyReason == {GENERAL, REBALANCE, DOUBLE, SAME}

\* Nobody's lock but t's changes hands.
OnlyMine(t) ==
    \A v \in Node : \A u \in Task \ {t} : lock'[v].owner = u <=> lock[v].owner = u

\* unlock frees the lock, and takes a reason away or sets the task's own.
LEMMA UnlockOne ==
    ASSUME NEW m \in Locks, NEW t \in Task, NEW r \in AnyReason
    PROVE  /\ unlock(m, t, r) \in Locks
           /\ unlock(m, t, r).owner = none
           /\ unlock(m, t, r).reason_set_by \in {m.reason_set_by, t, none}
           /\ r = SAME => unlock(m, t, r).reason_set_by = m.reason_set_by
           /\ r = GENERAL => unlock(m, t, r).reason_set_by # t
  BY DEF unlock, Locks, AnyReason, GENERAL, REBALANCE, DOUBLE, SAME

\* A task gives locks back, each with a reason.
LEMMA GiveBack ==
    ASSUME TypeOK, NEW t \in Task, NEW vs, NEW R \in [Node -> AnyReason],
           \A v \in vs : v \in Node => lock[v].owner \in {t, none},
           lock' = [v \in Node |-> IF v \in vs THEN unlock(lock[v], t, R[v]) ELSE lock[v]]
    PROVE  /\ lock' \in [Node -> Locks]
           /\ Owned(t)' = Owned(t) \ vs
           /\ OnlyMine(t)
           /\ \A v \in Node : v \notin vs => lock'[v] = lock[v]
           /\ \A v \in Node : v \in vs =>
                 /\ lock'[v].reason_set_by \in {lock[v].reason_set_by, t, none}
                 /\ R[v] = SAME => lock'[v].reason_set_by = lock[v].reason_set_by
                 /\ R[v] = GENERAL => lock'[v].reason_set_by # t
  <1>1. ASSUME NEW v \in Node
        PROVE  /\ v \notin vs => lock'[v] = lock[v]
               /\ v \in vs =>
                    /\ lock'[v] \in Locks /\ lock'[v].owner = none
                    /\ lock'[v].reason_set_by \in {lock[v].reason_set_by, t, none}
                    /\ R[v] = SAME => lock'[v].reason_set_by = lock[v].reason_set_by
                    /\ R[v] = GENERAL => lock'[v].reason_set_by # t
    <2>1. lock[v] \in Locks /\ R[v] \in AnyReason
      BY DEF TypeOK
    <2>2. CASE v \in vs
      <3>1. lock'[v] = unlock(lock[v], t, R[v])
        BY <2>2
      <3> QED BY <2>1, <2>2, <3>1, UnlockOne
    <2>3. CASE v \notin vs
      BY <2>3
    <2> QED BY <2>2, <2>3
  <1>2. lock' \in [Node -> Locks]
    BY <1>1 DEF TypeOK
  <1>3. OnlyMine(t)
    BY <1>1 DEF OnlyMine
  <1>4. Owned(t)' = Owned(t) \ vs
    BY <1>1 DEF Owned
  <1> QED BY <1>1, <1>2, <1>3, <1>4

LEMMA GiveBackRange ==
    ASSUME TypeOK, NEW t \in Task, NEW r, NEW reason \in AnyReason,
           \A v \in In(r) : lock[v].owner \in {t, none},
           release_locks_in_range(t, r, reason)
    PROVE  /\ lock' \in [Node -> Locks]
           /\ Owned(t)' = Owned(t) \ In(r)
           /\ OnlyMine(t)
           /\ \A v \in Node : v \notin In(r) => lock'[v] = lock[v]
           /\ \A v \in Node : v \in In(r) =>
                 /\ lock'[v].reason_set_by \in {lock[v].reason_set_by, t, none}
                 /\ reason = SAME => lock'[v].reason_set_by = lock[v].reason_set_by
                 /\ reason = GENERAL => lock'[v].reason_set_by # t
  <1> DEFINE R == [v \in Node |-> reason]
             vs == In(r)
  <1>1. lock' = [v \in Node |-> IF v \in vs THEN unlock(lock[v], t, reason) ELSE lock[v]]
    BY DEF release_locks_in_range, Unlock
  <1>2. R \in [Node -> AnyReason] /\ \A v \in Node : R[v] = reason
    OBVIOUS
  <1>3. vs \subseteq Node
    BY DEF In
  <1> HIDE DEF R, vs
  <1>4. lock' = [v \in Node |-> IF v \in vs THEN unlock(lock[v], t, R[v]) ELSE lock[v]]
    BY <1>1, <1>2
  <1>5. \A v \in vs : v \in Node => lock[v].owner \in {t, none}
    BY DEF vs
  <1>6. /\ lock' \in [Node -> Locks]
        /\ Owned(t)' = Owned(t) \ vs
        /\ OnlyMine(t)
        /\ \A v \in Node : v \notin vs => lock'[v] = lock[v]
        /\ \A v \in Node : v \in vs =>
              /\ lock'[v].reason_set_by \in {lock[v].reason_set_by, t, none}
              /\ R[v] = SAME => lock'[v].reason_set_by = lock[v].reason_set_by
              /\ R[v] = GENERAL => lock'[v].reason_set_by # t
    BY <1>2, <1>4, <1>5, GiveBack
  <1> QED BY <1>2, <1>6 DEF vs

\* A task takes a free lock.
LEMMA TakeOne ==
    ASSUME TypeOK, NEW t \in Task, NEW v \in Node, lock[v].owner = none,
           lock' = [lock EXCEPT ![v].owner = t]
    PROVE  /\ lock' \in [Node -> Locks]
           /\ Owned(t)' = Owned(t) \cup {v}
           /\ OnlyMine(t)
           /\ \A w \in Node : lock'[w].reason_set_by = lock[w].reason_set_by
  <1>1. lock \in [Node -> Locks]
    BY DEF TypeOK
  <1>2. /\ \A w \in Node : w # v => lock'[w] = lock[w]
        /\ lock'[v] = [lock[v] EXCEPT !.owner = t]
    BY <1>1
  <1>3. lock'[v] \in Locks /\ lock'[v].owner = t /\ lock'[v].reason_set_by = lock[v].reason_set_by
    BY <1>1, <1>2 DEF Locks
  <1>4. lock' \in [Node -> Locks]
    BY <1>1, <1>2, <1>3
  <1> QED BY <1>2, <1>3, <1>4 DEF Owned, OnlyMine

---------------------------------------------------------------------------
(* The steps of one task *)

Kinds == {"idle", "leaf", "leafTry", "leafCheck", "locate", "write", "handBack", "range",
          "rangeTry", "rangeCheck", "grabbed", "rebalance", "cleanUp", "lockAll", "resize"}

LEMMA PcIsKinds == Pc = Kinds
  BY DEF Pc, Kinds, Trying, Checking, Holding, Empty

\* A step of t: it is enough to look at t itself and at where the others' nodes
\* are.
LEMMA Step ==
    ASSUME Inv, NEW t \in Task, NEW to \in Pc, NEW l \in Locals, Go(t, to, l),
           batch' = batch, N' \in Nat \ {0}, (beginning \in Layouts(N))',
           lock' \in [Node -> Locks], OnlyMine(t),
           made' \in [Task -> Nat], stale' \subseteq Task,
           Fits(to, l, Owned(t))',
           \A u \in Task \ {t} : (Sizes(pc[u], local[u]) /\ Place(pc[u], local[u]))'
    PROVE  Inv'
  <1>1. /\ pc' \in [Task -> Pc] /\ pc'[t] = to
        /\ local' \in [Task -> Locals] /\ local'[t] = l
        /\ \A u \in Task \ {t} : pc'[u] = pc[u] /\ local'[u] = local[u]
    BY DEF Go, Inv, TypeOK
  <1>2. TypeOK'
    BY <1>1 DEF Inv, TypeOK
  <1>3. ASSUME NEW u \in Task PROVE Fits(pc[u], local[u], Owned(u))'
    <2>1. CASE u = t
      BY <1>1, <2>1
    <2>2. CASE u # t
      <3>1. Owned(u)' = Owned(u)
        BY <2>2 DEF Owned, OnlyMine
      <3>2. HoldsAt(pc[u], local[u], Owned(u)) /\ Loop(pc[u], local[u])
        BY DEF Inv, Fits
      <3>3. (HoldsAt(pc[u], local[u], Owned(u)) /\ Loop(pc[u], local[u]))'
        BY <1>1, <2>2, <3>1, <3>2 DEF HoldsAt, Loop
      <3> QED BY <2>2, <3>3 DEF Fits
    <2> QED BY <2>1, <2>2
  <1> QED BY <1>2, <1>3 DEF Inv

\* Where no node moves, Fits means the same before and after.
LEMMA Unmoved ==
    ASSUME UNCHANGED <<batch, N, beginning>>, NEW p, NEW l
    PROVE  /\ Sizes(p, l)' <=> Sizes(p, l)
           /\ Place(p, l)' <=> Place(p, l)
           /\ \A own : Fits(p, l, own)' <=> Fits(p, l, own)
  <1>1. \A lo, hi : Touched(lo, hi)' = Touched(lo, hi)
    BY DEF Touched
  <1>2. \A v : end(v)' = end(v)
    BY DEF end
  <1>3. Sizes(p, l)' <=> Sizes(p, l)
    BY DEF Sizes, Older
  <1>4. Place(p, l)' <=> Place(p, l)
    BY <1>1, <1>2 DEF Place
  <1>5. \A own : (HoldsAt(p, l, own) /\ Loop(p, l))' <=> HoldsAt(p, l, own) /\ Loop(p, l)
    BY DEF HoldsAt, Loop
  <1> QED BY <1>3, <1>4, <1>5 DEF Fits

LEMMA QuietStep ==
    ASSUME Inv, NEW t \in Task, NEW to \in Pc, NEW l \in Locals, Go(t, to, l),
           UNCHANGED <<batch, N, beginning>>,
           lock' \in [Node -> Locks], OnlyMine(t),
           made' \in [Task -> Nat], stale' \subseteq Task,
           Fits(to, l, Owned(t)')
    PROVE  Inv'
  <1>1. ASSUME NEW u \in Task \ {t} PROVE (Sizes(pc[u], local[u]) /\ Place(pc[u], local[u]))'
    <2>1. pc'[u] = pc[u] /\ local'[u] = local[u]
      BY DEF Go, Inv, TypeOK
    <2>2. Sizes(pc[u], local[u]) /\ Place(pc[u], local[u])
      BY DEF Inv, Fits
    <2>3. Sizes(pc'[u], local'[u]) /\ Place(pc'[u], local'[u])
      BY <2>1, <2>2
    <2> QED BY <2>3, Unmoved
  <1>2. Fits(to, l, Owned(t))'
    BY Unmoved
  <1>3. N' \in Nat \ {0} /\ (beginning \in Layouts(N))'
    BY DEF Inv, TypeOK, Layouts
  <1> QED BY <1>1, <1>2, <1>3, Step

\* What Inv says of one task.
LEMMA Mine ==
    ASSUME Inv, NEW t \in Task
    PROVE  /\ TypeOK /\ pc[t] \in Pc /\ local[t] \in Locals
           /\ HoldsAt(pc[t], local[t], Owned(t)) /\ Loop(pc[t], local[t])
           /\ Sizes(pc[t], local[t]) /\ Place(pc[t], local[t])
           /\ made \in [Task -> Nat] /\ stale \subseteq Task /\ lock \in [Node -> Locks]
           /\ \A v \in Owned(t) : v \in Node /\ lock[v].owner = t
  BY DEF Inv, Fits, TypeOK, Owned

\* The empty range, and the local variables of a call that has not begun.
LEMMA EmptyLocals == NoRange \in Ranges /\ In(NoRange) = {} /\ NoLocal \in Locals
  BY DEF NoRange, Range, Ranges, NoLocal, Locals, In, Node

LEMMA CallInv == ASSUME Inv, NEW t \in Task, Call(t) PROVE Inv'
  <1>1. PICK s \in Node : Go(t, "leaf", [NoLocal EXCEPT !.src = s])
    BY DEF Call
  <1> DEFINE l == [NoLocal EXCEPT !.src = s]
  <1>2. l \in Locals /\ l.grab_n = 0
    BY EmptyLocals DEF NoLocal, Locals, NoRange, Range
  <1>3. Owned(t) = {} /\ Owned(t)' = Owned(t) /\ lock' = lock
    BY Mine DEF Call, HoldsAt, Empty, Owned
  <1>4. lock' \in [Node -> Locks] /\ OnlyMine(t)
    BY <1>3, Mine DEF OnlyMine
  <1>5. UNCHANGED <<batch, N, beginning>> /\ made' \in [Task -> Nat] /\ stale' \subseteq Task
    BY Mine DEF Call
  <1> HIDE DEF l
  <1>6. Fits("leaf", l, Owned(t)')
    BY <1>2, <1>3 DEF Fits, HoldsAt, Loop, Sizes, Place, Trying, Checking, Holding, Empty,
       Searching
  <1> QED BY <1>1, <1>2, <1>4, <1>5, <1>6, PcIsKinds, QuietStep DEF Kinds, l

\* A step that changes no lock.
LEMMA SameLocks ==
    ASSUME Inv, NEW t \in Task, NEW to \in Kinds, NEW l \in Locals, Go(t, to, l),
           UNCHANGED lock, OnlyLocks, Fits(to, l, Owned(t))
    PROVE  Inv'
  <1>1. Owned(t)' = Owned(t) /\ lock' \in [Node -> Locks] /\ OnlyMine(t)
    BY Mine DEF Owned, OnlyMine
  <1>2. UNCHANGED <<batch, N, beginning>> /\ made' \in [Task -> Nat] /\ stale' \subseteq Task
    BY Mine DEF OnlyLocks
  <1> QED BY <1>1, <1>2, PcIsKinds, QuietStep

LEMMA LeafLocksInv == ASSUME Inv, NEW t \in Task, LeafLocks(t) PROVE Inv'
  <1>1. PICK r \in which_locks_for_leaf(t, local[t].src) :
           Go(t, "leafTry", [local[t] EXCEPT !.ends = r, !.i = r.x])
    BY DEF LeafLocks
  <1> DEFINE l == [local[t] EXCEPT !.ends = r, !.i = r.x]
  <1>2. r \in Ranges /\ r.x <= r.y /\ r.y < V
    <2>1. local[t].src \in Node /\ TypeOK
      BY Mine DEF Locals
    <2>2. r \in Ranges /\ r.x <= local[t].src /\ local[t].src <= r.y /\ r.y < V
      BY <2>1, LocksForLeaf
    <2> QED BY <2>1, <2>2 DEF Ranges, Node
  <1>a. r.x \in Nat /\ local[t] \in Locals
    BY <1>2, Mine DEF Ranges
  <1>b. r \in Ranges
    BY <1>2
  <1>3. l \in Locals /\ l.ends = r /\ l.i = r.x /\ l.grab_n = local[t].grab_n
    BY <1>a, <1>b DEF Locals
  <1>c. local[t].grab_n = 0
    BY Mine DEF Sizes, LeafLocks
  <1>4. Owned(t) = {}
    BY Mine DEF HoldsAt, Empty, LeafLocks
  <1> HIDE DEF l
  <1>5. Fits("leafTry", l, Owned(t))
    BY <1>2, <1>3, <1>4, <1>a, <1>c DEF Fits, HoldsAt, Loop, Sizes, Place, Trying, Checking,
       Holding, Empty, Searching
  <1> QED BY <1>1, <1>3, <1>5, SameLocks DEF LeafLocks, Kinds, l

\* A lock of a range is taken.
LEMMA TakeInv ==
    ASSUME Inv, NEW t \in Task, NEW reason,
           \/ Take(t, "leafTry", reason, "leafCheck")
           \/ Take(t, "rangeTry", reason, "rangeCheck")
    PROVE  Inv'
  <1> DEFINE k == local[t]
             l == [k EXCEPT !.i = @ + 1]
             to == IF k.i = k.ends.y THEN (IF pc[t] = "leafTry" THEN "leafCheck" ELSE "rangeCheck")
                   ELSE pc[t]
  <1>1. /\ pc[t] \in Trying /\ Go(t, to, l) /\ Free(k.i, reason)
        /\ lock' = [lock EXCEPT ![k.i].owner = t] /\ OnlyLocks
    BY DEF Take, Trying
  <1>2. /\ k \in Locals /\ k.ends.x <= k.i /\ k.i <= k.ends.y /\ k.ends.y < V
        /\ k.i \in Nat /\ k.ends.x \in Nat /\ k.ends.y \in Nat
        /\ Owned(t) = k.ends.x .. k.i - 1 /\ TypeOK
    BY <1>1, Mine DEF Loop, HoldsAt, Locals, Ranges
  <1>3. k.i \in Node /\ lock[k.i].owner = none
    BY <1>1, <1>2 DEF Free, Node
  <1>4. /\ lock' \in [Node -> Locks] /\ OnlyMine(t)
        /\ Owned(t)' = Owned(t) \cup {k.i}
    BY <1>1, <1>2, <1>3, TakeOne
  <1>a. k \in Locals /\ k.i + 1 \in Nat
    BY <1>2
  <1>5. /\ l \in Locals /\ l.i = k.i + 1 /\ l.ends = k.ends /\ l.grab_n = k.grab_n
        /\ l.orig_n = k.orig_n /\ l.len = k.len /\ l.held = k.held
    BY <1>a DEF Locals
  <1>8. Sizes(pc[t], k) /\ (pc[t] = "rangeTry" => In(k.held) = {})
    BY Mine DEF Loop, Searching
  <1> HIDE DEF k, l
  <1>6. Owned(t)' = l.ends.x .. l.i - 1
    BY <1>2, <1>4, <1>5
  <1>7. to \in Kinds
    BY <1>1 DEF Trying, Kinds
  <1>9. Fits(to, l, Owned(t)')
    <2>1. CASE pc[t] = "leafTry"
      BY <1>2, <1>5, <1>6, <1>8, <2>1 DEF Fits, HoldsAt, Loop, Sizes, Place, Trying, Checking,
         Holding, Empty, Searching
    <2>2. CASE pc[t] = "rangeTry"
      BY <1>2, <1>5, <1>6, <1>8, <2>2 DEF Fits, HoldsAt, Loop, Sizes, Place, Trying, Checking,
         Holding, Empty, Searching
    <2> QED BY <1>1, <2>1, <2>2 DEF Trying
  <1>10. UNCHANGED <<batch, N, beginning>> /\ made' \in [Task -> Nat] /\ stale' \subseteq Task
    BY <1>1, Mine DEF OnlyLocks
  <1> HIDE DEF to
  <1> QED BY <1>1, <1>4, <1>5, <1>7, <1>9, <1>10, PcIsKinds, QuietStep

\* A step that gives back locks of the task.
LEMMA GiveStep ==
    ASSUME Inv, NEW t \in Task, NEW to \in Kinds, NEW l \in Locals, Go(t, to, l),
           NEW r, NEW reason \in AnyReason, In(r) \subseteq Owned(t),
           release_locks_in_range(t, r, reason), OnlyLocks,
           Fits(to, l, Owned(t) \ In(r))
    PROVE  Inv'
  <1>1. TypeOK /\ \A v \in In(r) : lock[v].owner \in {t, none}
    BY Mine
  <1>2. lock' \in [Node -> Locks] /\ OnlyMine(t) /\ Owned(t)' = Owned(t) \ In(r)
    BY <1>1, GiveBackRange
  <1>3. UNCHANGED <<batch, N, beginning>> /\ made' \in [Task -> Nat] /\ stale' \subseteq Task
    BY Mine DEF OnlyLocks
  <1> QED BY <1>2, <1>3, PcIsKinds, QuietStep

\* The locks of a range that could not be taken are given back.
LEMMA ResetInv ==
    ASSUME Inv, NEW t \in Task, NEW reason,
           Reset(t, "leafTry", reason, "leaf") \/ Reset(t, "rangeTry", reason, "range")
    PROVE  Inv'
  <1> DEFINE k == local[t]
             l == [k EXCEPT !.i = 0, !.ends = NoRange]
             to == IF pc[t] = "leafTry" THEN "leaf" ELSE "range"
             r == Range(k.ends.x, k.i - 1)
  <1>1. /\ pc[t] \in Trying /\ Go(t, to, l) /\ OnlyLocks
        /\ release_locks_in_range(t, r, SAME)
    BY DEF Reset, Trying
  <1>2. /\ k \in Locals /\ k.ends.x <= k.i /\ k.i <= k.ends.y /\ k.ends.y < V
        /\ k.i \in Nat /\ k.ends.x \in Nat /\ k.ends.y \in Nat
        /\ Owned(t) = k.ends.x .. k.i - 1 /\ Sizes(pc[t], k)
        /\ pc[t] = "rangeTry" => In(k.held) = {}
    BY <1>1, Mine DEF Loop, HoldsAt, Locals, Ranges, Searching
  <1>3. In(r) = Owned(t)
    BY <1>2 DEF In, Range, Node
  <1>a. k \in Locals /\ NoRange \in Ranges
    BY <1>2, EmptyLocals
  <1> HIDE DEF k
  <1>4. /\ l \in Locals /\ l.grab_n = k.grab_n /\ l.orig_n = k.orig_n /\ l.len = k.len
        /\ l.held = k.held
    BY <1>a DEF Locals
  <1> HIDE DEF l, r
  <1>5. Fits(to, l, {}) /\ to \in Kinds
    <2>1. CASE pc[t] = "leafTry"
      BY <1>2, <1>4, <2>1 DEF Fits, HoldsAt, Loop, Sizes, Place, Trying, Checking, Holding,
         Empty, Searching, Kinds
    <2>2. CASE pc[t] = "rangeTry"
      BY <1>2, <1>4, <2>2 DEF Fits, HoldsAt, Loop, Sizes, Place, Trying, Checking, Holding,
         Empty, Searching, Kinds
    <2> QED BY <1>1, <2>1, <2>2 DEF Trying
  <1> HIDE DEF to
  <1>6. SAME \in AnyReason /\ Owned(t) \ In(r) = {}
    BY <1>3 DEF AnyReason
  <1> QED BY <1>1, <1>3, <1>4, <1>5, <1>6, GiveStep

\* The leaf's locks are kept only if they still are the leaf's.
LEMMA LeafCheckInv == ASSUME Inv, NEW t \in Task, LeafCheck(t) PROVE Inv'
  <1> DEFINE k == local[t]
             done == [k EXCEPT !.i = 0, !.ends = NoRange]
             kept == [done EXCEPT !.held = k.ends]
  <1>1. pc[t] = "leafCheck" /\ OnlyLocks
    BY DEF LeafCheck
  <1>2. /\ k \in Locals /\ k.ends \in Ranges /\ k.src \in Node
        /\ k.ends.x <= k.ends.y /\ k.i = k.ends.y + 1 /\ k.ends.y < V
        /\ k.ends.x \in Nat /\ k.ends.y \in Nat
        /\ Owned(t) = k.ends.x .. k.ends.y /\ k.grab_n = 0 /\ TypeOK
    <2>1. /\ k \in Locals /\ TypeOK /\ HoldsAt("leafCheck", k, Owned(t))
          /\ Loop("leafCheck", k) /\ Sizes("leafCheck", k)
      BY <1>1, Mine
    <2>2. k.ends \in Ranges /\ k.src \in Node
      BY <2>1 DEF Locals
    <2>3. k.ends.x \in Nat /\ k.ends.y \in Nat
      BY <2>2 DEF Ranges
    <2> QED BY <2>1, <2>2, <2>3 DEF Loop, HoldsAt, Sizes, Checking
  <1>3. In(k.ends) = Owned(t)
    BY <1>2 DEF In, Node
  <1>a. k \in Locals /\ NoRange \in Ranges /\ k.ends \in Ranges
    BY <1>2, EmptyLocals
  <1>b. \/ LeafLocksOf(k.src) = k.ends /\ Go(t, "locate", kept) /\ UNCHANGED lock
        \/ Go(t, "leaf", done) /\ release_locks_in_range(t, k.ends, GENERAL)
    BY DEF LeafCheck
  <1> HIDE DEF k
  <1>c. done \in Locals /\ done.grab_n = k.grab_n /\ done.src = k.src
    BY <1>a DEF Locals
  <1> HIDE DEF done
  <1>d. /\ kept \in Locals /\ kept.grab_n = done.grab_n /\ kept.held = k.ends
        /\ kept.src = done.src
    BY <1>a, <1>c DEF Locals
  <1>4. /\ done \in Locals /\ done.grab_n = k.grab_n
        /\ kept \in Locals /\ kept.grab_n = k.grab_n /\ kept.held = k.ends /\ kept.src = k.src
    BY <1>c, <1>d
  <1> HIDE DEF kept
  <1>5. CASE LeafLocksOf(k.src) = k.ends /\ Go(t, "locate", kept) /\ UNCHANGED lock
    <2>1. Place("locate", kept)
      BY <1>2, <1>4, <1>5, LeafRange DEF Place
    <2>2. Fits("locate", kept, Owned(t))
      BY <1>2, <1>3, <1>4, <2>1 DEF Fits, HoldsAt, Loop, Sizes, Trying, Checking, Holding,
         Empty, Searching
    <2> QED BY <1>1, <1>4, <1>5, <2>2, SameLocks DEF Kinds
  <1>6. CASE Go(t, "leaf", done) /\ release_locks_in_range(t, k.ends, GENERAL)
    <2>1. Fits("leaf", done, {})
      BY <1>2, <1>4 DEF Fits, HoldsAt, Loop, Sizes, Place, Trying, Checking, Holding,
         Empty, Searching
    <2>2. Owned(t) \ In(k.ends) = {} /\ GENERAL \in AnyReason /\ "leaf" \in Kinds
      BY <1>3 DEF AnyReason, Kinds
    <2> QED BY <1>1, <1>3, <1>4, <1>6, <2>1, <2>2, GiveStep
  <1> QED BY <1>b, <1>5, <1>6

LEMMA NothingToDoInv == ASSUME Inv, NEW t \in Task, NothingToDo(t) PROVE Inv'
  <1>1. /\ pc[t] = "locate" /\ Go(t, "idle", NoLocal) /\ OnlyLocks
        /\ release_locks_in_range(t, local[t].held, GENERAL)
    BY DEF NothingToDo, Return
  <1>2. Owned(t) = In(local[t].held)
    BY <1>1, Mine DEF HoldsAt, Holding
  <1>3. Fits("idle", NoLocal, {})
    BY DEF Fits, HoldsAt, Loop, Sizes, Place, Trying, Checking, Holding, Empty, Searching
  <1>4. Owned(t) \ In(local[t].held) = {} /\ GENERAL \in AnyReason /\ "idle" \in Kinds
    BY <1>2 DEF AnyReason, Kinds
  <1> QED BY <1>1, <1>2, <1>3, <1>4, EmptyLocals, GiveStep

\* The place for an edge of src lies in a leaf whose nodes the task owns and finds
\* again, however the other nodes move.
LEMMA LocateCovers ==
    ASSUME Inv, NEW t \in Task, pc[t] = "locate",
           NEW p \in Nat, p > beginning[local[t].src], p <= end(local[t].src),
           NEW needed \in which_locks_in_range(t, find_leaf(p), logN)
    PROVE  {local[t].src} \cup Touched(find_leaf(p), next_leaf(p))
              \subseteq In(local[t].held) \cap In(needed)
  <1> DEFINE s == local[t].src
             h == local[t].held
             q == find_leaf(p)
             c == Containing(q)
  <1>1. /\ TypeOK /\ s \in Node /\ h.x \in Nat /\ h.y \in Nat
        /\ h.x <= s /\ s <= h.y /\ h.y < V
        /\ beginning[h.x] <= find_leaf(beginning[s])
        /\ h.y = last \/ end(h.y) >= next_leaf(end(s))
        /\ Owned(t) = In(h)
    <2>1. /\ local[t] \in Locals /\ TypeOK /\ HoldsAt("locate", local[t], Owned(t))
          /\ Place("locate", local[t])
      BY Mine
    <2>2. h \in Ranges /\ s \in Node
      BY <2>1 DEF Locals
    <2> QED BY <2>1, <2>2 DEF Ranges, HoldsAt, Place, Holding
  <1>2. h.x \in Node /\ h.y \in Node
    BY <1>1 DEF Node
  <1> HIDE DEF s, h
  <1>3. /\ beginning[s] \in Nat /\ end(s) \in Nat /\ beginning[h.x] \in Nat /\ end(h.y) \in Nat
        /\ p > beginning[s] /\ p <= end(s)
    BY <1>1, <1>2, Places DEF s
  <1>4. /\ q \in Nat /\ q <= p /\ p < next_leaf(p) /\ next_leaf(p) = q + logN
        /\ next_leaf(p) \in Nat
    BY LeafBounds
  <1>5. beginning[h.x] <= q
    <2>1. find_leaf(beginning[s]) <= q /\ find_leaf(beginning[s]) \in Nat
      BY <1>3, LeafOrder, LeafBounds
    <2> QED BY <1>1, <1>3, <1>4, <2>1
  <1>6. h.y = last \/ next_leaf(p) <= end(h.y)
    <2>1. find_leaf(p) <= find_leaf(end(s))
      BY <1>3, LeafOrder
    <2>2. next_leaf(p) <= next_leaf(end(s)) /\ next_leaf(end(s)) \in Nat
      BY <1>3, <1>4, <2>1, LeafBounds
    <2> QED BY <1>1, <1>3, <1>4, <2>2
  <1> HIDE DEF q
  <1>7. ASSUME NEW w \in Touched(q, next_leaf(p)) PROVE w \in In(h)
    <2>1. /\ w \in Node /\ beginning[w] \in Nat /\ beginning[w] < next_leaf(p)
          /\ w = last \/ beginning[w + 1] > q
      BY <1>1, Places DEF Touched
    <2>2. ~(w < h.x)
      <3> SUFFICES ASSUME w < h.x PROVE FALSE
        OBVIOUS
      <3>1. w # last /\ w + 1 \in Node /\ w + 1 <= h.x
        BY <1>2, <2>1 DEF Node, last
      <3>2. beginning[w + 1] \in Nat /\ beginning[w + 1] <= beginning[h.x]
        <4>1. CASE w + 1 < h.x
          BY <1>1, <1>2, <3>1, <4>1, Places
        <4>2. CASE w + 1 = h.x
          BY <1>3, <4>2
        <4> QED BY <1>2, <3>1, <4>1, <4>2 DEF Node
      <3> QED BY <1>3, <1>4, <1>5, <2>1, <3>1, <3>2
    <2>3. ~(w > h.y)
      <3> SUFFICES ASSUME w > h.y PROVE FALSE
        OBVIOUS
      <3>1. h.y # last /\ h.y + 1 \in Node /\ h.y + 1 <= w
        BY <1>2, <2>1 DEF Node, last
      <3>2. end(h.y) <= beginning[w]
        <4>1. end(h.y) = beginning[h.y + 1]
          BY <3>1 DEF end
        <4>2. CASE h.y + 1 < w
          BY <1>1, <1>3, <2>1, <3>1, <4>1, <4>2, Places
        <4>3. CASE h.y + 1 = w
          BY <1>3, <4>1, <4>3
        <4> QED BY <1>2, <2>1, <3>1, <4>2, <4>3 DEF Node
      <3> QED BY <1>3, <1>4, <1>6, <2>1, <3>1, <3>2
    <2> QED BY <1>2, <2>1, <2>2, <2>3 DEF In, Node
  <1>8. s \in In(h)
    BY <1>1 DEF In
  <1>9. c \in Node /\ c \in Owned(t) /\ beginning[c] <= q
    <2>1. c \in Touched(q, next_leaf(p))
      BY <1>1, <1>4, ContainingTouched
    <2> QED BY <1>1, <1>4, <1>7, <2>1, ContainingSlot
  <1>10. /\ needed.x \in Node /\ needed.y \in Node /\ needed.x <= needed.y
         /\ \A o \in Owned(t) : c <= o => needed.x <= o
         /\ \A o \in Owned(t) : o + 1 = c /\ beginning[o + 1] = q
               /\ o + 1 \in Owned(t) => needed.x <= o
         /\ \A o \in Owned(t) : beginning[o] <= q + logN => o <= needed.y
    BY <1>1, <1>4, LocksInRange DEF q
  <1> HIDE DEF c
  <1>11. ASSUME NEW w \in Touched(q, next_leaf(p)) PROVE w \in In(needed)
    <2>1. /\ w \in Node /\ beginning[w] \in Nat /\ beginning[w] < next_leaf(p)
          /\ w = last \/ beginning[w + 1] > q
      BY <1>1, Places DEF Touched
    <2>2. w \in Owned(t)
      BY <1>1, <1>7
    <2>3. c <= w
      BY <1>1, <1>4, <2>1, ContainingOrder DEF c
    <2>4. w <= needed.y
      BY <1>4, <1>10, <2>1, <2>2
    <2> QED BY <1>10, <2>1, <2>2, <2>3, <2>4 DEF In
  <1>12. s \in In(needed)
    <2>1. s \in Owned(t)
      BY <1>1, <1>8
    <2>2. s <= needed.y
      BY <1>3, <1>4, <1>10, <2>1
    <2>3. needed.x <= s
      <3>1. CASE c <= s
        BY <1>10, <2>1, <3>1
      <3>2. CASE ~(c <= s)
        <4>1. s # last /\ s + 1 \in Node /\ s + 1 <= c
          BY <1>1, <1>9, <3>2 DEF Node, last
        <4>2. end(s) = beginning[s + 1] /\ beginning[c] \in Nat /\ beginning[s + 1] \in Nat
          BY <1>1, <1>9, <4>1, Places
        <4>3. CASE s + 1 < c
          <5>1. beginning[s + 1] < beginning[c]
            BY <1>1, <1>9, <4>1, <4>3, Places
          <5> QED BY <1>3, <1>4, <1>9, <4>2, <5>1
        <4>4. CASE s + 1 = c
          <5>1. beginning[s + 1] = q
            BY <1>3, <1>4, <1>9, <4>2, <4>4
          <5> QED BY <1>9, <1>10, <2>1, <4>4, <5>1
        <4> QED BY <1>1, <1>9, <4>1, <4>3, <4>4 DEF Node
      <3> QED BY <3>1, <3>2
    <2> QED BY <1>1, <2>2, <2>3 DEF In
  <1> QED BY <1>7, <1>8, <1>11, <1>12 DEF s, h, q

LEMMA LocateInv == ASSUME Inv, NEW t \in Task, Locate(t) PROVE Inv'
  <1> DEFINE k == local[t]
             Kept(needed) == Range(Larger(k.held.x, needed.x), Smaller(k.held.y, needed.y))
  <1>0. pc[t] = "locate" /\ OnlyLocks
    BY DEF Locate
  <1>1. /\ k \in Locals /\ TypeOK /\ k.held \in Ranges /\ k.src \in Node
        /\ k.held.x \in Nat /\ k.held.y \in Nat
        /\ Owned(t) = In(k.held) /\ k.grab_n = 0
    <2>1. k \in Locals /\ TypeOK /\ HoldsAt("locate", k, Owned(t)) /\ Sizes("locate", k)
      BY <1>0, Mine
    <2>2. k.held \in Ranges /\ k.src \in Node
      BY <2>1 DEF Locals
    <2> QED BY <2>1, <2>2 DEF Ranges, HoldsAt, Sizes, Holding
  <1>2. beginning[k.src] \in Nat /\ end(k.src) \in Nat
    BY <1>1, Places
  <1>c. PICK p \in beginning[k.src] + 1 .. end(k.src) - (IF batch = "insert" THEN 0 ELSE 1) :
           \E needed \in which_locks_in_range(t, find_leaf(p), logN) :
              /\ Go(t, "write", [k EXCEPT !.held = Kept(needed), !.loc = p])
              /\ lock' = [v \in Node |-> IF v \in In(k.held) \ In(Kept(needed))
                                         THEN unlock(lock[v], t, GENERAL) ELSE lock[v]]
    BY Zenon DEF Locate, Unlock
  <1>b. p \in Nat /\ p > beginning[k.src] /\ p <= end(k.src)
    BY <1>2
  <1>3. PICK needed \in which_locks_in_range(t, find_leaf(p), logN) :
           /\ Go(t, "write", [k EXCEPT !.held = Kept(needed), !.loc = p])
           /\ lock' = [v \in Node |-> IF v \in In(k.held) \ In(Kept(needed))
                                      THEN unlock(lock[v], t, GENERAL) ELSE lock[v]]
    BY <1>c
  <1> DEFINE kept == Kept(needed)
             l == [k EXCEPT !.held = kept, !.loc = p]
  <1>4. needed.x \in Node /\ needed.y \in Node
    BY <1>1, <1>b, LeafBounds, LocksInRange
  <1>5. kept \in Ranges /\ In(kept) = In(k.held) \cap In(needed)
    BY <1>1, <1>4 DEF Range, Ranges, In, Node, Larger, Smaller
  <1>6. {k.src} \cup Touched(find_leaf(p), next_leaf(p)) \subseteq In(kept)
    BY <1>0, <1>b, <1>3, <1>5, LocateCovers
  <1> HIDE DEF Kept, kept, k
  <1>a. k \in Locals /\ kept \in Ranges /\ p \in Nat
    BY <1>1, <1>5, <1>b
  <1>7. l \in Locals /\ l.held = kept /\ l.loc = p /\ l.src = k.src /\ l.grab_n = k.grab_n
    BY <1>a DEF Locals
  <1> HIDE DEF l
  <1> DEFINE R == [v \in Node |-> GENERAL]
             vs == In(k.held) \ In(kept)
  <1>8. /\ R \in [Node -> AnyReason]
        /\ lock' = [v \in Node |-> IF v \in vs THEN unlock(lock[v], t, R[v]) ELSE lock[v]]
        /\ \A v \in vs : v \in Node => lock[v].owner \in {t, none}
    <2>1. \A v \in vs : lock[v].owner = t
      BY <1>1, Mine
    <2> QED BY <1>3, <2>1 DEF AnyReason, kept
  <1> HIDE DEF R, vs
  <1>9. lock' \in [Node -> Locks] /\ OnlyMine(t) /\ Owned(t)' = Owned(t) \ vs
    BY <1>1, <1>8, GiveBack
  <1>10. Owned(t)' = In(kept)
    BY <1>1, <1>5, <1>9 DEF vs
  <1>11. Fits("write", l, Owned(t)')
    BY <1>1, <1>b, <1>6, <1>7, <1>10 DEF Fits, HoldsAt, Loop, Sizes, Place, Trying, Checking,
       Holding, Empty, Searching
  <1>12. UNCHANGED <<batch, N, beginning>> /\ made' \in [Task -> Nat] /\ stale' \subseteq Task
    BY <1>0, Mine DEF OnlyLocks
  <1>13. Go(t, "write", l)
    BY <1>3 DEF l, kept
  <1> QED BY <1>7, <1>9, <1>11, <1>12, <1>13, PcIsKinds, QuietStep DEF Kinds

---------------------------------------------------------------------------
(* Steps that move nodes *)

\* The sentinels that t moves stay within a .. b - 1; t owns every node with a slot
\* there, the nodes it moves and the ones before them.
MovesWithin(t, a, b) ==
    /\ Touched(a, b) \subseteq Owned(t)
    /\ \A v \in Node : beginning'[v] # beginning[v] =>
          /\ a <= beginning[v] /\ beginning[v] < b
          /\ a <= beginning'[v] /\ beginning'[v] < b
          /\ v \in Owned(t) /\ v - 1 \in Owned(t)

\* No two tasks own a node.
LEMMA Disjoint ==
    ASSUME NEW t \in Task, NEW u \in Task, t # u
    PROVE  Owned(t) \cap Owned(u) = {}
  BY DEF Owned

\* A node of another task neither moves nor changes its end.
LEMMA StaysPut ==
    ASSUME Inv, NEW t \in Task, NEW u \in Task, t # u, NEW a \in Nat, NEW b \in Nat,
           MovesWithin(t, a, b), N' = N, NEW v \in Owned(u)
    PROVE  beginning'[v] = beginning[v] /\ end(v)' = end(v) /\ v \in Node
  <1>1. v \in Node /\ v \notin Owned(t)
    BY Disjoint DEF Owned
  <1>2. beginning'[v] = beginning[v]
    BY <1>1 DEF MovesWithin
  <1>3. CASE v # last
    <2>1. v + 1 \in Node /\ (v + 1) - 1 = v
      BY <1>1, <1>3 DEF Node, last
    <2>2. beginning'[v + 1] = beginning[v + 1]
      BY <1>1, <2>1 DEF MovesWithin
    <2> QED BY <1>1, <1>2, <1>3, <2>2 DEF end
  <1> QED BY <1>1, <1>2, <1>3 DEF end

\* A part of the array that another task has covered keeps its nodes.
LEMMA TouchedStays ==
    ASSUME Inv, NEW t \in Task, NEW u \in Task, t # u, NEW a \in Nat, NEW b \in Nat,
           MovesWithin(t, a, b), (beginning \in Layouts(N))', N' = N,
           NEW lo \in Nat, NEW hi \in Nat, lo < hi, Touched(lo, hi) \subseteq Owned(u)
    PROVE  Touched(lo, hi)' \subseteq Touched(lo, hi)
  <1>0. TypeOK
    BY DEF Inv
  <1>1. b <= lo \/ hi <= a \/ b <= a
    <2> SUFFICES ASSUME lo < b, a < hi, a < b PROVE FALSE
      OBVIOUS
    <2>1. PICK s \in Nat : a <= s /\ s < b /\ lo <= s /\ s < hi
      <3>1. CASE a <= lo
        BY <3>1
      <3>2. CASE lo <= a
        BY <3>2
      <3> QED BY <3>1, <3>2
    <2>2. Containing(s) \in Touched(a, b) /\ Containing(s) \in Touched(lo, hi)
      BY <1>0, <2>1, ContainingTouched
    <2> QED BY <2>2, Disjoint DEF MovesWithin
  <1>2. ASSUME NEW w \in Touched(lo, hi)' PROVE w \in Touched(lo, hi)
    <2>1. /\ w \in Node /\ beginning'[w] < hi
          /\ w = last \/ beginning'[w + 1] > lo
      BY DEF Touched
    <2>2. /\ beginning[w] \in Nat /\ beginning'[w] \in Nat
          /\ w # last => w + 1 \in Node /\ beginning[w + 1] \in Nat /\ beginning'[w + 1] \in Nat
      <3>1. beginning' \in [Node -> 0 .. N - 1] /\ N \in Nat
        BY <1>0 DEF Layouts, TypeOK
      <3> QED BY <1>0, <2>1, <3>1, Places
    <2>3. beginning[w] < hi
      <3>1. CASE beginning'[w] = beginning[w]
        BY <2>1, <3>1
      <3>2. CASE beginning'[w] # beginning[w]
        <4>1. /\ a <= beginning[w] /\ beginning[w] < b
              /\ a <= beginning'[w] /\ beginning'[w] < b
          BY <2>1, <3>2 DEF MovesWithin
        <4> QED BY <1>1, <2>1, <2>2, <4>1
      <3> QED BY <3>1, <3>2
    <2>4. w = last \/ beginning[w + 1] > lo
      <3> SUFFICES ASSUME w # last PROVE beginning[w + 1] > lo
        OBVIOUS
      <3>1. CASE beginning'[w + 1] = beginning[w + 1]
        BY <2>1, <3>1
      <3>2. CASE beginning'[w + 1] # beginning[w + 1]
        <4>1. /\ a <= beginning[w + 1] /\ beginning[w + 1] < b
              /\ a <= beginning'[w + 1] /\ beginning'[w + 1] < b
          BY <2>2, <3>2 DEF MovesWithin
        <4> QED BY <1>1, <2>1, <2>2, <4>1
      <3> QED BY <3>1, <3>2
    <2> QED BY <2>1, <2>3, <2>4 DEF Touched
  <1> QED BY <1>2

\* Moving nodes disturbs no other task.
LEMMA OthersStay ==
    ASSUME Inv, NEW t \in Task, NEW u \in Task, t # u, NEW a \in Nat, NEW b \in Nat,
           MovesWithin(t, a, b), (beginning \in Layouts(N))', N' = N, batch' = batch,
           pc'[u] = pc[u], local'[u] = local[u]
    PROVE  (Sizes(pc[u], local[u]) /\ Place(pc[u], local[u]))'
  <1> SUFFICES ASSUME NEW p, NEW l, p = pc[u], l = local[u]
               PROVE  (Sizes(p, l) /\ Place(p, l))'
    OBVIOUS
  <1>1. /\ l \in Locals /\ HoldsAt(p, l, Owned(u)) /\ Sizes(p, l) /\ Place(p, l) /\ TypeOK
    BY Mine
  <1>2. /\ l.held \in Ranges /\ l.src \in Node /\ l.index \in Nat /\ l.len \in Nat
        /\ l.loc \in Nat
    BY <1>1 DEF Locals
  <1>4. Sizes(p, l)'
    <2>1. Sizes(p, l)
      BY <1>1
    <2> QED BY <2>1 DEF Sizes, Older
  <1> SUFFICES Place(p, l)'
    BY <1>4
  <1>5. CASE p = "locate"
    <2>1. Owned(u) = In(l.held) /\ Place("locate", l)
      BY <1>1, <1>5 DEF HoldsAt, Holding
    <2>2. l.held.x \in Owned(u) /\ l.held.y \in Owned(u) /\ l.src \in Owned(u)
      BY <1>2, <2>1 DEF Place, In, Node, Ranges
    <2>3. /\ beginning'[l.held.x] = beginning[l.held.x]
          /\ beginning'[l.src] = beginning[l.src]
      BY <2>2, StaysPut
    <2>4. \A v \in Owned(u) : (IF v = last THEN N' - 1 ELSE beginning'[v + 1]) = end(v)
      BY StaysPut DEF end
    <2> QED BY <1>5, <2>1, <2>2, <2>3, <2>4 DEF Place, end, find_leaf, next_leaf
  <1>6. CASE p = "write"
    <2>1. Owned(u) = In(l.held) /\ Place("write", l)
      BY <1>1, <1>6 DEF HoldsAt, Holding
    <2>2. l.src \in Owned(u) /\ Touched(find_leaf(l.loc), next_leaf(l.loc)) \subseteq Owned(u)
      BY <2>1 DEF Place
    <2>3. beginning'[l.src] = beginning[l.src]
      BY <2>2, StaysPut
    <2>4. (IF l.src = last THEN N' - 1 ELSE beginning'[l.src + 1]) = end(l.src)
      BY <2>2, StaysPut DEF end
    <2>6. /\ find_leaf(l.loc) \in Nat /\ next_leaf(l.loc) \in Nat
          /\ find_leaf(l.loc) < next_leaf(l.loc)
      BY <1>2, LeafBounds
    <2>5. \A lo, hi \in Nat : lo = find_leaf(l.loc) /\ hi = next_leaf(l.loc)
             => Touched(lo, hi)' \subseteq Touched(lo, hi)
      BY <2>2, <2>6, TouchedStays
    <2>7. Touched(find_leaf(l.loc), next_leaf(l.loc))' \subseteq In(l.held)
      BY <2>1, <2>2, <2>5, <2>6 DEF Touched, find_leaf, next_leaf
    <2> QED BY <1>6, <2>1, <2>3, <2>4, <2>7 DEF Place, end
  <1>7. CASE p = "handBack"
    <2>1. Owned(u) = In(l.held) /\ Place("handBack", l)
      BY <1>1, <1>7 DEF HoldsAt, Holding
    <2>2. PICK o : o \in Touched(l.index, l.index + l.len) /\ o \in Owned(u)
      BY <2>1 DEF Place
    <2>3. /\ beginning'[o] = beginning[o]
          /\ (IF o = last THEN N' - 1 ELSE beginning'[o + 1]) = end(o)
      BY <2>2, StaysPut DEF end
    <2>4. o \in Touched(l.index, l.index + l.len)'
      BY <2>2, <2>3 DEF Touched, end
    <2> QED BY <1>7, <2>1, <2>2, <2>4 DEF Place, In
  <1>8. CASE p \in {"grabbed", "rebalance"}
    <2>1. Owned(u) = In(l.held) /\ Place(p, l) /\ l.len > 0
      BY <1>1, <1>8 DEF HoldsAt, Holding, Sizes
    <2>2. l.index + l.len \in Nat /\ l.index < l.index + l.len
      BY <1>2, <2>1
    <2>3. ASSUME Touched(l.index, l.index + l.len) \subseteq In(l.held)
          PROVE  Touched(l.index, l.index + l.len)' \subseteq In(l.held)
      <3>1. \A lo, hi \in Nat : lo = l.index /\ hi = l.index + l.len
               => Touched(lo, hi)' \subseteq Touched(lo, hi)
        BY <1>2, <2>1, <2>2, <2>3, TouchedStays
      <3> QED BY <1>2, <2>2, <2>3, <3>1 DEF Touched
    <2> QED BY <1>8, <2>1, <2>3 DEF Place, In
  <1>9. CASE p \notin {"locate", "write", "handBack", "grabbed", "rebalance"}
    BY <1>9 DEF Place
  <1> QED BY <1>5, <1>6, <1>7, <1>8, <1>9

\* After the move t still owns a node with a slot at the start of the part.
LEMMA StillTouched ==
    ASSUME Inv, NEW t \in Task, NEW a \in Nat, NEW b \in Nat, a < b,
           MovesWithin(t, a, b), (beginning \in Layouts(N))', N' = N,
           NEW lo \in Nat, NEW hi \in Nat, lo <= a, a < hi
    PROVE  \E o \in Owned(t) : o \in Touched(lo, hi)'
  <1> DEFINE o == Containing(a)
  <1>0. TypeOK
    BY DEF Inv
  <1>1. /\ o \in Node /\ beginning[o] <= a /\ (o = last \/ a < beginning[o + 1])
        /\ o \in Touched(a, b)
    <2>1. o \in Touched(a, b)
      BY <1>0, ContainingTouched
    <2> QED BY <1>0, <2>1, ContainingSlot
  <1> HIDE DEF o
  <1>2. o \in Owned(t)
    BY <1>1 DEF MovesWithin
  <1>3. /\ \A v \in Node : beginning[v] \in Nat /\ beginning'[v] \in Nat
        /\ \A v \in Node : v # last => v + 1 \in Node /\ beginning'[v] < beginning'[v + 1]
    <2>1. /\ beginning' \in [Node -> 0 .. N - 1] /\ N \in Nat
          /\ \A v \in Node \ {0} : beginning'[v - 1] < beginning'[v]
      BY <1>0 DEF Layouts, TypeOK
    <2>2. \A v \in Node : v # last => v + 1 \in Node \ {0} /\ (v + 1) - 1 = v
      BY DEF Node, last
    <2> QED BY <1>0, <2>1, <2>2, Places
  <1>4. CASE beginning'[o] # beginning[o]
    <2>1. /\ a <= beginning[o] /\ a <= beginning'[o] /\ o - 1 \in Owned(t)
      BY <1>1, <1>4 DEF MovesWithin
    <2>2. beginning[o] = a /\ beginning'[o] > a
      BY <1>1, <1>3, <1>4, <2>1
    <2>3. o - 1 \in Node /\ (o - 1) + 1 = o /\ o - 1 # last /\ o - 1 < o
      BY <1>1, <2>1 DEF Owned, Node, last
    <2>4. beginning[o - 1] < a
      BY <1>0, <1>1, <2>2, <2>3, Places
    <2>5. beginning'[o - 1] = beginning[o - 1]
      BY <1>3, <2>3, <2>4 DEF MovesWithin
    <2>6. o - 1 \in Touched(lo, hi)'
      BY <1>3, <2>2, <2>3, <2>4, <2>5 DEF Touched
    <2> QED BY <2>1, <2>6
  <1>5. CASE beginning'[o] = beginning[o] /\ (o = last \/ beginning'[o + 1] > a)
    <2>1. o \in Touched(lo, hi)'
      BY <1>1, <1>3, <1>5 DEF Touched
    <2> QED BY <1>2, <2>1
  <1>6. CASE o # last /\ ~(beginning'[o + 1] > a)
    <2>1. o + 1 \in Node /\ beginning'[o + 1] # beginning[o + 1]
      BY <1>1, <1>3, <1>6
    <2>2. a <= beginning'[o + 1] /\ o + 1 \in Owned(t)
      BY <2>1 DEF MovesWithin
    <2>3. beginning'[o + 1] = a
      BY <1>3, <1>6, <2>1, <2>2
    <2>4. o + 1 = last \/ beginning'[(o + 1) + 1] > a
      BY <1>3, <2>1, <2>3
    <2>5. o + 1 \in Touched(lo, hi)'
      <3>1. o + 1 = last \/ beginning'[(o + 1) + 1] > lo
        BY <1>3, <2>1, <2>4
      <3> QED BY <2>1, <2>3, <3>1 DEF Touched
    <2> QED BY <2>2, <2>5
  <1> QED BY <1>4, <1>5, <1>6

\* insert and remove move only nodes of the leaf, and t owns these.
LEMMA SlidesWithin ==
    ASSUME Inv, NEW t \in Task, pc[t] = "write", beginning' \in Slides(local[t].loc)
    PROVE  /\ local[t].loc \in Nat /\ beginning' \in Layouts(N)
           /\ MovesWithin(t, find_leaf(local[t].loc), next_leaf(local[t].loc))
  <1> DEFINE k == local[t]
             q == find_leaf(k.loc)
             z == next_leaf(k.loc)
  <1>1. /\ TypeOK /\ k.loc \in Nat /\ k.src \in Node
        /\ k.loc > beginning[k.src] /\ k.loc <= end(k.src)
        /\ {k.src} \cup Touched(q, z) \subseteq Owned(t)
    <2>1. k \in Locals /\ TypeOK /\ HoldsAt("write", k, Owned(t)) /\ Place("write", k)
      BY Mine
    <2> QED BY <2>1 DEF HoldsAt, Holding, Place, Locals
  <1> HIDE DEF k
  <1>2. q \in Nat /\ z \in Nat /\ q <= k.loc
    BY <1>1, LeafBounds
  <1>3. beginning' \in Layouts(N) /\ beginning' \in Slides(k.loc)
    BY DEF Slides, k
  <1>4. ASSUME NEW v \in Node, beginning'[v] # beginning[v]
        PROVE  /\ k.loc <= beginning[v] /\ beginning[v] < z
               /\ k.loc <= beginning'[v] /\ beginning'[v] < z
    BY <1>3, <1>4 DEF Slides
  <1> HIDE DEF q, z
  <1>5. ASSUME NEW v \in Node, beginning'[v] # beginning[v]
        PROVE  v \in Owned(t) /\ v - 1 \in Owned(t)
    <2>1. k.loc <= beginning[v] /\ beginning[v] < z /\ beginning[v] \in Nat
          /\ beginning[k.src] \in Nat
      BY <1>1, <1>4, <1>5, Places
    <2>2. v \in Touched(q, z)
      <3>1. v = last \/ (beginning[v + 1] > beginning[v] /\ beginning[v + 1] \in Nat)
        <4>1. v # last => v + 1 \in Node /\ v < v + 1
          BY DEF Node, last
        <4> QED BY <1>1, <4>1, Places
      <3> QED BY <1>1, <1>2, <2>1, <3>1 DEF Touched
    <2>3. k.src < v
      <3> SUFFICES ASSUME ~(k.src < v) PROVE FALSE
        OBVIOUS
      <3>1. beginning[v] <= beginning[k.src]
        <4>1. CASE v = k.src
          BY <2>1, <4>1
        <4>2. CASE v < k.src
          BY <1>1, <2>1, <4>2, Places
        <4> QED BY <1>1, <4>1, <4>2 DEF Node
      <3> QED BY <1>1, <2>1, <3>1
    <2>4. v - 1 \in Node /\ (v - 1) + 1 = v /\ v - 1 # last /\ k.src <= v - 1 /\ v - 1 < v
      BY <1>1, <2>3 DEF Node, last
    <2>5. v - 1 \in Owned(t)
      <3>1. CASE v - 1 = k.src
        BY <1>1, <3>1
      <3>2. CASE k.src < v - 1
        <4>1. k.src # last /\ k.src + 1 \in Node /\ k.src + 1 <= v - 1
          BY <1>1, <2>4, <3>2 DEF Node, last
        <4>2. end(k.src) = beginning[k.src + 1] /\ beginning[k.src + 1] \in Nat
              /\ beginning[v - 1] \in Nat /\ beginning[v - 1] < beginning[v]
          BY <1>1, <2>4, <4>1, Places
        <4>3. beginning[k.src + 1] <= beginning[v - 1]
          <5>1. CASE k.src + 1 < v - 1
            BY <1>1, <2>4, <4>1, <4>2, <5>1, Places
          <5>2. CASE k.src + 1 = v - 1
            BY <4>2, <5>2
          <5> QED BY <2>4, <4>1, <5>1, <5>2 DEF Node
        <4>4. v - 1 \in Touched(q, z)
          BY <1>1, <1>2, <2>1, <2>4, <4>2, <4>3 DEF Touched
        <4> QED BY <1>1, <4>4
      <3> QED BY <1>1, <2>4, <3>1, <3>2 DEF Node
    <2> QED BY <1>1, <2>2, <2>5
  <1>6. MovesWithin(t, q, z)
    <2>1. ASSUME NEW v \in Node, beginning'[v] # beginning[v]
          PROVE  q <= beginning[v] /\ q <= beginning'[v] /\ beginning[v] < z /\ beginning'[v] < z
      <3>1. beginning[v] \in Nat /\ beginning'[v] \in Nat
        BY <1>1, <1>3, Places DEF Layouts, TypeOK
      <3> QED BY <1>1, <1>2, <1>4, <2>1, <3>1
    <2> QED BY <1>1, <1>5, <2>1 DEF MovesWithin
  <1> QED BY <1>1, <1>3, <1>6 DEF k, q, z

\* redistribute moves only nodes of the part, and t owns these.
LEMMA SpreadsWithin ==
    ASSUME Inv, NEW t \in Task, pc[t] = "rebalance",
           beginning' \in Spreads(local[t].index, local[t].len)
    PROVE  /\ local[t].index \in Nat /\ local[t].len \in Nat /\ beginning' \in Layouts(N)
           /\ MovesWithin(t, local[t].index, local[t].index + local[t].len)
  <1> DEFINE k == local[t]
             q == k.index
             z == k.index + k.len
  <1>1. TypeOK /\ q \in Nat /\ k.len \in Nat /\ Touched(q, z) \subseteq Owned(t)
    <2>1. k \in Locals /\ TypeOK /\ HoldsAt("rebalance", k, Owned(t)) /\ Place("rebalance", k)
      BY Mine
    <2> QED BY <2>1 DEF HoldsAt, Holding, Place, Locals
  <1>2. z \in Nat
    BY <1>1
  <1>3. beginning' \in Layouts(N)
    BY DEF Spreads
  <1>4. ASSUME NEW v \in Node, beginning'[v] # beginning[v]
        PROVE  /\ q < beginning[v] /\ beginning[v] < z
               /\ q <= beginning'[v] /\ beginning'[v] < z
    BY <1>4 DEF Spreads
  <1> HIDE DEF q, z, k
  <1>5. ASSUME NEW v \in Node, beginning'[v] # beginning[v]
        PROVE  v \in Owned(t) /\ v - 1 \in Owned(t)
    <2>1. q < beginning[v] /\ beginning[v] < z /\ beginning[v] \in Nat
      BY <1>1, <1>4, <1>5, Places
    <2>2. v \in Touched(q, z)
      <3>1. v = last \/ (beginning[v + 1] > beginning[v] /\ beginning[v + 1] \in Nat)
        <4>1. v # last => v + 1 \in Node /\ v < v + 1
          BY DEF Node, last
        <4> QED BY <1>1, <4>1, Places
      <3> QED BY <1>1, <1>2, <2>1, <3>1 DEF Touched
    <2>3. v # 0
      BY <1>1, <2>1, Places
    <2>4. v - 1 \in Node /\ (v - 1) + 1 = v /\ v - 1 # last /\ v - 1 < v
      BY <2>3 DEF Node, last
    <2>5. beginning[v - 1] < beginning[v] /\ beginning[v - 1] \in Nat
      BY <1>1, <2>4, Places
    <2>6. v - 1 \in Touched(q, z)
      BY <1>2, <2>1, <2>4, <2>5 DEF Touched
    <2> QED BY <1>1, <2>2, <2>6
  <1>6. MovesWithin(t, q, z)
    <2>1. ASSUME NEW v \in Node, beginning'[v] # beginning[v]
          PROVE  q <= beginning[v] /\ q <= beginning'[v] /\ beginning[v] < z /\ beginning'[v] < z
      <3>1. beginning[v] \in Nat
        BY <1>1, Places
      <3> QED BY <1>1, <1>4, <2>1, <3>1
    <2> QED BY <1>1, <1>5, <2>1 DEF MovesWithin
  <1> QED BY <1>1, <1>3, <1>6 DEF k, q, z

\* A step that moves nodes: only t itself is left to look at.
LEMMA MoveStep ==
    ASSUME Inv, NEW t \in Task, NEW to \in Kinds, NEW l \in Locals, Go(t, to, l),
           NEW a \in Nat, NEW b \in Nat, MovesWithin(t, a, b),
           beginning' \in Layouts(N), UNCHANGED <<batch, N, made>>, Overtake(t),
           lock' \in [Node -> Locks], OnlyMine(t), Fits(to, l, Owned(t))'
    PROVE  Inv'
  <1>1. (beginning \in Layouts(N))' /\ N' \in Nat \ {0}
    BY DEF Layouts, Inv, TypeOK
  <1>2. ASSUME NEW u \in Task \ {t} PROVE (Sizes(pc[u], local[u]) /\ Place(pc[u], local[u]))'
    <2>1. pc'[u] = pc[u] /\ local'[u] = local[u]
      BY DEF Go, Inv, TypeOK
    <2> QED BY <1>1, <2>1, OthersStay
  <1>3. made' \in [Task -> Nat] /\ stale' \subseteq Task
    BY Mine DEF Overtake
  <1> QED BY <1>1, <1>2, <1>3, PcIsKinds, Step

LEMMA WriteInv == ASSUME Inv, NEW t \in Task, Write(t) PROVE Inv'
  <1> DEFINE k == local[t]
             a == find_leaf(k.loc)
             b == next_leaf(k.loc)
  <1>1. /\ pc[t] = "write" /\ beginning' \in Slides(k.loc) /\ Overtake(t)
        /\ UNCHANGED <<batch, N, made>> /\ lock' = lock
    BY DEF Write
  <1>2. k.loc \in Nat /\ beginning' \in Layouts(N) /\ MovesWithin(t, a, b)
    BY <1>1, SlidesWithin
  <1>3. a \in Nat /\ b \in Nat /\ a < b
    BY <1>2, LeafBounds
  <1>4. k \in Locals /\ TypeOK /\ Owned(t) = In(k.held) /\ k.grab_n = 0 /\ N \in Nat
    BY <1>1, Mine DEF HoldsAt, Holding, Sizes, TypeOK
  <1>5. PICK n \in {logN, 2 * logN} :
           Go(t, "handBack", [k EXCEPT !.loc = 0, !.len = n, !.index = find_node(a, n), !.orig_n = N])
    BY DEF Write
  <1>6. /\ n \in Nat \ {0} /\ find_node(a, n) \in Nat
        /\ find_node(a, n) <= a /\ a < find_node(a, n) + n
    <2>1. n \in Nat \ {0}
      OBVIOUS
    <2> QED BY <1>3, <2>1, PartBounds
  <1>7. PICK l : l = [k EXCEPT !.loc = 0, !.len = n, !.index = find_node(a, n), !.orig_n = N]
    OBVIOUS
  <1>8. PICK lo : lo = find_node(a, n)
    OBVIOUS
  <1>g. Go(t, "handBack", l)
    BY <1>5, <1>7
  <1>h. l = [k EXCEPT !.loc = 0, !.len = n, !.index = lo, !.orig_n = N]
    BY <1>7, <1>8
  <1>i. lo \in Nat /\ lo <= a /\ a < lo + n /\ n \in Nat \ {0}
    BY <1>6, <1>8
  <1>j. PICK h : h = k.held
    OBVIOUS
  <1> HIDE DEF k, a, b
  <1>9. /\ l \in Locals /\ l.len = n /\ l.index = lo /\ l.orig_n = N /\ l.held = k.held
        /\ l.grab_n = k.grab_n
    BY <1>4, <1>h, <1>i DEF Locals
  <1>10. lock' \in [Node -> Locks] /\ OnlyMine(t) /\ Owned(t)' = Owned(t)
    BY <1>1, Mine DEF OnlyMine, Owned
  <1>11. (beginning \in Layouts(N))' /\ N' = N /\ batch' = batch
    BY <1>1, <1>2 DEF Layouts
  <1>12. PICK o \in Owned(t) : o \in Touched(lo, lo + n)'
    <2>1. lo + n \in Nat
      BY <1>i
    <2>2. \A hi \in Nat : hi = lo + n => \E o \in Owned(t) : o \in Touched(lo, hi)'
      BY <1>2, <1>3, <1>i, <1>11, StillTouched
    <2> QED BY <2>1, <2>2
  <1>13. Place("handBack", l)'
    <2>1. o \in In(l.held)
      BY <1>4, <1>9
    <2> QED BY <1>9, <1>12, <2>1 DEF Place, In
  <1>14. Sizes("handBack", l)'
    BY <1>4, <1>9, <1>11, <1>i DEF Sizes, Older, Searching
  <1>15. HoldsAt("handBack", l, Owned(t))' /\ Loop("handBack", l)'
    BY <1>4, <1>9, <1>10 DEF HoldsAt, Loop, Trying, Checking, Holding, Empty, Searching, In
  <1>16. Fits("handBack", l, Owned(t))'
    BY <1>13, <1>14, <1>15 DEF Fits
  <1> QED BY <1>1, <1>2, <1>3, <1>9, <1>10, <1>16, <1>g, MoveStep DEF Kinds

\* The task gives back the locks it holds.
LEMMA LeaveLocks ==
    ASSUME Inv, NEW t \in Task, pc[t] \in {"grabbed", "rebalance"}, LeaveTo(t)
    PROVE  /\ lock' \in [Node -> Locks] /\ OnlyMine(t) /\ Owned(t)' = {}
           /\ \E l \in Locals :
                 /\ Go(t, "cleanUp", l)
                 /\ l.held = local[t].held /\ l.span = local[t].span /\ l.i = local[t].span.x
  <1> DEFINE k == local[t]
             l == [NoLocal EXCEPT !.held = k.held, !.span = k.span, !.i = k.span.x]
  <1>1. Go(t, "cleanUp", l) /\ release_locks_in_range(t, k.held, GENERAL)
    BY DEF LeaveTo
  <1>2. k \in Locals /\ TypeOK /\ HoldsAt(pc[t], k, Owned(t))
    BY Mine
  <1>3. k.held \in Ranges /\ k.span \in Ranges
    BY <1>2 DEF Locals
  <1>4. k.span.x \in Nat
    BY <1>3 DEF Ranges
  <1>5. Owned(t) = In(k.held)
    BY <1>2 DEF HoldsAt, Holding
  <1> HIDE DEF k
  <1>6. NoLocal \in Locals
    BY EmptyLocals
  <1>7. l \in Locals /\ l.held = k.held /\ l.span = k.span /\ l.i = k.span.x
    BY <1>3, <1>4, <1>6 DEF Locals
  <1>8. \A v \in In(k.held) : lock[v].owner \in {t, none}
    BY <1>5 DEF Owned
  <1>9. lock' \in [Node -> Locks] /\ OnlyMine(t) /\ Owned(t)' = Owned(t) \ In(k.held)
    <2>1. GENERAL \in AnyReason
      BY DEF AnyReason
    <2> QED BY <1>1, <1>2, <1>8, <2>1, GiveBackRange
  <1> HIDE DEF l
  <1> QED BY <1>1, <1>5, <1>7, <1>9 DEF k

\* At the clean-up nothing is held any more.
LEMMA CleanFits == \A l : Fits("cleanUp", l, {}) /\ Fits("idle", l, {})
  BY DEF Fits, HoldsAt, Loop, Sizes, Place, Trying, Checking, Holding, Empty, Searching

LEMMA RebalanceInv == ASSUME Inv, NEW t \in Task, Rebalance(t) PROVE Inv'
  <1> DEFINE k == local[t]
  <1>1. /\ pc[t] = "rebalance" /\ beginning' \in Spreads(k.index, k.len) /\ LeaveTo(t)
        /\ Overtake(t) /\ UNCHANGED <<batch, N, made>>
    BY DEF Rebalance
  <1>2. /\ k.index \in Nat /\ k.len \in Nat /\ beginning' \in Layouts(N)
        /\ MovesWithin(t, k.index, k.index + k.len)
    BY <1>1, SpreadsWithin
  <1>3. lock' \in [Node -> Locks] /\ OnlyMine(t) /\ Owned(t)' = {}
    BY <1>1, LeaveLocks
  <1>4. PICK l \in Locals : Go(t, "cleanUp", l)
    BY <1>1, LeaveLocks
  <1> HIDE DEF k
  <1>5. Fits("cleanUp", l, Owned(t))'
    BY <1>3 DEF Fits, HoldsAt, Loop, Sizes, Place, Trying, Checking, Holding, Empty, Searching
  <1>6. k.index + k.len \in Nat /\ "cleanUp" \in Kinds
    BY <1>2 DEF Kinds
  <1> QED BY <1>1, <1>2, <1>3, <1>4, <1>5, <1>6, MoveStep

---------------------------------------------------------------------------
(* The search for a larger part *)

\* The locks HandBack gives back are the ones the task holds: the range it looks
\* up and the range it holds have a node of the written leaf in common.
LEMMA HandBackSet ==
    ASSUME Inv, NEW t \in Task, pc[t] = "handBack",
           NEW r \in which_locks_in_range(t, local[t].index, local[t].len)
    PROVE  LET h == local[t].held IN
           /\ r \in Ranges /\ r.x \in Node /\ r.y \in Node /\ Owned(t) = In(h)
           /\ {v \in Node : h.x <= v /\ v < r.x} \cup (In(h) \cap In(r))
                 \cup {v \in Node : r.y < v /\ v <= h.y} = In(h)
  <1> DEFINE k == local[t]
             h == k.held
  <1>1. /\ k \in Locals /\ TypeOK /\ HoldsAt("handBack", k, Owned(t))
        /\ Place("handBack", k)
    BY Mine
  <1>2. h \in Ranges /\ k.index \in Nat /\ k.len \in Nat
    BY <1>1 DEF Locals
  <1>3. h.x \in Nat /\ h.y \in Nat /\ Owned(t) = In(h)
    BY <1>1, <1>2 DEF Ranges, HoldsAt, Holding
  <1>4. PICK o : o \in Touched(k.index, k.index + k.len) /\ o \in In(h)
    BY <1>1 DEF Place
  <1>5. /\ o \in Node /\ beginning[o] < k.index + k.len
        /\ o = last \/ beginning[o + 1] > k.index
    BY <1>4 DEF Touched
  <1>6. Containing(k.index) <= o
    BY <1>1, <1>2, <1>5, ContainingOrder
  <1>7. beginning[o] <= k.index + k.len
    BY <1>1, <1>2, <1>5, Places
  <1>8. /\ r.x \in Node /\ r.y \in Node /\ r \in Ranges
        /\ \A w \in Owned(t) : Containing(k.index) <= w => r.x <= w
        /\ \A w \in Owned(t) : beginning[w] <= k.index + k.len => w <= r.y
    BY <1>1, <1>2, LocksInRange
  <1> HIDE DEF k, h
  <1>9. r.x <= o /\ o <= r.y
    BY <1>3, <1>4, <1>6, <1>7, <1>8
  <1>10. o \in Node /\ h.x <= o /\ o <= h.y
    BY <1>4 DEF In
  <1>11. {v \in Node : h.x <= v /\ v < r.x} \cup (In(h) \cap In(r))
            \cup {v \in Node : r.y < v /\ v <= h.y} = In(h)
    <2>1. ASSUME NEW v \in Node, h.x <= v, v < r.x PROVE v <= h.y
      BY <1>3, <1>8, <1>9, <1>10, <2>1 DEF Node
    <2>2. ASSUME NEW v \in Node, v <= h.y, r.y < v PROVE h.x <= v
      BY <1>3, <1>8, <1>9, <1>10, <2>2 DEF Node
    <2>3. ASSUME NEW v \in Node, h.x <= v, v <= h.y
          PROVE  v < r.x \/ r.y < v \/ (r.x <= v /\ v <= r.y)
      BY <1>8 DEF Node
    <2> QED BY <2>1, <2>2, <2>3 DEF In
  <1> QED BY <1>3, <1>8, <1>11 DEF k, h

\* What HandBack does: every lock is given back, and those for the rebalancing
\* with that reason.
LEMMA HandBackDoes ==
    ASSUME Inv, NEW t \in Task, HandBack(t)
    PROVE  \E r \in Ranges, l \in Locals :
             /\ Go(t, "range", l) /\ l.held = NoRange
             /\ l.span = Range(Larger(r.x, local[t].held.x), Larger(r.y, local[t].held.y))
             /\ l.grab_n = local[t].grab_n /\ l.orig_n = local[t].orig_n
             /\ l.len = local[t].len
             /\ lock' = [v \in Node |-> IF v \in In(local[t].held)
                                        THEN unlock(lock[v], t, IF v \in In(r) THEN REBALANCE ELSE GENERAL)
                                        ELSE lock[v]]
  <1> DEFINE k == local[t]
             h == k.held
             Span(r) == Range(Larger(r.x, h.x), Larger(r.y, h.y))
             vs(r) == {v \in Node : h.x <= v /\ v < r.x} \cup (In(h) \cap In(r))
                         \cup {v \in Node : r.y < v /\ v <= h.y}
  <1>1. pc[t] = "handBack"
    BY DEF HandBack
  <1>2. PICK r \in which_locks_in_range(t, k.index, k.len) :
           /\ Go(t, "range", [k EXCEPT !.held = NoRange, !.span = Span(r)])
           /\ lock' = [v \in Node |-> IF v \in vs(r)
                                      THEN unlock(lock[v], t, IF v \in In(r) THEN REBALANCE ELSE GENERAL)
                                      ELSE lock[v]]
    BY Zenon DEF HandBack, Unlock
  <1>3. r \in Ranges /\ vs(r) = In(h)
    BY <1>1, HandBackSet
  <1>4. k \in Locals
    BY Mine
  <1>5. h \in Ranges
    BY <1>4 DEF Locals
  <1>6. Span(r) \in Ranges /\ NoRange \in Ranges
    BY <1>3, <1>5, EmptyLocals DEF Ranges, Range, Larger
  <1> HIDE DEF Span, vs, k
  <1> DEFINE l == [k EXCEPT !.held = NoRange, !.span = Span(r)]
  <1>7. /\ l \in Locals /\ l.held = NoRange /\ l.span = Span(r) /\ l.grab_n = k.grab_n
        /\ l.orig_n = k.orig_n /\ l.len = k.len
    BY <1>4, <1>6 DEF Locals
  <1>8. lock' = [v \in Node |-> IF v \in In(h)
                                THEN unlock(lock[v], t, IF v \in In(r) THEN REBALANCE ELSE GENERAL)
                                ELSE lock[v]]
    BY <1>2, <1>3
  <1>9. Go(t, "range", l)
    BY <1>2
  <1> HIDE DEF l
  <1> QED BY <1>3, <1>7, <1>8, <1>9 DEF k, Span

LEMMA HandBackInv == ASSUME Inv, NEW t \in Task, HandBack(t) PROVE Inv'
  <1> DEFINE k == local[t]
  <1>1. pc[t] = "handBack" /\ OnlyLocks
    BY DEF HandBack
  <1>2. PICK r \in Ranges, l \in Locals :
             /\ Go(t, "range", l) /\ l.held = NoRange
             /\ l.grab_n = k.grab_n /\ l.orig_n = k.orig_n /\ l.len = k.len
             /\ lock' = [v \in Node |-> IF v \in In(k.held)
                                        THEN unlock(lock[v], t, IF v \in In(r) THEN REBALANCE ELSE GENERAL)
                                        ELSE lock[v]]
    BY HandBackDoes
  <1>3. TypeOK /\ Owned(t) = In(k.held) /\ Sizes("handBack", k)
    BY <1>1, Mine DEF HoldsAt, Holding
  <1> DEFINE R == [v \in Node |-> IF v \in In(r) THEN REBALANCE ELSE GENERAL]
             vs == In(k.held)
  <1>4. /\ R \in [Node -> AnyReason]
        /\ lock' = [v \in Node |-> IF v \in vs THEN unlock(lock[v], t, R[v]) ELSE lock[v]]
        /\ \A v \in vs : v \in Node => lock[v].owner \in {t, none}
    <2>1. \A v \in vs : lock[v].owner = t
      BY <1>3, Mine
    <2>2. R \in [Node -> AnyReason] /\ \A v \in Node : R[v] = IF v \in In(r) THEN REBALANCE ELSE GENERAL
      BY DEF AnyReason
    <2> HIDE DEF R, vs
    <2>3. lock' = [v \in Node |-> IF v \in vs THEN unlock(lock[v], t, R[v]) ELSE lock[v]]
      BY <1>2, <2>2 DEF vs
    <2> QED BY <2>1, <2>2, <2>3
  <1> HIDE DEF R, vs
  <1>5. lock' \in [Node -> Locks] /\ OnlyMine(t) /\ Owned(t)' = Owned(t) \ vs
    BY <1>3, <1>4, GiveBack
  <1>6. Owned(t)' = {}
    BY <1>3, <1>5 DEF vs
  <1> HIDE DEF k
  <1>7. Fits("range", l, Owned(t)')
    BY <1>2, <1>3, <1>6, EmptyLocals DEF Fits, HoldsAt, Loop, Sizes, Place, Trying, Checking,
       Holding, Empty, Searching
  <1>8. UNCHANGED <<batch, N, beginning>> /\ made' \in [Task -> Nat] /\ stale' \subseteq Task
    BY <1>1, Mine DEF OnlyLocks
  <1> QED BY <1>2, <1>5, <1>7, <1>8, PcIsKinds, QuietStep DEF Kinds

LEMMA RangeLocksInv == ASSUME Inv, NEW t \in Task, RangeLocks(t) PROVE Inv'
  <1> DEFINE k == local[t]
  <1>1. pc[t] = "range" /\ OnlyLocks /\ UNCHANGED lock
    BY DEF RangeLocks
  <1>2. /\ k \in Locals /\ TypeOK /\ Owned(t) = {} /\ Sizes("range", k) /\ In(k.held) = {}
        /\ N \in Nat \ {0}
    BY <1>1, Mine DEF HoldsAt, Empty, Loop, Searching, TypeOK
  <1>3. k.index \in Nat /\ k.len \in Nat /\ k.orig_n \in Nat /\ k.grab_n \in Nat
    BY <1>2 DEF Locals
  <1>4. ASSUME k.grab_n \notin {0, N}, Go(t, "grabbed", [k EXCEPT !.grab_n = 0]) PROVE Inv'
    <2> DEFINE l == [k EXCEPT !.grab_n = 0]
    <2> HIDE DEF k
    <2>1. /\ l \in Locals /\ l.grab_n = 0 /\ l.orig_n = k.orig_n /\ l.len = k.len
          /\ l.held = k.held
      BY <1>2 DEF Locals
    <2> HIDE DEF l
    <2>2. k.orig_n # N /\ Older(k.orig_n, N) /\ k.len > 0
      BY <1>2, <1>3, <1>4 DEF Sizes, Older, Searching
    <2>3. Fits("grabbed", l, Owned(t))
      BY <1>2, <2>1, <2>2 DEF Fits, HoldsAt, Loop, Sizes, Place, Trying, Checking, Holding,
         Empty, Searching
    <2> QED BY <1>1, <1>4, <2>1, <2>3, SameLocks DEF Kinds, l
  <1>5. ASSUME NEW r \in which_locks_in_range(t, k.index, k.len), k.grab_n \in {0, N},
               Go(t, "rangeTry", [k EXCEPT !.ends = r, !.i = r.x, !.grab_n = N])
        PROVE  Inv'
    <2> DEFINE l == [k EXCEPT !.ends = r, !.i = r.x, !.grab_n = N]
    <2>1. r.x \in Node /\ r.y \in Node /\ r.x <= r.y /\ r \in Ranges
      BY <1>2, <1>3, LocksInRange
    <2>2. r.x \in Nat
      BY <2>1 DEF Node
    <2> HIDE DEF k
    <2>3. /\ l \in Locals /\ l.grab_n = N /\ l.orig_n = k.orig_n /\ l.len = k.len
          /\ l.held = k.held /\ l.ends = r /\ l.i = r.x
      BY <1>2, <2>1, <2>2 DEF Locals
    <2> HIDE DEF l
    <2>4. Fits("rangeTry", l, Owned(t))
      <3>1. Sizes("rangeTry", l) /\ Place("rangeTry", l)
        BY <1>2, <2>3 DEF Sizes, Older, Searching, Place
      <3>2. HoldsAt("rangeTry", l, Owned(t)) /\ Loop("rangeTry", l)
        BY <1>2, <2>1, <2>2, <2>3 DEF HoldsAt, Loop, Trying, Checking, Holding, Empty,
           Searching, Node
      <3> QED BY <3>1, <3>2 DEF Fits
    <2> QED BY <1>1, <1>5, <2>3, <2>4, SameLocks DEF Kinds, l
  <1> QED BY <1>4, <1>5 DEF RangeLocks

\* A range that still covers a part has every node of the part.
LEMMA CoversTouched ==
    ASSUME TypeOK, NEW r \in Ranges, r.x <= r.y, r.y < V, NEW p \in Nat, NEW n \in Nat,
           StillCovers(r, p, n)
    PROVE  Touched(p, p + n) \subseteq In(r)
  <1>1. r.x \in Node /\ r.y \in Node
    BY DEF Ranges, Node
  <1>2. ASSUME NEW w \in Touched(p, p + n) PROVE w \in In(r)
    <2>1. /\ w \in Node /\ beginning[w] \in Nat /\ beginning[w] < p + n
          /\ w = last \/ beginning[w + 1] > p
      BY Places DEF Touched
    <2>2. ~(w < r.x)
      <3> SUFFICES ASSUME w < r.x PROVE FALSE
        OBVIOUS
      <3>1. w # last /\ w + 1 \in Node /\ w + 1 <= r.x
        BY <1>1, <2>1 DEF Node, last
      <3>2. beginning[w + 1] \in Nat /\ beginning[r.x] \in Nat /\ beginning[r.x] <= p
        BY <1>1, <3>1, Places DEF StillCovers
      <3>3. beginning[w + 1] <= beginning[r.x]
        <4>1. CASE w + 1 < r.x
          BY <1>1, <3>1, <3>2, <4>1, Places
        <4>2. CASE w + 1 = r.x
          BY <3>2, <4>2
        <4> QED BY <1>1, <3>1, <4>1, <4>2 DEF Node
      <3> QED BY <2>1, <3>1, <3>2, <3>3
    <2>3. ~(w > r.y)
      <3> SUFFICES ASSUME w > r.y PROVE FALSE
        OBVIOUS
      <3>1. r.y # last /\ r.y + 1 \in Node /\ r.y + 1 <= w
        BY <1>1, <2>1 DEF Node, last
      <3>2. /\ end(r.y) = beginning[r.y + 1] /\ beginning[r.y + 1] \in Nat
            /\ p + n <= end(r.y)
        BY <1>1, <3>1, Places DEF StillCovers
      <3>3. beginning[r.y + 1] <= beginning[w]
        <4>1. CASE r.y + 1 < w
          BY <2>1, <3>1, <3>2, <4>1, Places
        <4>2. CASE r.y + 1 = w
          BY <3>2, <4>2
        <4> QED BY <2>1, <3>1, <4>1, <4>2 DEF Node
      <3> QED BY <2>1, <3>2, <3>3
    <2> QED BY <1>1, <2>1, <2>2, <2>3 DEF In, Node
  <1> QED BY <1>2

LEMMA RangeCheckInv == ASSUME Inv, NEW t \in Task, RangeCheck(t) PROVE Inv'
  <1> DEFINE k == local[t]
             done == [k EXCEPT !.i = 0, !.ends = NoRange]
             kept == [done EXCEPT !.held = k.ends, !.span = Grown(k.span, k.ends), !.grab_n = 0]
  <1>1. pc[t] = "rangeCheck" /\ OnlyLocks
    BY DEF RangeCheck
  <1>2. /\ k \in Locals /\ TypeOK /\ HoldsAt("rangeCheck", k, Owned(t))
        /\ Loop("rangeCheck", k) /\ Sizes("rangeCheck", k)
    BY <1>1, Mine
  <1>3. k.ends \in Ranges /\ k.span \in Ranges /\ k.index \in Nat /\ k.len \in Nat
    BY <1>2 DEF Locals
  <1>4. /\ k.ends.x \in Nat /\ k.ends.y \in Nat /\ k.ends.x <= k.ends.y /\ k.ends.y < V
        /\ Owned(t) = k.ends.x .. k.ends.y
    <2>1. k.ends.x \in Nat /\ k.ends.y \in Nat
      BY <1>3 DEF Ranges
    <2> QED BY <1>2, <2>1 DEF Loop, HoldsAt, Checking
  <1>5. In(k.ends) = Owned(t)
    BY <1>4 DEF In, Node
  <1>6. Grown(k.span, k.ends) \in Ranges /\ NoRange \in Ranges
    BY <1>3, EmptyLocals DEF Grown, Range, Ranges, Smaller, Larger
  <1>b. \/ StillCovers(k.ends, k.index, k.len) /\ Go(t, "grabbed", kept) /\ UNCHANGED lock
        \/ Go(t, "range", done) /\ release_locks_in_range(t, k.ends, SAME)
    BY DEF RangeCheck
  <1> HIDE DEF k
  <1>c. /\ done \in Locals /\ done.grab_n = k.grab_n /\ done.orig_n = k.orig_n
        /\ done.len = k.len /\ done.index = k.index /\ done.held = k.held
    BY <1>2, <1>6 DEF Locals
  <1> HIDE DEF done
  <1>d. /\ kept \in Locals /\ kept.grab_n = 0 /\ kept.held = k.ends /\ kept.len = done.len
        /\ kept.orig_n = done.orig_n /\ kept.index = done.index
    BY <1>3, <1>6, <1>c DEF Locals
  <1> HIDE DEF kept
  <1>7. CASE StillCovers(k.ends, k.index, k.len) /\ Go(t, "grabbed", kept) /\ UNCHANGED lock
    <2>1. Touched(k.index, k.index + k.len) \subseteq In(k.ends)
      BY <1>2, <1>3, <1>4, <1>7, CoversTouched
    <2>2. Fits("grabbed", kept, Owned(t))
      BY <1>2, <1>5, <1>c, <1>d, <2>1 DEF Fits, HoldsAt, Loop, Sizes, Place, Trying, Checking,
         Holding, Empty, Searching
    <2> QED BY <1>1, <1>d, <1>7, <2>2, SameLocks DEF Kinds
  <1>8. CASE Go(t, "range", done) /\ release_locks_in_range(t, k.ends, SAME)
    <2>1. Fits("range", done, {})
      BY <1>2, <1>c DEF Fits, HoldsAt, Loop, Sizes, Place, Trying, Checking, Holding,
         Empty, Searching
    <2>2. Owned(t) \ In(k.ends) = {} /\ SAME \in AnyReason /\ "range" \in Kinds
      BY <1>5 DEF AnyReason, Kinds
    <2> QED BY <1>1, <1>5, <1>c, <1>8, <2>1, <2>2, GiveStep
  <1> QED BY <1>b, <1>7, <1>8

LEMMA GiveUpInv == ASSUME Inv, NEW t \in Task, GiveUp(t) PROVE Inv'
  <1>1. pc[t] = "grabbed" /\ LeaveTo(t) /\ OnlyLocks
    BY DEF GiveUp
  <1>2. lock' \in [Node -> Locks] /\ OnlyMine(t) /\ Owned(t)' = {}
    BY <1>1, LeaveLocks
  <1>3. PICK l \in Locals : Go(t, "cleanUp", l)
    BY <1>1, LeaveLocks
  <1>4. Fits("cleanUp", l, Owned(t)')
    BY <1>2, CleanFits
  <1>5. UNCHANGED <<batch, N, beginning>> /\ made' \in [Task -> Nat] /\ stale' \subseteq Task
    BY <1>1, Mine DEF OnlyLocks
  <1> QED BY <1>2, <1>3, <1>4, <1>5, PcIsKinds, QuietStep DEF Kinds

LEMMA GoUpInv == ASSUME Inv, NEW t \in Task, GoUp(t) PROVE Inv'
  <1> DEFINE k == local[t]
             n == 2 * k.len
             l == [k EXCEPT !.len = n, !.index = find_node(k.index, n), !.held = NoRange]
  <1>1. /\ pc[t] = "grabbed" /\ OnlyLocks /\ Go(t, "range", l)
        /\ release_locks_in_range(t, k.held, REBALANCE)
    BY DEF GoUp
  <1>2. k \in Locals /\ Owned(t) = In(k.held) /\ Sizes("grabbed", k)
    BY <1>1, Mine DEF HoldsAt, Holding
  <1>3. k.index \in Nat /\ k.len \in Nat
    BY <1>2 DEF Locals
  <1>4. n \in Nat \ {0}
    BY <1>2, <1>3 DEF Sizes
  <1>5. find_node(k.index, n) \in Nat /\ NoRange \in Ranges
    BY <1>3, <1>4, PartBounds, EmptyLocals
  <1> HIDE DEF k, n
  <1>6. /\ l \in Locals /\ l.len = n /\ l.held = NoRange /\ l.grab_n = k.grab_n
        /\ l.orig_n = k.orig_n
    BY <1>2, <1>4, <1>5 DEF Locals
  <1> HIDE DEF l
  <1>7. Fits("range", l, {})
    BY <1>2, <1>4, <1>6, EmptyLocals DEF Fits, HoldsAt, Loop, Sizes, Place, Trying, Checking,
       Holding, Empty, Searching
  <1>8. Owned(t) \ In(k.held) = {} /\ REBALANCE \in AnyReason /\ "range" \in Kinds
    BY <1>2 DEF AnyReason, Kinds
  <1> QED BY <1>1, <1>2, <1>6, <1>7, <1>8, GiveStep

LEMMA StartRebalanceInv == ASSUME Inv, NEW t \in Task, StartRebalance(t) PROVE Inv'
  <1> DEFINE k == local[t]
  <1>1. /\ pc[t] = "grabbed" /\ OnlyLocks /\ UNCHANGED lock /\ Go(t, "rebalance", k)
        /\ k.orig_n = N
    BY DEF StartRebalance
  <1>2. /\ k \in Locals /\ Owned(t) = In(k.held) /\ Sizes("grabbed", k)
        /\ Place("grabbed", k)
    BY <1>1, Mine DEF HoldsAt, Holding
  <1> HIDE DEF k
  <1>3. Fits("rebalance", k, Owned(t))
    BY <1>1, <1>2 DEF Fits, HoldsAt, Loop, Sizes, Place, Trying, Checking, Holding, Empty,
       Searching
  <1> QED BY <1>1, <1>2, <1>3, SameLocks DEF Kinds

LEMMA CleanUpInv == ASSUME Inv, NEW t \in Task, CleanUp(t) PROVE Inv'
  <1> DEFINE k == local[t]
             l == [k EXCEPT !.i = @ + 1]
             r == Range(k.i, k.i)
  <1>1. /\ pc[t] = "cleanUp" /\ OnlyLocks
        /\ \/ Go(t, "idle", NoLocal) /\ UNCHANGED lock
           \/ Go(t, "cleanUp", l) /\ UNCHANGED lock
           \/ /\ Go(t, "cleanUp", l) /\ Free(k.i, REBALANCE)
              /\ release_locks_in_range(t, r, GENERAL)
    BY DEF CleanUp, Return
  <1>2. k \in Locals /\ Owned(t) = {} /\ TypeOK
    BY <1>1, Mine DEF HoldsAt, Empty
  <1>3. k.i \in Nat
    BY <1>2 DEF Locals
  <1> HIDE DEF k
  <1>4. l \in Locals
    BY <1>2, <1>3 DEF Locals
  <1> HIDE DEF l
  <1>5. CASE Go(t, "idle", NoLocal) /\ UNCHANGED lock
    BY <1>1, <1>2, <1>5, CleanFits, EmptyLocals, SameLocks DEF Kinds
  <1>6. CASE Go(t, "cleanUp", l) /\ UNCHANGED lock
    BY <1>1, <1>2, <1>4, <1>6, CleanFits, SameLocks DEF Kinds
  <1>7. CASE /\ Go(t, "cleanUp", l) /\ Free(k.i, REBALANCE)
             /\ release_locks_in_range(t, r, GENERAL)
    <2>1. \A v \in In(r) : v = k.i
      BY <1>3 DEF In, Range, Node
    <2>2. \A v \in In(r) : lock[v].owner \in {t, none}
      BY <1>7, <2>1 DEF Free
    <2> HIDE DEF r
    <2>3. GENERAL \in AnyReason
      BY DEF AnyReason
    <2>4. lock' \in [Node -> Locks] /\ OnlyMine(t) /\ Owned(t)' = Owned(t) \ In(r)
      BY <1>2, <1>7, <2>2, <2>3, GiveBackRange
    <2>5. Fits("cleanUp", l, Owned(t)')
      BY <1>2, <2>4, CleanFits
    <2>6. UNCHANGED <<batch, N, beginning>> /\ made' \in [Task -> Nat] /\ stale' \subseteq Task
      BY <1>1, Mine DEF OnlyLocks
    <2> QED BY <1>4, <1>7, <2>4, <2>5, <2>6, PcIsKinds, QuietStep DEF Kinds
  <1> QED BY <1>1, <1>5, <1>6, <1>7

---------------------------------------------------------------------------
(* Doubling and halving *)

LEMMA GoToRootInv == ASSUME Inv, NEW t \in Task, GoToRoot(t) PROVE Inv'
  <1> DEFINE k == local[t]
             Taken(v) == unlock(lock[v], t, DOUBLE).reason_set_by = t
             sealed == (\A v \in Node : v \in In(k.held) /\ Taken(v))
                          /\ \A u \in Task \ {t} : pc[u] # "lockAll"
             l == [NoLocal EXCEPT !.sealed = sealed]
  <1>1. /\ pc[t] = "grabbed" /\ OnlyLocks /\ Go(t, "lockAll", l)
        /\ release_locks_in_range(t, k.held, DOUBLE)
    BY DEF GoToRoot
  <1>2. Owned(t) = In(k.held)
    BY <1>1, Mine DEF HoldsAt, Holding
  <1>3. sealed \in BOOLEAN
    BY Zenon
  <1> HIDE DEF sealed, k
  <1>4. NoLocal \in Locals /\ NoLocal.i = 0
    BY EmptyLocals DEF NoLocal
  <1>5. l \in Locals /\ l.i = 0
    BY <1>3, <1>4 DEF Locals
  <1> HIDE DEF l
  <1>6. Fits("lockAll", l, {})
    BY <1>5 DEF Fits, HoldsAt, Loop, Sizes, Place, Trying, Checking, Holding, Empty, Searching
  <1>7. Owned(t) \ In(k.held) = {} /\ DOUBLE \in AnyReason /\ "lockAll" \in Kinds
    BY <1>2 DEF AnyReason, Kinds
  <1> QED BY <1>1, <1>2, <1>5, <1>6, <1>7, GiveStep

LEMMA LockAllInv == ASSUME Inv, NEW t \in Task, LockAll(t) PROVE Inv'
  <1> DEFINE k == local[t]
             l == [k EXCEPT !.i = @ + 1]
             to == IF k.i = last THEN "resize" ELSE "lockAll"
  <1>1. /\ pc[t] = "lockAll" /\ OnlyLocks /\ Go(t, to, l) /\ Free(k.i, DOUBLE)
        /\ lock' = [lock EXCEPT ![k.i].owner = t]
    BY DEF LockAll
  <1>2. k \in Locals /\ TypeOK /\ Owned(t) = 0 .. k.i - 1 /\ k.i < V
    BY <1>1, Mine DEF HoldsAt, Loop
  <1>3. k.i \in Nat
    BY <1>2 DEF Locals
  <1>4. k.i \in Node /\ lock[k.i].owner = none
    BY <1>1, <1>2, <1>3 DEF Node, Free
  <1> HIDE DEF k
  <1>5. lock' \in [Node -> Locks] /\ OnlyMine(t) /\ Owned(t)' = Owned(t) \cup {k.i}
    BY <1>1, <1>2, <1>4, TakeOne
  <1>a. k \in Locals /\ k.i + 1 \in Nat
    BY <1>2, <1>3
  <1>6. l \in Locals /\ l.i = k.i + 1
    BY <1>a DEF Locals
  <1> HIDE DEF l
  <1>7. Fits(to, l, Owned(t)') /\ to \in Kinds
    <2>1. CASE k.i = last
      <3>1. Owned(t)' = Node
        BY <1>2, <1>3, <1>5, <2>1 DEF Node, last
      <3> QED BY <2>1, <3>1 DEF Fits, HoldsAt, Loop, Sizes, Place, Trying, Checking, Holding,
            Empty, Searching, Kinds
    <2>2. CASE k.i # last
      <3>1. Owned(t)' = 0 .. l.i - 1 /\ l.i < V
        BY <1>2, <1>3, <1>5, <1>6, <2>2 DEF last
      <3> QED BY <2>2, <3>1 DEF Fits, HoldsAt, Loop, Sizes, Place, Trying, Checking, Holding,
            Empty, Searching, Kinds
    <2> QED BY <2>1, <2>2
  <1>8. UNCHANGED <<batch, N, beginning>> /\ made' \in [Task -> Nat] /\ stale' \subseteq Task
    BY <1>1, Mine DEF OnlyLocks
  <1> HIDE DEF to
  <1> QED BY <1>1, <1>5, <1>6, <1>7, <1>8, PcIsKinds, QuietStep

\* A resize happens while no other task owns a node; one that was about to
\* rebalance finds out by the size.
LEMMA ResizeInv == ASSUME Inv, NEW t \in Task, Resize(t) PROVE Inv'
  <1>1. /\ pc[t] = "resize" /\ Go(t, "idle", NoLocal) /\ N' = NewN
        /\ beginning' \in Layouts(NewN) /\ release_locks_in_range(t, Range(0, last), GENERAL)
        /\ batch' = batch /\ made' = made
    BY DEF Resize, Return
  <1>2. TypeOK /\ Owned(t) = Node /\ N \in Nat \ {0} /\ batch \in {"insert", "remove"}
    BY <1>1, Mine DEF HoldsAt, TypeOK
  <1>3. /\ N' \in Nat \ {0} /\ N' # N /\ Older(N, N')
    <2>1. NewN \in Nat
      BY <1>2 DEF NewN
    <2>2. beginning'[0] \in 0 .. NewN - 1
      BY <1>1 DEF Layouts, Node
    <2>3. NewN > 0
      BY <2>1, <2>2
    <2>4. NewN # N /\ Older(N, NewN)
      BY <1>2 DEF NewN, Older
    <2> QED BY <1>1, <2>1, <2>3, <2>4
  <1>4. In(Range(0, last)) = Node
    BY DEF In, Range, Node, last
  <1>5. lock' \in [Node -> Locks] /\ OnlyMine(t) /\ Owned(t)' = {}
    <2>1. GENERAL \in AnyReason /\ \A v \in In(Range(0, last)) : lock[v].owner \in {t, none}
      BY <1>2, <1>4, Mine DEF AnyReason
    <2>2. lock' \in [Node -> Locks] /\ OnlyMine(t) /\ Owned(t)' = Owned(t) \ In(Range(0, last))
      BY <1>1, <1>2, <2>1, GiveBackRange
    <2> QED BY <1>2, <1>4, <2>2
  <1>6. (beginning \in Layouts(N))'
    BY <1>1 DEF Layouts
  <1>7. made' \in [Task -> Nat] /\ stale' \subseteq Task
    BY <1>1, Mine DEF Resize
  <1>8. Fits("idle", NoLocal, Owned(t))'
    BY <1>5 DEF Fits, HoldsAt, Loop, Sizes, Place, Trying, Checking, Holding, Empty, Searching
  <1>9. ASSUME NEW u \in Task \ {t} PROVE (Sizes(pc[u], local[u]) /\ Place(pc[u], local[u]))'
    <2>1. pc'[u] = pc[u] /\ local'[u] = local[u]
      BY <1>1 DEF Go, Inv, TypeOK
    <2> SUFFICES ASSUME NEW p, NEW l, p = pc[u], l = local[u]
                 PROVE  (Sizes(p, l) /\ Place(p, l))'
      BY <2>1
    <2>2. l \in Locals /\ HoldsAt(p, l, Owned(u)) /\ Sizes(p, l) /\ Place(p, l)
      BY Mine
    <2>3. /\ l.src \in Node /\ l.index \in Nat /\ l.len \in Nat
          /\ l.orig_n \in Nat /\ l.grab_n \in Nat
      BY <2>2 DEF Locals
    <2>4. Owned(u) = {}
      BY <1>2, Disjoint DEF Owned
    <2>5. p \in Holding => In(l.held) = {}
      BY <2>2, <2>4 DEF HoldsAt
    <2>6. p \notin {"locate", "write", "handBack"}
      BY <2>2, <2>3, <2>5 DEF Place, Holding, In
    <2>7. ASSUME p \in {"grabbed", "rebalance"}
          PROVE  p = "grabbed" /\ l.orig_n # N
      <3>1. l.len > 0 /\ In(l.held) = {}
        BY <2>2, <2>5, <2>7 DEF Sizes, Holding
      <3>2. Containing(l.index) \in Touched(l.index, l.index + l.len)
        <4>1. \A hi \in Nat : hi = l.index + l.len => Containing(l.index) \in Touched(l.index, hi)
          BY <1>2, <2>3, <3>1, ContainingTouched
        <4> QED BY <2>3, <4>1
      <3> QED BY <2>2, <2>7, <3>1, <3>2 DEF Place
    <2>8. Sizes(p, l)'
      BY <1>1, <1>2, <1>3, <2>2, <2>3 DEF Sizes, Older
    <2>9. p = "grabbed" => l.orig_n # N'
      BY <1>1, <1>2, <1>3, <2>2, <2>3, <2>7 DEF Sizes, Older
    <2>10. Place(p, l)'
      BY <2>6, <2>7, <2>9 DEF Place
    <2> QED BY <2>8, <2>10
  <1> QED BY <1>1, <1>3, <1>5, <1>6, <1>7, <1>8, <1>9, PcIsKinds, EmptyLocals, Step DEF Kinds

---------------------------------------------------------------------------
(* What every behaviour satisfies *)

LEMMA InitInv == Init => Inv
  <1> SUFFICES ASSUME Init PROVE Inv
    OBVIOUS
  <1>1. lock \in [Node -> Locks] /\ \A v \in Node : lock[v].owner = none
    BY DEF Init, Locks
  <1>2. N \in Nat \ {0} /\ beginning \in Layouts(N) /\ batch \in {"insert", "remove"}
    BY DEF Init
  <1>3. pc \in [Task -> Pc] /\ \A t \in Task : pc[t] = "idle" /\ local[t] = NoLocal
    BY PcIsKinds DEF Init, Kinds
  <1>4. local \in [Task -> Locals]
    BY EmptyLocals DEF Init
  <1>5. made \in [Task -> Nat] /\ stale \subseteq Task
    BY DEF Init
  <1>6. \A t \in Task : Owned(t) = {}
    BY <1>1 DEF Owned
  <1>7. TypeOK
    BY <1>1, <1>2, <1>3, <1>4, <1>5 DEF TypeOK
  <1> QED BY <1>3, <1>6, <1>7, CleanFits DEF Inv

LEMMA NextInv == Inv /\ [Next]_vars => Inv'
  <1> SUFFICES ASSUME Inv, [Next]_vars PROVE Inv'
    OBVIOUS
  <1>1. CASE Next
    <2>1. PICK t \in Task : Call(t) \/ Work(t) \/ TakesLock(t)
      BY <1>1 DEF Next
    <2>2. CASE Call(t)
      BY <2>2, CallInv
    <2>3. CASE Work(t)
      <3>1. CASE LeafLocks(t)
        BY <3>1, LeafLocksInv
      <3>2. CASE LeafReset(t) \/ RangeReset(t)
        BY <3>2, ResetInv DEF LeafReset, RangeReset
      <3>3. CASE LeafCheck(t)
        BY <3>3, LeafCheckInv
      <3>4. CASE NothingToDo(t)
        BY <3>4, NothingToDoInv
      <3>5. CASE Locate(t)
        BY <3>5, LocateInv
      <3>6. CASE Write(t)
        BY <3>6, WriteInv
      <3>7. CASE HandBack(t)
        BY <3>7, HandBackInv
      <3>8. CASE RangeLocks(t)
        BY <3>8, RangeLocksInv
      <3>9. CASE RangeCheck(t)
        BY <3>9, RangeCheckInv
      <3>10. CASE GiveUp(t)
        BY <3>10, GiveUpInv
      <3>11. CASE GoUp(t)
        BY <3>11, GoUpInv
      <3>12. CASE StartRebalance(t)
        BY <3>12, StartRebalanceInv
      <3>13. CASE Rebalance(t)
        BY <3>13, RebalanceInv
      <3>14. CASE GoToRoot(t)
        BY <3>14, GoToRootInv
      <3>15. CASE Resize(t)
        BY <3>15, ResizeInv
      <3> QED BY <2>3, <3>1, <3>2, <3>3, <3>4, <3>5, <3>6, <3>7, <3>8, <3>9, <3>10, <3>11,
            <3>12, <3>13, <3>14, <3>15 DEF Work
    <2>4. CASE TakesLock(t)
      <3>1. CASE LeafTake(t) \/ RangeTake(t)
        BY <3>1, TakeInv DEF LeafTake, RangeTake
      <3>2. CASE CleanUp(t)
        BY <3>2, CleanUpInv
      <3>3. CASE LockAll(t)
        BY <3>3, LockAllInv
      <3> QED BY <2>4, <3>1, <3>2, <3>3 DEF TakesLock
    <2> QED BY <2>1, <2>2, <2>3, <2>4
  <1>2. CASE UNCHANGED vars
    <2>1. UNCHANGED <<batch, N, beginning>> /\ lock' = lock /\ pc' = pc /\ local' = local
          /\ made' = made /\ stale' = stale
      BY <1>2 DEF vars
    <2>2. TypeOK'
      BY <2>1 DEF Inv, TypeOK, Layouts
    <2>3. ASSUME NEW t \in Task PROVE Fits(pc[t], local[t], Owned(t))'
      <3>1. Owned(t)' = Owned(t)
        BY <2>1 DEF Owned
      <3>2. Fits(pc'[t], local'[t], Owned(t)')
        BY <2>1, <3>1 DEF Inv
      <3> QED BY <2>1, <3>2, Unmoved
    <2> QED BY <2>2, <2>3 DEF Inv
  <1> QED BY <1>1, <1>2

\* The inductive invariant holds in every reachable state: what a task owns, how
\* far its loops are, which sizes it knows and where its nodes are.
THEOREM InvCorrect == Spec => []Inv
  BY InitInv, NextInv, PTL DEF Spec

\* Whatever the others move, double or halve, a task owns every node with a slot
\* in the leaf it writes or the part it rebalances, and every node when it resizes.
THEOREM CoveredCorrect == Spec => []Covered
  <1>1. Inv => Covered
    <2> SUFFICES ASSUME Inv, NEW t \in Task
                 PROVE  /\ pc[t] = "write" =>
                              {local[t].src} \cup Touched(find_leaf(local[t].loc), next_leaf(local[t].loc))
                                 \subseteq Owned(t)
                        /\ pc[t] = "rebalance" =>
                              Touched(local[t].index, local[t].index + local[t].len) \subseteq Owned(t)
                        /\ pc[t] = "resize" => Owned(t) = Node
      BY DEF Covered
    <2>1. HoldsAt(pc[t], local[t], Owned(t)) /\ Place(pc[t], local[t])
      BY Mine
    <2> QED BY <2>1 DEF HoldsAt, Holding, Place
  <1> QED BY <1>1, InvCorrect, PTL

\* A task owns the locks its local variables say it has and no others, so every
\* unlock of the code is by the owner.
THEOREM HeldCorrect == Spec => []HeldExactly
  <1>1. Inv => HeldExactly
    <2> SUFFICES ASSUME Inv, NEW t \in Task PROVE Owned(t) = Holds(t)
      BY DEF HeldExactly
    <2>1. pc[t] \in Kinds /\ HoldsAt(pc[t], local[t], Owned(t))
      BY Mine, PcIsKinds
    <2> QED BY <2>1 DEF HoldsAt, Holds, Kinds, Trying, Checking, Holding, Empty
  <1> QED BY <1>1, InvCorrect, PTL

---------------------------------------------------------------------------
(* Reasons *)

\* The nodes whose lock has a reason that t set.
Marked(t) == {v \in Node : lock[v].reason_set_by = t}

\* A step of t sets no reason of another task.
NoneElse(t) ==
    \A v \in Node : lock'[v].reason_set_by \in {lock[v].reason_set_by, t, none}

LEMMA ReasonStep ==
    ASSUME Inv, Reasons, NEW t \in Task, NEW to, NEW l, Go(t, to, l), NoneElse(t),
           \A v \in Marked(t)' : MaySet(to, l, v), WithinSpan(to, l)
    PROVE  Reasons'
  <1>1. /\ pc'[t] = to /\ local'[t] = l
        /\ \A u \in Task \ {t} : pc'[u] = pc[u] /\ local'[u] = local[u]
    BY DEF Go, Inv, TypeOK
  <1>2. ASSUME NEW u \in Task
        PROVE  /\ \A v \in Node : lock'[v].reason_set_by = u => MaySet(pc'[u], local'[u], v)
               /\ WithinSpan(pc'[u], local'[u])
    <2>1. CASE u = t
      BY <1>1, <2>1 DEF Marked
    <2>2. CASE u # t
      <3>1. \A v \in Node : lock'[v].reason_set_by = u => lock[v].reason_set_by = u
        BY <2>2 DEF NoneElse
      <3> QED BY <1>1, <2>2, <3>1 DEF Reasons
    <2> QED BY <2>1, <2>2
  <1>3. \A p, k, v : MaySet(p, k, v)' <=> MaySet(p, k, v)
    BY DEF MaySet
  <1>4. \A p, k : WithinSpan(p, k)' <=> WithinSpan(p, k)
    BY DEF WithinSpan
  <1> QED BY <1>2, <1>3, <1>4 DEF Reasons

\* What Reasons says of one task.
LEMMA MyReasons ==
    ASSUME Inv, Reasons, NEW t \in Task
    PROVE  /\ \A v \in Marked(t) : v \in Node /\ MaySet(pc[t], local[t], v)
           /\ WithinSpan(pc[t], local[t]) /\ lock \in [Node -> Locks]
  BY Mine DEF Reasons, Marked

\* A reason is set only where locks are given back, and GENERAL takes it away.
LEMMA ReasonsGiven ==
    ASSUME lock \in [Node -> Locks], NEW t \in Task, NEW r, NEW reason \in AnyReason,
           release_locks_in_range(t, r, reason)
    PROVE  /\ NoneElse(t)
           /\ Marked(t)' \subseteq Marked(t) \cup In(r)
           /\ reason = SAME => Marked(t)' \subseteq Marked(t)
           /\ reason = GENERAL => Marked(t)' \subseteq Marked(t) \ In(r)
  <1>1. lock' = [v \in Node |-> IF v \in In(r) THEN unlock(lock[v], t, reason) ELSE lock[v]]
    BY DEF release_locks_in_range, Unlock
  <1>2. ASSUME NEW v \in Node
        PROVE  /\ v \notin In(r) => lock'[v] = lock[v]
               /\ v \in In(r) =>
                    /\ lock'[v].reason_set_by \in {lock[v].reason_set_by, t, none}
                    /\ reason = SAME => lock'[v].reason_set_by = lock[v].reason_set_by
                    /\ reason = GENERAL => lock'[v].reason_set_by # t
    <2>1. CASE v \in In(r)
      <3>1. lock'[v] = unlock(lock[v], t, reason) /\ lock[v] \in Locks
        BY <1>1, <2>1
      <3> QED BY <2>1, <3>1, UnlockOne
    <2>2. CASE v \notin In(r)
      BY <1>1, <2>2
    <2> QED BY <2>1, <2>2
  <1>3. NoneElse(t)
    BY <1>2 DEF NoneElse
  <1> QED BY <1>2, <1>3 DEF Marked

\* Taking a lock leaves its reason.
LEMMA ReasonsTaken ==
    ASSUME lock \in [Node -> Locks], NEW t \in Task, NEW i, lock' = [lock EXCEPT ![i].owner = t]
    PROVE  NoneElse(t) /\ Marked(t)' = Marked(t)
  <1>1. ASSUME NEW v \in Node PROVE lock'[v].reason_set_by = lock[v].reason_set_by
    <2>1. lock[v] \in Locks
      OBVIOUS
    <2>2. lock'[v] = lock[v] \/ lock'[v] = [lock[v] EXCEPT !.owner = t]
      OBVIOUS
    <2> QED BY <2>1, <2>2 DEF Locks
  <1> QED BY <1>1 DEF NoneElse, Marked

\* A step that neither sets nor moves a reason.
LEMMA ReasonsKept ==
    ASSUME lock' = lock, NEW t \in Task
    PROVE  NoneElse(t) /\ Marked(t)' = Marked(t)
  BY DEF NoneElse, Marked

\* Before it hands back the leaf's locks a task has set no reason.
Early == {"idle", "leaf", "leafTry", "leafCheck", "locate", "write", "handBack"}

LEMMA EarlyStep ==
    ASSUME Inv, Reasons, NEW t \in Task, pc[t] \in Early, NEW to, NEW l, Go(t, to, l),
           to \in Early, NoneElse(t), Marked(t)' \subseteq Marked(t)
    PROVE  Reasons'
  <1>1. Marked(t) = {}
    BY MyReasons DEF MaySet, Early
  <1>2. WithinSpan(to, l)
    BY DEF WithinSpan, Early
  <1> QED BY <1>1, <1>2, ReasonStep

LEMMA EarlyReasons ==
    ASSUME Inv, Reasons, NEW t \in Task,
           \/ Call(t) \/ LeafLocks(t) \/ LeafTake(t) \/ LeafReset(t) \/ LeafCheck(t)
           \/ NothingToDo(t) \/ Write(t)
    PROVE  Reasons'
  <1>0. lock \in [Node -> Locks]
    BY Mine
  <1>1. CASE Call(t)
    <2>1. lock' = lock /\ pc[t] = "idle" /\ \E l : Go(t, "leaf", l)
      BY <1>1 DEF Call
    <2> QED BY <2>1, EarlyStep, ReasonsKept DEF Early
  <1>2. CASE LeafLocks(t)
    <2>1. lock' = lock /\ pc[t] = "leaf" /\ \E l : Go(t, "leafTry", l)
      BY <1>2 DEF LeafLocks
    <2> QED BY <2>1, EarlyStep, ReasonsKept DEF Early
  <1>3. CASE LeafTake(t)
    <2>1. /\ pc[t] = "leafTry" /\ \E l, to : to \in {"leafTry", "leafCheck"} /\ Go(t, to, l)
          /\ lock' = [lock EXCEPT ![local[t].i].owner = t]
      BY <1>3 DEF LeafTake, Take
    <2>2. NoneElse(t) /\ Marked(t)' = Marked(t)
      BY <1>0, <2>1, ReasonsTaken
    <2> QED BY <2>1, <2>2, EarlyStep DEF Early
  <1>4. CASE LeafReset(t)
    <2>1. /\ pc[t] = "leafTry" /\ \E l : Go(t, "leaf", l)
          /\ release_locks_in_range(t, Range(local[t].ends.x, local[t].i - 1), SAME)
      BY <1>4 DEF LeafReset, Reset
    <2>2. NoneElse(t) /\ Marked(t)' \subseteq Marked(t)
      BY <1>0, <2>1, ReasonsGiven DEF AnyReason
    <2> QED BY <2>1, <2>2, EarlyStep DEF Early
  <1>5. CASE LeafCheck(t)
    <2>1. /\ pc[t] = "leafCheck" /\ \E l, to : to \in {"leaf", "locate"} /\ Go(t, to, l)
          /\ lock' = lock \/ release_locks_in_range(t, local[t].ends, GENERAL)
      BY <1>5 DEF LeafCheck
    <2>2. NoneElse(t) /\ Marked(t)' \subseteq Marked(t)
      BY <1>0, <2>1, ReasonsGiven, ReasonsKept DEF AnyReason
    <2> QED BY <2>1, <2>2, EarlyStep DEF Early
  <1>6. CASE NothingToDo(t)
    <2>1. /\ pc[t] = "locate" /\ Go(t, "idle", NoLocal)
          /\ release_locks_in_range(t, local[t].held, GENERAL)
      BY <1>6 DEF NothingToDo, Return
    <2>2. NoneElse(t) /\ Marked(t)' \subseteq Marked(t)
      BY <1>0, <2>1, ReasonsGiven DEF AnyReason
    <2> QED BY <2>1, <2>2, EarlyStep DEF Early
  <1>7. CASE Write(t)
    <2>1. lock' = lock /\ pc[t] = "write" /\ \E l : Go(t, "handBack", l)
      BY <1>7 DEF Write
    <2> QED BY <2>1, EarlyStep, ReasonsKept DEF Early
  <1> QED BY <1>1, <1>2, <1>3, <1>4, <1>5, <1>6, <1>7

LEMMA LocateReasons == ASSUME Inv, Reasons, NEW t \in Task, Locate(t) PROVE Reasons'
  <1>1. pc[t] = "locate"
    BY DEF Locate
  <1>2. PICK vs, l :
           /\ Go(t, "write", l)
           /\ lock' = [v \in Node |-> IF v \in vs THEN unlock(lock[v], t, GENERAL) ELSE lock[v]]
    BY Zenon DEF Locate, Unlock
  <1>3. ASSUME NEW v \in Node
        PROVE  /\ lock'[v].reason_set_by \in {lock[v].reason_set_by, t, none}
               /\ lock'[v].reason_set_by = t => lock[v].reason_set_by = t
    <2>1. lock[v] \in Locks /\ GENERAL \in AnyReason
      BY Mine DEF AnyReason
    <2>2. lock'[v] = unlock(lock[v], t, GENERAL) \/ lock'[v] = lock[v]
      BY <1>2
    <2> QED BY <2>1, <2>2, UnlockOne
  <1>4. NoneElse(t) /\ Marked(t)' \subseteq Marked(t)
    BY <1>3 DEF NoneElse, Marked
  <1> QED BY <1>1, <1>2, <1>4, EarlyStep DEF Early

\* HandBack sets reasons only within the span it remembers.
LEMMA HandBackReasons == ASSUME Inv, Reasons, NEW t \in Task, HandBack(t) PROVE Reasons'
  <1> DEFINE k == local[t]
             h == k.held
  <1>1. pc[t] = "handBack"
    BY DEF HandBack
  <1>2. PICK r \in Ranges, l \in Locals :
             /\ Go(t, "range", l)
             /\ l.span = Range(Larger(r.x, h.x), Larger(r.y, h.y))
             /\ lock' = [v \in Node |-> IF v \in In(h)
                                        THEN unlock(lock[v], t, IF v \in In(r) THEN REBALANCE ELSE GENERAL)
                                        ELSE lock[v]]
    BY HandBackDoes
  <1>3. Marked(t) = {}
    BY <1>1, MyReasons DEF MaySet
  <1>4. k \in Locals
    BY Mine
  <1>5. h \in Ranges
    BY <1>4 DEF Locals
  <1> HIDE DEF k, h
  <1>6. ASSUME NEW v \in Node
        PROVE  /\ lock'[v].reason_set_by \in {lock[v].reason_set_by, t, none}
               /\ lock'[v].reason_set_by = t => v \in In(h) /\ v \in In(r)
    <2>1. lock[v] \in Locks /\ GENERAL \in AnyReason /\ REBALANCE \in AnyReason
      BY Mine DEF AnyReason
    <2>2. CASE v \notin In(h)
      <3>1. lock'[v] = lock[v]
        BY <1>2, <2>2
      <3> QED BY <1>3, <3>1 DEF Marked
    <2>3. CASE v \in In(h) /\ v \in In(r)
      <3>1. lock'[v] = unlock(lock[v], t, REBALANCE)
        BY <1>2, <2>3
      <3> QED BY <2>1, <2>3, <3>1, UnlockOne
    <2>4. CASE v \in In(h) /\ v \notin In(r)
      <3>1. lock'[v] = unlock(lock[v], t, GENERAL)
        BY <1>2, <2>4
      <3> QED BY <2>1, <3>1, UnlockOne
    <2> QED BY <2>2, <2>3, <2>4
  <1>7. NoneElse(t)
    BY <1>6 DEF NoneElse
  <1>8. ASSUME NEW v \in Marked(t)' PROVE MaySet("range", l, v)
    <2>1. v \in Node /\ v \in In(h) /\ v \in In(r)
      BY <1>6 DEF Marked
    <2>2. v \in In(l.span)
      BY <1>2, <1>5, <2>1 DEF In, Ranges, Range, Larger, Node
    <2> QED BY <2>2 DEF MaySet, Searching
  <1>9. WithinSpan("range", l)
    BY DEF WithinSpan
  <1> QED BY <1>2, <1>7, <1>8, <1>9, ReasonStep

\* A step of the search that widens the span, if it changes it.
LEMMA SearchStep ==
    ASSUME Inv, Reasons, NEW t \in Task, pc[t] \in Searching \cup {"grabbed"},
           NEW to, NEW l, Go(t, to, l), to \in Searching \cup {"grabbed", "rebalance"},
           NoneElse(t), Marked(t)' \subseteq In(l.span), WithinSpan(to, l)
    PROVE  Reasons'
  <1>1. \A v \in Marked(t)' : MaySet(to, l, v)
    BY DEF MaySet, Searching
  <1> QED BY <1>1, ReasonStep

LEMMA SearchReasons ==
    ASSUME Inv, Reasons, NEW t \in Task,
           \/ RangeLocks(t) \/ RangeTake(t) \/ RangeReset(t) \/ RangeCheck(t)
           \/ GoUp(t) \/ StartRebalance(t)
    PROVE  Reasons'
  <1> DEFINE k == local[t]
  <1>0. lock \in [Node -> Locks] /\ k \in Locals
    BY Mine
  <1>1. pc[t] \in Searching \cup {"grabbed"}
    BY DEF RangeLocks, RangeTake, Take, RangeReset, Reset, RangeCheck, GoUp, StartRebalance,
       Searching
  <1>2. Marked(t) \subseteq In(k.span)
    BY <1>1, MyReasons DEF MaySet, Searching
  <1>3. pc[t] \in Searching => In(k.held) = {}
    BY Mine DEF Loop
  <1>4. pc[t] = "grabbed" => In(k.held) \subseteq In(k.span)
    BY MyReasons DEF WithinSpan
  <1>5. k.span \in Ranges /\ k.ends \in Ranges
    BY <1>0 DEF Locals
  <1>6. CASE RangeLocks(t)
    <2>1. /\ pc[t] = "range" /\ lock' = lock
          /\ \/ Go(t, "grabbed", [k EXCEPT !.grab_n = 0])
             \/ \E r : Go(t, "rangeTry", [k EXCEPT !.ends = r, !.i = r.x, !.grab_n = N])
      BY <1>6 DEF RangeLocks
    <2>2. PICK l, to : /\ to \in {"grabbed", "rangeTry"} /\ Go(t, to, l)
                       /\ l.span = k.span /\ l.held = k.held
      <3> HIDE DEF k
      <3>1. CASE Go(t, "grabbed", [k EXCEPT !.grab_n = 0])
        <4> DEFINE l == [k EXCEPT !.grab_n = 0]
        <4>1. l.span = k.span /\ l.held = k.held
          BY <1>0 DEF Locals
        <4> QED BY <3>1, <4>1
      <3>2. ASSUME NEW r, Go(t, "rangeTry", [k EXCEPT !.ends = r, !.i = r.x, !.grab_n = N])
            PROVE  \E l, to : /\ to \in {"grabbed", "rangeTry"} /\ Go(t, to, l)
                              /\ l.span = k.span /\ l.held = k.held
        <4> DEFINE l == [k EXCEPT !.ends = r, !.i = r.x, !.grab_n = N]
        <4>1. l.span = k.span /\ l.held = k.held
          BY <1>0 DEF Locals
        <4> QED BY <3>2, <4>1
      <3> QED BY <2>1, <3>1, <3>2
    <2>3. NoneElse(t) /\ Marked(t)' = Marked(t)
      BY <2>1, ReasonsKept
    <2>4. WithinSpan(to, l) /\ Marked(t)' \subseteq In(l.span)
      BY <1>2, <1>3, <2>1, <2>2, <2>3 DEF WithinSpan, Searching
    <2> QED BY <1>1, <2>2, <2>3, <2>4, SearchStep DEF Searching
  <1>7. CASE RangeTake(t)
    <2> DEFINE l == [k EXCEPT !.i = @ + 1]
               to == IF k.i = k.ends.y THEN "rangeCheck" ELSE "rangeTry"
    <2>1. Go(t, to, l) /\ lock' = [lock EXCEPT ![k.i].owner = t]
      BY <1>7 DEF RangeTake, Take
    <2>2. NoneElse(t) /\ Marked(t)' = Marked(t)
      BY <1>0, <2>1, ReasonsTaken
    <2> HIDE DEF k
    <2>3. l.span = k.span
      BY <1>0 DEF Locals
    <2> HIDE DEF l
    <2>4. to \in Searching /\ WithinSpan(to, l)
      BY DEF Searching, WithinSpan
    <2> QED BY <1>1, <1>2, <2>1, <2>2, <2>3, <2>4, SearchStep
  <1>8. CASE RangeReset(t)
    <2> DEFINE l == [k EXCEPT !.i = 0, !.ends = NoRange]
    <2>1. /\ Go(t, "range", l)
          /\ release_locks_in_range(t, Range(k.ends.x, k.i - 1), SAME)
      BY <1>8 DEF RangeReset, Reset
    <2>2. NoneElse(t) /\ Marked(t)' \subseteq Marked(t)
      BY <1>0, <2>1, ReasonsGiven DEF AnyReason
    <2> HIDE DEF k
    <2>3. l.span = k.span
      BY <1>0 DEF Locals
    <2> HIDE DEF l
    <2>4. "range" \in Searching /\ WithinSpan("range", l)
      BY DEF Searching, WithinSpan
    <2> QED BY <1>1, <1>2, <2>1, <2>2, <2>3, <2>4, SearchStep
  <1>9. CASE RangeCheck(t)
    <2> DEFINE done == [k EXCEPT !.i = 0, !.ends = NoRange]
               g == Grown(k.span, k.ends)
               kept == [done EXCEPT !.held = k.ends, !.span = g, !.grab_n = 0]
    <2>1. \/ Go(t, "grabbed", kept) /\ lock' = lock
          \/ Go(t, "range", done) /\ release_locks_in_range(t, k.ends, SAME)
      BY <1>9 DEF RangeCheck
    <2>2. In(k.span) \subseteq In(g) /\ In(k.ends) \subseteq In(g) /\ g \in Ranges
      BY <1>5 DEF Grown, Range, Ranges, Smaller, Larger, In, Node
    <2> HIDE DEF k, g
    <2>3. done.span = k.span /\ done \in Locals
      BY <1>0, EmptyLocals DEF Locals
    <2> HIDE DEF done
    <2>4. kept.span = g /\ kept.held = k.ends
      BY <2>3 DEF Locals
    <2> HIDE DEF kept
    <2>5. CASE Go(t, "grabbed", kept) /\ lock' = lock
      <3>1. NoneElse(t) /\ Marked(t)' = Marked(t)
        BY <2>5, ReasonsKept
      <3>2. WithinSpan("grabbed", kept) /\ Marked(t)' \subseteq In(kept.span)
        BY <1>2, <2>2, <2>4, <3>1 DEF WithinSpan
      <3> QED BY <1>1, <2>5, <3>1, <3>2, SearchStep
    <2>6. CASE Go(t, "range", done) /\ release_locks_in_range(t, k.ends, SAME)
      <3>1. NoneElse(t) /\ Marked(t)' \subseteq Marked(t)
        BY <1>0, <2>6, ReasonsGiven DEF AnyReason
      <3>2. "range" \in Searching /\ WithinSpan("range", done)
        BY DEF Searching, WithinSpan
      <3> QED BY <1>1, <1>2, <2>3, <2>6, <3>1, <3>2, SearchStep
    <2> QED BY <2>1, <2>5, <2>6
  <1>10. CASE GoUp(t)
    <2> DEFINE n == 2 * k.len
               l == [k EXCEPT !.len = n, !.index = find_node(k.index, n), !.held = NoRange]
    <2>1. /\ pc[t] = "grabbed" /\ Go(t, "range", l)
          /\ release_locks_in_range(t, k.held, REBALANCE)
      BY <1>10 DEF GoUp
    <2>2. NoneElse(t) /\ Marked(t)' \subseteq Marked(t) \cup In(k.held)
      BY <1>0, <2>1, ReasonsGiven DEF AnyReason
    <2> HIDE DEF k, n
    <2>3. l.span = k.span
      BY <1>0 DEF Locals
    <2> HIDE DEF l
    <2>4. "range" \in Searching /\ WithinSpan("range", l)
      BY DEF Searching, WithinSpan
    <2> QED BY <1>1, <1>2, <1>4, <2>1, <2>2, <2>3, <2>4, SearchStep
  <1>11. CASE StartRebalance(t)
    <2>1. pc[t] = "grabbed" /\ Go(t, "rebalance", k) /\ lock' = lock
      BY <1>11 DEF StartRebalance
    <2>2. NoneElse(t) /\ Marked(t)' = Marked(t)
      BY <2>1, ReasonsKept
    <2>3. WithinSpan("rebalance", k)
      BY <1>4, <2>1 DEF WithinSpan
    <2> QED BY <1>1, <1>2, <2>1, <2>2, <2>3, SearchStep
  <1> QED BY <1>6, <1>7, <1>8, <1>9, <1>10, <1>11

\* What is left when a task gives its last locks back lies ahead of the clean-up.
LEMMA LeaveReasons ==
    ASSUME Inv, Reasons, NEW t \in Task, pc[t] \in {"grabbed", "rebalance"}, LeaveTo(t)
    PROVE  Reasons'
  <1> DEFINE k == local[t]
  <1>1. PICK l \in Locals :
           /\ Go(t, "cleanUp", l) /\ l.held = k.held /\ l.span = k.span /\ l.i = k.span.x
    BY LeaveLocks
  <1>2. release_locks_in_range(t, k.held, GENERAL) /\ lock \in [Node -> Locks]
    BY Mine DEF LeaveTo
  <1>3. NoneElse(t) /\ Marked(t)' \subseteq Marked(t) \ In(k.held)
    BY <1>2, ReasonsGiven DEF AnyReason
  <1>4. Marked(t) \subseteq In(k.span)
    BY MyReasons DEF MaySet
  <1> HIDE DEF k
  <1>5. \A v \in Marked(t)' : MaySet("cleanUp", l, v)
    BY <1>1, <1>3, <1>4 DEF MaySet, In, Searching
  <1>6. WithinSpan("cleanUp", l)
    BY DEF WithinSpan
  <1> QED BY <1>1, <1>3, <1>5, <1>6, ReasonStep

\* The clean-up leaves no reason behind it, and none at its end.
LEMMA CleanUpReasons == ASSUME Inv, Reasons, NEW t \in Task, CleanUp(t) PROVE Reasons'
  <1> DEFINE k == local[t]
             l == [k EXCEPT !.i = @ + 1]
             r == Range(k.i, k.i)
  <1>1. /\ pc[t] = "cleanUp"
        /\ \/ k.i > k.span.y /\ Go(t, "idle", NoLocal) /\ lock' = lock
           \/ k.i \in In(k.held) /\ Go(t, "cleanUp", l) /\ lock' = lock
           \/ Go(t, "cleanUp", l) /\ release_locks_in_range(t, r, GENERAL)
    BY DEF CleanUp, Return
  <1>2. k \in Locals /\ lock \in [Node -> Locks]
    BY Mine
  <1>3. k.i \in Nat /\ k.span \in Ranges
    BY <1>2 DEF Locals
  <1>4. \A v \in Marked(t) : v \in Node /\ v \in In(k.span) \ In(k.held) /\ v >= k.i
    BY <1>1, MyReasons DEF MaySet
  <1> HIDE DEF k
  <1>5. k.i + 1 \in Nat /\ k \in Locals
    BY <1>2, <1>3
  <1>6. l.i = k.i + 1 /\ l.span = k.span /\ l.held = k.held
    BY <1>5 DEF Locals
  <1> HIDE DEF l
  <1>7. WithinSpan("cleanUp", l) /\ WithinSpan("idle", NoLocal)
    BY DEF WithinSpan
  <1>8. CASE k.i > k.span.y /\ Go(t, "idle", NoLocal) /\ lock' = lock
    <2>1. NoneElse(t) /\ Marked(t)' = Marked(t)
      BY <1>8, ReasonsKept
    <2>2. Marked(t) = {}
      BY <1>3, <1>4, <1>8 DEF In, Ranges, Node
    <2> QED BY <1>7, <1>8, <2>1, <2>2, ReasonStep
  <1>9. ASSUME Go(t, "cleanUp", l), NoneElse(t), Marked(t)' \subseteq Marked(t) \ {k.i}
        PROVE  Reasons'
    <2>1. \A v \in Marked(t)' : MaySet("cleanUp", l, v)
      <3> SUFFICES ASSUME NEW v \in Marked(t)' PROVE MaySet("cleanUp", l, v)
        OBVIOUS
      <3>1. v \in Node /\ v \in In(k.span) \ In(k.held) /\ v >= k.i /\ v # k.i
        BY <1>4, <1>9
      <3>2. v >= l.i
        BY <1>3, <1>6, <3>1 DEF Node
      <3> QED BY <1>6, <3>1, <3>2 DEF MaySet, Searching
    <2> QED BY <1>7, <1>9, <2>1, ReasonStep
  <1>10. CASE k.i \in In(k.held) /\ Go(t, "cleanUp", l) /\ lock' = lock
    <2>1. NoneElse(t) /\ Marked(t)' = Marked(t)
      BY <1>10, ReasonsKept
    <2>2. k.i \notin Marked(t)
      BY <1>4, <1>10
    <2> QED BY <1>9, <1>10, <2>1, <2>2
  <1>11. CASE Go(t, "cleanUp", l) /\ release_locks_in_range(t, r, GENERAL)
    <2>1. NoneElse(t) /\ Marked(t)' \subseteq Marked(t) \ In(r)
      BY <1>2, <1>11, ReasonsGiven DEF AnyReason
    <2>2. k.i \in Node => k.i \in In(r)
      BY <1>3 DEF In, Range
    <2>3. Marked(t)' \subseteq Marked(t) \ {k.i}
      BY <1>4, <2>1, <2>2
    <2> QED BY <1>9, <1>11, <2>1, <2>3
  <1> QED BY <1>1, <1>8, <1>10, <1>11

LEMMA RootReasons ==
    ASSUME Inv, Reasons, NEW t \in Task, GoToRoot(t) \/ LockAll(t) \/ Resize(t)
    PROVE  Reasons'
  <1>0. lock \in [Node -> Locks]
    BY Mine
  <1>1. \A l, v : MaySet("lockAll", l, v) /\ MaySet("resize", l, v)
    BY DEF MaySet, Searching
  <1>2. \A l : WithinSpan("lockAll", l) /\ WithinSpan("resize", l) /\ WithinSpan("idle", l)
    BY DEF WithinSpan
  <1>3. CASE GoToRoot(t)
    <2>1. release_locks_in_range(t, local[t].held, DOUBLE) /\ \E l : Go(t, "lockAll", l)
      BY <1>3 DEF GoToRoot
    <2>2. NoneElse(t)
      BY <1>0, <2>1, ReasonsGiven DEF AnyReason
    <2> QED BY <1>1, <1>2, <2>1, <2>2, ReasonStep
  <1>4. CASE LockAll(t)
    <2>1. /\ \E l, to : to \in {"lockAll", "resize"} /\ Go(t, to, l)
          /\ lock' = [lock EXCEPT ![local[t].i].owner = t]
      BY <1>4 DEF LockAll
    <2>2. NoneElse(t)
      BY <1>0, <2>1, ReasonsTaken
    <2> QED BY <1>1, <1>2, <2>1, <2>2, ReasonStep
  <1>5. CASE Resize(t)
    <2>1. Go(t, "idle", NoLocal) /\ release_locks_in_range(t, Range(0, last), GENERAL)
      BY <1>5 DEF Resize, Return
    <2>2. NoneElse(t) /\ Marked(t)' \subseteq Marked(t) \ In(Range(0, last))
      BY <1>0, <2>1, ReasonsGiven DEF AnyReason
    <2>3. In(Range(0, last)) = Node
      BY DEF In, Range, Node, last
    <2>4. Marked(t)' = {}
      BY <2>2, <2>3 DEF Marked
    <2> QED BY <1>2, <2>1, <2>2, <2>4, ReasonStep
  <1> QED BY <1>3, <1>4, <1>5

LEMMA InitReasons == Init => Reasons
  BY DEF Init, Reasons, WithinSpan

LEMMA NextReasons == Inv /\ Reasons /\ [Next]_vars => Reasons'
  <1> SUFFICES ASSUME Inv, Reasons, [Next]_vars PROVE Reasons'
    OBVIOUS
  <1>1. CASE Next
    <2>1. PICK t \in Task : Call(t) \/ Work(t) \/ TakesLock(t)
      BY <1>1 DEF Next
    <2>2. CASE \/ Call(t) \/ LeafLocks(t) \/ LeafTake(t) \/ LeafReset(t) \/ LeafCheck(t)
               \/ NothingToDo(t) \/ Write(t)
      BY <2>2, EarlyReasons
    <2>3. CASE Locate(t)
      BY <2>3, LocateReasons
    <2>4. CASE HandBack(t)
      BY <2>4, HandBackReasons
    <2>5. CASE \/ RangeLocks(t) \/ RangeTake(t) \/ RangeReset(t) \/ RangeCheck(t)
               \/ GoUp(t) \/ StartRebalance(t)
      BY <2>5, SearchReasons
    <2>6. CASE GiveUp(t) \/ Rebalance(t)
      BY <2>6, LeaveReasons DEF GiveUp, Rebalance
    <2>7. CASE CleanUp(t)
      BY <2>7, CleanUpReasons
    <2>8. CASE GoToRoot(t) \/ LockAll(t) \/ Resize(t)
      BY <2>8, RootReasons
    <2> QED BY <2>1, <2>2, <2>3, <2>4, <2>5, <2>6, <2>7, <2>8 DEF Work, TakesLock
  <1>2. CASE UNCHANGED vars
    BY <1>2 DEF vars, Reasons, MaySet, WithinSpan
  <1> QED BY <1>1, <1>2

\* When an update is over no lock has a reason that its task set, whichever of its
\* ends it reached: nothing to do, given up, rebalanced, doubled or halved.
THEOREM NothingLeftCorrect == Spec => []NothingLeft
  <1>1. Reasons => NothingLeft
    BY DEF Reasons, NothingLeft, MaySet
  <1>2. Spec => []Reasons
    BY InvCorrect, InitReasons, NextReasons, PTL DEF Spec
  <1> QED BY <1>1, <1>2, PTL

---------------------------------------------------------------------------
(* The count of a task that doubles or halves the array *)

\* The others of a sealed array have no lock and wait, or are about to give up.
LEMMA OthersWait ==
    ASSUME Inv, NEW t \in Task, NEW u \in Task, t # u, SealedBy(t)
    PROVE  /\ Owned(u) = {}
           /\ pc[u] \in {"idle", "leaf", "leafTry", "range", "rangeTry", "grabbed", "cleanUp"}
           /\ pc[u] \in Trying => local[u].i <= local[u].ends.x
           /\ pc[u] = "grabbed" => In(local[u].held) = {} /\ local[u].orig_n # N
  <1> DEFINE k == local[u]
  <1>1. Owned(u) = {}
    BY DEF SealedBy, Owned
  <1>2. /\ TypeOK /\ pc[u] \in Pc /\ k \in Locals /\ HoldsAt(pc[u], k, Owned(u))
        /\ Loop(pc[u], k) /\ Sizes(pc[u], k) /\ Place(pc[u], k)
    BY Mine
  <1>3. /\ k.ends \in Ranges /\ k.held \in Ranges /\ k.i \in Nat /\ k.src \in Node
        /\ k.index \in Nat /\ k.len \in Nat
    BY <1>2 DEF Locals
  <1>4. k.ends.x \in Nat /\ k.ends.y \in Nat /\ k.held.x \in Nat /\ k.held.y \in Nat
    BY <1>3 DEF Ranges
  <1> HIDE DEF k
  <1>5. pc[u] \in Trying \cup Checking => k.i <= k.ends.x
    <2> SUFFICES ASSUME pc[u] \in Trying \cup Checking, k.i > k.ends.x PROVE FALSE
      BY <1>3, <1>4
    <2>1. k.ends.x \in k.ends.x .. k.i - 1
      BY <1>3, <1>4
    <2> QED BY <1>1, <1>2, <2>1 DEF HoldsAt
  <1>6. pc[u] \notin Checking
    BY <1>2, <1>3, <1>4, <1>5 DEF Loop
  <1>7. pc[u] \in Holding => In(k.held) = {}
    BY <1>1, <1>2 DEF HoldsAt
  <1>8. pc[u] # "locate"
    <2> SUFFICES ASSUME pc[u] = "locate" PROVE FALSE
      OBVIOUS
    <2>1. k.src \in In(k.held)
      BY <1>2, <1>3 DEF Place, In
    <2> QED BY <1>7, <2>1 DEF Holding
  <1>9. pc[u] # "write"
    BY <1>2, <1>7 DEF Place, Holding
  <1>10. pc[u] # "handBack"
    BY <1>2, <1>7 DEF Place, Holding
  <1>11. ASSUME k.len > 0 PROVE Touched(k.index, k.index + k.len) # {}
    <2>1. Containing(k.index) \in Touched(k.index, k.index + k.len)
      BY <1>2, <1>3, <1>11, ContainingTouched
    <2> QED BY <2>1
  <1>12. pc[u] # "rebalance"
    BY <1>2, <1>7, <1>11 DEF Place, Sizes, Holding
  <1>13. pc[u] = "grabbed" => k.orig_n # N
    BY <1>2, <1>7, <1>11 DEF Place, Sizes, Holding
  <1>14. pc[u] # "resize"
    <2>1. 0 \in Node
      BY <1>2, Places
    <2> QED BY <1>1, <1>2, <2>1 DEF HoldsAt
  <1>15. pc[u] # "lockAll"
    BY DEF SealedBy
  <1>16. pc[u] = "grabbed" => In(k.held) = {}
    BY <1>7 DEF Holding
  <1>17. pc[u] \in {"idle", "leaf", "leafTry", "range", "rangeTry", "grabbed", "cleanUp"}
    BY <1>2, <1>6, <1>8, <1>9, <1>10, <1>12, <1>14, <1>15
       DEF Pc, Trying, Checking, Holding, Empty
  <1> QED BY <1>1, <1>5, <1>13, <1>16, <1>17 DEF k

\* Locks of an empty range are not touched.
LEMMA NothingGiven ==
    ASSUME Inv, NEW t \in Task, NEW r, NEW reason, In(r) = {}, release_locks_in_range(t, r, reason)
    PROVE  lock' = lock
  <1>1. lock' = [v \in Node |-> lock[v]]
    BY DEF release_locks_in_range, Unlock
  <1> QED BY <1>1, Mine

\* No step of another task disturbs a sealed array.
LEMMA SealKept ==
    ASSUME Inv, NEW t \in Task, NEW u \in Task, t # u, SealedBy(t),
           Call(u) \/ Work(u) \/ TakesLock(u)
    PROVE  lock' = lock /\ stale' = stale /\ pc'[u] # "lockAll"
  <1> DEFINE k == local[u]
             c == pc[u]
  <1>1. /\ c \in {"idle", "leaf", "leafTry", "range", "rangeTry", "grabbed", "cleanUp"}
        /\ c \in Trying => k.i <= k.ends.x
        /\ c = "grabbed" => In(k.held) = {} /\ k.orig_n # N
    BY OthersWait
  <1>2. pc \in [Task -> Pc] /\ k \in Locals
    BY Mine DEF TypeOK
  <1>3. k.i \in Nat /\ k.ends \in Ranges
    BY <1>2 DEF Locals
  <1>4. k.ends.x \in Nat
    BY <1>3 DEF Ranges
  <1>5. \A v \in Node : ~Free(v, GENERAL) /\ ~Free(v, REBALANCE)
    BY DEF SealedBy, Free, GENERAL, REBALANCE, DOUBLE
  <1>6. \A to, l : Go(u, to, l) => pc'[u] = to
    BY <1>2 DEF Go
  <1> HIDE DEF k, c
  <1>7. CASE Call(u)
    BY <1>6, <1>7 DEF Call
  <1>8. CASE LeafLocks(u) \/ RangeLocks(u) \/ StartRebalance(u)
    BY <1>6, <1>8 DEF LeafLocks, RangeLocks, StartRebalance, OnlyLocks
  <1>9. CASE LeafReset(u) \/ RangeReset(u)
    <2>1. /\ c \in Trying
          /\ \E to, l : to \in {"leaf", "range"} /\ Go(u, to, l)
          /\ release_locks_in_range(u, Range(k.ends.x, k.i - 1), SAME) /\ stale' = stale
      BY <1>9 DEF LeafReset, RangeReset, Reset, OnlyLocks, Trying, k, c
    <2>2. In(Range(k.ends.x, k.i - 1)) = {}
      BY <1>1, <1>3, <1>4, <2>1 DEF In, Range, Node
    <2>3. lock' = lock
      BY <2>1, <2>2, NothingGiven
    <2> QED BY <1>6, <2>1, <2>3
  <1>10. CASE LeafTake(u) \/ RangeTake(u)
    <2>1. /\ c \in Trying
          /\ Free(k.i, GENERAL) \/ Free(k.i, REBALANCE)
      BY <1>10 DEF LeafTake, RangeTake, Take, Trying, k, c
    <2>2. k.i \in Node
      <3>1. Loop(c, k)
        BY Mine DEF k, c
      <3>2. k.ends.y < V /\ k.i <= k.ends.y /\ k.ends.y \in Nat
        BY <1>3, <2>1, <3>1 DEF Loop, Ranges
      <3> QED BY <1>3, <3>2 DEF Node
    <2> QED BY <1>5, <2>1, <2>2
  <1>11. CASE GiveUp(u)
    <2>1. /\ c = "grabbed" /\ stale' = stale
          /\ \E l : Go(u, "cleanUp", l)
          /\ release_locks_in_range(u, k.held, GENERAL)
      BY <1>11 DEF GiveUp, LeaveTo, OnlyLocks, k, c
    <2>2. lock' = lock
      BY <1>1, <2>1, NothingGiven
    <2> QED BY <1>6, <2>1, <2>2
  <1>12. CASE CleanUp(u)
    <2>1. stale' = stale /\ \E to, l : to \in {"idle", "cleanUp"} /\ Go(u, to, l)
      BY <1>12 DEF CleanUp, OnlyLocks, Return
    <2>2. \/ lock' = lock
          \/ Free(k.i, REBALANCE) /\ release_locks_in_range(u, Range(k.i, k.i), GENERAL)
      BY <1>12 DEF CleanUp, k
    <2>3. lock' = lock
      <3>1. CASE k.i \in Node
        BY <1>5, <2>2, <3>1
      <3>2. CASE k.i \notin Node
        <4>1. In(Range(k.i, k.i)) = {}
          BY <1>3, <3>2 DEF In, Range, Node
        <4> QED BY <2>2, <4>1, NothingGiven
      <3> QED BY <3>1, <3>2
    <2> QED BY <1>6, <2>1, <2>3
  <1>13. CASE \/ LeafCheck(u) \/ NothingToDo(u) \/ Locate(u) \/ Write(u) \/ HandBack(u)
              \/ RangeCheck(u) \/ Rebalance(u) \/ Resize(u) \/ LockAll(u)
    <2>1. c \in {"leafCheck", "locate", "write", "handBack", "rangeCheck", "rebalance",
                 "resize", "lockAll"}
      BY <1>13 DEF LeafCheck, NothingToDo, Locate, Write, HandBack, RangeCheck, Rebalance,
         Resize, LockAll, c
    <2> QED BY <1>1, <2>1
  <1>14. CASE GoUp(u) \/ GoToRoot(u)
    <2>1. c = "grabbed" /\ k.orig_n = N
      BY <1>14 DEF GoUp, GoToRoot, k, c
    <2> QED BY <1>1, <2>1
  <1> QED BY <1>7, <1>8, <1>9, <1>10, <1>11, <1>12, <1>13, <1>14 DEF Work, TakesLock

\* Only tasks at the root have a count to be overtaken.
LEMMA StaleAtRoot ==
    ASSUME Inv, Seals, NEW u \in Task, Call(u) \/ Work(u) \/ TakesLock(u)
    PROVE  /\ \A t \in stale' : pc'[t] \in Root
           /\ \A t \in Task \ {u} : pc'[t] = pc[t] /\ local'[t] = local[t]
  <1>0. pc \in [Task -> Pc] /\ local \in [Task -> Locals] /\ stale \subseteq Task
    BY Mine DEF TypeOK
  <1>1. \A to, l : Go(u, to, l) =>
           pc'[u] = to /\ \A t \in Task \ {u} : pc'[t] = pc[t] /\ local'[t] = local[t]
    BY <1>0 DEF Go
  <1>2. \A t \in stale : pc[t] \in Root
    BY DEF Seals
  <1>3. ASSUME stale' = stale, u \notin stale, \E to, l : Go(u, to, l)
        PROVE  /\ \A t \in stale' : pc'[t] \in Root
               /\ \A t \in Task \ {u} : pc'[t] = pc[t] /\ local'[t] = local[t]
    BY <1>0, <1>1, <1>2, <1>3
  <1>4. CASE Call(u)
    <2>1. pc[u] = "idle" /\ stale' = stale /\ \E to, l : Go(u, to, l)
      BY <1>4 DEF Call
    <2> QED BY <1>2, <1>3, <2>1 DEF Root
  <1>5. CASE LeafLocks(u) \/ LeafTake(u) \/ LeafReset(u) \/ LeafCheck(u) \/ NothingToDo(u)
    <2>1. /\ pc[u] \in {"leaf", "leafTry", "leafCheck", "locate"} /\ stale' = stale
          /\ \E to, l : Go(u, to, l)
      BY <1>5 DEF LeafLocks, LeafTake, LeafReset, LeafCheck, NothingToDo, Take, Reset,
         OnlyLocks, Return
    <2> QED BY <1>2, <1>3, <2>1 DEF Root
  <1>6. CASE Locate(u) \/ HandBack(u)
    <2>1. pc[u] \in {"locate", "handBack"} /\ stale' = stale /\ \E to, l : Go(u, to, l)
      BY <1>6 DEF Locate, HandBack, OnlyLocks
    <2> QED BY <1>2, <1>3, <2>1 DEF Root
  <1>7. CASE \/ RangeLocks(u) \/ RangeTake(u) \/ RangeReset(u) \/ RangeCheck(u) \/ GiveUp(u)
             \/ GoUp(u) \/ StartRebalance(u) \/ CleanUp(u) \/ GoToRoot(u)
    <2>1. /\ pc[u] \in {"range", "rangeTry", "rangeCheck", "grabbed", "cleanUp"} /\ stale' = stale
          /\ \E to, l : Go(u, to, l)
      BY <1>7 DEF RangeLocks, RangeTake, RangeReset, RangeCheck, Take, Reset, GiveUp, GoUp,
         StartRebalance, CleanUp, GoToRoot, LeaveTo, OnlyLocks, Return
    <2> QED BY <1>2, <1>3, <2>1 DEF Root
  <1>8. CASE Write(u) \/ Rebalance(u)
    <2>1. /\ pc[u] \in {"write", "rebalance"}
          /\ stale' = stale \cup {t \in Task \ {u} : pc[t] = "lockAll"}
          /\ \E to, l : Go(u, to, l)
      BY <1>8 DEF Write, Rebalance, LeaveTo, Overtake
    <2>2. u \notin stale'
      BY <1>2, <2>1 DEF Root
    <2>3. \A t \in stale' : t \in Task /\ pc[t] \in Root
      BY <1>0, <1>2, <2>1 DEF Root
    <2> QED BY <1>1, <2>1, <2>2, <2>3
  <1>9. CASE LockAll(u)
    <2>1. stale' = stale /\ \E to, l : to \in Root /\ Go(u, to, l)
      BY <1>9 DEF LockAll, OnlyLocks, Root
    <2> QED BY <1>0, <1>1, <1>2, <2>1
  <1>10. CASE Resize(u)
    <2>1. /\ stale' = (stale \ {u}) \cup {t \in Task \ {u} : pc[t] = "lockAll"}
          /\ Go(u, "idle", NoLocal)
      BY <1>10 DEF Resize, Return
    <2>2. \A t \in stale' : t \in Task \ {u} /\ pc[t] \in Root
      BY <1>0, <1>2, <2>1 DEF Root
    <2> QED BY <1>1, <2>1, <2>2
  <1> QED BY <1>4, <1>5, <1>6, <1>7, <1>8, <1>9, <1>10 DEF Work, TakesLock

\* A task that owned every lock and left its reason on all of them seals the array.
LEMMA RootSeals ==
    ASSUME Inv, Seals, NEW t \in Task, GoToRoot(t), local'[t].sealed
    PROVE  SealedBy(t)'
  <1> DEFINE k == local[t]
             Taken(v) == unlock(lock[v], t, DOUBLE).reason_set_by = t
             s == (\A v \in Node : v \in In(k.held) /\ Taken(v))
                     /\ \A u \in Task \ {t} : pc[u] # "lockAll"
             l == [NoLocal EXCEPT !.sealed = s]
  <1>1. /\ pc[t] = "grabbed" /\ Go(t, "lockAll", l) /\ stale' = stale
        /\ release_locks_in_range(t, k.held, DOUBLE)
    BY DEF GoToRoot, OnlyLocks
  <1>2. l.sealed = s
    BY DEF NoLocal
  <1>3. pc \in [Task -> Pc] /\ local \in [Task -> Locals] /\ lock \in [Node -> Locks]
    BY Mine DEF TypeOK
  <1>4. local'[t] = l /\ \A u \in Task \ {t} : pc'[u] = pc[u]
    BY <1>1, <1>3 DEF Go
  <1>5. s
    BY <1>2, <1>4
  <1>6. lock' = [v \in Node |-> IF v \in In(k.held) THEN unlock(lock[v], t, DOUBLE) ELSE lock[v]]
    BY <1>1 DEF release_locks_in_range, Unlock
  <1>7. ASSUME NEW v \in Node
        PROVE  lock'[v].owner = none /\ lock'[v].reason = DOUBLE /\ lock'[v].reason_set_by = t
    <2>1. lock'[v] = unlock(lock[v], t, DOUBLE) /\ Taken(v) /\ lock[v] \in Locks
      BY <1>3, <1>5, <1>6, <1>7
    <2> QED BY <2>1 DEF unlock, Locks, DOUBLE, SAME, GENERAL
  <1>8. t \notin stale'
    BY <1>1 DEF Seals, Root
  <1>9. \A u \in Task \ {t} : pc'[u] # "lockAll"
    BY <1>4, <1>5
  <1> QED BY <1>7, <1>8, <1>9 DEF SealedBy

\* Taking the locks again leaves the array sealed.
LEMMA LockAllSeals ==
    ASSUME Inv, NEW t \in Task, SealedBy(t), LockAll(t)
    PROVE  SealedBy(t)'
  <1>1. /\ lock' = [lock EXCEPT ![local[t].i].owner = t] /\ stale' = stale
        /\ \E to, l : Go(t, to, l)
    BY DEF LockAll, OnlyLocks
  <1>2. pc \in [Task -> Pc] /\ lock \in [Node -> Locks]
    BY Mine DEF TypeOK
  <1>3. \A u \in Task \ {t} : pc'[u] = pc[u]
    BY <1>1, <1>2 DEF Go
  <1>4. ASSUME NEW v \in Node
        PROVE  /\ lock'[v].owner \in {t, none}
               /\ lock'[v].reason = DOUBLE /\ lock'[v].reason_set_by = t
    <2>1. /\ lock[v].owner \in {t, none} /\ lock[v].reason = DOUBLE /\ lock[v].reason_set_by = t
          /\ lock[v] \in Locks
      BY <1>2 DEF SealedBy
    <2>2. lock'[v] = lock[v] \/ lock'[v] = [lock[v] EXCEPT !.owner = t]
      BY <1>1, <1>2
    <2> QED BY <2>1, <2>2 DEF Locks
  <1> QED BY <1>1, <1>3, <1>4 DEF SealedBy

LEMMA InitSeals == Init => Seals
  BY DEF Init, Seals, Root

LEMMA NextSeals == Inv /\ Seals /\ [Next]_vars => Seals'
  <1> SUFFICES ASSUME Inv, Seals, [Next]_vars PROVE Seals'
    OBVIOUS
  <1>1. CASE Next
    <2>1. PICK u \in Task : Call(u) \/ Work(u) \/ TakesLock(u)
      BY <1>1 DEF Next
    <2>2. /\ \A t \in stale' : pc'[t] \in Root
          /\ \A t \in Task \ {u} : pc'[t] = pc[t] /\ local'[t] = local[t]
      BY <2>1, StaleAtRoot
    <2>3. ASSUME NEW t \in Task, pc'[t] \in Root, local'[t].sealed PROVE SealedBy(t)'
      <3>1. CASE t # u
        <4>1. SealedBy(t)
          BY <2>2, <2>3, <3>1 DEF Seals
        <4>2. lock' = lock /\ stale' = stale /\ pc'[u] # "lockAll"
          BY <2>1, <3>1, <4>1, SealKept
        <4> QED BY <2>2, <4>1, <4>2 DEF SealedBy
      <3>2. CASE t = u
        <4>0. pc \in [Task -> Pc] /\ local \in [Task -> Locals]
          BY Mine DEF TypeOK
        <4>1. GoToRoot(t) \/ LockAll(t)
          <5>1. \A to, l : Go(t, to, l) => pc'[t] = to
            BY <4>0 DEF Go
          <5>2. SUFFICES ASSUME ~GoToRoot(t), ~LockAll(t)
                PROVE  \E to, l : to \notin Root /\ Go(t, to, l)
            BY <2>3, <5>1
          <5>3. CASE Call(t) \/ LeafLocks(t)
            BY <5>3 DEF Call, LeafLocks, Root
          <5>4. CASE LeafTake(t) \/ RangeTake(t)
            <6>1. \E to, l : to \in {"leafTry", "leafCheck", "rangeTry", "rangeCheck"} /\ Go(t, to, l)
              BY <5>4 DEF LeafTake, RangeTake, Take
            <6> QED BY <6>1 DEF Root
          <5>5. CASE LeafReset(t) \/ RangeReset(t)
            <6>1. \E to, l : to \in {"leaf", "range"} /\ Go(t, to, l)
              BY <5>5 DEF LeafReset, RangeReset, Reset
            <6> QED BY <6>1 DEF Root
          <5>6. CASE LeafCheck(t) \/ RangeCheck(t)
            <6>1. \E to, l : to \in {"leaf", "locate", "range", "grabbed"} /\ Go(t, to, l)
              BY <5>6 DEF LeafCheck, RangeCheck
            <6> QED BY <6>1 DEF Root
          <5>7. CASE NothingToDo(t) \/ CleanUp(t) \/ Resize(t)
            <6>1. \E to, l : to \in {"idle", "cleanUp"} /\ Go(t, to, l)
              BY <5>7 DEF NothingToDo, CleanUp, Resize, Return
            <6> QED BY <6>1 DEF Root
          <5>8. CASE Locate(t) \/ Write(t) \/ HandBack(t)
            <6>1. Locate(t) => \E l : Go(t, "write", l)
              BY DEF Locate
            <6>2. Write(t) => \E l : Go(t, "handBack", l)
              BY DEF Write
            <6>3. HandBack(t) => \E l : Go(t, "range", l)
              BY DEF HandBack
            <6> QED BY <5>8, <6>1, <6>2, <6>3 DEF Root
          <5>9. CASE RangeLocks(t) \/ GoUp(t) \/ StartRebalance(t)
            <6>1. RangeLocks(t) => \E l : Go(t, "grabbed", l) \/ Go(t, "rangeTry", l)
              BY DEF RangeLocks
            <6>2. GoUp(t) => \E l : Go(t, "range", l)
              BY DEF GoUp
            <6>3. StartRebalance(t) => \E l : Go(t, "rebalance", l)
              BY DEF StartRebalance
            <6> QED BY <5>9, <6>1, <6>2, <6>3 DEF Root
          <5>10. CASE GiveUp(t) \/ Rebalance(t)
            <6>1. \E l : Go(t, "cleanUp", l)
              BY <5>10 DEF GiveUp, Rebalance, LeaveTo
            <6> QED BY <6>1 DEF Root
          <5> QED BY <2>1, <3>2, <5>2, <5>3, <5>4, <5>5, <5>6, <5>7, <5>8, <5>9, <5>10
              DEF Work, TakesLock
        <4>2. CASE GoToRoot(t)
          BY <2>3, <4>2, RootSeals
        <4>3. CASE LockAll(t)
          <5>1. pc[t] = "lockAll" /\ \E to : Go(t, to, [local[t] EXCEPT !.i = @ + 1])
            BY <4>3 DEF LockAll
          <5>2. local'[t] = [local[t] EXCEPT !.i = @ + 1] /\ local[t] \in Locals
            BY <4>0, <5>1 DEF Go
          <5>3. local'[t].sealed = local[t].sealed
            BY <5>2 DEF Locals
          <5>4. SealedBy(t)
            BY <2>3, <5>1, <5>3 DEF Seals, Root
          <5> QED BY <4>3, <5>4, LockAllSeals
        <4> QED BY <4>1, <4>2, <4>3
      <3> QED BY <3>1, <3>2
    <2> QED BY <2>2, <2>3 DEF Seals, Root
  <1>2. CASE UNCHANGED vars
    BY <1>2 DEF vars, Seals, SealedBy, Root
  <1> QED BY <1>1, <1>2

\* A task that doubles or halves the array uses a count nobody has overtaken, when
\* every lock took its reason and no other task was about to resize: no task in
\* insert or remove can get a lock meanwhile, and a write needs one.
THEOREM SealedCorrect == Spec => []SealedCount
  <1>1. Seals => SealedCount
    BY DEF Seals, SealedBy, SealedCount, Root
  <1>2. Spec => []Seals
    BY InvCorrect, InitSeals, NextSeals, PTL DEF Spec
  <1> QED BY <1>1, <1>2, PTL

---------------------------------------------------------------------------
(* Who waits for whom *)

\* A step of t changes reasons only to GENERAL, or to REBALANCE of its own.
Tame(t) ==
    \A v \in Node :
        \/ lock'[v].reason = lock[v].reason /\ lock'[v].reason_set_by = lock[v].reason_set_by
        \/ lock'[v].reason = GENERAL
        \/ lock'[v].reason = REBALANCE /\ lock'[v].reason_set_by = t

\* What a lock asks for once it is released.
LEMMA UnlockReason ==
    ASSUME NEW m \in Locks, NEW t \in Task, NEW r \in AnyReason
    PROVE  \/ /\ unlock(m, t, r).reason = m.reason
              /\ unlock(m, t, r).reason_set_by = m.reason_set_by
           \/ /\ unlock(m, t, r).reason = r /\ r # SAME
              /\ r # GENERAL => unlock(m, t, r).reason_set_by = t
  BY DEF unlock, Locks, AnyReason, GENERAL, REBALANCE, DOUBLE, SAME

LEMMA TameLocks ==
    ASSUME Inv, NEW t \in Task,
           \A v \in Node :
              \/ lock'[v] \in {lock[v], [lock[v] EXCEPT !.owner = t]}
              \/ \E r \in {SAME, GENERAL, REBALANCE} : lock'[v] = unlock(lock[v], t, r)
    PROVE  Tame(t)
  <1> SUFFICES ASSUME NEW v \in Node
               PROVE  \/ /\ lock'[v].reason = lock[v].reason
                         /\ lock'[v].reason_set_by = lock[v].reason_set_by
                      \/ lock'[v].reason = GENERAL
                      \/ lock'[v].reason = REBALANCE /\ lock'[v].reason_set_by = t
    BY DEF Tame
  <1>1. lock[v] \in Locks
    BY Mine
  <1>2. CASE lock'[v] \in {lock[v], [lock[v] EXCEPT !.owner = t]}
    BY <1>1, <1>2 DEF Locks
  <1>3. ASSUME NEW r \in {SAME, GENERAL, REBALANCE}, lock'[v] = unlock(lock[v], t, r)
        PROVE  \/ /\ lock'[v].reason = lock[v].reason
                  /\ lock'[v].reason_set_by = lock[v].reason_set_by
               \/ lock'[v].reason = GENERAL
               \/ lock'[v].reason = REBALANCE /\ lock'[v].reason_set_by = t
    <2>1. r \in AnyReason
      BY DEF AnyReason
    <2> QED BY <1>1, <1>3, <2>1, UnlockReason DEF GENERAL, REBALANCE, SAME
  <1> QED BY <1>2, <1>3

LEMMA TameRange ==
    ASSUME Inv, NEW t \in Task, NEW r, NEW reason \in {SAME, GENERAL, REBALANCE},
           release_locks_in_range(t, r, reason)
    PROVE  Tame(t)
  <1>1. lock' = [v \in Node |-> IF v \in In(r) THEN unlock(lock[v], t, reason) ELSE lock[v]]
    BY DEF release_locks_in_range, Unlock
  <1>2. \A v \in Node : lock'[v] = lock[v] \/ lock'[v] = unlock(lock[v], t, reason)
    BY <1>1
  <1> QED BY <1>2, TameLocks

LEMMA TameTake ==
    ASSUME Inv, NEW t \in Task, NEW i, lock' = [lock EXCEPT ![i].owner = t]
    PROVE  Tame(t)
  <1>1. \A v \in Node : lock'[v] \in {lock[v], [lock[v] EXCEPT !.owner = t]}
    BY Mine
  <1> QED BY <1>1, TameLocks

\* Only the last step to the root sets the reason DOUBLE.
LEMMA TameSteps ==
    ASSUME Inv, NEW t \in Task, Call(t) \/ Work(t) \/ TakesLock(t), ~GoToRoot(t)
    PROVE  Tame(t)
  <1>0. SAME \in {SAME, GENERAL, REBALANCE} /\ GENERAL \in {SAME, GENERAL, REBALANCE}
        /\ REBALANCE \in {SAME, GENERAL, REBALANCE}
    OBVIOUS
  <1>1. CASE \/ Call(t) \/ LeafLocks(t) \/ Write(t) \/ RangeLocks(t) \/ StartRebalance(t)
    <2>1. lock' = lock
      BY <1>1 DEF Call, LeafLocks, Write, RangeLocks, StartRebalance
    <2> QED BY <2>1 DEF Tame
  <1>2. CASE LeafTake(t) \/ RangeTake(t) \/ LockAll(t)
    <2>1. lock' = [lock EXCEPT ![local[t].i].owner = t]
      BY <1>2 DEF LeafTake, RangeTake, LockAll, Take
    <2> QED BY <2>1, TameTake
  <1>3. CASE LeafReset(t) \/ RangeReset(t)
    <2>1. \E r : release_locks_in_range(t, r, SAME)
      BY <1>3 DEF LeafReset, RangeReset, Reset
    <2> QED BY <1>0, <2>1, TameRange
  <1>4. CASE NothingToDo(t) \/ GiveUp(t) \/ Rebalance(t) \/ Resize(t)
    <2>1. \E r : release_locks_in_range(t, r, GENERAL)
      BY <1>4 DEF NothingToDo, GiveUp, Rebalance, Resize, LeaveTo
    <2> QED BY <1>0, <2>1, TameRange
  <1>5. CASE LeafCheck(t)
    <2>1. lock' = lock \/ \E r : release_locks_in_range(t, r, GENERAL)
      BY <1>5 DEF LeafCheck
    <2> QED BY <1>0, <2>1, TameRange DEF Tame
  <1>6. CASE RangeCheck(t)
    <2>1. lock' = lock \/ \E r : release_locks_in_range(t, r, SAME)
      BY <1>6 DEF RangeCheck
    <2> QED BY <1>0, <2>1, TameRange DEF Tame
  <1>7. CASE CleanUp(t)
    <2>1. lock' = lock \/ \E r : release_locks_in_range(t, r, GENERAL)
      BY <1>7 DEF CleanUp
    <2> QED BY <1>0, <2>1, TameRange DEF Tame
  <1>8. CASE GoUp(t)
    <2>1. release_locks_in_range(t, local[t].held, REBALANCE)
      BY <1>8 DEF GoUp
    <2> QED BY <1>0, <2>1, TameRange
  <1>9. CASE Locate(t)
    <2>1. PICK vs : lock' = [v \in Node |-> IF v \in vs THEN unlock(lock[v], t, GENERAL) ELSE lock[v]]
      BY <1>9, Zenon DEF Locate, Unlock
    <2>2. \A v \in Node : lock'[v] = lock[v] \/ lock'[v] = unlock(lock[v], t, GENERAL)
      BY <2>1
    <2> QED BY <1>0, <2>2, TameLocks
  <1>10. CASE HandBack(t)
    <2>1. PICK r \in Ranges :
             lock' = [v \in Node |-> IF v \in In(local[t].held)
                                     THEN unlock(lock[v], t, IF v \in In(r) THEN REBALANCE ELSE GENERAL)
                                     ELSE lock[v]]
      BY <1>10, HandBackDoes
    <2>2. \A v \in Node : \/ lock'[v] = lock[v] \/ lock'[v] = unlock(lock[v], t, GENERAL)
                          \/ lock'[v] = unlock(lock[v], t, REBALANCE)
      BY <2>1
    <2> QED BY <1>0, <2>2, TameLocks
  <1> QED BY <1>1, <1>2, <1>3, <1>4, <1>5, <1>6, <1>7, <1>8, <1>9, <1>10 DEF Work, TakesLock

\* A tame step leaves the reasons of the tasks at the root behind only if they stay.
LEMMA RaisedStep ==
    ASSUME Raised, NEW t \in Task, Tame(t),
           \A u \in Task : pc[u] \in Root => pc'[u] \in Root \/ \A v \in Node : lock'[v].reason_set_by # u
    PROVE  Raised'
  <1> SUFFICES ASSUME NEW v \in Node, lock'[v].reason # GENERAL
               PROVE  /\ lock'[v].reason_set_by \in Task
                      /\ lock'[v].reason = DOUBLE => pc'[lock'[v].reason_set_by] \in Root
    BY DEF Raised
  <1>1. CASE lock'[v].reason = REBALANCE /\ lock'[v].reason_set_by = t
    BY <1>1 DEF REBALANCE, DOUBLE
  <1>2. CASE lock'[v].reason = lock[v].reason /\ lock'[v].reason_set_by = lock[v].reason_set_by
    BY <1>2 DEF Raised
  <1> QED BY <1>1, <1>2 DEF Tame

LEMMA InitRaised == Init => Raised
  BY DEF Init, Raised

LEMMA NextRaised == Inv /\ Seals /\ Raised /\ [Next]_vars => Raised'
  <1> SUFFICES ASSUME Inv, Seals, Raised, [Next]_vars PROVE Raised'
    OBVIOUS
  <1>1. CASE Next
    <2>1. PICK t \in Task : Call(t) \/ Work(t) \/ TakesLock(t)
      BY <1>1 DEF Next
    <2>2. pc \in [Task -> Pc] /\ lock \in [Node -> Locks]
      BY Mine DEF TypeOK
    <2>3. \A u \in Task \ {t} : pc'[u] = pc[u]
      BY <2>1, StaleAtRoot
    <2>4. CASE GoToRoot(t)
      <3>1. /\ pc[t] = "grabbed" /\ \E l : Go(t, "lockAll", l)
            /\ release_locks_in_range(t, local[t].held, DOUBLE)
        BY <2>4 DEF GoToRoot
      <3>2. pc'[t] \in Root
        BY <2>2, <3>1 DEF Go, Root
      <3>3. lock' = [v \in Node |-> IF v \in In(local[t].held) THEN unlock(lock[v], t, DOUBLE) ELSE lock[v]]
        BY <3>1 DEF release_locks_in_range, Unlock
      <3>4. ASSUME NEW v \in Node
            PROVE  \/ /\ lock'[v].reason = lock[v].reason
                      /\ lock'[v].reason_set_by = lock[v].reason_set_by
                   \/ lock'[v].reason_set_by = t
        <4>1. lock[v] \in Locks /\ DOUBLE \in AnyReason /\ DOUBLE # GENERAL
          BY <2>2 DEF AnyReason, DOUBLE, GENERAL
        <4>2. lock'[v] = lock[v] \/ lock'[v] = unlock(lock[v], t, DOUBLE)
          BY <3>3
        <4> QED BY <4>1, <4>2, UnlockReason
      <3>5. \A u \in Task : pc[u] \in Root => pc'[u] \in Root
        BY <2>3, <3>2
      <3> QED BY <3>2, <3>4, <3>5 DEF Raised
    <2>5. CASE ~GoToRoot(t)
      <3>1. Tame(t)
        BY <2>1, <2>5, TameSteps
      <3>2. pc[t] \in Root => pc'[t] \in Root \/ \A v \in Node : lock'[v].reason_set_by # t
        <4> SUFFICES ASSUME pc[t] \in Root
                     PROVE  pc'[t] \in Root \/ \A v \in Node : lock'[v].reason_set_by # t
          OBVIOUS
        <4>1. LockAll(t) \/ Resize(t)
          BY <2>1 DEF Root, Call, Work, TakesLock, LeafLocks, LeafTake, LeafReset, LeafCheck,
             NothingToDo, Locate, Write, HandBack, RangeLocks, RangeTake, RangeReset, RangeCheck,
             Take, Reset, GiveUp, GoUp, StartRebalance, Rebalance, CleanUp, GoToRoot
        <4>2. CASE LockAll(t)
          <5>1. \E to, l : to \in Root /\ Go(t, to, l)
            BY <4>2 DEF LockAll, Root
          <5> QED BY <2>2, <5>1 DEF Go
        <4>3. CASE Resize(t)
          <5>1. release_locks_in_range(t, Range(0, last), GENERAL)
            BY <4>3 DEF Resize
          <5>2. Marked(t)' \subseteq Marked(t) \ In(Range(0, last))
            BY <2>2, <5>1, ReasonsGiven DEF AnyReason
          <5>3. In(Range(0, last)) = Node
            BY DEF In, Range, Node, last
          <5> QED BY <5>2, <5>3 DEF Marked
        <4> QED BY <4>1, <4>2, <4>3
      <3> QED BY <2>3, <3>1, <3>2, RaisedStep
    <2> QED BY <2>4, <2>5
  <1>2. CASE UNCHANGED vars
    BY <1>2 DEF vars, Raised, Root
  <1> QED BY <1>1, <1>2

\* Of the tasks that lock the whole array the one that is farthest waits for none.
LEMMA FarthestGoesOn ==
    ASSUME Inv, NEW u \in Task, pc[u] = "lockAll"
    PROVE  \E t \in Calls : ~Blocked(t)
  <1> DEFINE A == {t \in Task : pc[t] = "lockAll"}
             S == {local[t].i : t \in A}
  <1>1. ASSUME NEW t \in A PROVE local[t].i \in Node /\ Owned(t) = 0 .. local[t].i - 1
    <2>1. /\ t \in Task /\ pc[t] = "lockAll" /\ local[t] \in Locals
          /\ Loop(pc[t], local[t]) /\ HoldsAt(pc[t], local[t], Owned(t))
      BY <1>1, Mine
    <2>2. local[t].i \in Nat
      BY <2>1 DEF Locals
    <2> QED BY <2>1, <2>2 DEF Loop, HoldsAt, Node
  <1>2. S \subseteq Node /\ S # {}
    BY <1>1
  <1>3. PICK m \in S : \A i \in S : i <= m
    BY <1>2, GreatestNode
  <1>4. PICK t \in A : local[t].i = m
    BY <1>3
  <1>5. ASSUME Blocked(t) PROVE FALSE
    <2>1. pc[t] = "lockAll" /\ Reason(t) = DOUBLE /\ Wants(t) = m .. last
      BY <1>4 DEF Reason, Wants
    <2>2. m \in Node
      BY <1>2
    <2>3. PICK v \in m .. last :
             \/ DOUBLE < lock[v].reason
             \/ \E w \in Task \ {t} : lock[v].owner = w /\ pc[w] = "lockAll"
      BY <1>5, <2>1 DEF Blocked
    <2>4. v \in Node /\ lock[v] \in Locks
      BY <2>2, <2>3, Mine DEF Node, last
    <2>5. ~(DOUBLE < lock[v].reason)
      BY <2>4 DEF Locks, DOUBLE, REBALANCE, GENERAL
    <2>6. PICK w \in Task \ {t} : lock[v].owner = w /\ pc[w] = "lockAll"
      BY <2>3, <2>5
    <2>7. v \in 0 .. local[w].i - 1 /\ local[w].i \in S /\ local[w].i \in Node
      BY <1>1, <2>4, <2>6 DEF Owned
    <2>8. local[w].i <= m
      BY <1>3, <2>7
    <2> QED BY <2>2, <2>3, <2>7, <2>8 DEF Node
  <1>6. t \in Calls
    BY <1>4 DEF Calls
  <1> QED BY <1>5, <1>6

\* Whoever waits, waits in the end for a task that can go on: one that locks the
\* whole array, one that rebalances if there is none, and any if no reason is left.
THEOREM NoStandstillCorrect == Spec => []NoStandstill
  <1>1. Inv /\ Reasons /\ Raised => NoStandstill
    <2> SUFFICES ASSUME Inv, Reasons, Raised, NEW c \in Calls
                 PROVE  \E t \in Calls : ~Blocked(t)
      BY DEF NoStandstill
    <2>0. c \in Task /\ \A t \in Calls : t \in Task /\ pc[t] # "idle"
      BY DEF Calls
    <2>1. CASE \E u \in Task : pc[u] = "lockAll"
      BY <2>1, FarthestGoesOn
    <2>2. CASE \E u \in Task : pc[u] \notin Waiting /\ pc[u] # "idle"
      BY <2>2 DEF Blocked, Calls
    <2>3. CASE \A u \in Task : pc[u] \in (Waiting \ {"lockAll"}) \cup {"idle"}
      <3>1. \A v \in Node : lock[v] \in Locks /\ lock[v].reason # DOUBLE
        <4>1. \A v \in Node : lock[v] \in Locks
          BY <2>0, Mine
        <4> QED BY <2>3, <4>1 DEF Raised, Root, Waiting, GENERAL, DOUBLE
      <3>2. \A t \in Task, v \in Node : ~(\E u \in Task \ {t} : lock[v].owner = u /\ pc[u] = "lockAll")
        BY <2>3 DEF Waiting
      <3>3. CASE \E u \in Task : pc[u] \in {"range", "rangeTry", "cleanUp"}
        <4>1. PICK u \in Task : pc[u] \in {"range", "rangeTry", "cleanUp"}
          BY <3>3
        <4>2. Reason(u) = REBALANCE /\ Wants(u) \subseteq Node
          BY <4>1 DEF Reason, Wants, In
        <4>3. ~Blocked(u)
          BY <3>1, <3>2, <4>2 DEF Blocked, Locks, GENERAL, REBALANCE, DOUBLE
        <4> QED BY <4>1, <4>3 DEF Calls
      <3>4. CASE ~\E u \in Task : pc[u] \in {"range", "rangeTry", "cleanUp"}
        <4>1. \A u \in Task : pc[u] \in {"idle", "leaf", "leafTry"}
          BY <2>3, <3>4 DEF Waiting
        <4>2. \A v \in Node : lock[v].reason_set_by \notin Task
          BY <4>1 DEF Reasons, MaySet
        <4>3. \A v \in Node : lock[v].reason = GENERAL
          BY <4>2 DEF Raised
        <4>4. Reason(c) = GENERAL /\ Wants(c) \subseteq Node
          BY <2>0, <4>1 DEF Reason, Wants, In
        <4>5. ~Blocked(c)
          BY <2>0, <3>2, <4>3, <4>4 DEF Blocked, GENERAL
        <4> QED BY <4>5
      <3> QED BY <3>3, <3>4
    <2> QED BY <2>1, <2>2, <2>3
  <1>2. Spec => []Reasons
    BY InvCorrect, InitReasons, NextReasons, PTL DEF Spec
  <1>3. Spec => []Seals
    BY InvCorrect, InitSeals, NextSeals, PTL DEF Spec
  <1>4. Spec => []Raised
    BY InvCorrect, <1>3, InitRaised, NextRaised, PTL DEF Spec
  <1> QED BY <1>1, <1>2, <1>4, InvCorrect, PTL

=============================================================================
